\* One stream under every choice of flags, with a delegate: the delegate entry points and the events.
SPECIFICATION EventSpec
CONSTANTS
    None = None
    alice = alice
    bob = bob
    carol = carol
    dave = dave
    usdc = usdc
    eurc = eurc
    pool = pool
    Contract = pool
    U64Max = 20
    I128Max = 60
    Addresses = {alice, bob, carol}
    Tokens = {usdc}
    Supply = 8
    Offers <- FlagOffers
    Amounts = {3}
    Delegates = {carol}
    GrantOps = {{}, {"CANCEL", "PAUSE"}, {"RESUME", "TOP_UP"}, {"WITHDRAW"}, {"WITHDRAW", "TRANSFER_RECIPIENT"}, {"PAUSE", "WITHDRAW"}}
    Expiries = {None, 1}
    MaxBatchSize = 1
    MaxStreams = 1
    MaxTime = 4
SYMMETRY DelegationSymmetry
INVARIANTS
    ProjectionAgrees
PROPERTIES
    DelegationAddsNothing
CHECK_DEADLOCK FALSE
