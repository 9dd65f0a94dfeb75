\* Two streams of two tokens among three parties: the pool and the batch calls.
SPECIFICATION EventSpec
CONSTANTS
    None = None
    alice = alice
    bob = bob
    carol = carol
    dave = dave
    usdc = usdc
    eurc = eurc
    pool = pool
    Contract = pool
    U64Max = 20
    I128Max = 60
    Addresses = {alice, bob, carol}
    Tokens = {usdc, eurc}
    Supply = 5
    Offers <- PoolOffers
    Amounts = {2}
    Delegates = {}
    GrantOps = {}
    Expiries = {}
    MaxBatchSize = 2
    MaxStreams = 2
    MaxTime = 3
SYMMETRY PoolSymmetry
INVARIANTS
    PoolIsExact
PROPERTIES
    FlowsMatchAccounting
CHECK_DEADLOCK FALSE
