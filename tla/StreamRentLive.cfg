\* One stream whose entries are archived and restored, and a recipient who keeps asking.
SPECIFICATION FairRentSpec
CONSTANTS
    None = None
    alice = alice
    bob = bob
    carol = carol
    dave = dave
    usdc = usdc
    eurc = eurc
    pool = pool
    Contract = pool
    U64Max = 20
    I128Max = 60
    Addresses = {alice, bob, carol}
    Tokens = {usdc}
    Supply = 5
    Offers <- BriefOffer
    Amounts = {2}
    Delegates = {bob}
    GrantOps = {{"PAUSE"}}
    Expiries = {None}
    MaxBatchSize = 1
    MaxStreams = 1
    MaxTime = 6
    SECONDS_PER_LEDGER = 2
    TTL_BUFFER_SECONDS = 1
    max_entry_ttl = 2
    min_persistent_ttl = 1
INVARIANTS
    ReadableToItsEnd
PROPERTIES
    MaturedIsPaidOut
CHECK_DEADLOCK FALSE
