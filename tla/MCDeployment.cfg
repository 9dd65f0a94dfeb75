\* The stream contract, the factory and the claim token together.
SPECIFICATION DeploymentSpec
CONSTANTS
    None = None
    alice = alice
    bob = bob
    carol = carol
    usdc = usdc
    pool = pool
    elsewhere_contract = elsewhere
    Contract = pool
    Elsewhere = elsewhere
    U64Max = 20
    I128Max = 60
    Addresses = {alice, bob, carol}
    ForbiddenAdmins = {zero}
    Tokens = {usdc}
    Supply = 2
    Offers <- ShortOffer
    FactoryOffers <- ShortOffer
    Amounts = {}
    Delegates = {}
    GrantOps = {}
    Expiries = {}
    MaxBatchSize = 1
    MaxStreams = 1
    MaxTime = 2
    StreamContracts = {pool, elsewhere}
    FirstStreamContract = pool
    ApprovableTokens = {usdc}
    FirstAdmin = carol
    FirstCap = 2
    FirstMinDuration = 1
    WasmHashes = {h1}
    FirstWasmHash = h1
    Caps = {0, 1}
    Durations = {2, 3}
    Rates = {1, 3}
    Slots = {1}
    Limits = {0, 1}
    Windows = {0, 2}
    DEFAULT_MAX_DURATION = 2
    DEFAULT_RATE_LIMIT_WINDOW_LEDGERS = 2
    U32Max = 3
    MaxSettings = 2
    MaxRecords = 2
    MaxElsewhere = 1
    MaxTokens = 1
    MaxActivity = 2
SYMMETRY PartySymmetry
INVARIANTS
    DeploymentTypeOK
    PolicyCoheres
    NominationIsCurrent
    BurstIsBounded
    SlotsCoverLiveStreams
PROPERTIES
    AdmissionsAreForLife
    ClaimFollowsToken
CHECK_DEADLOCK FALSE
