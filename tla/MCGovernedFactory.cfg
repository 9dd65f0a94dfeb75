\* A person hands the factory over to governance, and governance hands it on.
SPECIFICATION GovernedSpec
CONSTANTS
    None = None
    ann = ann
    ben = ben
    gov = gov
    Addresses = {ann, ben, gov}
    GovernanceAddress = gov
    ForbiddenAdmins = {zero}
    StreamContracts = {"pool", "other"}
    WasmHashes = {"hash1", "hash2"}
    ApprovableTokens = {}
    FirstAdmin = ann
    FirstStreamContract = "pool"
    FirstWasmHash = "hash1"
    FirstCap = 1
    FirstMinDuration = 1
    Caps = {}
    Durations = {}
    Rates = {}
    Slots = {}
    Limits = {}
    Windows = {}
    DEFAULT_MAX_DURATION = 2
    DEFAULT_RATE_LIMIT_WINDOW_LEDGERS = 1
    U32Max = 1
    MaxSettings = 2
    MaxRecords = 0
    FactoryOffers <- ShortOffer
    Decoded <- Ops
    Payloads <- SomePayloads
    Admins = {}
    InitialAdmin = ben
    InitialSigners = {ann}
    InitialThreshold = 1
    GuardianSets = {}
    Weights = {}
    GracePeriods = {}
    GOVERNANCE_TIMELOCK_SECONDS = 1
    MAX_PROPOSAL_AGE_SECONDS = 2
    DEFAULT_GRACE_PERIOD_SECONDS = 1
    MAX_SIGNERS = 2
    MAX_CALLDATA_BYTES = 1
    MAX_BATCH_CALLS = 3
    MAX_PAGE_SIZE = 2
    MaxProposals = 2
    MaxMoves = 2
    TimestampMax = 4
    MaxLedger = 2
    MaxTogether = 3
INVARIANTS
    PolicyIsAsDispatched
PROPERTIES
    TunedOnlyByDecision
CHECK_DEADLOCK FALSE
