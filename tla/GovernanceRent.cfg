\* As on the network the repository measured, a new entry lives longer than the
\* threshold and less long than a proposal may wait, and a renewal lasts longer.
SPECIFICATION RentSpec
CONSTANTS
    ann = ann
    ben = ben
    cleo = cleo
    Addresses = {ann, ben, cleo}
    InitialAdmin = cleo
    InitialSigners = {ann, ben}
    InitialThreshold = 2
    Admins = {}
    GuardianSets = {}
    Weights = {}
    GracePeriods = {}
    Payloads <- OnePayload
    GOVERNANCE_TIMELOCK_SECONDS = 1
    MAX_PROPOSAL_AGE_SECONDS = 3
    DEFAULT_GRACE_PERIOD_SECONDS = 1
    MAX_SIGNERS = 2
    MAX_CALLDATA_BYTES = 3
    MAX_BATCH_CALLS = 2
    MAX_PAGE_SIZE = 2
    U64Max = 20
    MaxProposals = 2
    MaxMoves = 2
    MaxTime = 4
    PERSISTENT_LIFETIME_THRESHOLD = 1
    ACTIVE_PROPOSAL_BUMP_AMOUNT = 4
    TERMINAL_PROPOSAL_RETENTION = 3
    min_persistent_ttl = 3
SYMMETRY SignerSymmetry
INVARIANTS
    StaysLiveWhileLoaded
CHECK_DEADLOCK FALSE
