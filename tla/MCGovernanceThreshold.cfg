\* What a document and a test say of a changed threshold, and the code does not do: ThresholdChangeSparesQueued.
SPECIFICATION Spec
CONSTANTS
    ann = ann
    ben = ben
    cleo = cleo
    Addresses = {ann, ben, cleo}
    InitialAdmin = cleo
    InitialSigners = {ann, ben}
    InitialThreshold = 2
    Admins = {ann, ben}
    GuardianSets = {{cleo}}
    Weights = {2}
    GracePeriods = {6}
    Payloads <- SomePayloads
    GOVERNANCE_TIMELOCK_SECONDS = 1
    MAX_PROPOSAL_AGE_SECONDS = 2
    DEFAULT_GRACE_PERIOD_SECONDS = 1
    MAX_SIGNERS = 3
    MAX_CALLDATA_BYTES = 3
    MAX_BATCH_CALLS = 2
    MAX_PAGE_SIZE = 2
    U64Max = 6
    MaxProposals = 2
    MaxMoves = 3
    MaxTime = 4
PROPERTIES
    ThresholdChangeSparesQueued
CHECK_DEADLOCK FALSE
