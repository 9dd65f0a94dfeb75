\* Proposals under changing signers, weights, threshold and grace period.
SPECIFICATION Spec
CONSTANTS
    ann = ann
    ben = ben
    cleo = cleo
    Addresses = {ann, ben, cleo}
    InitialAdmin = cleo
    InitialSigners = {ann, ben}
    InitialThreshold = 2
    Admins = {ann, ben}
    GuardianSets = {{cleo}}
    Weights = {2}
    GracePeriods = {0, 6}
    Payloads <- SomePayloads
    GOVERNANCE_TIMELOCK_SECONDS = 1
    MAX_PROPOSAL_AGE_SECONDS = 2
    DEFAULT_GRACE_PERIOD_SECONDS = 1
    MAX_SIGNERS = 3
    MAX_CALLDATA_BYTES = 3
    MAX_BATCH_CALLS = 2
    MAX_PAGE_SIZE = 2
    U64Max = 6
    MaxProposals = 2
    MaxMoves = 3
    MaxTime = 3
SYMMETRY SignerSymmetry
INVARIANTS
    ExecutedByItsRoster
    EveryVoteCountsOnce
    ExecutedWithinItsAge
    DispatchedOncePerExecution
    ViewAgreesWithExecute
    GovInv
PROPERTIES
    DecisionsStand
    ImplementsTimelock
CHECK_DEADLOCK FALSE
