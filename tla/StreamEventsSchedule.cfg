\* One stream of any schedule between two parties: the accrual invariants.
SPECIFICATION EventSpec
CONSTANTS
    None = None
    alice = alice
    bob = bob
    carol = carol
    dave = dave
    usdc = usdc
    eurc = eurc
    pool = pool
    Contract = pool
    U64Max = 7
    I128Max = 42
    Addresses = {alice, bob}
    Tokens = {usdc}
    Supply = 10
    Offers <- ScheduleOffers
    Amounts = {1, 2, 3}
    Delegates = {}
    GrantOps = {}
    Expiries = {}
    MaxBatchSize = 1
    MaxStreams = 1
    MaxTime = 6
SYMMETRY PartySymmetry
INVARIANTS
    TypeOK
    Bounds
    PauseCoherence
    NoDustAtSettlement
    NeverOverflows
PROPERTIES
    EntitlementNeverShrinks
    ClockRunsOnlyUnpaused
    TopUpKeepsRate
    ImplementsEscrow
\* The clock is bounded: a settled stream at MaxTime has no step left.
CHECK_DEADLOCK FALSE
