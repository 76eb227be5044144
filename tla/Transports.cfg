SPECIFICATION Spec
CONSTANTS
    NsqMsgs = {"m1"}
    NsqUndecodable = {}
    NsqProcs = {"p1", "p2"}
    NsqTasks <- MCNsqTasks
    NsqAttempts = 2
    NsqFaults = 2
    RocketMsgs = {"m1", "m2"}
    RocketBad = {"m2"}
    RocketGroups = {"g1"}
    RocketClosers = {"c1"}
    RocketTasks = {"t1", "t2"}
    RocketInFlight = 2
    RocketBatch = 2
    RocketAttempts = 2
    RocketFaults = 1
    PyNsqMsgs = {"m1", "m2"}
    PyNsqUndecodable = {}
    PyNsqOversized = {"m2"}
    PyNsqTasks = {"t1", "t2"}
    PyNsqAttempts = 1
    PyNsqOverlap = FALSE
    PyNsqFaults = 1
    PyRocketMsgs = {"m1", "m2"}
    PyRocketUndecodable = {"m2"}
    PyRocketTasks = {"t1", "t2"}
    PyRocketInFlight = 2
    PyRocketAttempts = 2
    PyRocketFaults = 1
    PubCalls = {"c1", "c2"}
    Closers = {"k1", "k2"}
    MaxInFlight = 1
    DriverAttempts = 2
    MaxStarts = 2
    Subs = {"s1", "s2"}
    Handlers = {"h1", "h2"}
    OwnerClosers = {"c1"}
    HandoffSlots = 1
    MaxDeliveries = 2
    Hosts = {"worker", "audit"}
    Nsqds = 2
    MaxFailures = 2
    PyCallers = {"c1", "c2", "c3"}
    PyInFlight = 2
    PyFaults = 1
INVARIANTS NothingLost BudgetHolds OneSettlement ClosesAfterWork OutcomeIsTrue DrainsBeforeStop WithinLimits
