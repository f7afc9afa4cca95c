SPECIFICATION Spec
CONSTANTS
    n1 = n1
    n2 = n2
    n3 = n3
    Member = {n1, n2, n3}
    Arbiter = {n3}
    ShouldJournal = TRUE
    JournalLags = TRUE
    MaxTerm = 2
    MaxOplog = 4
    MaxCrashes = 1
    CrashOplog = 2
    MaxStepDowns = 1
SYMMETRY Symmetry
INVARIANT LeaderCompleteness
INVARIANT CommittedOnMajority
PROPERTY ImplementsMajorityLog
CHECK_DEADLOCK FALSE
