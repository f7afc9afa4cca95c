SPECIFICATION Spec
CONSTANTS
    n1 = n1
    n2 = n2
    n3 = n3
    Member = {n1, n2, n3}
    Arbiter = {}
    ShouldJournal = FALSE
    JournalLags = FALSE
    MaxTerm = 3
    MaxOplog = 2
    MaxCrashes = 0
    CrashOplog = 2
    MaxStepDowns = 0
SYMMETRY Symmetry
INVARIANT LeaderCompleteness
CHECK_DEADLOCK FALSE
