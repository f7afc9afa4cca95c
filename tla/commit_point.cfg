SPECIFICATION Spec
CONSTANTS
    n1 = n1
    n2 = n2
    n3 = n3
    Member = {n1, n2, n3}
    Arbiter = {}
    ShouldJournal = FALSE
    JournalLags = FALSE
    MaxTerm = 2
    MaxOplog = 3
    MaxCrashes = 1
    CrashOplog = 2
    MaxStepDowns = 0
SYMMETRY Symmetry
INVARIANT TypeOK
INVARIANT LogMatching
INVARIANT LeaderCompleteness
INVARIANT AcknowledgedIsCommitted
INVARIANT SnapshotOnBranch
INVARIANT SnapshotTimestamp
INVARIANT CommittedOnMajority
PROPERTY RollbackKeepsCommitted
PROPERTY OnlyLateResponsesMislead
PROPERTY ImplementsMajorityLog
CHECK_DEADLOCK FALSE
