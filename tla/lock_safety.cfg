SPECIFICATION Spec
CONSTANTS
    l1 = l1
    l2 = l2
    l3 = l3
    p1 = p1
    p2 = p2
    NoLocker = NoLocker
    Cleaner = Cleaner
    Lockers = {l1, l2, l3}
    Partitions = {p1, p2}
    PartitionOf <- SharedPartition
    Global = FALSE
    LockModes = {"IS", "IX", "S", "X"}
    ConvertModes = {"IX", "S", "X"}
    Cancels = {"lock"}
    MaxRecursion = 2
INVARIANT TypeOK
INVARIANT HeldModesCompatible
INVARIANT HeldIsListed
INVARIANT CountsMatchLists
INVARIANT PartitionedHasNoConflicts
INVARIANT NoLostGrant
INVARIANT NoInvariantFails
SYMMETRY Symmetry
CHECK_DEADLOCK FALSE
