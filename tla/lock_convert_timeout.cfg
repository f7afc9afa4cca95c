SPECIFICATION Spec
CONSTANTS
    l1 = l1
    l2 = l2
    l3 = l3
    p1 = p1
    p2 = p2
    NoLocker = NoLocker
    Cleaner = Cleaner
    Lockers = {l1, l2, l3}
    Partitions = {p1, p2}
    PartitionOf <- SharedPartition
    Global = FALSE
    LockModes = {"S", "X"}
    ConvertModes = {"X"}
    Cancels = {"convert"}
    MaxRecursion = 2
INVARIANT HeldModesCompatible
CHECK_DEADLOCK FALSE
