SPECIFICATION Spec
CONSTANTS
    Node = {n1, n2, n3}
    Arbiter = {}
    NoNode = NoNode
    Reason = {"StepUpRequestSkipDryRun"}
    StoreResult = {TRUE}
    MaxTerm = 2
    WritesPerTerm = 0
    MaxCrashes = 0
SYMMETRY Symmetry
INVARIANT OneLeaderPerTerm
CHECK_DEADLOCK FALSE
