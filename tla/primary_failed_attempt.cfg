SPECIFICATION Spec
CONSTANTS
    Cmd = {c1}
    MaxTerm = 1
    MaxBuffer = 1
    MaxReconfigs = 0
INVARIANT FailedAttemptLeavesMaster
CHECK_DEADLOCK FALSE
