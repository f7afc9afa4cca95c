SPECIFICATION FairSpec
CONSTANTS
    Cmd = {c1}
    MaxTerm = 2
    MaxBuffer = 1
    MaxReconfigs = 1
INVARIANT TypeOK
INVARIANT StoppedIsDrained
INVARIANT WritesAfterDrain
INVARIANT SecondaryReplicates
INVARIANT DrainInvariantsHold
PROPERTY InvariantsFailOnlyInWindows
PROPERTY DrainEnds
PROPERTY StepDownHappens
PROPERTY CommandsReturn
CHECK_DEADLOCK FALSE
