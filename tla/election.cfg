SPECIFICATION FairSpec
CONSTANTS
    Node = {n1, n2}
    Arbiter = {}
    NoNode = NoNode
    Reason = {"CatchupTakeover", "StepUpRequestSkipDryRun"}
    StoreResult = {TRUE, FALSE}
    MaxTerm = 2
    WritesPerTerm = 2
    MaxCrashes = 1
INVARIANT TypeOK
INVARIANT ElectionSafety
INVARIANT DurableVotes
INVARIANT TermCoversVote
INVARIANT LeaderKeepsTerm
PROPERTY VoteRegressesOnlyInLimbo
PROPERTY ElectionsEnd
PROPERTY PendingTermTakesEffect
CHECK_DEADLOCK FALSE
