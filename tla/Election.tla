------------------------------ MODULE Election ------------------------------
(***************************************************************************)
(* Elections under replication protocol version 1: the candidate's dry run *)
(* and real election, the voters' replSetRequestVotes command, the         *)
(* persistent last-vote document, term updates, step down because of a     *)
(* higher term, and restart.                                               *)
(*                                                                         *)
(* The configuration is fixed and every member votes.  A step is what a    *)
(* thread does under ReplicationCoordinatorImpl::_mutex, or one storage    *)
(* write; a handler that releases the mutex is several steps.              *)
(***************************************************************************)
EXTENDS Integers, FiniteSets

CONSTANTS
    Node,            \* the members of the configuration
    Arbiter,         \* the members without data, which never stand
    NoNode,          \* candidate index -1
    Reason,          \* the StartElectionReasonEnum values that occur
    StoreResult,     \* whether writes of the last-vote document succeed, fail, or either
    MaxTerm,         \* bound: no election beyond this term
    WritesPerTerm,   \* bound: oplog entries written in one term
    MaxCrashes       \* bound: crashes of all nodes together

Reasons == {"ElectionTimeout", "CatchupTakeover", "StepUpRequestSkipDryRun"}

ASSUME NodeAssumption == IsFiniteSet(Node) /\ Arbiter \subseteq Node /\ NoNode \notin Node
ASSUME EventAssumption == Reason \subseteq Reasons /\ StoreResult \subseteq BOOLEAN
ASSUME BoundAssumption == MaxTerm \in Nat /\ WritesPerTerm \in Nat /\ MaxCrashes \in Nat

VARIABLES
    status,       \* "down", "starting" (config installed, term not restored) or "up"
    role,         \* TopologyCoordinator::_role
    leaderMode,   \* TopologyCoordinator::_leaderMode
    term,         \* TopologyCoordinator::_term
    pendingTerm,  \* _pendingTermUpdateDuringStepDown, 0 for boost::none
    lastVote,     \* TopologyCoordinator::_lastVote
    diskVote,     \* the document in local.replset.election
    lastApplied,  \* the optime at the top of the oplog
    requester,    \* _voteRequester and the phase of the candidate's election
    rpcs,         \* replSetRequestVotes commands that are under way
    crashes,      \* crashes so far
    votes,        \* history: votes that reached the disk path, [voter, term, cand]
    elected,      \* history: elections won, [term, node]
    regressed     \* history: some vote was cast in a term before the voter's last vote

coordVars == <<status, role, leaderMode, term, pendingTerm>>
voteVars  == <<lastVote, diskVote, votes, regressed>>
vars == <<coordVars, voteVars, lastApplied, requester, rpcs, crashes, elected>>

UninitializedTerm == -1
InitialTerm == 0
Term == Nat
Phases == {"none", "dryRun", "writing", "real"}
Stages == {"sent", "waiting", "updated", "storing", "replied"}

OpTime == [term : Term, inc : Nat]
OpLess(a, b) == a.term < b.term \/ (a.term = b.term /\ a.inc < b.inc)
NullOpTime == [term |-> InitialTerm, inc |-> 0]

Vote == [term : Term, cand : Node \cup {NoNode}]
CastVote == [voter : Node, term : Term, cand : Node]
Rpc == [from : Node, to : Node, term : Term, dry : BOOLEAN, op : OpTime,
        stage : Stages, granted : BOOLEAN, rterm : Term]
Requester == [phase : Phases, term : Term, yes : SUBSET Node, no : SUBSET Node,
              failed : SUBSET Node, stale : BOOLEAN, primary : Node \cup {NoNode}]

\* ReplSetConfig::getMajorityVoteCount.
MajorityVoteCount == (Cardinality(Node) \div 2) + 1
IsMajority(S) == Cardinality(S) >= MajorityVoteCount

\* A vote requester in a phase of an election in term t; p is the member whose
\* vote is required, if any.
NewRequester(phase, t, p) ==
    [phase |-> phase, term |-> t, yes |-> {}, no |-> {}, failed |-> {},
     stale |-> FALSE, primary |-> p]
Idle == NewRequester("none", InitialTerm, NoNode)

----------------------------------------------------------------------------
(* Terms.  TopologyCoordinator::updateTerm and _updateTerm_inlock: a        *)
(* primary keeps its term, remembers the highest one it heard of, and       *)
(* starts to step down unless it already does.                              *)

TriggersStepDown(n, t) == t > term[n] /\ role[n] = "leader"
StartsStepDown(n, t) == TriggersStepDown(n, t) /\ leaderMode[n] # "SteppingDown"

\* Mutant of UpdateTerm: a primary takes the new term at once.
UpdateTermAtOnce(n, t) ==
    /\ term' = [term EXCEPT ![n] = IF t > @ THEN t ELSE @]
    /\ pendingTerm' = pendingTerm
    /\ leaderMode' = [leaderMode EXCEPT ![n] =
                          IF TriggersStepDown(n, t) THEN "SteppingDown" ELSE @]

UpdateTerm(n, t) ==
    /\ term' = [term EXCEPT ![n] = IF t > @ /\ role[n] # "leader" THEN t ELSE @]
    /\ pendingTerm' = [pendingTerm EXCEPT ![n] =
                          IF TriggersStepDown(n, t) /\ @ < t THEN t ELSE @]
    /\ leaderMode' = [leaderMode EXCEPT ![n] =
                          IF TriggersStepDown(n, t) THEN "SteppingDown" ELSE @]

\* A term in a heartbeat response or in replication metadata, possibly an
\* old one: any term some member has reached.
LearnTerm(n, t) ==
    /\ status[n] # "down"
    /\ t > term[n] /\ t > pendingTerm[n]
    /\ \E m \in Node \ {n} : t <= term[m]
    /\ UpdateTerm(n, t)
    /\ UNCHANGED <<status, role, voteVars, lastApplied, requester, rpcs, crashes, elected>>

----------------------------------------------------------------------------
(* The candidate.                                                           *)

Targets(n) == Node \ {n}

Requests(n, t, dry) ==
    { [from |-> n, to |-> m, term |-> t, dry |-> dry, op |-> lastApplied[n],
       stage |-> "sent", granted |-> FALSE, rterm |-> InitialTerm] : m \in Targets(n) }

\* The callbacks of n's vote requester are cancelled: its replies are lost.
\* Dry-run requests still on their way only spread a term, as LearnTerm does.
Cancelled(n) == { r \in rpcs : r.from = n /\ (r.stage = "replied" \/ r.dry) }

VoteForMyselfV1(n, t) == lastVote' = [lastVote EXCEPT ![n] = [term |-> t, cand |-> n]]

\* _startRealElection_inlock: the term, the vote in memory, and the storage
\* write scheduled.  The caller has checked that the term is still newTerm - 1.
StartRealElection(n, newTerm) ==
    /\ UpdateTerm(n, newTerm)
    /\ VoteForMyselfV1(n, newTerm)
    /\ requester' = [requester EXCEPT ![n] = NewRequester("writing", newTerm, NoNode)]

ProcessWinElection(n) ==
    /\ role' = [role EXCEPT ![n] = "leader"]
    /\ leaderMode' = [leaderMode EXCEPT ![n] = "LeaderElect"]

ProcessLoseElection(n) == role' = [role EXCEPT ![n] = "follower"]

\* Mutant of LoseElection: the vote requester goes, the role stays.
LoseElectionKeepsRole(n) ==
    /\ role' = role
    /\ requester' = [requester EXCEPT ![n] = Idle]

\* LoseElectionGuardV1: back to follower, vote requester gone.
LoseElection(n) ==
    /\ ProcessLoseElection(n)
    /\ requester' = [requester EXCEPT ![n] = Idle]

\* Mutant of Electable: the member state is not looked at.
ElectableInAnyState(n) == n \notin Arbiter

\* What this node believes of the others' health and freshness, and of its own
\* step-down period and maintenance mode, may also make it unelectable: it is
\* always free not to stand.
Electable(n) == status[n] = "up" /\ n \notin Arbiter

BecomeCandidateIfElectable(n) ==
    /\ role[n] = "follower" /\ Electable(n)
    /\ role' = [role EXCEPT ![n] = "candidate"]

\* _startElectSelfIfEligibleV1 and _startElectSelfV1_inlock.  p is the primary
\* whose vote a catchup takeover requires.
StartElection(n, reason, p) ==
    /\ BecomeCandidateIfElectable(n)
    /\ lastApplied[n] # NullOpTime
    /\ term[n] < MaxTerm
    /\ p \in IF reason = "CatchupTakeover" THEN Targets(n) ELSE {NoNode}
    /\ \/ /\ reason = "StepUpRequestSkipDryRun"
          /\ StartRealElection(n, term[n] + 1)
          /\ rpcs' = rpcs \ Cancelled(n)
       \/ /\ reason # "StepUpRequestSkipDryRun"
          /\ requester' = [requester EXCEPT ![n] = NewRequester("dryRun", term[n], p)]
          /\ rpcs' = (rpcs \ Cancelled(n)) \cup Requests(n, term[n], TRUE)
          /\ UNCHANGED <<term, pendingTerm, leaderMode, lastVote>>
    /\ UNCHANGED <<status, diskVote, votes, regressed, lastApplied, crashes, elected>>

\* VoteRequester::Algorithm::hasReceivedSufficientResponses; the candidate's
\* own vote is counted from the start.
PrimaryHost(q) == q.primary # NoNode
Processed(q) == q.yes \cup q.no \cup q.failed
Enough(q, n) == IsMajority(q.yes \cup {n})
Sufficient(n) ==
    LET q == requester[n] IN
    \/ PrimaryHost(q) /\ q.primary \in q.no
    \/ Processed(q) = Targets(n)
    \/ /\ PrimaryHost(q) => q.primary \in q.yes
       /\ q.stale \/ Enough(q, n)

\* VoteRequester::Algorithm::getResult.
SuccessfullyElected(n) ==
    LET q == requester[n] IN
    /\ ~q.stale
    /\ PrimaryHost(q) => q.primary \in q.yes
    /\ Enough(q, n)

Awaiting(r) ==
    LET q == requester[r.from] IN
    /\ q.phase = IF r.dry THEN "dryRun" ELSE "real"
    /\ q.term = r.term
    /\ r.to \notin Processed(q)

\* The requester after more answers.
Responses(q, yes, no, failed, stale) ==
    [phase |-> q.phase, term |-> q.term, yes |-> q.yes \cup yes, no |-> q.no \cup no,
     failed |-> q.failed \cup failed, stale |-> q.stale \/ stale, primary |-> q.primary]

\* VoteRequester::Algorithm::processResponse, for a response to the running requester.
ProcessResponse(r) ==
    /\ r.stage = "replied" /\ Awaiting(r) /\ ~Sufficient(r.from)
    /\ requester' = [requester EXCEPT ![r.from] =
          Responses(@, IF r.granted THEN {r.to} ELSE {}, IF r.granted THEN {} ELSE {r.to}, {},
                    r.rterm > r.term)]
    /\ rpcs' = rpcs \ {r}
    /\ UNCHANGED <<coordVars, voteVars, lastApplied, crashes, elected>>

\* The outstanding commands failed or timed out for the candidate, whatever
\* becomes of them at the voters.
RequestsFail(n) ==
    /\ requester[n].phase \in {"dryRun", "real"} /\ ~Sufficient(n)
    /\ requester' = [requester EXCEPT ![n] = Responses(@, {}, {}, Targets(n) \ Processed(@), FALSE)]
    /\ UNCHANGED <<coordVars, voteVars, lastApplied, rpcs, crashes, elected>>

\* _processDryRunResult.
ProcessDryRunResult(n) ==
    /\ requester[n].phase = "dryRun" /\ Sufficient(n)
    /\ rpcs' = rpcs \ Cancelled(n)
    /\ \/ /\ term[n] = requester[n].term /\ SuccessfullyElected(n)
          /\ StartRealElection(n, requester[n].term + 1)
          /\ UNCHANGED role
       \/ /\ term[n] # requester[n].term \/ ~SuccessfullyElected(n)
          /\ LoseElection(n)
          /\ UNCHANGED <<term, pendingTerm, leaderMode, lastVote>>
    /\ UNCHANGED <<status, diskVote, votes, regressed, lastApplied, crashes, elected>>

\* Mutant of StoredVote: the last writer wins.
StoredVoteOverwrites(n, v) == v

\* storeLocalLastVoteDocument keeps a document with the same or a higher term.
StoredVote(n, v) == IF v.term > diskVote[n].term THEN v ELSE diskVote[n]

\* _writeLastVoteForMyElection: the write, then the check of the term under
\* the mutex.  A failed write loses the election.
WriteLastVoteForMyElection(n, ok) ==
    LET v == [term |-> requester[n].term, cand |-> n] IN
    /\ requester[n].phase = "writing"
    /\ IF ok
       THEN /\ diskVote' = [diskVote EXCEPT ![n] = StoredVote(n, v)]
            /\ votes' = votes \cup {[voter |-> n, term |-> v.term, cand |-> n]}
       ELSE UNCHANGED <<diskVote, votes>>
    /\ IF ok /\ term[n] = v.term
       THEN /\ requester' = [requester EXCEPT ![n] = NewRequester("real", v.term, NoNode)]
            /\ rpcs' = rpcs \cup Requests(n, v.term, FALSE)
            /\ UNCHANGED role
       ELSE LoseElection(n) /\ UNCHANGED rpcs
    /\ UNCHANGED <<status, leaderMode, term, pendingTerm, lastVote, regressed,
                   lastApplied, crashes, elected>>

\* _onVoteRequestComplete and, on success, _postWonElectionUpdateMemberState_inlock.
OnVoteRequestComplete(n) ==
    /\ requester[n].phase = "real" /\ Sufficient(n)
    /\ rpcs' = rpcs \ Cancelled(n)
    /\ requester' = [requester EXCEPT ![n] = Idle]
    /\ \/ /\ term[n] = requester[n].term /\ SuccessfullyElected(n)
          /\ ProcessWinElection(n)
          /\ elected' = elected \cup {[term |-> term[n], node |-> n]}
       \/ /\ term[n] # requester[n].term \/ ~SuccessfullyElected(n)
          /\ ProcessLoseElection(n)
          /\ UNCHANGED <<leaderMode, elected>>
    /\ UNCHANGED <<status, term, pendingTerm, voteVars, lastApplied, crashes>>

----------------------------------------------------------------------------
(* The voter: ReplicationCoordinatorImpl::processReplSetRequestVotes.       *)

\* Request r, further along.
InStage(r, stage, granted, rterm) ==
    [from |-> r.from, to |-> r.to, term |-> r.term, dry |-> r.dry, op |-> r.op,
     stage |-> stage, granted |-> granted, rterm |-> rterm]

Advance(r, stage, rterm) == rpcs' = (rpcs \ {r}) \cup {InStage(r, stage, FALSE, rterm)}

\* The reply travels only while somebody waits for it.
Reply(r, granted, rterm) ==
    rpcs' = (rpcs \ {r}) \cup
            IF Awaiting(r)
            THEN {InStage(r, "replied", granted, rterm)}
            ELSE {}

\* Mutants of MayGrant: without the check of the last vote, and without the
\* check of the term.
MayGrantTwice(r, t) == r.term >= t /\ ~OpLess(r.op, lastApplied[r.to])
MayGrantOldTerm(r, t) ==
    /\ ~OpLess(r.op, lastApplied[r.to])
    /\ r.dry \/ lastVote[r.to].term # r.term

\* TopologyCoordinator::processReplSetRequestVotes at a voter whose term is t,
\* up to the arbiters' check.
MayGrant(r, t) ==
    /\ r.term >= t
    /\ ~OpLess(r.op, lastApplied[r.to])
    /\ r.dry \/ lastVote[r.to].term # r.term

\* Decide and record the vote in memory.  An arbiter that sees a healthy
\* primary of the same or a higher priority says no.
Decide(r, t) ==
    LET n == r.to IN
    \/ /\ MayGrant(r, t) /\ r.dry
       /\ Reply(r, TRUE, t)
       /\ UNCHANGED <<lastVote, regressed>>
    \/ /\ MayGrant(r, t) /\ ~r.dry
       /\ lastVote' = [lastVote EXCEPT ![n] = [term |-> r.term, cand |-> r.from]]
       /\ regressed' = (regressed \/ r.term < lastVote[n].term)
       /\ Advance(r, "storing", t)
    \/ /\ ~MayGrant(r, t) \/ n \in Arbiter
       /\ Reply(r, FALSE, t)
       /\ UNCHANGED <<lastVote, regressed>>

\* updateTerm(opCtx, args.getTerm()) by the command that makes a primary
\* step down: it waits for the step down to finish.
RequestStartsStepDown(r) ==
    /\ r.stage = "sent" /\ status[r.to] # "down" /\ StartsStepDown(r.to, r.term)
    /\ UpdateTerm(r.to, r.term)
    /\ Advance(r, "waiting", InitialTerm)
    /\ UNCHANGED <<status, role, voteVars, lastApplied, requester, crashes, elected>>

\* The command that waited decides after the step down.
RequestResumes(r) ==
    /\ r.stage = "updated"
    /\ Decide(r, term[r.to])
    /\ UNCHANGED <<coordVars, diskVote, votes, lastApplied, requester, crashes, elected>>

\* Any other command updates the term, if it can, and decides.  The mutex is
\* free between the two, but nothing read in the first part is used in the second.
RequestVote(r) ==
    /\ r.stage = "sent" /\ status[r.to] # "down" /\ ~StartsStepDown(r.to, r.term)
    /\ UpdateTerm(r.to, r.term)
    /\ Decide(r, term'[r.to])
    /\ UNCHANGED <<status, role, diskVote, votes, lastApplied, requester, crashes, elected>>

\* storeLocalLastVoteDocument for a granted vote; an error is returned to the
\* candidate instead of the vote.
StoreLastVote(r, ok) ==
    LET n == r.to
        v == [term |-> r.term, cand |-> r.from] IN
    /\ r.stage = "storing"
    /\ IF ok
       THEN /\ diskVote' = [diskVote EXCEPT ![n] = StoredVote(n, v)]
            /\ votes' = votes \cup {[voter |-> n, term |-> r.term, cand |-> r.from]}
            /\ Reply(r, TRUE, r.rterm)
       ELSE /\ rpcs' = rpcs \ {r}
            /\ UNCHANGED <<diskVote, votes>>
    /\ UNCHANGED <<coordVars, lastVote, regressed, lastApplied, requester, crashes, elected>>

----------------------------------------------------------------------------
(* The primary.                                                             *)

\* signalDrainComplete: the new-term entry is logged and the leader becomes
\* master; a leader that is stepping down logs it too but stays as it is.
SignalDrainComplete(n) ==
    /\ role[n] = "leader" /\ lastApplied[n].term < term[n]
    /\ WritesPerTerm >= 1
    /\ lastApplied' = [lastApplied EXCEPT ![n] = [term |-> term[n], inc |-> 1]]
    /\ leaderMode' = [leaderMode EXCEPT ![n] = IF @ = "LeaderElect" THEN "Master" ELSE @]
    /\ UNCHANGED <<status, role, term, pendingTerm, voteVars, requester, rpcs, crashes, elected>>

\* A write on a primary that finished its transition; a step down that has
\* not reached the global lock does not stop it.
Write(n) ==
    /\ role[n] = "leader" /\ lastApplied[n].term = term[n]
    /\ lastApplied[n].inc < WritesPerTerm
    /\ lastApplied' = [lastApplied EXCEPT ![n].inc = @ + 1]
    /\ UNCHANGED <<coordVars, voteVars, requester, rpcs, crashes, elected>>

\* A member without a leader role fetches and applies a fresher oplog.
Replicate(n, m) ==
    /\ status[n] = "up" /\ role[n] # "leader" /\ n \notin Arbiter
    /\ status[m] = "up" /\ OpLess(lastApplied[n], lastApplied[m])
    /\ lastApplied' = [lastApplied EXCEPT ![n] = lastApplied[m]]
    /\ UNCHANGED <<coordVars, voteVars, requester, rpcs, crashes, elected>>

\* A primary that no longer sees a majority: kStepDownSelf.
StepDownSelf(n) ==
    /\ role[n] = "leader" /\ leaderMode[n] # "SteppingDown"
    /\ leaderMode' = [leaderMode EXCEPT ![n] = "SteppingDown"]
    /\ UNCHANGED <<status, role, term, pendingTerm, voteVars, lastApplied, requester,
                   rpcs, crashes, elected>>

StepDownSelfAndReplaceWith(n) ==
    /\ role' = [role EXCEPT ![n] = "follower"]
    /\ leaderMode' = [leaderMode EXCEPT ![n] = "NotLeader"]

\* The replSetStepDown command, when its attempt succeeds.
StepDown(n) ==
    /\ role[n] = "leader" /\ leaderMode[n] # "SteppingDown"
    /\ StepDownSelfAndReplaceWith(n)
    /\ UNCHANGED <<status, term, pendingTerm, voteVars, lastApplied, requester,
                   rpcs, crashes, elected>>

\* Mutant of StepDownFinish: the pending term is forgotten.
StepDownFinishDropsTerm(n) ==
    /\ leaderMode[n] = "SteppingDown"
    /\ StepDownSelfAndReplaceWith(n)
    /\ pendingTerm' = [pendingTerm EXCEPT ![n] = 0]
    /\ rpcs' = { IF r.to = n /\ r.stage = "waiting"
                 THEN InStage(r, "updated", FALSE, InitialTerm) ELSE r : r \in rpcs }
    /\ UNCHANGED <<status, term, voteVars, lastApplied, requester, crashes, elected>>

\* _stepDownFinish: the node leaves the leader role, then takes over the
\* pending term, and the request that waited for this goes on.
StepDownFinish(n) ==
    /\ leaderMode[n] = "SteppingDown"
    /\ StepDownSelfAndReplaceWith(n)
    /\ term' = [term EXCEPT ![n] = IF pendingTerm[n] > @ THEN pendingTerm[n] ELSE @]
    /\ pendingTerm' = [pendingTerm EXCEPT ![n] = 0]
    /\ rpcs' = { IF r.to = n /\ r.stage = "waiting"
                 THEN InStage(r, "updated", FALSE, InitialTerm) ELSE r : r \in rpcs }
    /\ UNCHANGED <<status, voteVars, lastApplied, requester, crashes, elected>>

----------------------------------------------------------------------------
(* Crash and restart.                                                       *)

\* Commands being handled at n end without an answer; n's own requests stay
\* on the network.
Crash(n) ==
    /\ status[n] # "down" /\ crashes < MaxCrashes
    /\ crashes' = crashes + 1
    /\ status' = [status EXCEPT ![n] = "down"]
    /\ role' = [role EXCEPT ![n] = "follower"]
    /\ leaderMode' = [leaderMode EXCEPT ![n] = "NotLeader"]
    /\ term' = [term EXCEPT ![n] = UninitializedTerm]
    /\ pendingTerm' = [pendingTerm EXCEPT ![n] = 0]
    /\ lastVote' = [lastVote EXCEPT ![n] = [term |-> InitialTerm, cand |-> NoNode]]
    /\ requester' = [requester EXCEPT ![n] = Idle]
    /\ rpcs' = { r \in rpcs \ Cancelled(n) :
                     r.to = n => r.stage \in {"sent", "replied"} }
    /\ UNCHANGED <<diskVote, votes, regressed, lastApplied, elected>>

\* _startLoadLocalConfig loads the last vote; _finishLoadLocalConfig installs
\* the configuration, which sets the term to kInitialTerm, and lets go of the mutex.
LoadLocalConfig(n) ==
    /\ status[n] = "down"
    /\ status' = [status EXCEPT ![n] = "starting"]
    /\ lastVote' = [lastVote EXCEPT ![n] = diskVote[n]]
    /\ term' = [term EXCEPT ![n] = InitialTerm]
    /\ UNCHANGED <<role, leaderMode, pendingTerm, diskVote, votes, regressed,
                   lastApplied, requester, rpcs, crashes, elected>>

\* Mutant of RestoredTerm: the term of the last oplog entry only.
RestoredTermOfOplog(n) == lastApplied[n].term

\* The rest of _finishLoadLocalConfig: restore the term that the last oplog
\* entry and the last vote call for.  They were read before the configuration
\* was installed; a vote stored since then has raised the term itself.
RestoredTerm(n) == IF lastApplied[n].term < diskVote[n].term
                   THEN diskVote[n].term ELSE lastApplied[n].term

FinishLoadLocalConfig(n) ==
    /\ status[n] = "starting"
    /\ status' = [status EXCEPT ![n] = "up"]
    /\ UpdateTerm(n, RestoredTerm(n))
    /\ UNCHANGED <<role, voteVars, lastApplied, requester, rpcs, crashes, elected>>

----------------------------------------------------------------------------
Init ==
    /\ status = [n \in Node |-> "up"]
    /\ role = [n \in Node |-> "follower"]
    /\ leaderMode = [n \in Node |-> "NotLeader"]
    /\ term = [n \in Node |-> InitialTerm]
    /\ pendingTerm = [n \in Node |-> 0]
    /\ lastVote = [n \in Node |-> [term |-> InitialTerm, cand |-> NoNode]]
    /\ diskVote = lastVote
    /\ lastApplied = [n \in Node |-> IF n \in Arbiter THEN NullOpTime
                                     ELSE [term |-> InitialTerm, inc |-> 1]]
    /\ requester = [n \in Node |-> Idle]
    /\ rpcs = {}
    /\ crashes = 0
    /\ votes = {}
    /\ elected = {}
    /\ regressed = FALSE

NodeStep(n) ==
    \/ \E reason \in Reason, p \in Node \cup {NoNode} : StartElection(n, reason, p)
    \/ ProcessDryRunResult(n)
    \/ \E ok \in StoreResult : WriteLastVoteForMyElection(n, ok)
    \/ RequestsFail(n)
    \/ OnVoteRequestComplete(n)
    \/ \E t \in 1 .. MaxTerm : LearnTerm(n, t)
    \/ SignalDrainComplete(n)
    \/ Write(n)
    \/ \E m \in Node : Replicate(n, m)
    \/ StepDownSelf(n)
    \/ StepDown(n)
    \/ StepDownFinish(n)
    \/ Crash(n)
    \/ LoadLocalConfig(n)
    \/ FinishLoadLocalConfig(n)

RpcStep(r) ==
    \/ RequestStartsStepDown(r)
    \/ RequestResumes(r)
    \/ RequestVote(r)
    \/ \E ok \in StoreResult : StoreLastVote(r, ok)
    \/ ProcessResponse(r)

Next == (\E n \in Node : NodeStep(n)) \/ (\E r \in rpcs : RpcStep(r))

Spec == Init /\ [][Next]_vars

----------------------------------------------------------------------------
(* Properties.                                                              *)

\* The values the coordinators' fields, the documents and the requests can take.
TypeOK ==
    /\ status \in [Node -> {"down", "starting", "up"}]
    /\ role \in [Node -> {"follower", "candidate", "leader"}]
    /\ leaderMode \in [Node -> {"NotLeader", "LeaderElect", "Master", "SteppingDown"}]
    /\ term \in [Node -> Term \cup {UninitializedTerm}]
    /\ pendingTerm \in [Node -> Term]
    /\ lastVote \in [Node -> Vote]
    /\ diskVote \in [Node -> Vote]
    /\ lastApplied \in [Node -> OpTime]
    /\ requester \in [Node -> Requester]
    /\ rpcs \subseteq Rpc
    /\ crashes \in Nat
    /\ votes \subseteq CastVote
    /\ elected \subseteq [term : Term, node : Node]
    /\ regressed \in BOOLEAN

\* At most one member wins the election of a term.  The comment in
\* _updatePrimaryFromHBDataV1 relies on it: another primary has a higher term.
OneLeaderPerTerm == \A e, f \in elected : e.term = f.term => e.node = f.node

\* The voting rule of processReplSetRequestVotes (refuse only the term of the
\* last vote) and the rule of storeLocalLastVoteDocument give one leader per
\* term, through crashes and lost replies, as long as no member voted in a
\* term before its last vote.
ElectionSafety == ~regressed => OneLeaderPerTerm

\* The last-vote document answers for every vote that was cast, whatever the
\* order in which concurrent commands and the node's own election store it:
\* it holds that vote or one of a later term.
DurableVotes ==
    ~regressed =>
        \A v \in votes : \/ diskVote[v.voter].term > v.term
                         \/ /\ diskVote[v.voter].term = v.term
                            /\ diskVote[v.voter].cand = v.cand

\* A primary keeps the term it was elected in until it has stepped down, also
\* after it heard of a higher one; only a primary that steps down has a
\* pending term.
LeaderKeepsTerm ==
    \A n \in Node :
        /\ role[n] = "leader" => [term |-> term[n], node |-> n] \in elected
        /\ pendingTerm[n] # 0 => /\ leaderMode[n] = "SteppingDown"
                                 /\ pendingTerm[n] > term[n]

\* A running member's term covers its last vote; a primary that is stepping
\* down covers it with the term it is about to take over.
TermCoversVote ==
    \A n \in Node : status[n] = "up" =>
        \/ lastVote[n].term <= term[n]
        \/ leaderMode[n] = "SteppingDown" /\ lastVote[n].term <= pendingTerm[n]

\* A member votes in a term before its last vote only where its own term is
\* out of date: as a primary that is stepping down, or before its term is
\* restored at startup.
VoteRegressesOnlyInLimbo ==
    [][\A n \in Node :
          /\ status[n] # "down" /\ status'[n] # "down"
          /\ lastVote'[n].term < lastVote[n].term
          => leaderMode[n] = "SteppingDown" \/ status[n] = "starting"]_vars

\* The replication executor runs scheduled work, remote commands time out,
\* and a step down gets the global lock because user operations are killed.
Fairness ==
    \A n \in Node :
        /\ WF_vars(ProcessDryRunResult(n))
        /\ WF_vars(\E ok \in StoreResult : WriteLastVoteForMyElection(n, ok))
        /\ WF_vars(RequestsFail(n))
        /\ WF_vars(OnVoteRequestComplete(n))
        /\ WF_vars(StepDownFinish(n))

FairSpec == Spec /\ Fairness

\* Every election ends: no path leaves a member a candidate for ever, which
\* would keep it from standing again.
ElectionsEnd == \A n \in Node : role[n] = "candidate" ~> role[n] # "candidate"

\* A primary that heard of a higher term ends up in that term or a later one,
\* or crashes.
PendingTermTakesEffect ==
    \A n \in Node, t \in 1 .. MaxTerm :
        pendingTerm[n] = t ~> (term[n] >= t \/ status[n] = "down")
=============================================================================
