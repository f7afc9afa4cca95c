---------------------------- MODULE CommitPoint ----------------------------
(***************************************************************************)
(* Replication of the oplog and the commit point.  Members fetch from a    *)
(* sync source and apply, positions reach the primary, the primary         *)
(* advances the commit point, the others learn it with the batches they    *)
(* fetch (arbiters with heartbeats), a member whose oplog has diverged     *)
(* rolls back to the common point with its source, and the committed       *)
(* snapshot follows the commit point.  Members crash and lose what was not *)
(* journaled; reports arrive late.                                         *)
(*                                                                         *)
(* An oplog is the sequence of its entries' terms, the place of an entry   *)
(* being its timestamp, and ends at the last applied optime: a batch is    *)
(* written and applied in one step.  An election is one step; module       *)
(* Election has its protocol, PrimaryTransition the way into and out of    *)
(* the primary role.                                                       *)
(***************************************************************************)
EXTENDS Integers, Sequences, FiniteSets

CONSTANTS
    Member,          \* the members of the configuration, all of them voters
    Arbiter,         \* those without data
    ShouldJournal,   \* ReplSetConfig::getWriteConcernMajorityShouldJournal
    JournalLags,     \* bound: whether the journal can be behind the oplog
    MaxTerm,         \* bound: no election beyond this term
    MaxOplog,        \* bound: entries in an oplog
    MaxCrashes,      \* bound: crashes of all members together
    CrashOplog,      \* bound: no crash once an oplog has more entries
    MaxStepDowns     \* bound: step downs that no newer term causes

DataMember == Member \ Arbiter

ASSUME MemberAssumption == IsFiniteSet(Member) /\ Arbiter \subseteq Member /\ DataMember # {}
ASSUME BoundAssumption ==
    /\ MaxTerm \in Nat /\ MaxOplog \in Nat \ {0} /\ MaxCrashes \in Nat /\ CrashOplog \in Nat
    /\ MaxStepDowns \in Nat
    /\ ShouldJournal \in BOOLEAN /\ JournalLags \in BOOLEAN

VARIABLES
    role,         \* _role and _leaderMode; "Aborted" after a failed invariant()
    term,         \* _term
    pendingTerm,  \* _pendingTermUpdateDuringStepDown, 0 for boost::none
    lastVote,     \* the term of the last-vote document
    oplog,        \* local.oplog.rs
    durable,      \* how much of it is journaled: the last durable optime
    visible,      \* how much of it forward cursors see: _oplogReadTimestamp
    buffer,       \* BackgroundSync::_oplogBuffer
    producer,     \* BackgroundSync::_state
    fetcher,      \* the response BackgroundSync::_oplogFetcher works on
    position,     \* position[n][m]: what the primary n has heard of m in its term
    reported,     \* what a member has reported in terms it has left
    commitPoint,  \* _lastCommittedOpTime
    candidates,   \* _stableOpTimeCandidates
    snapshot,     \* _currentCommittedSnapshot, which is also the stable timestamp
    crashes,      \* crashes so far
    stepDowns,    \* step downs so far that no newer term caused
    committed     \* history: the entries some primary has counted on a majority

electionVars == <<role, term, pendingTerm, lastVote>>
logVars == <<oplog, durable, visible>>
fetchVars == <<buffer, producer, fetcher>>
positionVars == <<position, reported>>
commitVars == <<commitPoint, candidates, snapshot, committed>>
faultVars == <<crashes, stepDowns>>
vars == <<electionVars, logVars, fetchVars, positionVars, commitVars, faultVars>>

----------------------------------------------------------------------------
(* Optimes and oplogs.                                                      *)

Null == [term |-> -1, ts |-> 0]
MaxOpTime == [term |-> MaxTerm + 1, ts |-> MaxOplog + 1]

Less(a, b) == a.term < b.term \/ (a.term = b.term /\ a.ts < b.ts)
AtMost(a, b) == a = b \/ Less(a, b)
Smaller(a, b) == IF Less(a, b) THEN a ELSE b
Greatest(S) == CHOOSE o \in S : \A p \in S : AtMost(p, o)

OpTimeAt(l, i) == IF i = 0 THEN Null ELSE [term |-> l[i], ts |-> i]
Top(l) == OpTimeAt(l, Len(l))
Has(l, o) == o.ts \in 1..Len(l) /\ l[o.ts] = o.term
Upto(l, i) == SubSeq(l, 1, i)
After(l, i) == SubSeq(l, i + 1, Len(l))
IsPrefixOf(s, t) == Len(s) <= Len(t) /\ Upto(t, Len(s)) = s

IsPrimary(r) == r \in {"LeaderElect", "Master", "SteppingDown"}
Alive(n) == role[n] # "Aborted"

\* Arbiters take the commit point for their last applied optime.
LastApplied(n) == IF n \in Arbiter THEN commitPoint[n] ELSE Top(oplog[n])
LastFetched(n) == Top(oplog[n] \o buffer[n])

\* Mutant of Counts: the applied optime, whatever the configuration says.
CountsApplied(l, d) == Top(l)

\* What counts toward the commit point: the durable optime, or the applied one.
Counts(l, d) == IF ShouldJournal THEN OpTimeAt(l, d) ELSE Top(l)
Reached(n) == IF n \in Arbiter /\ ~ShouldJournal THEN commitPoint[n] ELSE Counts(oplog[n], durable[n])

\* _firstOpTimeOfMyTerm of a primary of term t with oplog l: that of the entry
\* written when the drain was complete; before that, nothing can be committed.
FirstOpTimeOfMyTerm(l, t) ==
    LET own == { i \in 1..Len(l) : l[i] = t }
    IN  IF own = {} THEN MaxOpTime
        ELSE OpTimeAt(l, CHOOSE i \in own : \A j \in own : i <= j)

----------------------------------------------------------------------------
(* The commit point and the stable optime.                                  *)

VoteMajority == (Cardinality(Member) \div 2) + 1

\* Mutant of WriteMajority: half of the members.
WriteHalf == Cardinality(Member) \div 2

WriteMajority == IF VoteMajority < Cardinality(DataMember)
                   THEN VoteMajority ELSE Cardinality(DataMember)

MajorityOpTime(pos) ==
    Greatest({ o \in { pos[m] : m \in Member } :
                 Cardinality({ m \in Member : AtMost(o, pos[m]) }) >= WriteMajority })

\* advanceLastCommittedOpTime at n, in role r and with oplog l.
AdvanceLastCommittedOpTime(n, r, l, o) ==
    LET known == IF n \notin Arbiter /\ Top(l).term # o.term THEN Smaller(o, Top(l)) ELSE o
    IN  IF (IsPrimary(r) /\ Less(o, FirstOpTimeOfMyTerm(l, term[n]))) \/ ~ Less(commitPoint[n], known)
          THEN commitPoint[n] ELSE known

\* Mutant of UpdateLastCommittedOpTime: a primary commits until it has stepped down.
UpdateWhileSteppingDown(n, r, l, pos) ==
    IF IsPrimary(r) THEN AdvanceLastCommittedOpTime(n, r, l, MajorityOpTime(pos)) ELSE commitPoint[n]

UpdateLastCommittedOpTime(n, r, l, pos) ==
    IF r \in {"LeaderElect", "Master"}
      THEN AdvanceLastCommittedOpTime(n, r, l, MajorityOpTime(pos))
      ELSE commitPoint[n]

\* _calculateStableOpTime_inlock and _cleanupStableOpTimeCandidates.
StableOpTime(cand, c) ==
    LET below == { o \in cand : AtMost(o, c) } IN IF below = {} THEN Null ELSE Greatest(below)
CleanedUp(cand, c) == { o \in cand : AtMost(StableOpTime(cand, c), o) }

\* n's commit point becomes c.  _setStableTimestampForStorage_inlock runs when
\* that moves it, or when refresh says so.
SetCommitPoint(n, c, cand, refresh) ==
    /\ commitPoint' = [commitPoint EXCEPT ![n] = c]
    /\ IF refresh \/ c # commitPoint[n]
         THEN /\ candidates' = [candidates EXCEPT ![n] = CleanedUp(cand, c)]
              /\ snapshot' = [snapshot EXCEPT ![n] =
                                 IF StableOpTime(cand, c) = Null THEN @ ELSE StableOpTime(cand, c)]
         ELSE /\ candidates' = [candidates EXCEPT ![n] = cand]
              /\ UNCHANGED snapshot

\* A primary with oplog l has counted c on a majority.
Declare(n, l, c) ==
    committed' = IF c # commitPoint[n] /\ ~ IsPrefixOf(Upto(l, c.ts), committed)
                   THEN Upto(l, c.ts) ELSE committed

\* n, in role r, has oplog l, journaled up to d and visible up to v:
\* _setMyLastAppliedOpTime_inlock, and _setMyLastDurableOpTime_inlock.
SetMyOpTimes(n, r, l, d, v) ==
    LET pos == [position[n] EXCEPT ![n] = Counts(l, d)]
        c == UpdateLastCommittedOpTime(n, r, l, pos)
        applied == Top(l) # Top(oplog[n])
    IN  /\ oplog' = [oplog EXCEPT ![n] = l]
        /\ durable' = [durable EXCEPT ![n] = d]
        /\ visible' = [visible EXCEPT ![n] = v]
        /\ position' = IF IsPrimary(r) THEN [position EXCEPT ![n] = pos] ELSE position
        /\ SetCommitPoint(n, c, candidates[n] \cup (IF applied THEN {Top(l)} ELSE {}),
                          applied /\ AtMost(Top(l), c))
        /\ Declare(n, l, c)

----------------------------------------------------------------------------
(* Terms and elections, as far as replication sees them.                    *)

NoPositions == [m \in Member |-> Null]

\* What the members of S have reported may still be under way when they leave
\* their term or roll back.  It can only count at the primary of that term, and
\* only if it is an entry of it.
Leave(S) ==
    reported' = [m \in Member |->
        IF /\ m \in S /\ Reached(m).term = term[m]
           /\ \E p \in Member \ {m} : IsPrimary(role[p]) /\ term[p] = term[m]
          THEN reported[m] \cup {Reached(m)} ELSE reported[m]]

\* _updateTerm_inlock at n: a primary starts to step down instead, and takes
\* the term when it has.
UpdateTerm(n, t) ==
    IF t > term[n] /\ IsPrimary(role[n])
      THEN /\ role' = [role EXCEPT ![n] = "SteppingDown"]
           /\ pendingTerm' = [pendingTerm EXCEPT ![n] = IF t > @ THEN t ELSE @]
           /\ UNCHANGED <<term, reported>>
      ELSE /\ term' = [term EXCEPT ![n] = IF t > @ THEN t ELSE @]
           /\ Leave(IF t > term[n] THEN {n} ELSE {})
           /\ UNCHANGED <<role, pendingTerm>>

\* Mutant of WouldVote: the candidate's oplog is not looked at.
WouldVoteForAnyone(v, n, t) == role[v] \in {"Follower", "SteppingDown"} /\ lastVote[v] < t /\ term[v] <= t

\* A primary that is already stepping down votes before it has taken the term.
WouldVote(v, n, t) ==
    /\ role[v] \in {"Follower", "SteppingDown"}
    /\ lastVote[v] < t /\ term[v] <= t
    /\ AtMost(LastApplied(v), LastApplied(n))

\* n wins the next term with the votes of Q: processWinElection.  What it had
\* heard of others is of older terms, and never counts again.  A vote is stored
\* and then flushed, and the oplog of the voter with it.
Elect(n, Q) ==
    LET t == term[n] + 1
        taking == { m \in Q : role[m] = "Follower" }
    IN
    /\ n \in Q /\ role[n] = "Follower" /\ lastVote[n] < t /\ t <= MaxTerm
    /\ Cardinality(Q) >= VoteMajority
    /\ \A v \in Q \ {n} : WouldVote(v, n, t)
    /\ role' = [role EXCEPT ![n] = "LeaderElect"]
    /\ term' = [m \in Member |-> IF m \in taking THEN t ELSE term[m]]
    /\ lastVote' = [m \in Member |-> IF m \in Q THEN t ELSE lastVote[m]]
    /\ position' = [position EXCEPT ![n] = NoPositions]
    /\ durable' = [m \in Member |-> IF m \in Q THEN Len(oplog[m]) ELSE durable[m]]
    /\ visible' = [m \in Member |-> IF m \in Q THEN Len(oplog[m]) ELSE visible[m]]
    /\ pendingTerm' = [m \in Member |->
                          IF m \in Q \ taking /\ t > term[m] /\ t > pendingTerm[m] THEN t ELSE pendingTerm[m]]
    /\ Leave({ m \in taking : term[m] < t })
    /\ UNCHANGED <<oplog, fetchVars, commitVars, faultVars>>

\* Catchup ends: the producer is told to stop, the fetcher is not waited for.
EnterDrainMode(n) ==
    /\ role[n] = "LeaderElect" /\ producer[n] # "Stopped"
    /\ producer' = [producer EXCEPT ![n] = "Stopped"]
    /\ UNCHANGED <<electionVars, logVars, buffer, fetcher, positionVars, commitVars, faultVars>>

Journaled(n, l) == IF JournalLags THEN durable[n] ELSE Len(l)
VisibleOf(n, l) == IF JournalLags THEN visible[n] ELSE Len(l)

\* A primary's own entries are seen by others when they are journaled.
LogOp(n, r) ==
    LET l == Append(oplog[n], term[n])
    IN  Len(oplog[n]) < MaxOplog /\ SetMyOpTimes(n, r, l, Journaled(n, l), VisibleOf(n, l))

\* Everything fetched is applied: the entry that opens the term is written.
SignalDrainComplete(n) ==
    /\ role[n] = "LeaderElect" /\ producer[n] = "Stopped" /\ buffer[n] = <<>>
    /\ LogOp(n, "Master")
    /\ role' = [role EXCEPT ![n] = "Master"]
    /\ UNCHANGED <<term, pendingTerm, lastVote, fetchVars, reported, faultVars>>

\* HeartbeatResponseAction::StepDownSelf, or no majority is visible.
StepDownSelf(n) ==
    /\ stepDowns < MaxStepDowns /\ role[n] \in {"LeaderElect", "Master"}
    /\ stepDowns' = stepDowns + 1
    /\ role' = [role EXCEPT ![n] = "SteppingDown"]
    /\ UNCHANGED <<term, pendingTerm, lastVote, logVars, fetchVars, positionVars, commitVars, crashes>>

\* _stepDownFinish: the member follows, in the term it heard of, and starts to
\* replicate again.
StepDownFinish(n) ==
    /\ role[n] = "SteppingDown"
    /\ role' = [role EXCEPT ![n] = "Follower"]
    /\ term' = [term EXCEPT ![n] = IF pendingTerm[n] > @ THEN pendingTerm[n] ELSE @]
    /\ Leave({n})
    /\ pendingTerm' = [pendingTerm EXCEPT ![n] = 0]
    /\ position' = [position EXCEPT ![n] = NoPositions]
    /\ producer' = [producer EXCEPT ![n] = "Starting"]
    /\ UNCHANGED <<lastVote, logVars, buffer, fetcher, commitVars, faultVars>>

----------------------------------------------------------------------------
(* Writing, journaling and applying.                                        *)

\* Writes are accepted from the end of the drain until the step down is complete.
Write(n) ==
    /\ role[n] \in {"Master", "SteppingDown"} /\ FirstOpTimeOfMyTerm(oplog[n], term[n]) # MaxOpTime
    /\ LogOp(n, role[n])
    /\ UNCHANGED <<electionVars, fetchVars, reported, faultVars>>

\* The journal flusher and the oplog visibility thread have caught up:
\* setMyLastDurableOpTimeForward.
Journal(n) ==
    /\ Alive(n) /\ durable[n] < Len(oplog[n])
    /\ SetMyOpTimes(n, role[n], oplog[n], Len(oplog[n]), Len(oplog[n]))
    /\ UNCHANGED <<electionVars, fetchVars, reported, faultVars>>

\* SyncTail applies what is buffered, or as much as its limits let it take.  On
\* a secondary that is visible at once.
ApplyBatch(n) ==
    \E k \in 1..Len(buffer[n]) :
        LET l == oplog[n] \o Upto(buffer[n], k) IN
        /\ SetMyOpTimes(n, role[n], l, Journaled(n, l), Len(l))
        /\ buffer' = [buffer EXCEPT ![n] = After(@, k)]
        /\ UNCHANGED <<electionVars, producer, fetcher, reported, faultVars>>

----------------------------------------------------------------------------
(* Fetching.  A response is made at the source and checked in one step; its  *)
(* commit point, and then its term and documents, are taken in others.  In   *)
(* between the member may vote, become primary, write and step down.         *)

NoFetch == [stage |-> "None"]
Waiting == [stage |-> "Waiting"]
Diverged(s) == [stage |-> "Diverged", source |-> s]
Advanced(docs, t) == [stage |-> "Advanced", docs |-> docs, term |-> t]
InCallback(n) == fetcher[n].stage \in {"Checked", "Advanced"}

\* The response of s with docs, once n has checked its start.  A commit point
\* that n has already will not move n's.
Checked(n, s, docs) ==
    IF Less(commitPoint[n], commitPoint[s])
      THEN [stage |-> "Checked", docs |-> docs, term |-> term[s], committed |-> commitPoint[s]]
      ELSE Advanced(docs, term[s])

\* BackgroundSync::start, by the producer thread, which has joined the fetcher.
StartProducer(n) ==
    /\ producer[n] = "Starting" /\ ~ InCallback(n)
    /\ producer' = [producer EXCEPT ![n] = "Running"]
    /\ fetcher' = [fetcher EXCEPT ![n] = NoFetch]
    /\ UNCHANGED <<electionVars, logVars, buffer, positionVars, commitVars, faultVars>>

\* s answers the query of n, unless it learns a term from it: StaleTerm.
Answer(n, s, f) ==
    /\ s # n /\ Alive(n) /\ Alive(s)
    /\ producer[n] = "Running" /\ fetcher[n] = NoFetch
    /\ UpdateTerm(s, term[n])
    /\ fetcher' = [fetcher EXCEPT ![n] = IF term[n] > term[s] THEN NoFetch ELSE f]
    /\ UNCHANGED <<lastVote, logVars, buffer, producer, position, commitVars, faultVars>>

\* Mutant of CheckRemoteOplogStart: the first document is not compared.
CheckNothing(mine, theirs) == TRUE

\* The first document of the first batch is the last one fetched.
CheckRemoteOplogStart(mine, theirs) == Has(theirs, mine)

\* The first batch: what the source shows from the last fetched entry on, or as
\* much of it as a batch holds.
Find(n, s) ==
    /\ Less(LastFetched(n), Top(oplog[s]))
    /\ \E v \in 0..visible[s] :
         /\ v < LastFetched(n).ts => v = visible[s]
         /\ LET seen == Upto(oplog[s], v) IN
            Answer(n, s, IF CheckRemoteOplogStart(LastFetched(n), seen)
                           THEN Checked(n, s, After(seen, LastFetched(n).ts)) ELSE Diverged(s))

\* A later batch without documents, answered because the commit point has moved.
GetMore(n, s) ==
    /\ LastFetched(n) = Top(oplog[s]) /\ Less(commitPoint[n], commitPoint[s])
    /\ Answer(n, s, Checked(n, s, <<>>))

\* Mutant of EnqueueDocuments: also while the producer is starting again.
EnqueueUnlessStopped(n, docs) ==
    buffer' = IF producer[n] # "Stopped" THEN [buffer EXCEPT ![n] = @ \o docs] ELSE buffer

EnqueueDocuments(n, docs) ==
    buffer' = IF producer[n] = "Running" THEN [buffer EXCEPT ![n] = @ \o docs] ELSE buffer

\* processMetadata, its first critical section.  When there is nothing else in
\* the response, that is the end of it.
AdvanceCommitPoint(n) ==
    LET f == fetcher[n] IN
    /\ f.stage = "Checked"
    /\ SetCommitPoint(n, AdvanceLastCommittedOpTime(n, role[n], oplog[n], f.committed),
                      candidates[n], FALSE)
    /\ fetcher' = [fetcher EXCEPT ![n] =
                      IF f.docs = <<>> /\ f.term <= term[n] THEN NoFetch ELSE Advanced(f.docs, f.term)]
    /\ UNCHANGED <<electionVars, logVars, buffer, producer, positionVars, committed, faultVars>>

\* Its second one, and the documents.  If the term makes a primary step down, the
\* callback waits for that, and finds the producer starting again.
ProcessBatch(n) ==
    LET f == fetcher[n]
        waits == f.term > term[n] /\ role[n] \in {"LeaderElect", "Master"}
    IN
    /\ f.stage = "Advanced"
    /\ UpdateTerm(n, f.term)
    /\ EnqueueDocuments(n, IF waits THEN <<>> ELSE f.docs)
    /\ fetcher' = [fetcher EXCEPT ![n] = IF waits THEN Waiting ELSE NoFetch]
    /\ UNCHANGED <<lastVote, logVars, producer, position, commitVars, faultVars>>

----------------------------------------------------------------------------
(* Rollback.                                                                *)

\* Mutant of CommonPoint: the walk goes one entry too far.
BeforeCommonPoint(l, r) ==
    LET same == { i \in 1..Len(l) : i <= Len(r) /\ l[i] = r[i] }
        last == CHOOSE i \in same : \A j \in same : j <= i
    IN  IF last > 1 THEN last - 1 ELSE last

\* The last entry the two have in common.  The remote oplog is read backwards,
\* which also sees what is not visible.
CommonPoint(l, r) ==
    LET same == { i \in 1..Len(l) : i <= Len(r) /\ l[i] = r[i] }
    IN  CHOOSE i \in same : \A j \in same : j <= i

\* Mutant of KeptCandidates: the candidates that were rolled back stay.
KeepsCandidates(cand, top, c) == IF AtMost(top, c) THEN CleanedUp(cand, c) ELSE cand

\* What is left of the candidates when top is the common point: first
\* resetLastOpTimesFromOplog, then the end of the member state ROLLBACK.
KeptCandidates(cand, top, c) ==
    { o \in (IF AtMost(top, c) THEN CleanedUp(cand, c) ELSE cand) : AtMost(o, top) }

\* _runRollback and RollbackImpl::runRollback, once everything fetched is
\* applied.  The invariant is that the common point is not before the commit
\* point.
Rollback(n) ==
    LET i == CommonPoint(oplog[n], oplog[fetcher[n].source])
        l == Upto(oplog[n], i)
    IN
    /\ role[n] = "Follower" /\ producer[n] = "Running" /\ fetcher[n].stage = "Diverged"
    /\ buffer[n] = <<>>
    /\ \/ /\ Less(Top(l), commitPoint[n]) \/ i < commitPoint[n].ts
          /\ role' = [role EXCEPT ![n] = "Aborted"]
          /\ UNCHANGED <<logVars, fetcher, reported, candidates, snapshot>>
       \/ /\ ~ Less(Top(l), commitPoint[n]) /\ i >= commitPoint[n].ts
          /\ oplog' = [oplog EXCEPT ![n] = l]
          /\ durable' = [durable EXCEPT ![n] = i]
          /\ visible' = [visible EXCEPT ![n] = i]
          /\ snapshot' = [snapshot EXCEPT ![n] = Null]
          /\ candidates' = [candidates EXCEPT ![n] =
                               KeptCandidates(@ \cup {Top(l)}, Top(l), commitPoint[n])]
          /\ fetcher' = [fetcher EXCEPT ![n] = NoFetch]
          /\ Leave({n})
          /\ UNCHANGED role
    /\ UNCHANGED <<term, pendingTerm, lastVote, buffer, producer, position, commitPoint, committed, faultVars>>

----------------------------------------------------------------------------
(* Heartbeats and progress reports.                                         *)

LearnTerm(n, m) ==
    /\ Alive(n) /\ term[m] > term[n] /\ term[m] > pendingTerm[n]
    /\ UpdateTerm(n, term[m])
    /\ UNCHANGED <<lastVote, logVars, fetchVars, position, commitVars, faultVars>>

\* What m has sent: its position now, or one of a term it has left.
Reports(m) == { [position |-> Reached(m), term |-> term[m]] }
              \cup { [position |-> o, term |-> o.term] : o \in reported[m] }

\* A report of m reaches the primary n, in an update of m or one that another
\* member passes on, or in a heartbeat response: the term first, and then
\* _setLastOptime_inlock.  A position of an older term is not recorded here:
\* the check against FirstOpTimeOfMyTerm would keep it from counting.
ReceivePosition(n, m, r) ==
    LET pos == [position[n] EXCEPT ![m] = r.position]
        newRole == IF r.term > term[n] THEN "SteppingDown" ELSE role[n]
        c == UpdateLastCommittedOpTime(n, newRole, oplog[n], pos)
    IN
    /\ IsPrimary(role[n]) /\ m # n
    /\ r.position.term = term[n] /\ Less(position[n][m], r.position)
    /\ UpdateTerm(n, r.term)
    /\ position' = [position EXCEPT ![n] = pos]
    /\ SetCommitPoint(n, c, candidates[n], FALSE)
    /\ Declare(n, oplog[n], c)
    /\ UNCHANGED <<lastVote, logVars, fetchVars, faultVars>>

\* An arbiter learns the commit point with a heartbeat response.
ArbiterHeartbeat(n, s) ==
    /\ n \in Arbiter /\ Alive(s) /\ Less(commitPoint[n], commitPoint[s])
    /\ commitPoint' = [commitPoint EXCEPT ![n] =
                          AdvanceLastCommittedOpTime(n, role[n], <<>>, commitPoint[s])]
    /\ UpdateTerm(n, term[s])
    /\ UNCHANGED <<lastVote, logVars, fetchVars, position, candidates, snapshot, committed, faultVars>>

----------------------------------------------------------------------------
(* Waiting for a majority.                                                  *)

\* Mutant of DoneWaitingForReplication: the committed snapshot is enough.
HaveCommittedSnapshot(n, o) ==
    /\ role[n] \in {"LeaderElect", "Master"} /\ o.term = term[n]
    /\ snapshot[n] # Null /\ AtMost(o, snapshot[n])

\* A client of n that waits for its write o is told that a majority has it:
\* checkForStepDown, then _doneWaitingForReplication_inlock, under one mutex.
DoneWaitingForReplication(n, o) ==
    /\ role[n] \in {"LeaderElect", "Master"} /\ o.term = term[n]
    /\ snapshot[n] # Null /\ AtMost(o, snapshot[n])
    /\ Cardinality({ m \in Member : AtMost(o, position[n][m]) }) >= WriteMajority

----------------------------------------------------------------------------
(* The process ends and starts again.                                       *)

StartCandidates(n, l) == IF n \in DataMember THEN {Top(l)} ELSE {}

\* What was not journaled is lost, and what was in memory.  The term is that of
\* the last-vote document or of the last entry.
Crash(n) ==
    LET l == Upto(oplog[n], durable[n]) IN
    /\ crashes < MaxCrashes /\ Alive(n) /\ \A m \in Member : Len(oplog[m]) <= CrashOplog
    /\ crashes' = crashes + 1
    /\ role' = [role EXCEPT ![n] = "Follower"]
    /\ term' = [term EXCEPT ![n] = IF Top(l).term > lastVote[n] THEN Top(l).term ELSE lastVote[n]]
    /\ pendingTerm' = [pendingTerm EXCEPT ![n] = 0]
    /\ oplog' = [oplog EXCEPT ![n] = l]
    /\ visible' = [visible EXCEPT ![n] = Len(l)]
    /\ buffer' = [buffer EXCEPT ![n] = <<>>]
    /\ producer' = [producer EXCEPT ![n] = "Running"]
    /\ fetcher' = [fetcher EXCEPT ![n] = NoFetch]
    /\ position' = [position EXCEPT ![n] = NoPositions]
    /\ Leave({n})
    /\ commitPoint' = [commitPoint EXCEPT ![n] = Null]
    /\ candidates' = [candidates EXCEPT ![n] = StartCandidates(n, l)]
    /\ snapshot' = [snapshot EXCEPT ![n] = Null]
    /\ UNCHANGED <<lastVote, durable, committed, stepDowns>>

FirstOplog(n) == IF n \in DataMember THEN <<0>> ELSE <<>>

\* Every data-bearing member has the entry that initiated the set.
Init ==
    /\ role = [n \in Member |-> "Follower"]
    /\ term = [n \in Member |-> 0]
    /\ pendingTerm = [n \in Member |-> 0]
    /\ lastVote = [n \in Member |-> 0]
    /\ oplog = [n \in Member |-> FirstOplog(n)]
    /\ durable = [n \in Member |-> Len(FirstOplog(n))]
    /\ visible = [n \in Member |-> Len(FirstOplog(n))]
    /\ buffer = [n \in Member |-> <<>>]
    /\ producer = [n \in Member |-> "Running"]
    /\ fetcher = [n \in Member |-> NoFetch]
    /\ position = [n \in Member |-> NoPositions]
    /\ reported = [n \in Member |-> {}]
    /\ commitPoint = [n \in Member |-> Null]
    /\ candidates = [n \in Member |-> StartCandidates(n, FirstOplog(n))]
    /\ snapshot = [n \in Member |-> Null]
    /\ crashes = 0 /\ stepDowns = 0
    /\ committed = <<>>

ElectionStep(n) ==
    \/ \E Q \in SUBSET Member : Elect(n, Q)
    \/ EnterDrainMode(n) \/ SignalDrainComplete(n) \/ StepDownSelf(n) \/ StepDownFinish(n)

FetchStep(n) ==
    \/ StartProducer(n) \/ AdvanceCommitPoint(n) \/ ProcessBatch(n) \/ Rollback(n)
    \/ \E s \in DataMember : Find(n, s) \/ GetMore(n, s)

Next ==
    \/ \E n \in DataMember :
         \/ ElectionStep(n) \/ FetchStep(n)
         \/ Write(n) \/ Journal(n) \/ ApplyBatch(n)
         \/ \E m \in Member : \E r \in Reports(m) : ReceivePosition(n, m, r)
    \/ \E n \in Member : Crash(n) \/ \E m \in Member : LearnTerm(n, m) \/ ArbiterHeartbeat(n, m)

Spec == Init /\ [][Next]_vars

----------------------------------------------------------------------------
(* Properties.                                                              *)

OpTime == [term : -1..MaxTerm + 1, ts : 0..MaxOplog + 1]
IsOplog(l) == l \in Seq(0..MaxTerm) /\ Len(l) <= MaxOplog

\* The values of the coordinators' fields, of the oplogs and of the fetchers.
TypeOK ==
    /\ role \in [Member -> {"Follower", "LeaderElect", "Master", "SteppingDown", "Aborted"}]
    /\ term \in [Member -> 0..MaxTerm] /\ pendingTerm \in [Member -> 0..MaxTerm]
    /\ lastVote \in [Member -> 0..MaxTerm]
    /\ DOMAIN oplog = Member /\ IsOplog(committed)
    /\ \A n \in Member : durable[n] \in 0..visible[n] /\ visible[n] \in 0..Len(oplog[n])
    /\ \A n \in Member : IsOplog(oplog[n] \o buffer[n])
    /\ producer \in [Member -> {"Starting", "Running", "Stopped"}]
    /\ \A n \in Member : fetcher[n].stage \in {"None", "Diverged", "Checked", "Advanced", "Waiting"}
    /\ position \in [Member -> [Member -> OpTime]]
    /\ commitPoint \in [Member -> OpTime] /\ snapshot \in [Member -> OpTime]
    /\ \A n \in Member : candidates[n] \subseteq OpTime /\ reported[n] \subseteq OpTime

IsCommitted(o) == o = Null \/ Has(committed, o)

\* Two oplogs that agree on an entry agree on everything before it, whatever was
\* fetched from whom, while the producer stopped and started again.
LogMatching ==
    \A n, m \in DataMember : \A i \in 1..Len(oplog[n]) :
        i <= Len(oplog[m]) /\ oplog[n][i] = oplog[m][i] => Upto(oplog[n], i) = Upto(oplog[m], i)

\* A primary has everything that was ever counted on a majority in its term or
\* before, although reports arrive late and members roll back and crash.
LeaderCompleteness ==
    \A n \in Member : role[n] = "Master" /\ committed # <<>> /\ term[n] >= committed[Len(committed)]
        => IsPrefixOf(committed, oplog[n])

\* The committed snapshot, to which the storage engine would recover, is on the
\* member's own branch, and not beyond its commit point.
SnapshotOnBranch ==
    \A n \in DataMember : snapshot[n] # Null =>
        Has(oplog[n], snapshot[n]) /\ AtMost(snapshot[n], commitPoint[n])

\* Its timestamp is not beyond that of the commit point either, although a commit
\* point of a later term may have a smaller one on another branch: an invariant()
\* of _getStableOpTime_inlock and _updateCommittedSnapshot_inlock.
SnapshotTimestamp ==
    \A n \in DataMember : snapshot[n] # Null => snapshot[n].ts <= commitPoint[n].ts

\* The commit points are right, those of responses under way included: what the
\* comment in OplogFetcher::_onSuccessfulBatch and the checks of
\* advanceLastCommittedOpTime are for.
CommitPointCommitted ==
    \A n \in Member : /\ IsCommitted(commitPoint[n])
                      /\ fetcher[n].stage = "Checked" => IsCommitted(fetcher[n].committed)

\* The first wrong commit point comes from a response that was processed after
\* the producer had been stopped, and from nothing else.
OnlyLateResponsesMislead ==
    [][CommitPointCommitted /\ ~ CommitPointCommitted' =>
         \E n \in Member : /\ fetcher[n].stage = "Checked" /\ fetcher'[n] # fetcher[n]
                           /\ producer[n] # "Running"]_vars

\* A write with majority concern is acknowledged only if it is committed, and so
\* survives (LeaderCompleteness).  A late response can put the snapshot on a write
\* that nobody else has, before its term makes the member step down.
AcknowledgedIsCommitted ==
    \A n \in DataMember : \A i \in 1..Len(oplog[n]) :
        DoneWaitingForReplication(n, OpTimeAt(oplog[n], i)) => Has(committed, OpTimeAt(oplog[n], i))

\* What a majority was once counted to have is on a majority for good, in what
\* counts of its members' oplogs, although some roll back and others restart.
CommittedOnMajority ==
    committed # <<>> =>
        Cardinality({ m \in DataMember :
            IsPrefixOf(committed, Upto(oplog[m], Counts(oplog[m], durable[m]).ts)) }) >= WriteMajority

\* A member that has everything that is committed keeps it when it rolls back,
\* whatever source it has diverged from: RollbackImpl::_findCommonPoint compares
\* the common point only with the commit point the member knows of.
RollbackKeepsCommitted ==
    [][\A n \in DataMember :
         IsPrefixOf(committed, oplog[n]) /\ ~ IsPrefixOf(committed, oplog'[n]) => crashes' # crashes]_vars

\* Seen from outside, the members keep one log of committed entries, and show
\* prefixes of it.  A snapshot that a late response has put on an entry that is
\* not committed counts as lost.
ShownBy(n) ==
    IF snapshot[n] # Null /\ Has(committed, snapshot[n]) THEN snapshot[n].ts ELSE 0

Abstract == INSTANCE MajorityLog WITH
    Reader <- DataMember, Entry <- 0..MaxTerm,
    log <- committed, shown <- [n \in DataMember |-> ShownBy(n)]

\* No two primaries ever commit different entries at the same place, and what a
\* majority read has seen at a member stays true and is seen again.
ImplementsMajorityLog == Abstract!Spec
=============================================================================
