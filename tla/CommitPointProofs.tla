------------------------- MODULE CommitPointProofs -------------------------
(****************************************************************************)
(* What is committed stays: every later primary has it, and what has been   *)
(* counted on a majority only grows.                                        *)
(****************************************************************************)
EXTENDS CommitPointInvariant

----------------------------------------------------------------------------
(* The conditions.                                                          *)

\* Nothing is fetched while a member steps down (finding commit_limbo).
NoFetchInLimbo == \A n \in DataMember : role[n] = "SteppingDown" => Len(buffer'[n]) <= Len(buffer[n])

\* m has found that it has to roll back, and will ask n how far.
RollsBackTo(m, n) == producer[m] = "Running" /\ fetcher[m].stage = "Diverged" /\ fetcher[m].source = n

\* A crash loses only what does not count, and does not happen to a member that
\* another one is about to roll back to.
CrashKeepsCounted ==
    \A n \in Member : Crash(n) =>
        \/ durable[n] = Len(oplog[n])
        \/ ShouldJournal /\ \A m \in DataMember : ~RollsBackTo(m, n)

Careful == NoFetchInLimbo /\ CrashKeepsCounted

----------------------------------------------------------------------------
(* The invariant.                                                           *)

Ascending(l) == \A i, j \in 1..Len(l) : i <= j => l[i] <= l[j]

\* Nobody has an entry of a term it does not know of, and terms ascend.
TermInv ==
    \A n \in DataMember :
        /\ \A i \in 1..Len(Fetched(n)) : Fetched(n)[i] <= term[n]
        /\ InCallback(n) => \A i \in 1..Len(fetcher[n].docs) : fetcher[n].docs[i] <= fetcher[n].term
        /\ Ascending(Coming(n))

\* A vote is in the member's term, or in the one it will take.
VoteInv ==
    \A n \in Member : \/ lastVote[n] <= term[n]
                      \/ role[n] = "SteppingDown" /\ lastVote[n] <= pendingTerm[n]

IsCounting(r) == r \in {"LeaderElect", "Master"}

\* What a primary has heard is not of later terms.
PositionInv ==
    \A p \in DataMember : IsCounting(role[p]) => \A m \in Member : position[p][m].term <= term[p]

\* An optime that is committed, or that a later commit point has passed by: a late
\* response may tell a primary of an older term to take its own last entry for
\* committed, and nobody else has that.
PassedIn(l, o) == o = Null \/ Has(l, o) \/ (l # <<>> /\ o.term < Top(l).term)

\* So are all commit points, and what arbiters report, which is their commit point.
PassedInv ==
    /\ \A n \in Member : /\ PassedIn(committed, commitPoint[n])
                         /\ fetcher[n].stage = "Checked" => PassedIn(committed, fetcher[n].committed)
    /\ \A m \in Arbiter : /\ \A o \in reported[m] : PassedIn(committed, o)
                          /\ \A p \in DataMember : IsCounting(role[p]) /\ position[p][m].term = term[p] =>
                                 PassedIn(committed, position[p][m])

Entries == [term : Terms, ts : 1..MaxOplog]

\* An oplog that has e's term at e's place or later; it has e then, if e is in
\* the oplog of the primary of that term.
Covers(o, e) == o.term = e.term /\ e.ts <= o.ts
Beyond(l, e) == \E j \in 1..Len(l) : e.ts <= j /\ l[j] = e.term

\* The same for what counts toward the commit point of an oplog that is
\* journaled up to d.
CountedLength(l, d) == IF ShouldJournal THEN d ELSE Len(l)
HasCounted(l, d, o) == o.ts \in 1..CountedLength(l, d) /\ l[o.ts] = o.term
CountedBeyond(l, d, e) == \E j \in 1..CountedLength(l, d) : e.ts <= j /\ l[j] = e.term

\* m has acknowledged e to the primary of its term, or what it sent is under way.
Acked(m, e) ==
    \/ \E p \in DataMember : IsCounting(role[p]) /\ term[p] = e.term /\ Covers(position[p][m], e)
    \/ \E o \in reported[m] : Covers(o, e)

\* Once a member has voted in a later term it acknowledges nothing more.
MayAck(m, e) == lastVote[m] <= e.term \/ Acked(m, e)

\* Those whose acknowledgement counts.  If all data-bearing members are needed and
\* are fewer than a majority of the votes, an arbiter adds nothing to them.
Acceptors == IF WriteMajority = VoteMajority THEN Member ELSE DataMember
Choosable(e) == Cardinality({m \in Acceptors : MayAck(m, e)}) >= WriteMajority
Protected(e) == Choosable(e) \/ (committed # <<>> /\ e = Top(committed))

\* Whatever may still be, or has been, counted on a majority is in front of
\* every entry of a later term, in every later primary, in the oplogs of those
\* who acknowledged it, and in that of a source from which somebody who has it has diverged.
FollowsEntry(e) ==
    \A n \in DataMember : \A j \in 1..Len(Coming(n)) :
        Coming(n)[j] > e.term => \E k \in 1..j : e.ts <= k /\ Coming(n)[k] = e.term
InPrimaries(e) == \A p \in DataMember : IsPrimary(role[p]) /\ term[p] > e.term => Beyond(oplog[p], e)
InAcknowledging(e) == \A m \in DataMember : Acked(m, e) => CountedBeyond(oplog[m], durable[m], e)
InSource(e) ==
    \A n \in DataMember : producer[n] = "Running" /\ fetcher[n].stage = "Diverged" =>
        (Beyond(Fetched(n), e) => Beyond(oplog[fetcher[n].source], e))
SafeInv ==
    \A e \in Entries : Protected(e) =>
        FollowsEntry(e) /\ InPrimaries(e) /\ InAcknowledging(e) /\ InSource(e)

\* A majority has what is committed, and whoever has an entry of the last
\* committed term that far has all of it.
HasCommitted(l) == \A k \in 1..Len(committed) : l[k] = committed[k]
CommittedInv ==
    committed # <<>> =>
        /\ Cardinality({m \in DataMember : CountedBeyond(oplog[m], durable[m], Top(committed))}) >= WriteMajority
        /\ \A n \in DataMember : \A j \in 1..Len(Coming(n)) :
              Len(committed) <= j /\ Coming(n)[j] = Top(committed).term => HasCommitted(Coming(n))
        /\ OpTimeOK(Top(committed))

CommitInv == OplogInv /\ TermInv /\ VoteInv /\ PositionInv /\ PassedInv /\ SafeInv /\ CommittedInv

----------------------------------------------------------------------------
(* Entries and oplogs.                                                      *)

LEMMA EntryIs ==
    ASSUME NEW e \in Entries
    PROVE  /\ e \in OpTime /\ e.term \in Terms /\ e.term \in Int /\ e.term >= 0
           /\ e.ts \in Int /\ e.ts >= 1 /\ e.ts <= MaxOplog
  BY BoundTypes DEF Entries, OpTime, Terms

LEMMA BeyondKept ==
    ASSUME NEW s \in Oplog, NEW t \in Oplog, Begins(s, t), NEW e, Beyond(s, e)
    PROVE  Beyond(t, e)
  <1>1. Len(s) \in Nat /\ Len(t) \in Nat
    BY DEF Oplog
  <1>2. PICK j \in 1..Len(s) : e.ts <= j /\ s[j] = e.term
    BY DEF Beyond
  <1>3. j \in 1..Len(t) /\ t[j] = s[j]
    BY <1>1, <1>2 DEF Begins
  <1> QED
    BY <1>2, <1>3 DEF Beyond

LEMMA HasIsBeyond ==
    ASSUME NEW l, NEW o, Has(l, o), NEW e, Covers(o, e)
    PROVE  Beyond(l, e)
  BY DEF Has, Covers, Beyond

LEMMA OplogElement ==
    ASSUME NEW l \in Oplog, NEW i \in 1..Len(l)
    PROVE  l[i] \in Int /\ l[i] \in Terms /\ Len(l) \in Nat /\ i \in Nat
  BY BoundTypes DEF Oplog, Terms

LEMMA AscendingPart ==
    ASSUME NEW s \in Oplog, NEW t \in Oplog, Begins(s, t), Ascending(t)
    PROVE  Ascending(s)
  <1>1. Len(s) \in Nat /\ Len(t) \in Nat /\ Len(s) <= Len(t)
    BY DEF Oplog, Begins
  <1>2. ASSUME NEW i \in 1..Len(s), NEW j \in 1..Len(s), i <= j PROVE s[i] <= s[j]
    <2>1. i \in 1..Len(t) /\ j \in 1..Len(t)
      BY <1>1
    <2>2. t[i] <= t[j]
      BY <1>2, <2>1 DEF Ascending
    <2> QED
      BY <2>2 DEF Begins
  <1> QED
    BY <1>2 DEF Ascending

(* An oplog that ends no earlier than one that has e has e, too. *)
LEMMA UpToDate ==
    ASSUME NEW e \in Entries, NEW s \in Oplog, NEW t \in Oplog,
           Len(s) <= MaxOplog, Len(t) <= MaxOplog, Ascending(s), Beyond(s, e),
           AtMost(Top(s), Top(t)), t # <<>>,
           t[Len(t)] > e.term => Beyond(t, e)
    PROVE  Beyond(t, e)
  <1>1. PICK j \in 1..Len(s) : e.ts <= j /\ s[j] = e.term
    BY DEF Beyond
  <1>2. Len(s) \in Nat /\ Len(t) \in Nat /\ j \in Nat /\ s # <<>> /\ Len(s) \in 1..Len(s) /\ Len(t) \in 1..Len(t)
    BY <1>1 DEF Oplog
  <1>3. /\ s[j] \in Int /\ s[Len(s)] \in Int /\ t[Len(t)] \in Int
    BY <1>2, OplogElement
  <1>4. s[j] <= s[Len(s)]
    BY <1>2 DEF Ascending
  <1>5. /\ Top(s) \in OpTime /\ Top(t) \in OpTime
        /\ Top(s).term = s[Len(s)] /\ Top(s).ts = Len(s) /\ Top(t).term = t[Len(t)] /\ Top(t).ts = Len(t)
    BY <1>2, TopType
  <1>6. s[Len(s)] < t[Len(t)] \/ (s[Len(s)] = t[Len(t)] /\ Len(s) <= Len(t))
    BY <1>5, OrderOfOpTimes
  <1>7. e.ts \in Int
    BY EntryIs
  <1>8. CASE t[Len(t)] > e.term
    BY <1>8
  <1>9. CASE ~(t[Len(t)] > e.term)
    <2>1. t[Len(t)] = e.term /\ Len(s) <= Len(t)
      BY <1>1, <1>3, <1>4, <1>6, <1>9
    <2>2. e.ts <= Len(t)
      BY <1>1, <1>2, <1>7, <2>1
    <2> QED
      BY <1>2, <2>1, <2>2 DEF Beyond
  <1> QED
    BY <1>8, <1>9

\* What S1 says of the oplog of a member that ends in a later term.
LEMMA LaterHasEntry ==
    ASSUME Shape, NEW e \in Entries, FollowsEntry(e), NEW n \in DataMember, NEW l \in Oplog,
           Begins(l, Coming(n)), l # <<>>, l[Len(l)] > e.term
    PROVE  Beyond(l, e)
  <1>1. n \in Member
    BY BoundTypes
  <1>2. Len(l) \in Nat /\ Len(Coming(n)) \in Nat /\ Len(l) <= Len(Coming(n)) /\ Len(l) \in 1..Len(l)
    BY <1>1, ComingShape DEF Oplog, Begins
  <1>3. Len(l) \in 1..Len(Coming(n)) /\ Coming(n)[Len(l)] > e.term
    BY <1>2 DEF Begins
  <1>4. PICK k \in 1..Len(l) : e.ts <= k /\ Coming(n)[k] = e.term
    BY <1>3 DEF FollowsEntry
  <1> QED
    BY <1>2, <1>4 DEF Beyond, Begins


LEMMA OplogLength ==
    ASSUME NEW l \in Oplog
    PROVE  Len(l) \in Nat
  BY DEF Oplog

\* What counts.
LEMMA CountsHas ==
    ASSUME NEW l \in Oplog, NEW d \in Nat, d <= Len(l), NEW o, o = Counts(l, d), o # Null, Has(l, o)
    PROVE  HasCounted(l, d, o)
  <1>0. Len(l) \in Nat
    BY OplogLength
  <1>1. o.ts \in 1..Len(l) /\ l[o.ts] = o.term
    BY DEF Has
  <1>2. CASE ShouldJournal
    <2>1. o = OpTimeAt(l, d)
      BY <1>2 DEF Counts
    <2>2. d # 0
      BY <2>1 DEF OpTimeAt
    <2>3. o.ts = d
      BY <2>1, <2>2 DEF OpTimeAt
    <2> QED
      BY <1>0, <1>1, <1>2, <2>2, <2>3 DEF HasCounted, CountedLength
  <1>3. CASE ~ShouldJournal
    BY <1>0, <1>1, <1>3 DEF HasCounted, CountedLength
  <1> QED
    BY <1>2, <1>3

LEMMA CountedIsBeyond ==
    ASSUME NEW l \in Oplog, NEW d \in Nat, d <= Len(l), NEW e, CountedBeyond(l, d, e)
    PROVE  Beyond(l, e)
  <1>1. Len(l) \in Nat
    BY OplogLength
  <1>2. PICK j \in 1..CountedLength(l, d) : e.ts <= j /\ l[j] = e.term
    BY DEF CountedBeyond
  <1>3. j \in 1..Len(l)
    BY <1>1, <1>2 DEF CountedLength
  <1> QED
    BY <1>2, <1>3 DEF Beyond

LEMMA HasIsCounted ==
    ASSUME NEW l, NEW d, NEW o, HasCounted(l, d, o), NEW e, Covers(o, e)
    PROVE  CountedBeyond(l, d, e)
  BY DEF HasCounted, Covers, CountedBeyond

LEMMA CountedKept ==
    ASSUME NEW s \in Oplog, NEW t \in Oplog, Begins(s, t), NEW c \in Nat, NEW d \in Nat, c <= d, c <= Len(s),
           NEW e, CountedBeyond(s, c, e)
    PROVE  CountedBeyond(t, d, e)
  <1>1. Len(s) \in Nat /\ Len(t) \in Nat /\ Len(s) <= Len(t) /\ \A k \in 1..Len(s) : t[k] = s[k]
    BY OplogLength DEF Begins
  <1>2. PICK j \in 1..CountedLength(s, c) : e.ts <= j /\ s[j] = e.term
    BY DEF CountedBeyond
  <1>3. j \in 1..Len(s) /\ j \in 1..CountedLength(t, d)
    BY <1>1, <1>2 DEF CountedLength
  <1> QED
    BY <1>1, <1>2, <1>3 DEF CountedBeyond

LEMMA CountedAll ==
    ASSUME NEW l \in Oplog, NEW e, Beyond(l, e)
    PROVE  CountedBeyond(l, Len(l), e)
  BY DEF Beyond, CountedBeyond, CountedLength
----------------------------------------------------------------------------
(* What steps do to terms, positions and reports.                           *)

\* m may have sent o, in its term, to the primary of that term.
Left(m, o) ==
    /\ o = Reached(m) /\ o.term = term[m]
    /\ \E p \in Member \ {m} : IsPrimary(role[p]) /\ term[p] = term[m]

ReportsKept == \A m \in Member : \A o \in reported'[m] : o \in reported[m] \/ Left(m, o)

\* The term of n only rises, and a pending one is kept or taken.
TermStep(n) ==
    /\ term'[n] >= term[n]
    /\ role[n] = "SteppingDown" =>
          \/ term'[n] >= pendingTerm[n]
          \/ role'[n] = "SteppingDown" /\ pendingTerm'[n] >= pendingTerm[n]

CountingKept(p) ==
    IsCounting(role'[p]) => IsCounting(role[p]) /\ term'[p] = term[p] /\ position'[p] = position[p]

\* Nothing is written, journaled, counted or lost.
Quiet ==
    /\ oplog' = oplog /\ durable' = durable /\ lastVote' = lastVote /\ committed' = committed /\ ReportsKept
    /\ \A m \in Member : TermStep(m)
    /\ \A p \in DataMember : CountingKept(p)

LEMMA LeaveKeeps ==
    ASSUME Shape, NEW S, Leave(S)
    PROVE  ReportsKept
  <1> SUFFICES ASSUME NEW m \in Member, NEW o \in reported'[m], o \notin reported[m]
               PROVE  Left(m, o)
    BY DEF ReportsKept
  <1>1. reported'[m] = IF /\ m \in S /\ Reached(m).term = term[m]
                          /\ \E p \in Member \ {m} : IsPrimary(role[p]) /\ term[p] = term[m]
                         THEN reported[m] \cup {Reached(m)} ELSE reported[m]
    BY DEF Leave
  <1> QED
    BY <1>1 DEF Left

LEMMA UpdateTermQuiet ==
    ASSUME Shape, NEW n \in Member, NEW t \in Terms, UpdateTerm(n, t), position' = position
    PROVE  ReportsKept /\ (\A m \in Member : TermStep(m)) /\ \A p \in DataMember : CountingKept(p)
  <1>0. \A m \in Member : term[m] \in Int /\ pendingTerm[m] \in Int
    BY MemberShape, BoundTypes DEF Terms
  <1>1. ReportsKept
    <2>1. reported' = reported \/ \E S : Leave(S)
      BY DEF UpdateTerm
    <2> QED
      BY <2>1, LeaveKeeps DEF ReportsKept
  <1>2. /\ \A m \in Member \ {n} : role'[m] = role[m] /\ term'[m] = term[m] /\ pendingTerm'[m] = pendingTerm[m]
        /\ IsPrimary(role[n]) /\ t > term[n] =>
              /\ role'[n] = "SteppingDown" /\ pendingTerm'[n] >= pendingTerm[n] /\ term' = term
        /\ ~(IsPrimary(role[n]) /\ t > term[n]) => role' = role /\ pendingTerm' = pendingTerm
        /\ ~(IsPrimary(role[n]) /\ t > term[n]) => term'[n] >= term[n]
        /\ IsPrimary(role[n]) => term' = term
    BY UpdateTermIs
  <1>3. ASSUME NEW m \in Member PROVE TermStep(m)
    BY <1>0, <1>2 DEF TermStep
  <1>4. ASSUME NEW p \in DataMember PROVE CountingKept(p)
    <2>0. p \in Member
      BY BoundTypes
    <2>1. CASE p = n
      BY <1>2, <2>0, <2>1 DEF CountingKept, IsCounting, IsPrimary
    <2>2. CASE p # n
      BY <1>2, <2>0, <2>2 DEF CountingKept
    <2> QED
      BY <2>1, <2>2
  <1> QED
    BY <1>1, <1>3, <1>4

LEMMA SameTerms ==
    ASSUME Shape, term' = term, pendingTerm' = pendingTerm,
           \A m \in Member : role'[m] = role[m] \/ role'[m] = "SteppingDown", reported' = reported
    PROVE  ReportsKept /\ \A m \in Member : TermStep(m)
  <1>0. \A m \in Member : term[m] \in Int /\ pendingTerm[m] \in Int
    BY MemberShape, BoundTypes DEF Terms
  <1> QED
    BY <1>0 DEF ReportsKept, TermStep

LEMMA StepDownQuiet ==
    ASSUME Shape, NEW n \in DataMember, StepDownFinish(n)
    PROVE  Quiet
  <1>0. n \in Member /\ (\A m \in Member : term[m] \in Int /\ pendingTerm[m] \in Int)
        /\ role \in [Member -> Roles] /\ term \in [Member -> Terms] /\ pendingTerm \in [Member -> Terms]
        /\ position \in [Member -> [Member -> OpTime]]
    BY MemberShape, TypeParts, BoundTypes DEF Terms, Shape
  <1>1. /\ oplog' = oplog /\ durable' = durable /\ lastVote' = lastVote /\ committed' = committed
        /\ Leave({n}) /\ role' = [role EXCEPT ![n] = "Follower"]
        /\ term' = [term EXCEPT ![n] = IF pendingTerm[n] > @ THEN pendingTerm[n] ELSE @]
        /\ pendingTerm' = [pendingTerm EXCEPT ![n] = 0]
        /\ position' = [position EXCEPT ![n] = NoPositions]
    BY DEF StepDownFinish, logVars, commitVars
  <1>2. ReportsKept
    BY <1>1, LeaveKeeps
  <1>3. ASSUME NEW m \in Member PROVE TermStep(m)
    <2>1. CASE m = n
      <3>1. term'[n] = IF pendingTerm[n] > term[n] THEN pendingTerm[n] ELSE term[n]
        BY <1>0, <1>1
      <3> QED
        BY <1>0, <2>1, <3>1 DEF TermStep
    <2>2. CASE m # n
      <3>1. role'[m] = role[m] /\ term'[m] = term[m] /\ pendingTerm'[m] = pendingTerm[m]
        BY <1>0, <1>1, <2>2
      <3> QED
        BY <1>0, <3>1 DEF TermStep
    <2> QED
      BY <2>1, <2>2
  <1>4. ASSUME NEW p \in DataMember PROVE CountingKept(p)
    <2>0. p \in Member
      BY BoundTypes
    <2>1. CASE p = n
      <3>1. role'[n] = "Follower"
        BY <1>0, <1>1
      <3> QED
        BY <2>1, <3>1 DEF CountingKept, IsCounting
    <2>2. CASE p # n
      <3>1. role'[p] = role[p] /\ term'[p] = term[p] /\ position'[p] = position[p]
        BY <1>0, <1>1, <2>0, <2>2
      <3> QED
        BY <3>1 DEF CountingKept
    <2> QED
      BY <2>1, <2>2
  <1> QED
    BY <1>1, <1>2, <1>3, <1>4 DEF Quiet

LEMMA QuietSteps ==
    ASSUME Shape, NEW n \in DataMember,
           \/ EnterDrainMode(n) \/ StepDownSelf(n) \/ StepDownFinish(n) \/ StartProducer(n)
           \/ AdvanceCommitPoint(n) \/ ProcessBatch(n) \/ \E s \in DataMember : Find(n, s) \/ GetMore(n, s)
    PROVE  Quiet
  <1>0. n \in Member /\ role \in [Member -> Roles] /\ term \in [Member -> Terms]
    BY BoundTypes, TypeParts DEF Shape
  <1>1. CASE EnterDrainMode(n) \/ StepDownSelf(n) \/ StartProducer(n) \/ AdvanceCommitPoint(n)
    <2>1. /\ oplog' = oplog /\ durable' = durable /\ lastVote' = lastVote /\ committed' = committed /\ term' = term
          /\ pendingTerm' = pendingTerm /\ position' = position /\ reported' = reported
          /\ role' = role \/ role' = [role EXCEPT ![n] = "SteppingDown"]
      BY <1>1 DEF EnterDrainMode, StepDownSelf, StartProducer, AdvanceCommitPoint, electionVars, logVars,
                  positionVars, commitVars
    <2>2. \A m \in Member : role'[m] = role[m] \/ role'[m] = "SteppingDown"
      BY <1>0, <2>1
    <2>3. \A p \in DataMember : CountingKept(p)
      <3>1. \A p \in DataMember : p \in Member
        BY BoundTypes
      <3> QED
        BY <2>1, <2>2, <3>1 DEF CountingKept, IsCounting
    <2> QED
      BY <2>1, <2>2, <2>3, SameTerms DEF Quiet
  <1>2. CASE StepDownFinish(n)
    BY <1>2, StepDownQuiet
  <1>3. CASE ProcessBatch(n)
    <2>1. /\ oplog' = oplog /\ durable' = durable /\ lastVote' = lastVote /\ committed' = committed /\ position' = position
          /\ UpdateTerm(n, fetcher[n].term) /\ fetcher[n].stage = "Advanced"
      BY <1>3 DEF ProcessBatch, logVars, commitVars
    <2>2. fetcher[n].term \in Terms
      BY <1>0, <2>1, MemberShape, ResponseIs
    <2> QED
      BY <1>0, <2>1, <2>2, UpdateTermQuiet DEF Quiet
  <1>4. CASE \E s \in DataMember : Find(n, s) \/ GetMore(n, s)
    <2>1. PICK s \in DataMember : Find(n, s) \/ GetMore(n, s)
      BY <1>4
    <2>2. \E f : Answer(n, s, f)
      BY <2>1 DEF Find, GetMore
    <2>3. /\ oplog' = oplog /\ durable' = durable /\ lastVote' = lastVote /\ committed' = committed /\ position' = position
          /\ UpdateTerm(s, term[n])
      BY <2>2 DEF Answer, logVars, commitVars
    <2>4. s \in Member /\ term[n] \in Terms
      BY <1>0, BoundTypes
    <2> QED
      BY <2>3, <2>4, UpdateTermQuiet DEF Quiet
  <1> QED
    BY <1>1, <1>2, <1>3, <1>4

LEMMA HeartbeatQuiet ==
    ASSUME Shape, NEW n \in Member, NEW m \in Member, LearnTerm(n, m) \/ ArbiterHeartbeat(n, m)
    PROVE  Quiet
  <1>1. /\ oplog' = oplog /\ durable' = durable /\ lastVote' = lastVote /\ committed' = committed /\ position' = position
        /\ UpdateTerm(n, term[m])
    BY DEF LearnTerm, ArbiterHeartbeat, logVars, commitVars
  <1>2. term[m] \in Terms
    BY MemberShape
  <1> QED
    BY <1>1, <1>2, UpdateTermQuiet DEF Quiet

\* The entry that n writes.
Appends(n) ==
    /\ IsPrimary(role[n]) /\ producer[n] = "Stopped" /\ buffer[n] = <<>>
    /\ Len(oplog'[n]) = Len(oplog[n]) + 1 /\ Begins(oplog[n], oplog'[n])
    /\ oplog'[n][Len(oplog'[n])] = term[n] /\ buffer'[n] = <<>>

\* n writes, journals or applies, and sets its optimes.
MyStep(n) ==
    /\ \E l \in Oplog, d \in Nat, v \in Nat :
          /\ Len(l) <= MaxOplog /\ d <= v /\ v <= Len(l) /\ Begins(oplog[n], l)
          /\ oplog' = [oplog EXCEPT ![n] = l] /\ SetMyOpTimes(n, role'[n], l, d, v)
    /\ \A m \in Member \ {n} : role'[m] = role[m] /\ buffer'[m] = buffer[m] /\ durable'[m] = durable[m]
    /\ durable'[n] >= durable[n]
    /\ role'[n] = role[n] \/ (role[n] = "LeaderElect" /\ role'[n] = "Master")
    /\ term' = term /\ pendingTerm' = pendingTerm /\ lastVote' = lastVote
    /\ producer' = producer /\ fetcher' = fetcher /\ reported' = reported
    /\ Fetched(n)' = Fetched(n) \/ Appends(n)

LEMMA SetMyDurable ==
    ASSUME Shape, NEW n \in Member, NEW r, NEW l, NEW d \in Nat, NEW v, SetMyOpTimes(n, r, l, d, v), durable[n] <= d
    PROVE  durable'[n] = d /\ durable'[n] >= durable[n] /\ \A m \in Member \ {n} : durable'[m] = durable[m]
  <1>1. durable' = [durable EXCEPT ![n] = d]
    BY SetMyLog
  <1>2. durable \in [Member -> Nat]
    BY TypeParts DEF Shape
  <1> QED
    BY <1>1, <1>2

LEMMA AppendStep ==
    ASSUME Shape, NEW n \in DataMember, NEW r, LogOp(n, r), role'[n] = r,
           IsPrimary(role[n]), producer[n] = "Stopped", buffer[n] = <<>>,
           \A m \in Member \ {n} : role'[m] = role[m],
           role'[n] = role[n] \/ (role[n] = "LeaderElect" /\ role'[n] = "Master"),
           term' = term, pendingTerm' = pendingTerm, lastVote' = lastVote,
           producer' = producer, fetcher' = fetcher, reported' = reported, buffer' = buffer
    PROVE  MyStep(n)
  <1>0. n \in Member /\ oplog \in [Member -> Oplog]
    BY BoundTypes, TypeParts DEF Shape
  <1>1. PICK l \in Oplog, d \in Nat, v \in Nat :
              /\ l = Append(oplog[n], term[n]) /\ Len(l) = Len(oplog[n]) + 1 /\ Len(l) <= MaxOplog
              /\ Begins(oplog[n], l) /\ l[Len(l)] = term[n]
              /\ d <= v /\ v <= Len(l) /\ durable[n] <= d /\ visible[n] <= v
              /\ ~JournalLags => d = Len(l)
              /\ SetMyOpTimes(n, r, l, d, v)
    BY AppendIs
  <1>2. oplog' = [oplog EXCEPT ![n] = l]
    BY <1>1, SetMyLog
  <1>3. oplog'[n] = l
    BY <1>0, <1>2
  <1>4. Appends(n)
    BY <1>1, <1>3 DEF Appends
  <1>8. durable'[n] >= durable[n] /\ \A m \in Member \ {n} : durable'[m] = durable[m]
    BY <1>0, <1>1, SetMyDurable
  <1>5. /\ Len(l) <= MaxOplog /\ d <= v /\ v <= Len(l) /\ Begins(oplog[n], l)
        /\ oplog' = [oplog EXCEPT ![n] = l] /\ SetMyOpTimes(n, role'[n], l, d, v)
    BY <1>1, <1>2
  <1>6. \A m \in Member \ {n} : role'[m] = role[m] /\ buffer'[m] = buffer[m]
    OBVIOUS
  <1>7. \E k \in Oplog, x \in Nat, y \in Nat :
          /\ Len(k) <= MaxOplog /\ x <= y /\ y <= Len(k) /\ Begins(oplog[n], k)
          /\ oplog' = [oplog EXCEPT ![n] = k] /\ SetMyOpTimes(n, role'[n], k, x, y)
    BY <1>5
  <1> QED
    BY <1>4, <1>6, <1>7, <1>8 DEF MyStep

LEMMA MySteps ==
    ASSUME Shape, LogInv, NEW n \in DataMember,
           SignalDrainComplete(n) \/ Write(n) \/ Journal(n) \/ ApplyBatch(n)
    PROVE  MyStep(n)
  <1>0. n \in Member /\ oplog \in [Member -> Oplog] /\ buffer \in [Member -> Oplog] /\ role \in [Member -> Roles]
        /\ oplog[n] \in Oplog /\ Len(oplog[n]) <= MaxOplog
    BY BoundTypes, TypeParts, MemberShape, ComingShape DEF Shape
  <1>1. CASE SignalDrainComplete(n)
    <2> DEFINE r == "Master"
    <2>1. /\ LogOp(n, r) /\ role' = [role EXCEPT ![n] = "Master"] /\ role[n] = "LeaderElect"
          /\ producer[n] = "Stopped" /\ buffer[n] = <<>>
          /\ term' = term /\ pendingTerm' = pendingTerm /\ lastVote' = lastVote /\ buffer' = buffer
          /\ producer' = producer /\ fetcher' = fetcher /\ reported' = reported
      BY <1>1 DEF SignalDrainComplete, fetchVars
    <2>2. role'[n] = r /\ IsPrimary(role[n]) /\ \A m \in Member \ {n} : role'[m] = role[m]
      BY <1>0, <2>1 DEF IsPrimary
    <2>3. role'[n] = role[n] \/ (role[n] = "LeaderElect" /\ role'[n] = "Master")
      BY <2>1, <2>2
    <2> HIDE DEF r
    <2> QED
      BY <2>1, <2>2, <2>3, AppendStep
  <1>2. CASE Write(n)
    <2> DEFINE r == role[n]
    <2>1. /\ LogOp(n, r) /\ role' = role /\ role[n] \in {"Master", "SteppingDown"}
          /\ FirstOpTimeOfMyTerm(oplog[n], term[n]) # MaxOpTime
          /\ term' = term /\ pendingTerm' = pendingTerm /\ lastVote' = lastVote /\ buffer' = buffer
          /\ producer' = producer /\ fetcher' = fetcher /\ reported' = reported
      BY <1>2 DEF Write, fetchVars, electionVars
    <2>2. term[n] \in Terms
      BY <1>0, MemberShape
    <2>3. PICK i \in 1..Len(oplog[n]) : oplog[n][i] = term[n]
      BY <1>0, <2>1, <2>2, FirstIs
    <2>4. IsPrimary(role[n])
      BY <2>1 DEF IsPrimary
    <2>5. producer[n] = "Stopped" /\ buffer[n] = <<>>
      BY <2>3, <2>4 DEF LogInv, DrainInv
    <2>6. role'[n] = r /\ \A m \in Member \ {n} : role'[m] = role[m]
      BY <2>1
    <2>7. role'[n] = role[n] \/ (role[n] = "LeaderElect" /\ role'[n] = "Master")
      BY <2>1
    <2> HIDE DEF r
    <2> QED
      BY <2>1, <2>4, <2>5, <2>6, <2>7, AppendStep
  <1>3. CASE Journal(n)
    <2>1. /\ SetMyOpTimes(n, role[n], oplog[n], Len(oplog[n]), Len(oplog[n]))
          /\ Len(oplog[n]) \in Nat /\ durable[n] < Len(oplog[n]) /\ role[n] # "Aborted"
          /\ oplog[n] \in Oplog /\ Len(oplog[n]) <= MaxOplog
          /\ role' = role /\ term' = term /\ pendingTerm' = pendingTerm /\ lastVote' = lastVote
          /\ buffer' = buffer /\ producer' = producer /\ fetcher' = fetcher /\ reported' = reported
      BY <1>3, JournalIs
    <2> DEFINE l == oplog[n]
    <2>2. oplog' = [oplog EXCEPT ![n] = l]
      BY <2>1, SetMyLog
    <2>3. Begins(oplog[n], l) /\ Len(l) <= Len(l)
      BY <1>0, <2>1, BeginsItself
    <2>4. \E k \in Oplog, x \in Nat, y \in Nat :
            /\ Len(k) <= MaxOplog /\ x <= y /\ y <= Len(k) /\ Begins(oplog[n], k)
            /\ oplog' = [oplog EXCEPT ![n] = k] /\ SetMyOpTimes(n, role'[n], k, x, y)
      <3>1. SetMyOpTimes(n, role'[n], l, Len(l), Len(l))
        BY <2>1
      <3> HIDE DEF l
      <3>2. l \in Oplog /\ Len(l) \in Nat /\ Len(l) <= MaxOplog
        BY <2>1 DEF l
      <3> QED
        BY <2>2, <2>3, <3>1, <3>2
    <2>5. Fetched(n)' = Fetched(n)
      BY <1>0, <2>1, <2>2 DEF Fetched
    <2>6. durable'[n] >= durable[n] /\ \A m \in Member \ {n} : durable'[m] = durable[m]
      BY <1>0, <2>1, SetMyDurable, MemberShape
    <2> QED
      BY <2>1, <2>4, <2>5, <2>6 DEF MyStep
  <1>4. CASE ApplyBatch(n)
    <2>1. PICK l \in Oplog, rest \in Oplog, d \in Nat :
           /\ SetMyOpTimes(n, role[n], l, d, Len(l))
           /\ d <= Len(l) /\ Len(l) \in Nat /\ durable[n] <= d
           /\ ~JournalLags => d = Len(l)
           /\ Len(l) <= MaxOplog /\ Begins(oplog[n], l)
           /\ l \o rest = Fetched(n) /\ buffer' = [buffer EXCEPT ![n] = rest]
           /\ role' = role /\ term' = term /\ pendingTerm' = pendingTerm /\ lastVote' = lastVote
           /\ producer' = producer /\ fetcher' = fetcher /\ reported' = reported
           /\ crashes' = crashes
      BY <1>4, ApplyBatchIs
    <2>2. oplog' = [oplog EXCEPT ![n] = l]
      BY <2>1, SetMyLog
    <2>4. \E k \in Oplog, x \in Nat, y \in Nat :
            /\ Len(k) <= MaxOplog /\ x <= y /\ y <= Len(k) /\ Begins(oplog[n], k)
            /\ oplog' = [oplog EXCEPT ![n] = k] /\ SetMyOpTimes(n, role'[n], k, x, y)
      <3>1. SetMyOpTimes(n, role'[n], l, d, Len(l)) /\ Len(l) <= Len(l)
        BY <2>1
      <3> QED
        BY <2>1, <2>2, <3>1
    <2>5. Fetched(n)' = Fetched(n)
      <3>1. oplog'[n] = l /\ buffer'[n] = rest
        BY <1>0, <2>1, <2>2
      <3> QED
        BY <2>1, <3>1 DEF Fetched
    <2>6. \A m \in Member \ {n} : buffer'[m] = buffer[m]
      BY <1>0, <2>1
    <2>7. durable'[n] >= durable[n] /\ \A m \in Member \ {n} : durable'[m] = durable[m]
      BY <1>0, <2>1, SetMyDurable
    <2> QED
      BY <2>1, <2>4, <2>5, <2>6, <2>7 DEF MyStep
  <1> QED
    BY <1>1, <1>2, <1>3, <1>4

----------------------------------------------------------------------------
(* Terms.                                                                   *)

LEMMA TermIntegers ==
    ASSUME Shape, NEW n \in Member
    PROVE  term[n] \in Int /\ pendingTerm[n] \in Int /\ lastVote[n] \in Int
  BY MemberShape, BoundTypes DEF Terms

LEMMA ReceiveQuiet ==
    ASSUME Shape, NEW n \in DataMember, NEW m \in Member, NEW r \in Reports(m), ReceivePosition(n, m, r)
    PROVE  /\ ReportsKept /\ \A q \in Member : TermStep(q)
           /\ oplog' = oplog /\ durable' = durable /\ lastVote' = lastVote /\ buffer' = buffer /\ fetcher' = fetcher /\ producer' = producer
  <1>1. /\ UpdateTerm(n, r.term)
        /\ lastVote' = lastVote /\ oplog' = oplog /\ durable' = durable /\ buffer' = buffer
        /\ fetcher' = fetcher /\ producer' = producer
    BY DEF ReceivePosition, logVars, fetchVars
  <1>2. r.term \in Terms /\ n \in Member
    <2>1. PICK pos \in [Member -> OpTime], nr \in Roles :
           /\ pos = [position[n] EXCEPT ![m] = r.position]
           /\ nr = (IF r.term > term[n] THEN "SteppingDown" ELSE role[n])
           /\ IsPrimary(role[n]) /\ m # n /\ r.position.term = term[n] /\ r.term \in Terms
           /\ UpdateTerm(n, r.term)
           /\ position' = [position EXCEPT ![n] = pos]
           /\ SetCommitPoint(n, UpdateLastCommittedOpTime(n, nr, oplog[n], pos), candidates[n], FALSE)
           /\ UpdateLastCommittedOpTime(n, nr, oplog[n], pos) \in OpTime
           /\ Declare(n, oplog[n], UpdateLastCommittedOpTime(n, nr, oplog[n], pos))
           /\ lastVote' = lastVote /\ oplog' = oplog /\ durable' = durable /\ visible' = visible
           /\ buffer' = buffer /\ producer' = producer /\ fetcher' = fetcher /\ crashes' = crashes
      BY ReceivePositionIs
    <2> QED
      BY <2>1, BoundTypes
  <1>3. ReportsKept
    <2>1. reported' = reported \/ \E S : Leave(S)
      BY <1>1 DEF UpdateTerm
    <2> QED
      BY <2>1, LeaveKeeps DEF ReportsKept
  <1> DEFINE t == r.term
  <1>4. t \in Terms /\ UpdateTerm(n, t)
    BY <1>1, <1>2
  <1> HIDE DEF t
  <1>5. /\ \A q \in Member \ {n} : role'[q] = role[q] /\ term'[q] = term[q] /\ pendingTerm'[q] = pendingTerm[q]
        /\ IsPrimary(role[n]) /\ t > term[n] =>
              /\ role'[n] = "SteppingDown" /\ pendingTerm'[n] >= pendingTerm[n] /\ term' = term
        /\ ~(IsPrimary(role[n]) /\ t > term[n]) => role' = role /\ pendingTerm' = pendingTerm
        /\ ~(IsPrimary(role[n]) /\ t > term[n]) => term'[n] >= term[n]
    BY <1>2, <1>4, UpdateTermIs
  <1>6. ASSUME NEW q \in Member PROVE TermStep(q)
    BY <1>5, TermIntegers DEF TermStep
  <1> QED
    BY <1>1, <1>3, <1>6

LEMMA RollbackQuiet ==
    ASSUME Shape, NEW n \in DataMember, Rollback(n)
    PROVE  /\ ReportsKept /\ \A q \in Member : TermStep(q)
           /\ lastVote' = lastVote /\ term' = term /\ buffer' = buffer /\ producer' = producer /\ position' = position
           /\ committed' = committed /\ buffer[n] = <<>>
           /\ \A m \in Member : m # n => role'[m] = role[m] /\ fetcher'[m] = fetcher[m] /\ oplog'[m] = oplog[m]
           /\ role'[n] \in {"Follower", "Aborted"} /\ role[n] = "Follower"
           /\ oplog'[n] \in Oplog /\ Begins(oplog'[n], oplog[n])
  <1>0. n \in Member /\ role \in [Member -> Roles] /\ fetcher \in [Member -> Response] /\ oplog \in [Member -> Oplog]
    BY BoundTypes, TypeParts DEF Shape
  <1>1. /\ role[n] = "Follower" /\ buffer[n] = <<>> /\ term' = term /\ pendingTerm' = pendingTerm
        /\ lastVote' = lastVote /\ buffer' = buffer
        /\ producer' = producer /\ position' = position /\ committed' = committed
        /\ \/ /\ role' = [role EXCEPT ![n] = "Aborted"] /\ oplog' = oplog
              /\ fetcher' = fetcher /\ reported' = reported
           \/ \E i \in 1..Len(oplog[n]) :
                 /\ Upto(oplog[n], i) \in Oplog
                 /\ Begins(Upto(oplog[n], i), oplog[n])
                 /\ oplog' = [oplog EXCEPT ![n] = Upto(oplog[n], i)]
                 /\ fetcher' = [fetcher EXCEPT ![n] = NoFetch] /\ Leave({n}) /\ role' = role
    BY RollbackIs
  <1>2. ReportsKept
    BY <1>1, LeaveKeeps DEF ReportsKept
  <1>3. \A m \in Member : m # n => role'[m] = role[m] /\ fetcher'[m] = fetcher[m] /\ oplog'[m] = oplog[m]
    BY <1>0, <1>1
  <1>4. role'[n] \in {"Follower", "Aborted"}
    BY <1>0, <1>1
  <1>5. ASSUME NEW q \in Member PROVE TermStep(q)
    <2>1. CASE q = n
      BY <1>1, <2>1, TermIntegers DEF TermStep
    <2>2. CASE q # n
      BY <1>1, <1>3, <2>2, TermIntegers DEF TermStep
    <2> QED
      BY <2>1, <2>2
  <1>6. oplog'[n] \in Oplog /\ Begins(oplog'[n], oplog[n])
    <2>1. CASE oplog' = oplog
      BY <1>0, <2>1, BeginsItself
    <2>2. CASE \E i \in 1..Len(oplog[n]) : /\ Upto(oplog[n], i) \in Oplog /\ Begins(Upto(oplog[n], i), oplog[n])
                                           /\ oplog' = [oplog EXCEPT ![n] = Upto(oplog[n], i)]
      BY <1>0, <2>2
    <2> QED
      BY <1>1, <2>1, <2>2
  <1> QED
    BY <1>1, <1>2, <1>3, <1>4, <1>5, <1>6

\* The steps of Next by what they do to votes, positions and oplogs.
LEMMA CommitSteps ==
    ASSUME Shape, LogInv, Next
    PROVE  \/ Quiet
           \/ \E n \in DataMember : \E Q \in SUBSET Member : Elect(n, Q)
           \/ \E n \in DataMember : MyStep(n)
           \/ \E n \in DataMember, m \in Member : \E r \in Reports(m) : ReceivePosition(n, m, r)
           \/ \E n \in DataMember : Rollback(n)
           \/ \E n \in Member : Crash(n)
  <1>1. ASSUME NEW n \in DataMember,
           \/ EnterDrainMode(n) \/ StepDownSelf(n) \/ StepDownFinish(n) \/ StartProducer(n)
           \/ AdvanceCommitPoint(n) \/ ProcessBatch(n) \/ \E s \in DataMember : Find(n, s) \/ GetMore(n, s)
        PROVE  Quiet
    BY <1>1, QuietSteps
  <1>2. ASSUME NEW n \in DataMember,
           SignalDrainComplete(n) \/ Write(n) \/ Journal(n) \/ ApplyBatch(n)
        PROVE  MyStep(n)
    BY <1>2, MySteps
  <1>3. ASSUME NEW n \in Member, NEW m \in Member, LearnTerm(n, m) \/ ArbiterHeartbeat(n, m)
        PROVE  Quiet
    BY <1>3, HeartbeatQuiet
  <1> QED
    BY <1>1, <1>2, <1>3, Actions

LEMMA MyTermStep ==
    ASSUME Shape, NEW n \in DataMember, MyStep(n)
    PROVE  (\A q \in Member : TermStep(q)) /\ lastVote' = lastVote /\ ReportsKept
  <1>1. /\ term' = term /\ pendingTerm' = pendingTerm /\ lastVote' = lastVote /\ reported' = reported
        /\ \A m \in Member \ {n} : role'[m] = role[m]
        /\ role'[n] = role[n] \/ (role[n] = "LeaderElect" /\ role'[n] = "Master")
    BY DEF MyStep
  <1>2. ASSUME NEW q \in Member PROVE TermStep(q)
    BY <1>1, TermIntegers DEF TermStep
  <1> QED
    BY <1>1, <1>2 DEF ReportsKept

LEMMA VoteStep ==
    ASSUME Shape, LogInv, VoteInv, Next
    PROVE  VoteInv'
  <1>1. ASSUME \A m \in Member : TermStep(m), lastVote' = lastVote, TypeInv' PROVE VoteInv'
    <2> SUFFICES ASSUME NEW m \in Member
                 PROVE  \/ lastVote'[m] <= term'[m]
                        \/ role'[m] = "SteppingDown" /\ lastVote'[m] <= pendingTerm'[m]
      BY DEF VoteInv
    <2>1. TermStep(m) /\ lastVote'[m] = lastVote[m] /\ lastVote[m] \in Int /\ term[m] \in Int /\ pendingTerm[m] \in Int
      BY <1>1, TermIntegers
    <2>2. term'[m] \in Int /\ pendingTerm'[m] \in Int
      BY <1>1, BoundTypes DEF TypeInv, ControlType, Terms
    <2>3. lastVote[m] <= term[m] \/ (role[m] = "SteppingDown" /\ lastVote[m] <= pendingTerm[m])
      BY DEF VoteInv
    <2> QED
      BY <2>1, <2>2, <2>3 DEF TermStep
  <1>2. TypeInv'
    BY TypeStep
  <1>3. CASE Quiet
    BY <1>1, <1>2, <1>3 DEF Quiet
  <1>4. ASSUME NEW n \in DataMember, NEW Q \in SUBSET Member, Elect(n, Q) PROVE VoteInv'
    <2>0. n \in Member
      BY BoundTypes
    <2>1. /\ \A v \in Q : role[v] \in {"Follower", "SteppingDown"}
          /\ \A m \in Member \ {n} : role'[m] = role[m]
          /\ \A m \in Member : m \in Q /\ role[m] = "Follower" => term'[m] = term[n] + 1
          /\ \A m \in Member : ~(m \in Q /\ role[m] = "Follower") => term'[m] = term[m]
          /\ \A m \in Member : pendingTerm'[m] >= pendingTerm[m]
          /\ \A m \in Q : role[m] = "SteppingDown" => term[m] >= term[n] + 1 \/ pendingTerm'[m] >= term[n] + 1
          /\ \A m \in Q : lastVote'[m] = term[n] + 1
          /\ \A m \in Member \ Q : lastVote'[m] = lastVote[m]
          /\ role[n] = "Follower" /\ n \in Q
      BY <1>4, ElectIs
    <2> SUFFICES ASSUME NEW m \in Member
                 PROVE  \/ lastVote'[m] <= term'[m]
                        \/ role'[m] = "SteppingDown" /\ lastVote'[m] <= pendingTerm'[m]
      BY DEF VoteInv
    <2>2. term[m] \in Int /\ pendingTerm[m] \in Int /\ term[n] \in Int /\ lastVote[m] \in Int
      BY <2>0, TermIntegers
    <2>3. term'[m] \in Int /\ pendingTerm'[m] \in Int /\ lastVote'[m] \in Int
      BY <1>2, BoundTypes DEF TypeInv, ControlType, Terms
    <2>4. CASE m \in Q /\ role[m] = "Follower"
      BY <2>1, <2>2, <2>4
    <2>5. CASE m \in Q /\ role[m] # "Follower"
      <3>1. role[m] = "SteppingDown" /\ m # n
        BY <2>1, <2>5
      <3>2. role'[m] = "SteppingDown" /\ term'[m] = term[m] /\ lastVote'[m] = term[n] + 1
        BY <2>1, <2>5, <3>1
      <3>3. term[m] >= term[n] + 1 \/ pendingTerm'[m] >= term[n] + 1
        BY <2>1, <2>5, <3>1
      <3> QED
        BY <2>2, <2>3, <3>2, <3>3
    <2>6. CASE m \notin Q
      <3>1. m # n /\ role'[m] = role[m] /\ term'[m] = term[m] /\ lastVote'[m] = lastVote[m]
            /\ pendingTerm'[m] >= pendingTerm[m]
        BY <2>1, <2>6
      <3>2. lastVote[m] <= term[m] \/ (role[m] = "SteppingDown" /\ lastVote[m] <= pendingTerm[m])
        BY DEF VoteInv
      <3> QED
        BY <2>2, <2>3, <3>1, <3>2
    <2> QED
      BY <2>4, <2>5, <2>6
  <1>5. ASSUME NEW n \in DataMember, MyStep(n) PROVE VoteInv'
    BY <1>1, <1>2, <1>5, MyTermStep
  <1>6. ASSUME NEW n \in DataMember, NEW m \in Member, NEW r \in Reports(m), ReceivePosition(n, m, r) PROVE VoteInv'
    BY <1>1, <1>2, <1>6, ReceiveQuiet
  <1>7. ASSUME NEW n \in DataMember, Rollback(n) PROVE VoteInv'
    BY <1>1, <1>2, <1>7, RollbackQuiet
  <1>8. ASSUME NEW n \in Member, Crash(n) PROVE VoteInv'
    <2>1. PICK l \in Oplog :
           /\ Top(l) \in OpTime
           /\ role' = [role EXCEPT ![n] = "Follower"]
           /\ term' = [term EXCEPT ![n] = IF Top(l).term > lastVote[n] THEN Top(l).term ELSE lastVote[n]]
           /\ pendingTerm' = [pendingTerm EXCEPT ![n] = 0]
           /\ lastVote' = lastVote
      BY <1>8, CrashIs
    <2>2. /\ role \in [Member -> Roles] /\ term \in [Member -> Terms] /\ pendingTerm \in [Member -> Terms]
          /\ Top(l).term \in Int /\ lastVote[n] \in Int
      BY <2>1, TypeParts, TermIntegers, OrderOfOpTimes DEF Shape
    <2>3. lastVote'[n] <= term'[n]
      BY <2>1, <2>2
    <2>4. \A m \in Member : m # n =>
             role'[m] = role[m] /\ term'[m] = term[m] /\ pendingTerm'[m] = pendingTerm[m] /\ lastVote'[m] = lastVote[m]
      BY <2>1, <2>2
    <2> QED
      BY <2>3, <2>4 DEF VoteInv
  <1> QED
    BY <1>3, <1>4, <1>5, <1>6, <1>7, <1>8, CommitSteps

LEMMA FetchedShape ==
    ASSUME Shape, NEW n \in Member
    PROVE  Fetched(n) \in Oplog /\ Len(Fetched(n)) \in Nat /\ Len(Fetched(n)) <= MaxOplog
  <1>1. Fetched(n) \in Oplog /\ Len(Fetched(n)) <= MaxOplog
    BY ComingShape
  <1> QED
    BY <1>1, OplogLength

LEMMA FetchedNext ==
    ASSUME TypeInv', NEW n \in Member
    PROVE  /\ Fetched(n)' \in Oplog /\ Len(Fetched(n)') \in Nat /\ Begins(oplog'[n], Fetched(n)')
           /\ oplog'[n] \in Oplog /\ term'[n] \in Int
  <1>1. oplog'[n] \in Oplog /\ buffer'[n] \in Oplog /\ term'[n] \in Terms
    BY DEF TypeInv, LogType, ControlType
  <1> DEFINE a == oplog'[n]  b == buffer'[n]
  <1>2. Fetched(n)' = a \o b /\ a \in Oplog /\ b \in Oplog
    BY <1>1 DEF Fetched
  <1> HIDE DEF a, b
  <1>3. a \o b \in Oplog /\ Len(a \o b) \in Nat /\ Begins(a, a \o b)
    BY <1>2, OplogConcat
  <1>4. Fetched(n)' \in Oplog /\ Len(Fetched(n)') \in Nat /\ Begins(oplog'[n], Fetched(n)')
    BY <1>2, <1>3 DEF a
  <1>5. term'[n] \in Int
    BY <1>1, BoundTypes DEF Terms
  <1> QED
    BY <1>1, <1>4, <1>5

Bounded(n) == \A i \in 1..Len(Fetched(n)') : Fetched(n)'[i] <= term'[n]

LEMMA BoundKept ==
    ASSUME Shape, TermInv, TypeInv', NEW n \in DataMember, Begins(Fetched(n)', Fetched(n)), term'[n] >= term[n]
    PROVE  Bounded(n)
  <1>0. n \in Member
    BY BoundTypes
  <1>1. /\ Fetched(n) \in Oplog /\ Len(Fetched(n)) \in Nat /\ Fetched(n)' \in Oplog /\ Len(Fetched(n)') \in Nat
        /\ term[n] \in Int /\ term'[n] \in Int
    <2>1. Fetched(n) \in Oplog /\ Len(Fetched(n)) \in Nat
      BY <1>0, FetchedShape
    <2> QED
      BY <1>0, <2>1, FetchedNext, TermIntegers
  <1> SUFFICES ASSUME NEW i \in 1..Len(Fetched(n)') PROVE Fetched(n)'[i] <= term'[n]
    BY DEF Bounded
  <1>2. i \in 1..Len(Fetched(n)) /\ Fetched(n)'[i] = Fetched(n)[i]
    BY <1>1 DEF Begins
  <1>3. Fetched(n)[i] <= term[n] /\ Fetched(n)[i] \in Int
    BY <1>1, <1>2, OplogElement DEF TermInv
  <1> QED
    BY <1>1, <1>2, <1>3

LEMMA SameFetched ==
    ASSUME Shape, NEW n \in Member, oplog'[n] = oplog[n], buffer'[n] = buffer[n]
    PROVE  Fetched(n)' = Fetched(n) /\ Begins(Fetched(n)', Fetched(n))
  <1>1. Fetched(n)' = Fetched(n)
    BY DEF Fetched
  <1>2. Fetched(n) \in Oplog
    BY ComingShape
  <1> QED
    BY <1>1, <1>2, BeginsItself

(* The documents of a response are of terms its receiver learns with it, unless it is stepping down. *)
LEMMA ProcessBounded ==
    ASSUME Shape, TermInv, TypeInv', NoFetchInLimbo, NEW n \in DataMember, ProcessBatch(n), NEW m \in DataMember
    PROVE  Bounded(m)
  <1>0. n \in Member /\ m \in Member /\ buffer \in [Member -> Oplog] /\ fetcher[n] \in Response
    BY BoundTypes, TypeParts, MemberShape DEF Shape
  <1> DEFINE f == fetcher[n]
             waits == f.term > term[n] /\ role[n] \in {"LeaderElect", "Master"}
             docs == IF waits THEN <<>> ELSE f.docs
  <1>1. /\ f.stage = "Advanced" /\ UpdateTerm(n, f.term) /\ oplog' = oplog
        /\ buffer' = IF producer[n] = "Running" THEN [buffer EXCEPT ![n] = @ \o docs] ELSE buffer
    BY DEF ProcessBatch, EnqueueDocuments, logVars
  <1>2. Quiet
    BY QuietSteps
  <1>3. \A q \in Member : term'[q] >= term[q]
    BY <1>2 DEF Quiet, TermStep
  <1>4. CASE m # n \/ buffer' = buffer
    <2>1. buffer'[m] = buffer[m]
      BY <1>0, <1>1, <1>4
    <2> QED
      BY <1>0, <1>1, <1>3, <2>1, SameFetched, BoundKept
  <1>5. CASE m = n /\ buffer' # buffer
    <2>1. producer[n] = "Running" /\ buffer'[n] = buffer[n] \o docs
      BY <1>0, <1>1, <1>5
    <2>2. f.docs \in Oplog /\ f.term \in Terms /\ f.term \in Int
      BY <1>0, <1>1, ResponseIs, BoundTypes DEF Terms
    <2>3. ~waits
      <3>1. SUFFICES ASSUME waits PROVE FALSE
        OBVIOUS
      <3>2. buffer[n] \in Seq(Terms) /\ docs = <<>>
        BY <1>0, <3>1 DEF Oplog
      <3>3. buffer[n] \o <<>> = buffer[n]
        BY <3>2, ConcatEmpty
      <3>4. buffer'[n] = buffer[n]
        BY <2>1, <3>2, <3>3
      <3>5. buffer' = [buffer EXCEPT ![n] = buffer[n]]
        BY <1>1, <2>1, <3>4
      <3> QED
        BY <1>0, <1>5, <3>5
    <2>4. buffer'[n] = buffer[n] \o f.docs
      BY <2>1, <2>3
    <2>5. /\ Fetched(n) \in Oplog /\ oplog[n] \in Oplog /\ buffer[n] \in Oplog /\ Len(Fetched(n)) \in Nat
      BY <1>0, ComingShape, MemberShape DEF Oplog
    <2>6. Fetched(n)' = Fetched(n) \o f.docs
      <3> DEFINE a == oplog[n]  b == buffer[n]  d == f.docs
      <3>1. a \in Seq(Terms) /\ b \in Seq(Terms) /\ d \in Seq(Terms)
        BY <2>2, <2>5 DEF Oplog
      <3> HIDE DEF a, b, d
      <3>2. a \o (b \o d) = (a \o b) \o d
        BY <3>1
      <3> QED
        BY <1>1, <2>4, <3>2 DEF Fetched, a, b, d
    <2>7. ASSUME f.docs # <<>> PROVE f.term <= term'[n]
      <3>1. role[n] # "SteppingDown"
        <4>1. SUFFICES ASSUME role[n] = "SteppingDown" PROVE FALSE
          OBVIOUS
        <4>2. Len(buffer'[n]) <= Len(buffer[n])
          BY <4>1 DEF NoFetchInLimbo
        <4> DEFINE b == buffer[n]  d == f.docs
        <4>3. b \in Seq(Terms) /\ d \in Seq(Terms) /\ d # <<>> /\ Len(b \o d) <= Len(b)
          BY <2>2, <2>4, <2>5, <2>7, <4>2 DEF Oplog
        <4> HIDE DEF b, d
        <4> QED
          BY <4>3
      <3>2. ~(IsPrimary(role[n]) /\ f.term > term[n])
        BY <2>3, <3>1 DEF IsPrimary
      <3> DEFINE t == f.term
      <3>3. t \in Terms /\ UpdateTerm(n, t) /\ ~(IsPrimary(role[n]) /\ t > term[n])
        BY <1>1, <2>2, <3>2
      <3> HIDE DEF t, f
      <3>4. term'[n] >= t
        BY <1>0, <3>3, UpdateTermIs
      <3>5. t \in Int /\ term'[n] \in Int
        BY <1>0, <3>3, FetchedNext, BoundTypes DEF Terms
      <3> QED
        BY <3>4, <3>5 DEF t
    <2> SUFFICES ASSUME NEW i \in 1..Len(Fetched(n)') PROVE Fetched(n)'[i] <= term'[n]
      BY <1>5 DEF Bounded
    <2> DEFINE a == Fetched(n)  d == f.docs
    <2>8. /\ a \in Oplog /\ d \in Oplog /\ i \in 1..Len(a \o d) /\ Fetched(n)'[i] = (a \o d)[i]
      BY <2>2, <2>5, <2>6
    <2>9. /\ \A k \in 1..Len(a) : a[k] <= term[n]
          /\ \A k \in 1..Len(d) : d[k] <= f.term
      BY <1>1 DEF TermInv, InCallback
    <2>10. term[n] \in Int /\ term'[n] \in Int /\ term[n] <= term'[n]
      BY <1>0, <1>3, TermIntegers, FetchedNext
    <2> HIDE DEF a, d, f
    <2>11. Len(a) \in Nat /\ Len(d) \in Nat /\ Len(a \o d) = Len(a) + Len(d)
           /\ (\A k \in 1..Len(a) : (a \o d)[k] = a[k])
           /\ \A k \in 1..Len(d) : (a \o d)[Len(a) + k] = d[k]
      BY <2>8, OplogConcat
    <2>12. CASE i <= Len(a)
      <3>1. i \in 1..Len(a) /\ (a \o d)[i] = a[i]
        BY <2>8, <2>11, <2>12
      <3>2. a[i] \in Int /\ a[i] <= term[n]
        BY <2>8, <2>9, <3>1, OplogElement
      <3> QED
        BY <2>8, <2>10, <3>1, <3>2
    <2>13. CASE i > Len(a)
      <3> DEFINE k == i - Len(a)
      <3>1. k \in 1..Len(d) /\ i = Len(a) + k
        BY <2>8, <2>11, <2>13
      <3> HIDE DEF k
      <3>2. (a \o d)[i] = d[k] /\ d[k] <= f.term /\ d[k] \in Int
        BY <2>8, <2>9, <2>11, <3>1, OplogElement
      <3>3. d # <<>>
        BY <2>11, <3>1
      <3>4. f.term <= term'[n] /\ f.term \in Int
        BY <2>2, <2>7, <3>3 DEF d
      <3> QED
        BY <2>8, <2>10, <3>2, <3>4
    <2>14. i <= Len(a) \/ i > Len(a)
      BY <2>8, <2>11
    <2> QED
      BY <2>12, <2>13, <2>14
  <1> QED
    BY <1>4, <1>5

LEMMA CrashBounded ==
    ASSUME Shape, TermInv, TypeInv', NEW n \in Member, Crash(n), NEW m \in DataMember
    PROVE  Bounded(m)
  <1>0. m \in Member /\ oplog \in [Member -> Oplog] /\ buffer \in [Member -> Oplog] /\ term \in [Member -> Terms]
    BY BoundTypes, TypeParts DEF Shape
  <1>1. PICK l \in Oplog :
           /\ l = Upto(oplog[n], durable[n]) /\ Len(l) = durable[n] /\ Begins(l, oplog[n])
           /\ Top(l) \in OpTime /\ Len(l) <= MaxOplog
           /\ crashes < MaxCrashes /\ role' = [role EXCEPT ![n] = "Follower"]
           /\ term' = [term EXCEPT ![n] = IF Top(l).term > lastVote[n] THEN Top(l).term ELSE lastVote[n]]
           /\ pendingTerm' = [pendingTerm EXCEPT ![n] = 0]
           /\ oplog' = [oplog EXCEPT ![n] = l] /\ visible' = [visible EXCEPT ![n] = Len(l)]
           /\ buffer' = [buffer EXCEPT ![n] = <<>>] /\ producer' = [producer EXCEPT ![n] = "Running"]
           /\ fetcher' = [fetcher EXCEPT ![n] = NoFetch]
           /\ position' = [position EXCEPT ![n] = NoPositions] /\ Leave({n})
           /\ commitPoint' = [commitPoint EXCEPT ![n] = Null]
           /\ candidates' = [candidates EXCEPT ![n] = StartCandidates(n, l)]
           /\ snapshot' = [snapshot EXCEPT ![n] = Null]
           /\ lastVote' = lastVote /\ durable' = durable /\ committed' = committed
    BY CrashIs
  <1>2. CASE m # n
    <2>1. oplog'[m] = oplog[m] /\ buffer'[m] = buffer[m] /\ term'[m] = term[m] /\ term[m] \in Int
      BY <1>0, <1>1, <1>2, TermIntegers
    <2> QED
      BY <1>0, <2>1, SameFetched, BoundKept
  <1>3. CASE m = n
    <2>1. /\ oplog'[n] = l /\ buffer'[n] = <<>>
          /\ term'[n] = IF Top(l).term > lastVote[n] THEN Top(l).term ELSE lastVote[n]
      BY <1>0, <1>1
    <2>2. Fetched(n)' = l
      <3>1. l \o <<>> = l
        BY ConcatEmpty DEF Oplog
      <3> QED
        BY <2>1, <3>1 DEF Fetched
    <2>3. Ascending(l)
      <3>1. Begins(oplog[n], Coming(n)) /\ Coming(n) \in Oplog /\ oplog[n] \in Oplog
        BY <1>0, ComingShape
      <3>2. Begins(l, Coming(n))
        BY <1>1, <3>1, BeginsTransitive
      <3> QED
        BY <1>3, <3>1, <3>2, AscendingPart DEF TermInv
    <2> SUFFICES ASSUME NEW i \in 1..Len(l) PROVE l[i] <= term'[n]
      BY <1>3, <2>2 DEF Bounded
    <2>4. Len(l) \in Nat /\ l # <<>> /\ Len(l) \in 1..Len(l)
      BY OplogLength
    <2>5. l[i] \in Int /\ l[Len(l)] \in Int /\ l[i] <= l[Len(l)]
      BY <2>3, <2>4, OplogElement DEF Ascending
    <2>6. Top(l).term = l[Len(l)]
      BY <1>1, <2>4, TopType
    <2>7. lastVote[n] \in Int
      BY TermIntegers
    <2> QED
      BY <2>1, <2>5, <2>6, <2>7
  <1> QED
    BY <1>2, <1>3

LEMMA MyBounded ==
    ASSUME Shape, LogInv, TermInv, TypeInv', NEW n \in DataMember, MyStep(n), NEW m \in DataMember
    PROVE  Bounded(m)
  <1>0. n \in Member /\ m \in Member /\ oplog \in [Member -> Oplog] /\ buffer \in [Member -> Oplog]
    BY BoundTypes, TypeParts DEF Shape
  <1>1. /\ \A q \in Member : q # n => oplog'[q] = oplog[q] /\ buffer'[q] = buffer[q]
        /\ term' = term /\ (Fetched(n)' = Fetched(n) \/ Appends(n))
    BY <1>0 DEF MyStep
  <1>2. term'[m] >= term[m] /\ term[m] \in Int /\ term[n] \in Int /\ term'[n] = term[n]
    BY <1>0, <1>1, TermIntegers
  <1>3. CASE m # n
    BY <1>0, <1>1, <1>2, <1>3, SameFetched, BoundKept
  <1>4. CASE m = n /\ Fetched(n)' = Fetched(n)
    <2>1. Begins(Fetched(n)', Fetched(n))
      BY <1>0, <1>4, FetchedShape, BeginsItself
    <2> QED
      BY <1>2, <1>4, <2>1, BoundKept
  <1>5. CASE m = n /\ Appends(n)
    <2>1. /\ buffer[n] = <<>> /\ buffer'[n] = <<>>
          /\ Len(oplog'[n]) = Len(oplog[n]) + 1 /\ Begins(oplog[n], oplog'[n])
          /\ oplog'[n][Len(oplog'[n])] = term[n]
      BY <1>5 DEF Appends
    <2>2. oplog[n] \in Oplog /\ oplog'[n] \in Oplog /\ oplog[n] \o <<>> = oplog[n] /\ oplog'[n] \o <<>> = oplog'[n]
      <3>1. oplog[n] \in Oplog /\ oplog'[n] \in Oplog
        BY <1>0, FetchedNext
      <3> QED
        BY <3>1, ConcatEmpty DEF Oplog
    <2>3. Fetched(n) = oplog[n] /\ Fetched(n)' = oplog'[n]
      BY <2>1, <2>2 DEF Fetched
    <2> SUFFICES ASSUME NEW i \in 1..Len(oplog'[n]) PROVE oplog'[n][i] <= term[n]
      BY <1>2, <1>5, <2>3 DEF Bounded
    <2>4. Len(oplog[n]) \in Nat /\ Len(oplog'[n]) \in Nat
      BY <2>2, OplogLength
    <2>5. CASE i = Len(oplog'[n])
      BY <1>2, <2>1, <2>5
    <2>6. CASE i # Len(oplog'[n])
      <3>1. i \in 1..Len(oplog[n])
        BY <2>1, <2>4, <2>6
      <3>2. oplog'[n][i] = oplog[n][i] /\ Fetched(n)[i] <= term[n]
        BY <2>1, <2>3, <3>1 DEF Begins, TermInv
      <3> QED
        BY <2>3, <3>2
    <2> QED
      BY <2>5, <2>6
  <1> QED
    BY <1>1, <1>3, <1>4, <1>5

LEMMA BoundedStep ==
    ASSUME Shape, LogInv, TermInv, Next, NoFetchInLimbo, NEW m \in DataMember
    PROVE  Bounded(m)
  <1>0. m \in Member /\ TypeInv' /\ oplog \in [Member -> Oplog]
    BY BoundTypes, TypeStep, TypeParts DEF Shape
  <1>1. ASSUME Quiet, buffer' = buffer PROVE Bounded(m)
    <2>1. oplog'[m] = oplog[m] /\ buffer'[m] = buffer[m] /\ term'[m] >= term[m]
      BY <1>0, <1>1 DEF Quiet, TermStep
    <2> QED
      BY <1>0, <2>1, SameFetched, BoundKept
  <1>2. ASSUME NEW n \in DataMember,
           \/ EnterDrainMode(n) \/ StepDownSelf(n) \/ StepDownFinish(n) \/ StartProducer(n)
           \/ AdvanceCommitPoint(n) \/ \E s \in DataMember : Find(n, s) \/ GetMore(n, s)
        PROVE  Bounded(m)
    <2>1. buffer' = buffer
      BY <1>2 DEF EnterDrainMode, StepDownSelf, StepDownFinish, StartProducer, AdvanceCommitPoint, Find, GetMore,
                  Answer, fetchVars
    <2>2. Quiet
      BY <1>2, QuietSteps
    <2> QED
      BY <1>1, <2>1, <2>2
  <1>3. ASSUME NEW n \in DataMember, ProcessBatch(n) PROVE Bounded(m)
    BY <1>0, <1>3, ProcessBounded
  <1>4. ASSUME NEW n \in DataMember, SignalDrainComplete(n) \/ Write(n) \/ Journal(n) \/ ApplyBatch(n)
        PROVE  Bounded(m)
    BY <1>0, <1>4, MySteps, MyBounded
  <1>5. ASSUME NEW n \in Member, NEW q \in Member, LearnTerm(n, q) \/ ArbiterHeartbeat(n, q)
        PROVE  Bounded(m)
    <2>1. buffer' = buffer
      BY <1>5 DEF LearnTerm, ArbiterHeartbeat, fetchVars
    <2> QED
      BY <1>1, <1>5, <2>1, HeartbeatQuiet
  <1>6. ASSUME NEW n \in DataMember, NEW Q \in SUBSET Member, Elect(n, Q) PROVE Bounded(m)
    <2>1. /\ oplog' = oplog /\ buffer' = buffer
          /\ \A q \in Member : q \in Q /\ role[q] = "Follower" => term'[q] = term[n] + 1
          /\ \A q \in Member : ~(q \in Q /\ role[q] = "Follower") => term'[q] = term[q]
          /\ \A v \in Q : term[v] <= term[n] + 1
      BY <1>6, ElectIs
    <2>2. oplog'[m] = oplog[m] /\ buffer'[m] = buffer[m] /\ term[m] \in Int
      BY <1>0, <2>1, TermIntegers
    <2>3. term'[m] >= term[m]
      BY <1>0, <2>1, <2>2
    <2> QED
      BY <1>0, <2>2, <2>3, SameFetched, BoundKept
  <1>7. ASSUME NEW n \in DataMember, NEW q \in Member, NEW r \in Reports(q), ReceivePosition(n, q, r)
        PROVE  Bounded(m)
    <2>1. (\A x \in Member : TermStep(x)) /\ oplog' = oplog /\ buffer' = buffer
      BY <1>7, ReceiveQuiet
    <2>2. oplog'[m] = oplog[m] /\ buffer'[m] = buffer[m] /\ term'[m] >= term[m]
      BY <1>0, <2>1 DEF TermStep
    <2> QED
      BY <1>0, <2>2, SameFetched, BoundKept
  <1>8. ASSUME NEW n \in DataMember, Rollback(n) PROVE Bounded(m)
    <2>1. /\ term' = term /\ buffer' = buffer /\ buffer[n] = <<>>
          /\ \A q \in Member : q # n => oplog'[q] = oplog[q]
          /\ oplog'[n] \in Oplog /\ Begins(oplog'[n], oplog[n])
      BY <1>8, RollbackQuiet
    <2>2. term'[m] >= term[m]
      BY <1>0, <2>1, TermIntegers
    <2>3. CASE m # n
      BY <1>0, <2>1, <2>2, <2>3, SameFetched, BoundKept
    <2>4. CASE m = n
      <3>1. oplog[n] \in Oplog /\ oplog'[n] \o <<>> = oplog'[n] /\ oplog[n] \o <<>> = oplog[n]
        <4>1. oplog[n] \in Oplog
          BY <1>0, <2>4
        <4> QED
          BY <2>1, <4>1, ConcatEmpty DEF Oplog
      <3>2. Fetched(n)' = oplog'[n] /\ Fetched(n) = oplog[n]
        BY <2>1, <3>1 DEF Fetched
      <3> QED
        BY <1>0, <2>1, <2>2, <2>4, <3>2, BoundKept
    <2> QED
      BY <2>3, <2>4
  <1>9. ASSUME NEW n \in Member, Crash(n) PROVE Bounded(m)
    BY <1>0, <1>9, CrashBounded
  <1> QED
    BY <1>2, <1>3, <1>4, <1>5, <1>6, <1>7, <1>8, <1>9, Actions

DocsBounded(f) ==
    f.stage \in {"Checked", "Advanced"} => \A i \in 1..Len(f.docs) : f.docs[i] <= f.term

LEMMA OplogBounded ==
    ASSUME Shape, TermInv, NEW n \in DataMember, NEW i \in 1..Len(oplog[n])
    PROVE  oplog[n][i] <= term[n]
  <1>1. n \in Member
    BY BoundTypes
  <1>2. Begins(oplog[n], Fetched(n)) /\ Len(oplog[n]) \in Nat /\ Len(Fetched(n)) \in Nat
    BY <1>1, ComingShape, FetchedShape
  <1>3. i \in 1..Len(Fetched(n)) /\ Fetched(n)[i] = oplog[n][i]
    BY <1>2 DEF Begins
  <1> QED
    BY <1>3 DEF TermInv

LEMMA AnswerDocs ==
    ASSUME Shape, TermInv, NEW n \in DataMember, NEW s \in DataMember, NEW docs \in Oplog,
           \A k \in 1..Len(docs) : \E i \in 1..Len(oplog[s]) : docs[k] = oplog[s][i]
    PROVE  DocsBounded(Checked(n, s, docs))
  <1>1. n \in Member /\ s \in Member
    BY BoundTypes
  <1>2. Checked(n, s, docs).docs = docs /\ Checked(n, s, docs).term = term[s]
    BY <1>1, CheckedType
  <1>3. \A k \in 1..Len(docs) : docs[k] <= term[s]
    BY OplogBounded
  <1> QED
    BY <1>2, <1>3 DEF DocsBounded

LEMMA FetchDocs ==
    ASSUME Shape, TermInv, NEW n \in DataMember, NEW s \in DataMember, Find(n, s) \/ GetMore(n, s),
           NEW m \in DataMember
    PROVE  DocsBounded(fetcher'[m])
  <1>0. n \in Member /\ s \in Member /\ m \in Member /\ fetcher \in [Member -> Response]
    BY BoundTypes, TypeParts DEF Shape
  <1>1. DocsBounded(fetcher[m]) /\ DocsBounded(NoFetch)
    BY DEF TermInv, InCallback, DocsBounded, NoFetch
  <1>2. ASSUME NEW f \in Response, Answer(n, s, f), DocsBounded(f) PROVE DocsBounded(fetcher'[m])
    <2>1. fetcher' = [fetcher EXCEPT ![n] = IF term[n] > term[s] THEN NoFetch ELSE f]
      BY <1>2 DEF Answer
    <2>2. fetcher'[m] = fetcher[m] \/ fetcher'[m] = NoFetch \/ fetcher'[m] = f
      BY <1>0, <2>1
    <2> QED
      BY <1>1, <1>2, <2>2
  <1>3. CASE GetMore(n, s)
    <2> DEFINE d == <<>>
    <2>1. Answer(n, s, Checked(n, s, d))
      BY <1>3 DEF GetMore
    <2>2. d \in Oplog /\ Len(d) = 0
      BY ConcatEmpty DEF Oplog
    <2> HIDE DEF d
    <2>3. DocsBounded(Checked(n, s, d)) /\ Checked(n, s, d) \in Response
      BY <1>0, <2>2, AnswerDocs, CheckedType
    <2> QED
      BY <1>2, <2>1, <2>3
  <1>4. CASE Find(n, s)
    <2>1. PICK f \in Response, v \in Nat :
              /\ Answer(n, s, f) /\ Less(LastFetched(n), Top(oplog[s])) /\ v <= visible[s]
              /\ \/ f = Diverged(s)
                 \/ /\ Has(Upto(oplog[s], v), LastFetched(n))
                    /\ f = Checked(n, s, After(Upto(oplog[s], v), LastFetched(n).ts))
      BY <1>4, FindIs
    <2>2. CASE f = Diverged(s)
      <3>1. DocsBounded(f)
        BY <2>2 DEF DocsBounded, Diverged
      <3> QED
        BY <1>2, <2>1, <3>1
    <2>3. CASE /\ Has(Upto(oplog[s], v), LastFetched(n))
               /\ f = Checked(n, s, After(Upto(oplog[s], v), LastFetched(n).ts))
      <3> DEFINE l == oplog[s]
                 i == LastFetched(n).ts
      <3>0. visible[s] \in Nat /\ visible[s] <= Len(l) /\ l \in Seq(Terms) /\ Len(l) \in Nat
        BY <1>0, MemberShape DEF Oplog
      <3>1. l \in Seq(Terms) /\ v \in Nat /\ v <= Len(l) /\ Len(l) \in Nat
        BY <2>1, <3>0
      <3>2. i \in 1..Len(Upto(l, v))
        BY <2>3 DEF Has
      <3>3. f = Checked(n, s, After(Upto(l, v), i))
        BY <2>3
      <3> HIDE DEF l, i
      <3>4. Upto(l, v) \in Seq(Terms) /\ Len(Upto(l, v)) = v /\ \A k \in 1..v : Upto(l, v)[k] = l[k]
        BY <3>1, Part
      <3>5. i \in Nat /\ i <= Len(Upto(l, v)) /\ i <= v /\ i >= 1
        BY <3>1, <3>2, <3>4
      <3> DEFINE u == Upto(l, v)
                 d == After(u, i)
      <3>6. u \in Seq(Terms) /\ Len(u) = v /\ i <= Len(u)
        BY <3>4, <3>5
      <3> HIDE DEF u
      <3>7. d \in Seq(Terms) /\ Len(d) = v - i /\ \A k \in 1..v - i : d[k] = u[i + k]
        BY <3>5, <3>6, Part
      <3>8. ASSUME NEW k \in 1..Len(d) PROVE \E j \in 1..Len(l) : d[k] = l[j]
        <4>1. k \in 1..v - i /\ i + k \in 1..v /\ i + k \in 1..Len(l)
          BY <3>1, <3>5, <3>7
        <4>2. d[k] = l[i + k]
          BY <3>4, <3>7, <4>1 DEF u
        <4> QED
          BY <4>1, <4>2
      <3>9. d \in Oplog /\ f = Checked(n, s, d)
        BY <3>3, <3>7 DEF u, Oplog
      <3> HIDE DEF d
      <3>10. DocsBounded(f)
        BY <3>8, <3>9, AnswerDocs DEF l
      <3> QED
        BY <1>2, <2>1, <3>10
    <2> QED
      BY <2>1, <2>2, <2>3
  <1> QED
    BY <1>3, <1>4

LEMMA DocsStep ==
    ASSUME Shape, LogInv, TermInv, Next, NEW m \in DataMember
    PROVE  DocsBounded(fetcher'[m])
  <1>0. m \in Member /\ fetcher \in [Member -> Response]
    BY BoundTypes, TypeParts DEF Shape
  <1>1. DocsBounded(fetcher[m]) /\ DocsBounded(NoFetch) /\ DocsBounded(Waiting)
    BY DEF TermInv, InCallback, DocsBounded, NoFetch, Waiting
  <1>2. ASSUME fetcher'[m] \in {fetcher[m], NoFetch, Waiting} PROVE DocsBounded(fetcher'[m])
    BY <1>1, <1>2
  <1>3. ASSUME NEW n \in DataMember,
           EnterDrainMode(n) \/ StepDownSelf(n) \/ StepDownFinish(n) \/ StartProducer(n) \/ ProcessBatch(n)
           \/ SignalDrainComplete(n) \/ Write(n) \/ Journal(n) \/ ApplyBatch(n)
        PROVE  DocsBounded(fetcher'[m])
    <2>1. \/ fetcher' = fetcher \/ fetcher' = [fetcher EXCEPT ![n] = NoFetch]
          \/ fetcher' = [fetcher EXCEPT ![n] = Waiting]
      BY <1>3 DEF EnterDrainMode, StepDownSelf, StepDownFinish, StartProducer, ProcessBatch,
                  SignalDrainComplete, Write, Journal, ApplyBatch, fetchVars
    <2> QED
      BY <1>0, <1>2, <2>1
  <1>4. ASSUME NEW n \in DataMember, AdvanceCommitPoint(n) PROVE DocsBounded(fetcher'[m])
    <2> DEFINE f == fetcher[n]
    <2>1. f.stage = "Checked" /\ (fetcher' = [fetcher EXCEPT ![n] = NoFetch] \/ fetcher' = [fetcher EXCEPT ![n] = Advanced(f.docs, f.term)])
      BY <1>4 DEF AdvanceCommitPoint
    <2>2. CASE m # n \/ fetcher' = [fetcher EXCEPT ![n] = NoFetch]
      BY <1>0, <1>2, <2>1, <2>2
    <2>3. CASE m = n /\ fetcher' = [fetcher EXCEPT ![n] = Advanced(f.docs, f.term)]
      <3>1. fetcher'[m] = Advanced(f.docs, f.term)
        BY <1>0, <2>3
      <3>2. \A i \in 1..Len(f.docs) : f.docs[i] <= f.term
        BY <1>1, <2>1, <2>3 DEF DocsBounded
      <3> HIDE DEF f
      <3> QED
        BY <3>1, <3>2 DEF DocsBounded, Advanced
    <2> QED
      BY <2>1, <2>2, <2>3
  <1>5. ASSUME NEW n \in DataMember, NEW s \in DataMember, Find(n, s) \/ GetMore(n, s)
        PROVE  DocsBounded(fetcher'[m])
    BY <1>5, FetchDocs
  <1>6. ASSUME NEW n \in Member, NEW q \in Member, LearnTerm(n, q) \/ ArbiterHeartbeat(n, q)
        PROVE  DocsBounded(fetcher'[m])
    <2>1. fetcher' = fetcher
      BY <1>6 DEF LearnTerm, ArbiterHeartbeat, fetchVars
    <2> QED
      BY <1>1, <2>1
  <1>7. ASSUME NEW n \in DataMember, NEW Q \in SUBSET Member, Elect(n, Q) PROVE DocsBounded(fetcher'[m])
    <2>1. fetcher' = fetcher
      BY <1>7 DEF Elect, fetchVars
    <2> QED
      BY <1>1, <2>1
  <1>8. ASSUME NEW n \in DataMember, NEW q \in Member, NEW r \in Reports(q), ReceivePosition(n, q, r)
        PROVE  DocsBounded(fetcher'[m])
    <2>1. fetcher' = fetcher
      BY <1>8 DEF ReceivePosition, fetchVars
    <2> QED
      BY <1>1, <2>1
  <1>9. ASSUME NEW n \in Member, Crash(n) \/ (n \in DataMember /\ Rollback(n)) PROVE DocsBounded(fetcher'[m])
    <2>1. fetcher' = fetcher \/ fetcher' = [fetcher EXCEPT ![n] = NoFetch]
      BY <1>9 DEF Crash, Rollback
    <2> QED
      BY <1>0, <1>2, <2>1
  <1>10. ASSUME NEW n \in DataMember, Rollback(n) PROVE DocsBounded(fetcher'[m])
    BY <1>9, <1>10, BoundTypes
  <1>11. ASSUME NEW n \in Member, Crash(n) PROVE DocsBounded(fetcher'[m])
    BY <1>9, <1>11
  <1> QED
    BY <1>3, <1>4, <1>5, <1>6, <1>7, <1>8, <1>10, <1>11, Actions

LEMMA AscendingStep ==
    ASSUME Shape, LogInv, TermInv, TypeInv', Next, NEW m \in DataMember
    PROVE  Ascending(Coming(m)')
  <1>0. m \in Member
    BY BoundTypes
  <1>1. LogStep \/ \E n \in DataMember : \E Q \in SUBSET Member : Elect(n, Q)
    BY StepKinds
  <1>2. CASE \E n \in DataMember : \E Q \in SUBSET Member : Elect(n, Q)
    <2>1. Coming(m)' = Coming(m)
      BY <1>0, <1>2, ElectBegin
    <2> QED
      BY <2>1 DEF TermInv
  <1>3. CASE LogStep
    <2> SUFFICES ASSUME NEW i \in 1..Len(Coming(m)'), NEW j \in 1..Len(Coming(m)'), i <= j
                 PROVE  Coming(m)'[i] <= Coming(m)'[j]
      BY DEF Ascending
    <2>0. i \in Nat /\ j \in Nat /\ i >= 1 /\ j >= 1
      OBVIOUS
    <2>1. Old(m, j) \/ New(m, j)
      BY <1>3, Origin
    <2>2. CASE Old(m, j)
      <3>1. PICK q \in DataMember : j <= Len(Coming(q)) /\ \A k \in 1..j : Coming(m)'[k] = Coming(q)[k]
        BY <2>2 DEF Old
      <3>2. Len(Coming(q)) \in Nat
        BY BoundTypes, ComingShape
      <3>3. i \in 1..Len(Coming(q)) /\ j \in 1..Len(Coming(q)) /\ i \in 1..j /\ j \in 1..j
        BY <2>0, <3>1, <3>2
      <3>4. Coming(q)[i] <= Coming(q)[j]
        BY <3>3 DEF TermInv, Ascending
      <3> QED
        BY <3>1, <3>3, <3>4
    <2>3. CASE New(m, j)
      <3>1. /\ Coming(m)' = oplog'[m] /\ Len(oplog'[m]) = Len(oplog[m]) + 1 /\ Begins(oplog[m], oplog'[m])
            /\ oplog'[m][Len(oplog'[m])] = term[m] /\ j = Len(oplog[m]) + 1
        BY <2>3 DEF New, Writes
      <3>2. Len(oplog[m]) \in Nat /\ term[m] \in Int
        BY <1>0, MemberShape, TermIntegers
      <3>3. CASE i = j
        BY <3>1, <3>2, <3>3
      <3>4. CASE i # j
        <4>1. i \in 1..Len(oplog[m])
          BY <2>0, <3>1, <3>2, <3>4
        <4>2. oplog'[m][i] = oplog[m][i]
          BY <3>1, <4>1 DEF Begins
        <4>3. oplog[m][i] <= term[m]
          BY <4>1, OplogBounded
        <4> QED
          BY <3>1, <4>2, <4>3
      <3> QED
        BY <3>3, <3>4
    <2> QED
      BY <2>1, <2>2, <2>3
  <1> QED
    BY <1>1, <1>2, <1>3

LEMMA TermInvStep ==
    ASSUME Shape, LogInv, TermInv, Next, NoFetchInLimbo
    PROVE  TermInv'
  <1>1. TypeInv'
    BY TypeStep
  <1>2. ASSUME NEW n \in DataMember
        PROVE  /\ \A i \in 1..Len(Fetched(n)') : Fetched(n)'[i] <= term'[n]
               /\ fetcher'[n].stage \in {"Checked", "Advanced"} =>
                     \A i \in 1..Len(fetcher'[n].docs) : fetcher'[n].docs[i] <= fetcher'[n].term
               /\ Ascending(Coming(n)')
    <2>1. Bounded(n)
      BY BoundedStep
    <2>2. DocsBounded(fetcher'[n])
      BY DocsStep
    <2>3. Ascending(Coming(n)')
      BY <1>1, AscendingStep
    <2> QED
      BY <2>1, <2>2, <2>3 DEF Bounded, DocsBounded
  <1> QED
    BY <1>2 DEF TermInv, InCallback, Ascending

----------------------------------------------------------------------------
(* Where positions come from.                                               *)

\* m has o where it counts, or is an arbiter that takes o for the commit point, and
\* has not voted after o's term.
Sent(m, o) ==
    /\ lastVote[m] <= o.term
    /\ m \in DataMember => HasCounted(oplog[m], durable[m], o) \/ HasCounted(oplog'[m], durable'[m], o)
    /\ m \in Arbiter => o = commitPoint[m]

\* What p newly hears of m is not of a later term, and if it is of p's term, m
\* has sent it now or before.
Hears(p, m) ==
    /\ position'[p][m].term <= term[p]
    /\ position'[p][m].term = term[p] => position'[p][m] \in reported[m] \/ Sent(m, position'[p][m])
PositionFrom(p, m) ==
    \/ position'[p][m] = Null
    \/ /\ IsCounting(role[p]) /\ term'[p] = term[p]
       /\ position'[p][m] = position[p][m] \/ Hears(p, m)

LEMMA DataPrimary ==
    ASSUME Shape, NEW p \in Member, IsPrimary(role[p])
    PROVE  p \in DataMember
  BY DEF Shape, BeginInv, IsPrimary, DataMember

LEMMA ArbiterReached ==
    ASSUME Shape, NEW m \in Arbiter, Reached(m) # Null
    PROVE  Reached(m) = commitPoint[m]
  <1>1. m \in Member /\ durable[m] = 0
    BY BoundTypes DEF Shape, BeginInv
  <1>2. ShouldJournal => Reached(m) = OpTimeAt(oplog[m], durable[m])
    BY DEF Reached, Counts
  <1>3. ~ShouldJournal => Reached(m) = commitPoint[m]
    BY DEF Reached
  <1> QED
    BY <1>1, <1>2, <1>3 DEF OpTimeAt

LEMMA ReachedCounts ==
    ASSUME Shape, NEW m \in DataMember, Reached(m) # Null
    PROVE  Has(oplog[m], Reached(m)) /\ HasCounted(oplog[m], durable[m], Reached(m))
  <1>0. m \in Member /\ m \notin Arbiter
    BY BoundTypes DEF DataMember
  <1>1. /\ oplog[m] \in Oplog /\ durable[m] \in Nat /\ visible[m] \in Nat /\ Len(oplog[m]) \in Nat
        /\ durable[m] <= visible[m] /\ visible[m] <= Len(oplog[m])
    BY <1>0, MemberShape
  <1>2. Has(oplog[m], Reached(m))
    BY <1>0, ReachedIs
  <1>3. Reached(m) = Counts(oplog[m], durable[m]) /\ durable[m] <= Len(oplog[m])
    BY <1>0, <1>1 DEF Reached
  <1> QED
    BY <1>1, <1>2, <1>3, CountsHas

LEMMA LeftIsSent ==
    ASSUME Shape, LogInv, VoteInv, NEW m \in Member, NEW o, Left(m, o)
    PROVE  Sent(m, o)
  <1>0. term[m] \in Terms /\ term[m] # -1
    BY BoundTypes, MemberShape DEF Terms
  <1>1. PICK p \in Member \ {m} : IsPrimary(role[p]) /\ term[p] = term[m]
    BY DEF Left
  <1>2. p \in DataMember
    BY <1>1, DataPrimary
  <1>3. ~IsPrimary(role[m])
    BY <1>1, <1>2, DataPrimary DEF LogInv, PrimaryInv
  <1>4. lastVote[m] <= term[m]
    BY <1>0, <1>3 DEF VoteInv, IsPrimary
  <1>5. o = Reached(m) /\ o.term = term[m]
    BY DEF Left
  <1>6. o # Null
    BY <1>0, <1>5, NullType
  <1>7. m \in DataMember => HasCounted(oplog[m], durable[m], o)
    BY <1>5, <1>6, ReachedCounts
  <1>8. m \in Arbiter => o = commitPoint[m]
    BY <1>5, <1>6, ArbiterReached
  <1> QED
    BY <1>4, <1>5, <1>7, <1>8 DEF Sent

LEMMA ReceiveFrom ==
    ASSUME Shape, LogInv, TermInv, VoteInv, PositionInv,
           NEW n \in DataMember, NEW q \in Member, NEW r \in Reports(q), ReceivePosition(n, q, r),
           NEW p \in DataMember, IsCounting(role'[p]), NEW m \in Member
    PROVE  PositionFrom(p, m)
  <1>0. n \in Member /\ p \in Member /\ position \in [Member -> [Member -> OpTime]]
    BY BoundTypes, TypeParts DEF Shape
  <1>1. PICK pos \in [Member -> OpTime], nr \in Roles :
           /\ pos = [position[n] EXCEPT ![q] = r.position]
           /\ nr = (IF r.term > term[n] THEN "SteppingDown" ELSE role[n])
           /\ IsPrimary(role[n]) /\ q # n /\ r.position.term = term[n] /\ r.term \in Terms
           /\ UpdateTerm(n, r.term)
           /\ position' = [position EXCEPT ![n] = pos]
           /\ SetCommitPoint(n, UpdateLastCommittedOpTime(n, nr, oplog[n], pos), candidates[n], FALSE)
           /\ UpdateLastCommittedOpTime(n, nr, oplog[n], pos) \in OpTime
           /\ Declare(n, oplog[n], UpdateLastCommittedOpTime(n, nr, oplog[n], pos))
           /\ lastVote' = lastVote /\ oplog' = oplog /\ durable' = durable /\ visible' = visible
           /\ buffer' = buffer /\ producer' = producer /\ fetcher' = fetcher /\ crashes' = crashes
    BY ReceivePositionIs
  <1> DEFINE t == r.term
  <1>2. t \in Terms /\ UpdateTerm(n, t)
    BY <1>1
  <1> HIDE DEF t
  <1>3. /\ \A x \in Member \ {n} : role'[x] = role[x] /\ term'[x] = term[x]
        /\ IsPrimary(role[n]) /\ t > term[n] => role'[n] = "SteppingDown"
        /\ ~(IsPrimary(role[n]) /\ t > term[n]) => role' = role
        /\ IsPrimary(role[n]) => term' = term
    BY <1>0, <1>2, UpdateTermIs
  <1>4. term'[p] = term[p]
    BY <1>0, <1>1, <1>3
  <1>5. IsCounting(role[p]) /\ (p = n => ~(t > term[n]))
    BY <1>0, <1>1, <1>3 DEF IsCounting
  <1>6. CASE p # n
    <2>1. position'[p] = position[p]
      BY <1>0, <1>1, <1>6
    <2> QED
      BY <1>4, <1>5, <2>1 DEF PositionFrom
  <1>7. CASE p = n /\ m # q
    <2>1. position'[p] = pos /\ pos[m] = position[p][m]
      BY <1>0, <1>1, <1>7
    <2> QED
      BY <1>4, <1>5, <2>1 DEF PositionFrom
  <1>8. CASE p = n /\ m = q
    <2> DEFINE o == r.position
    <2>1. position'[n][m] = o
      BY <1>0, <1>1, <1>8
    <2>2. o.term = term[n] /\ term[n] \in Terms /\ term[n] \in Int /\ term[n] >= 0
      BY <1>0, <1>1, MemberShape, BoundTypes DEF Terms
    <2>3. \/ o = Reached(m) /\ t = term[m]
          \/ o \in reported[m]
      BY <1>8, ReportIs DEF t
    <2> HIDE DEF o
    <2>4. o # Null
      BY <2>2, NullType
    <2>5. ASSUME m \in Arbiter, o = Reached(m), t = term[m] PROVE Sent(m, o)
      <3>1. o = commitPoint[m] /\ m \in Member /\ m \notin DataMember
        BY <2>4, <2>5, ArbiterReached DEF DataMember
      <3>2. ~IsPrimary(role[m])
        BY <3>1, DataPrimary
      <3>3. lastVote[m] <= term[m]
        BY <3>1, <3>2 DEF VoteInv, IsPrimary
      <3>4. term[m] \in Int /\ lastVote[m] \in Int /\ term[m] <= term[n]
        BY <1>5, <1>8, <2>2, <2>5, <3>1, TermIntegers
      <3> QED
        BY <2>2, <2>5, <3>1, <3>3, <3>4 DEF Sent
    <2>6. ASSUME m \in DataMember, o = Reached(m), t = term[m] PROVE Sent(m, o)
      <3>1. Has(oplog[m], o) /\ HasCounted(oplog[m], durable[m], o)
        BY <2>4, <2>6, ReachedCounts
      <3>2. o.term <= term[m]
        <4>1. o.ts \in 1..Len(oplog[m]) /\ oplog[m][o.ts] = o.term
          BY <3>1 DEF Has
        <4> QED
          BY <2>6, <4>1, OplogBounded
      <3>3. term[m] \in Int /\ lastVote[m] \in Int
        BY TermIntegers
      <3>4. term[m] = term[n]
        BY <1>5, <1>8, <2>2, <2>6, <3>2, <3>3
      <3>5. ~IsPrimary(role[m])
        BY <1>1, <1>8, <2>6, <3>4 DEF LogInv, PrimaryInv
      <3>6. lastVote[m] <= term[m]
        BY <3>5 DEF VoteInv, IsPrimary
      <3> QED
        BY <2>2, <2>6, <3>1, <3>4, <3>6 DEF Sent, DataMember
    <2>7. Hears(n, m)
      BY <2>1, <2>2, <2>3, <2>5, <2>6 DEF Hears, DataMember
    <2> QED
      BY <1>4, <1>5, <1>8, <2>7 DEF PositionFrom
  <1> QED
    BY <1>6, <1>7, <1>8

LEMMA MyFrom ==
    ASSUME Shape, LogInv, TermInv, VoteInv, TypeInv', \A i \in DataMember : Bounded(i),
           NEW n \in DataMember, MyStep(n), NEW p \in DataMember, IsCounting(role'[p]), NEW m \in Member
    PROVE  PositionFrom(p, m)
  <1>0. n \in Member /\ p \in Member /\ oplog \in [Member -> Oplog]
    BY BoundTypes, TypeParts DEF Shape
  <1>1. PICK l \in Oplog, d \in Nat, v \in Nat :
          /\ Len(l) <= MaxOplog /\ d <= v /\ v <= Len(l) /\ Begins(oplog[n], l)
          /\ oplog' = [oplog EXCEPT ![n] = l] /\ SetMyOpTimes(n, role'[n], l, d, v)
    BY DEF MyStep
  <1>2. /\ \A x \in Member \ {n} : role'[x] = role[x]
        /\ role'[n] = role[n] \/ (role[n] = "LeaderElect" /\ role'[n] = "Master")
        /\ term' = term
    BY DEF MyStep
  <1>3. IsCounting(role[p]) /\ term'[p] = term[p]
    BY <1>0, <1>2 DEF IsCounting
  <1> DEFINE nr == role'[n]
  <1>4. SetMyOpTimes(n, nr, l, d, v) /\ n \in Member /\ Len(l) <= MaxOplog /\ d <= v /\ v <= Len(l)
    BY <1>0, <1>1
  <1> HIDE DEF nr
  <1>5. PICK pos \in [Member -> OpTime], c \in OpTime, o \in OpTime :
           /\ o = Counts(l, d) /\ (o = Null \/ Has(l, o))
           /\ c = UpdateLastCommittedOpTime(n, nr, l, pos)
           /\ pos[n] = o /\ \A q \in Member : q # n => pos[q] = position[n][q]
           /\ \A i \in Member : i # n => position'[i] = position[i] /\ commitPoint'[i] = commitPoint[i]
           /\ IsPrimary(nr) => position'[n] = pos
           /\ ~IsPrimary(nr) => position'[n] = position[n]
           /\ commitPoint'[n] = c /\ Declare(n, l, c)
    BY <1>4, SetMyPick
  <1>6. CASE p # n
    BY <1>0, <1>3, <1>5, <1>6 DEF PositionFrom
  <1>7. CASE p = n
    <2>1. position'[n] = pos
      BY <1>5, <1>7 DEF IsCounting, IsPrimary, nr
    <2>2. CASE m # n
      BY <1>3, <1>5, <1>7, <2>1, <2>2 DEF PositionFrom
    <2>3. CASE m = n /\ o # Null
      <3>1. position'[n][m] = o /\ Has(l, o) /\ oplog'[n] = l
        BY <1>0, <1>1, <1>5, <2>1, <2>3
      <3>2. o.ts \in 1..Len(l) /\ l[o.ts] = o.term
        BY <3>1 DEF Has
      <3>3. l[o.ts] <= term'[n]
        <4>1. Begins(l, Fetched(n)') /\ Len(l) \in Nat /\ Len(Fetched(n)') \in Nat
          BY <1>0, <3>1, FetchedNext, OplogLength
        <4>2. o.ts \in 1..Len(Fetched(n)') /\ Fetched(n)'[o.ts] = l[o.ts]
          BY <3>2, <4>1 DEF Begins
        <4>3. Bounded(n)
          OBVIOUS
        <4> QED
          BY <4>2, <4>3 DEF Bounded
      <3>4. lastVote[n] <= term[n]
        BY <1>0, <1>3, <1>7 DEF VoteInv, IsCounting
      <3>5. HasCounted(oplog'[n], durable'[n], o)
        <4>1. durable' = [durable EXCEPT ![n] = d] /\ durable \in [Member -> Nat]
          BY <1>4, SetMyLog, TypeParts DEF Shape
        <4>2. durable'[n] = d
          BY <1>0, <4>1
        <4>3. Len(l) \in Nat /\ d <= Len(l)
          BY <1>4, OplogLength
        <4>4. HasCounted(l, d, o)
          BY <1>5, <2>3, <3>1, <4>3, CountsHas
        <4> QED
          BY <3>1, <4>2, <4>4
      <3>6. o.term <= term[n] /\ (o.term = term[n] => Sent(n, o))
        BY <1>3, <1>7, <3>2, <3>3, <3>4, <3>5 DEF Sent, DataMember
      <3> QED
        BY <1>3, <1>7, <2>3, <3>1, <3>6 DEF PositionFrom, Hears
    <2>4. CASE m = n /\ o = Null
      BY <1>5, <1>7, <2>1, <2>4 DEF PositionFrom
    <2> QED
      BY <2>2, <2>3, <2>4
  <1> QED
    BY <1>6, <1>7

LEMMA CrashReports ==
    ASSUME Shape, NEW n \in Member, Crash(n)
    PROVE  /\ ReportsKept /\ role'[n] = "Follower" /\ lastVote' = lastVote /\ committed' = committed
           /\ \A m \in Member : m # n =>
                 /\ role'[m] = role[m] /\ term'[m] = term[m] /\ position'[m] = position[m] /\ oplog'[m] = oplog[m]
                 /\ producer'[m] = producer[m] /\ fetcher'[m] = fetcher[m] /\ buffer'[m] = buffer[m]
           /\ fetcher'[n] = NoFetch
           /\ durable[n] = Len(oplog[n]) => oplog'[n] = oplog[n]
           /\ durable' = durable /\ oplog'[n] = Upto(oplog[n], durable[n])
  <1>0. /\ role \in [Member -> Roles] /\ term \in [Member -> Terms] /\ position \in [Member -> [Member -> OpTime]]
        /\ oplog \in [Member -> Oplog] /\ producer \in [Member -> Producers] /\ fetcher \in [Member -> Response]
        /\ buffer \in [Member -> Oplog]
    BY TypeParts DEF Shape
  <1>1. PICK l \in Oplog :
           /\ l = Upto(oplog[n], durable[n]) /\ Len(l) = durable[n] /\ Begins(l, oplog[n])
           /\ Top(l) \in OpTime /\ Len(l) <= MaxOplog
           /\ crashes < MaxCrashes /\ role' = [role EXCEPT ![n] = "Follower"]
           /\ term' = [term EXCEPT ![n] = IF Top(l).term > lastVote[n] THEN Top(l).term ELSE lastVote[n]]
           /\ pendingTerm' = [pendingTerm EXCEPT ![n] = 0]
           /\ oplog' = [oplog EXCEPT ![n] = l] /\ visible' = [visible EXCEPT ![n] = Len(l)]
           /\ buffer' = [buffer EXCEPT ![n] = <<>>] /\ producer' = [producer EXCEPT ![n] = "Running"]
           /\ fetcher' = [fetcher EXCEPT ![n] = NoFetch]
           /\ position' = [position EXCEPT ![n] = NoPositions] /\ Leave({n})
           /\ commitPoint' = [commitPoint EXCEPT ![n] = Null]
           /\ candidates' = [candidates EXCEPT ![n] = StartCandidates(n, l)]
           /\ snapshot' = [snapshot EXCEPT ![n] = Null]
           /\ lastVote' = lastVote /\ durable' = durable /\ committed' = committed
    BY CrashIs
  <1>2. ReportsKept
    BY <1>1, LeaveKeeps
  <1>3. \A m \in Member : m # n =>
                 /\ role'[m] = role[m] /\ term'[m] = term[m] /\ position'[m] = position[m] /\ oplog'[m] = oplog[m]
                 /\ producer'[m] = producer[m] /\ fetcher'[m] = fetcher[m] /\ buffer'[m] = buffer[m]
    BY <1>0, <1>1
  <1>4. role'[n] = "Follower" /\ fetcher'[n] = NoFetch /\ oplog'[n] = l
    BY <1>0, <1>1
  <1>5. durable[n] = Len(oplog[n]) => l = oplog[n]
    <2> DEFINE k == oplog[n]
    <2>1. k \in Seq(Terms) /\ l \in Seq(Terms) /\ Len(l) = durable[n] /\ Begins(l, k)
      BY <1>0, <1>1 DEF Oplog
    <2> HIDE DEF k
    <2>2. Len(l) = Len(k) => l = k
      BY <2>1, SameSequence DEF Begins
    <2> QED
      BY <2>1, <2>2 DEF k
  <1> QED
    BY <1>1, <1>2, <1>3, <1>4, <1>5

LEMMA ElectReports ==
    ASSUME Shape, NEW n \in DataMember, NEW Q \in SUBSET Member, Elect(n, Q)
    PROVE  ReportsKept
  <1>1. \E S : Leave(S)
    BY DEF Elect
  <1> QED
    BY <1>1, LeaveKeeps

LEMMA ReportsStep ==
    ASSUME Shape, LogInv, Next
    PROVE  ReportsKept
  BY CommitSteps, ElectReports, MyTermStep, ReceiveQuiet, RollbackQuiet, CrashReports DEF Quiet

PositionsFrom == \A p \in DataMember : IsCounting(role'[p]) => \A m \in Member : PositionFrom(p, m)

LEMMA PositionStep ==
    ASSUME Shape, LogInv, TermInv, VoteInv, PositionInv, Next, NoFetchInLimbo
    PROVE  PositionsFrom
  <1> SUFFICES ASSUME NEW p \in DataMember, IsCounting(role'[p]), NEW m \in Member
               PROVE  PositionFrom(p, m)
    BY DEF PositionsFrom
  <1>0. p \in Member /\ TypeInv' /\ \A i \in DataMember : Bounded(i)
    BY BoundTypes, TypeStep, BoundedStep
  <1>1. CASE Quiet
    BY <1>1 DEF Quiet, CountingKept, PositionFrom
  <1>2. ASSUME NEW n \in DataMember, NEW Q \in SUBSET Member, Elect(n, Q) PROVE PositionFrom(p, m)
    <2>1. /\ position'[n] = NoPositions
          /\ \A q \in Member \ {n} : position'[q] = position[q] /\ role'[q] = role[q]
          /\ \A q \in Member : ~(q \in Q /\ role[q] = "Follower") => term'[q] = term[q]
      BY <1>2, ElectIs
    <2>2. CASE p = n
      BY <2>1, <2>2 DEF NoPositions, PositionFrom
    <2>3. CASE p # n
      <3>1. position'[p] = position[p] /\ role'[p] = role[p]
        BY <1>0, <2>1, <2>3
      <3>2. role[p] # "Follower" /\ IsCounting(role[p])
        BY <3>1 DEF IsCounting
      <3> QED
        BY <1>0, <2>1, <3>1, <3>2 DEF PositionFrom
    <2> QED
      BY <2>2, <2>3
  <1>3. ASSUME NEW n \in DataMember, MyStep(n) PROVE PositionFrom(p, m)
    BY <1>0, <1>3, MyFrom
  <1>4. ASSUME NEW n \in DataMember, NEW q \in Member, NEW r \in Reports(q), ReceivePosition(n, q, r)
        PROVE  PositionFrom(p, m)
    BY <1>4, ReceiveFrom
  <1>5. ASSUME NEW n \in DataMember, Rollback(n) PROVE PositionFrom(p, m)
    <2>1. /\ position' = position /\ term' = term /\ role'[n] \in {"Follower", "Aborted"}
          /\ \A q \in Member : q # n => role'[q] = role[q]
      BY <1>5, RollbackQuiet
    <2>2. p # n
      BY <2>1 DEF IsCounting
    <2> QED
      BY <1>0, <2>1, <2>2 DEF PositionFrom
  <1>6. ASSUME NEW n \in Member, Crash(n) PROVE PositionFrom(p, m)
    <2>1. /\ role'[n] = "Follower"
          /\ \A q \in Member : q # n => role'[q] = role[q] /\ term'[q] = term[q] /\ position'[q] = position[q]
      BY <1>6, CrashReports
    <2>2. p # n
      BY <2>1 DEF IsCounting
    <2> QED
      BY <1>0, <2>1, <2>2 DEF PositionFrom
  <1> QED
    BY <1>1, <1>2, <1>3, <1>4, <1>5, <1>6, CommitSteps

LEMMA PositionInvStep ==
    ASSUME Shape, LogInv, PositionInv, Next, PositionsFrom
    PROVE  PositionInv'
  <1>1. ASSUME NEW p \in DataMember, IsCounting(role'[p]), NEW m \in Member
        PROVE  position'[p][m].term <= term'[p]
    <2>0. p \in Member /\ TypeInv'
      BY BoundTypes, TypeStep
    <2>1. term[p] \in Int /\ term'[p] \in Int /\ term'[p] >= 0
      BY <2>0, TermIntegers, BoundTypes DEF TypeInv, ControlType, Terms
    <2>2. PositionFrom(p, m)
      BY <1>1 DEF PositionsFrom
    <2>3. CASE position'[p][m] = Null
      BY <2>1, <2>3, NullType
    <2>4. CASE /\ IsCounting(role[p]) /\ term'[p] = term[p]
               /\ position'[p][m] = position[p][m]
      BY <2>4 DEF PositionInv
    <2>5. CASE /\ IsCounting(role[p]) /\ term'[p] = term[p] /\ Hears(p, m)
      BY <2>5 DEF Hears
    <2> QED
      BY <2>2, <2>3, <2>4, <2>5 DEF PositionFrom
  <1> QED
    BY <1>1 DEF PositionInv

LEMMA VotesGrow ==
    ASSUME Shape, LogInv, Next, NEW m \in Member
    PROVE  lastVote'[m] >= lastVote[m] /\ lastVote'[m] \in Int /\ lastVote[m] \in Int
  <1>0. lastVote[m] \in Int
    BY TermIntegers
  <1>1. CASE LogStep
    BY <1>0, <1>1 DEF LogStep
  <1>2. ASSUME NEW n \in DataMember, NEW Q \in SUBSET Member, Elect(n, Q)
        PROVE  lastVote'[m] >= lastVote[m] /\ lastVote'[m] \in Int
    <2>1. /\ \A v \in Q : lastVote[v] < term[n] + 1
          /\ \A q \in Q : lastVote'[q] = term[n] + 1
          /\ \A q \in Member \ Q : lastVote'[q] = lastVote[q]
      BY <1>2, ElectIs
    <2>2. term[n] \in Int
      BY TermIntegers, BoundTypes
    <2> QED
      BY <1>0, <2>1, <2>2
  <1> QED
    BY <1>0, <1>1, <1>2, StepKinds

LEMMA AckedFrom ==
    ASSUME Shape, LogInv, VoteInv, PositionsFrom, ReportsKept, NEW m \in Member, NEW e \in Entries,
           Acked(m, e)'
    PROVE  Acked(m, e) \/ \E o : Covers(o, e) /\ Sent(m, o)
  <1>1. ASSUME NEW p \in DataMember, IsCounting(role'[p]), term'[p] = e.term, Covers(position'[p][m], e)
        PROVE  Acked(m, e) \/ \E o : Covers(o, e) /\ Sent(m, o)
    <2>1. PositionFrom(p, m)
      BY <1>1 DEF PositionsFrom
    <2>2. position'[p][m] # Null
      BY <1>1, NullType, EntryIs DEF Covers
    <2>3. /\ IsCounting(role[p]) /\ term'[p] = term[p]
          /\ position'[p][m] = position[p][m] \/ Hears(p, m)
      BY <2>1, <2>2 DEF PositionFrom
    <2>4. CASE position'[p][m] = position[p][m]
      BY <1>1, <2>3, <2>4 DEF Acked
    <2>5. CASE Hears(p, m)
      <3>1. position'[p][m].term = term[p]
        BY <1>1, <2>3 DEF Covers
      <3>2. position'[p][m] \in reported[m] \/ Sent(m, position'[p][m])
        BY <2>5, <3>1 DEF Hears
      <3> QED
        BY <1>1, <3>2 DEF Acked
    <2> QED
      BY <2>3, <2>4, <2>5
  <1>2. ASSUME NEW o \in reported'[m], Covers(o, e)
        PROVE  Acked(m, e) \/ \E x : Covers(x, e) /\ Sent(m, x)
    <2>1. o \in reported[m] \/ Left(m, o)
      BY DEF ReportsKept
    <2>2. CASE o \in reported[m]
      BY <1>2, <2>2 DEF Acked
    <2>3. CASE Left(m, o)
      BY <1>2, <2>3, LeftIsSent
    <2> QED
      BY <2>1, <2>2, <2>3
  <1>3. \/ \E p \in DataMember : IsCounting(role'[p]) /\ term'[p] = e.term /\ Covers(position'[p][m], e)
        \/ \E o \in reported'[m] : Covers(o, e)
    BY DEF Acked, Covers
  <1> QED
    BY <1>1, <1>2, <1>3

LEMMA MayAckKept ==
    ASSUME Shape, LogInv, VoteInv, PositionsFrom, ReportsKept, Next,
           NEW m \in Member, NEW e \in Entries, MayAck(m, e)'
    PROVE  MayAck(m, e)
  <1>1. lastVote'[m] >= lastVote[m] /\ lastVote'[m] \in Int /\ lastVote[m] \in Int
    BY VotesGrow
  <1>2. CASE lastVote'[m] <= e.term
    BY <1>1, <1>2, EntryIs DEF MayAck
  <1>3. CASE Acked(m, e)'
    <2>1. CASE Acked(m, e)
      BY <2>1 DEF MayAck
    <2>2. ASSUME NEW o, Covers(o, e), Sent(m, o) PROVE MayAck(m, e)
      BY <2>2 DEF Covers, Sent, MayAck
    <2> QED
      BY <1>3, <2>1, <2>2, AckedFrom
  <1>4. (lastVote'[m] <= e.term) \/ Acked(m, e)'
    BY DEF MayAck
  <1> QED
    BY <1>2, <1>3, <1>4

LEMMA AcceptorsAre ==
    DataMember \subseteq Acceptors /\ Acceptors \subseteq Member /\ IsFiniteSet(Acceptors)
  <1>1. DataMember \subseteq Acceptors /\ Acceptors \subseteq Member
    BY BoundTypes DEF Acceptors
  <1> QED
    BY <1>1, BoundTypes, FS_Subset

LEMMA ChoosableKept ==
    ASSUME Shape, LogInv, VoteInv, PositionsFrom, ReportsKept, Next, NEW e \in Entries, Choosable(e)'
    PROVE  Choosable(e)
  <1> DEFINE A == {m \in Acceptors : MayAck(m, e)}
             B == {m \in Acceptors : MayAck(m, e)'}
  <1>1. B \subseteq A
    BY AcceptorsAre, MayAckKept
  <1>2. Cardinality(B) >= WriteMajority
    BY DEF Choosable
  <1>3. IsFiniteSet(A)
    BY AcceptorsAre, FS_Subset
  <1>4. Cardinality(B) <= Cardinality(A) /\ Cardinality(A) \in Nat /\ Cardinality(B) \in Nat
    BY <1>1, <1>3, FS_Subset, FS_CardinalityType
  <1> QED
    BY <1>2, <1>4, MajorityTypes DEF Choosable

----------------------------------------------------------------------------
(* What is counted on a majority.                                           *)

\* The primary n moves its commit point to c.
Declares(n, c) ==
    /\ Has(oplog'[n], c) /\ c.term = term[n] /\ term'[n] = term[n] /\ IsCounting(role'[n])
    /\ commitPoint'[n] = c
    /\ Cardinality({m \in Member : AtMost(c, position'[n][m])}) >= WriteMajority
    /\ \/ committed' = Upto(oplog'[n], c.ts) /\ ~IsPrefixOf(Upto(oplog'[n], c.ts), committed)
       \/ committed' = committed /\ IsPrefixOf(Upto(oplog'[n], c.ts), committed)
MayDeclare(n) ==
    /\ \A m \in Member : m # n => commitPoint'[m] = commitPoint[m]
    /\ \/ commitPoint'[n] = commitPoint[n] /\ committed' = committed
       \/ \E c \in Entries : Declares(n, c)

LEMMA CountedBelow ==
    ASSUME NEW pos \in [Member -> OpTime], NEW c \in OpTime, AtMost(c, MajorityOpTime(pos))
    PROVE  Cardinality({m \in Member : AtMost(c, pos[m])}) >= WriteMajority
  <1> DEFINE o == MajorityOpTime(pos)
             A == {m \in Member : AtMost(o, pos[m])}
             B == {m \in Member : AtMost(c, pos[m])}
  <1>1. o \in OpTime /\ Cardinality(A) >= WriteMajority /\ AtMost(c, o)
    BY MajorityIs
  <1> HIDE DEF o
  <1>2. ASSUME NEW m \in Member, AtMost(o, pos[m]) PROVE AtMost(c, pos[m])
    <2>1. pos[m] \in OpTime
      OBVIOUS
    <2>2. /\ c.term \in Int /\ c.ts \in Int /\ o.term \in Int /\ o.ts \in Int
          /\ pos[m].term \in Int /\ pos[m].ts \in Int
      BY <1>1, <2>1, OrderOfOpTimes
    <2>3. /\ c.term < o.term \/ (c.term = o.term /\ c.ts <= o.ts)
          /\ o.term < pos[m].term \/ (o.term = pos[m].term /\ o.ts <= pos[m].ts)
      BY <1>1, <1>2, <2>1, OrderOfOpTimes
    <2>4. c.term < pos[m].term \/ (c.term = pos[m].term /\ c.ts <= pos[m].ts)
      BY <2>2, <2>3
    <2> QED
      BY <2>1, <2>4, OrderOfOpTimes
  <1>3. A \subseteq B /\ IsFiniteSet(B)
    BY <1>2, BoundTypes, FS_Subset
  <1>4. Cardinality(A) <= Cardinality(B) /\ Cardinality(A) \in Nat /\ Cardinality(B) \in Nat
    BY <1>3, FS_Subset, FS_CardinalityType
  <1> QED
    BY <1>1, <1>4, MajorityTypes

LEMMA Declaring ==
    ASSUME Shape, LogInv, NEW n \in DataMember, NEW r, r \in {"LeaderElect", "Master"} => IsPrimary(role[n]),
           NEW l \in Oplog, Len(l) <= MaxOplog, Begins(oplog[n], l),
           r \in {"LeaderElect", "Master"} => OwnSuffix(l, term[n]),
           NEW pos \in [Member -> OpTime], \A m \in Member : OpTimeOK(pos[m]) \/ Has(l, pos[m]),
           NEW c, c = UpdateLastCommittedOpTime(n, r, l, pos), Declare(n, l, c),
           commitPoint'[n] = c, \A m \in Member : m # n => commitPoint'[m] = commitPoint[m],
           oplog'[n] = l, role'[n] = r \/ r = "SteppingDown", IsPrimary(r) => position'[n] = pos,
           IsPrimary(role[n]) => term'[n] = term[n]
    PROVE  MayDeclare(n)
  <1>1. CASE c = commitPoint[n]
    BY <1>1 DEF Declare, MayDeclare
  <1>2. CASE c # commitPoint[n]
    <2>1. /\ Has(l, c) /\ c.term = term[n] /\ IsPrimary(role[n]) /\ AtMost(c, MajorityOpTime(pos))
          /\ c \in OpTime /\ r \in {"LeaderElect", "Master"}
      BY <1>2, CommitIs
    <2>2. IsCounting(role'[n]) /\ IsPrimary(r)
      BY <2>1 DEF IsCounting, IsPrimary
    <2>3. Cardinality({m \in Member : AtMost(c, pos[m])}) >= WriteMajority
      BY <2>1, CountedBelow
    <2>4. c \in Entries
      <3>1. c.ts \in 1..Len(l) /\ c.term = l[c.ts] /\ Len(l) \in Nat
        BY <2>1, OplogLength DEF Has
      <3>2. c.term \in Terms /\ c.ts \in 1..MaxOplog
        BY <3>1, OplogElement, BoundTypes
      <3> QED
        BY <2>1, <3>2 DEF Entries, OpTime
    <2>5. \/ committed' = Upto(l, c.ts) /\ ~IsPrefixOf(Upto(l, c.ts), committed)
          \/ committed' = committed /\ IsPrefixOf(Upto(l, c.ts), committed)
      BY <1>2 DEF Declare
    <2>6. Declares(n, c)
      BY <2>1, <2>2, <2>3, <2>5 DEF Declares
    <2> QED
      BY <2>4, <2>6 DEF MayDeclare
  <1> QED
    BY <1>1, <1>2

LEMMA SetMyDeclares ==
    ASSUME Shape, LogInv, NEW n \in DataMember, NEW r,
           r \in {"LeaderElect", "Master"} => IsPrimary(role[n]),
           NEW l \in Oplog, Len(l) <= MaxOplog, Begins(oplog[n], l),
           r \in {"LeaderElect", "Master"} => OwnSuffix(l, term[n]),
           NEW d \in Nat, NEW v \in Nat, d <= v, v <= Len(l), SetMyOpTimes(n, r, l, d, v)
    PROVE  oplog'[n] = l /\ role'[n] = r /\ term'[n] = term[n] => MayDeclare(n)
  <1>0. n \in Member
    BY BoundTypes
  <1>1. PICK pos \in [Member -> OpTime], c \in OpTime, o \in OpTime :
           /\ o = Counts(l, d) /\ (o = Null \/ Has(l, o))
           /\ c = UpdateLastCommittedOpTime(n, r, l, pos)
           /\ pos[n] = o /\ \A q \in Member : q # n => pos[q] = position[n][q]
           /\ \A m \in Member : m # n => position'[m] = position[m] /\ commitPoint'[m] = commitPoint[m]
           /\ IsPrimary(r) => position'[n] = pos
           /\ ~IsPrimary(r) => position'[n] = position[n]
           /\ commitPoint'[n] = c /\ Declare(n, l, c)
    BY <1>0, SetMyPick
  <1>2. \A m \in Member : OpTimeOK(pos[m]) \/ Has(l, pos[m])
    <2>1. OpTimeOK(Null)
      BY DEF OpTimeOK
    <2>2. \A q \in Member : OpTimeOK(position[n][q])
      BY <1>0 DEF LogInv, HeardInv
    <2> QED
      BY <1>1, <2>1, <2>2
  <1>3. /\ c = UpdateLastCommittedOpTime(n, r, l, pos) /\ Declare(n, l, c)
        /\ commitPoint'[n] = c
        /\ \A m \in Member : m # n => commitPoint'[m] = commitPoint[m]
        /\ IsPrimary(r) => position'[n] = pos
    BY <1>1
  <1>4. ASSUME oplog'[n] = l, role'[n] = r, term'[n] = term[n] PROVE MayDeclare(n)
    BY <1>2, <1>3, <1>4, Declaring
  <1> QED
    BY <1>4

LEMMA MyDeclares ==
    ASSUME Shape, LogInv, DrainInv', NEW n \in DataMember, MyStep(n)
    PROVE  MayDeclare(n)
  <1>0. n \in Member /\ oplog \in [Member -> Oplog]
    BY BoundTypes, TypeParts DEF Shape
  <1>1. PICK l \in Oplog, d \in Nat, v \in Nat :
          /\ Len(l) <= MaxOplog /\ d <= v /\ v <= Len(l) /\ Begins(oplog[n], l)
          /\ oplog' = [oplog EXCEPT ![n] = l] /\ SetMyOpTimes(n, role'[n], l, d, v)
    BY DEF MyStep
  <1>2. /\ role'[n] = role[n] \/ (role[n] = "LeaderElect" /\ role'[n] = "Master")
        /\ term' = term
    BY DEF MyStep
  <1>4. oplog'[n] = l
    BY <1>0, <1>1
  <1> DEFINE nr == role'[n]
  <1>5. nr \in {"LeaderElect", "Master"} => IsPrimary(role[n]) /\ OwnSuffix(l, term[n])
    <2>1. nr \in {"LeaderElect", "Master"} => IsPrimary(role[n]) /\ IsPrimary(role'[n])
      BY <1>2 DEF IsPrimary
    <2> QED
      BY <1>2, <1>4, <2>1 DEF DrainInv, OwnSuffix
  <1>6. /\ SetMyOpTimes(n, nr, l, d, v) /\ Len(l) <= MaxOplog /\ d <= v /\ v <= Len(l)
        /\ Begins(oplog[n], l)
        /\ nr \in {"LeaderElect", "Master"} => IsPrimary(role[n])
        /\ nr \in {"LeaderElect", "Master"} => OwnSuffix(l, term[n])
    BY <1>1, <1>5
  <1>7. role'[n] = nr /\ term'[n] = term[n]
    BY <1>2
  <1> HIDE DEF nr
  <1>8. oplog'[n] = l /\ role'[n] = nr /\ term'[n] = term[n] => MayDeclare(n)
    BY <1>6, SetMyDeclares
  <1> QED
    BY <1>4, <1>7, <1>8

LEMMA ReceiveDeclares ==
    ASSUME Shape, LogInv, NEW n \in DataMember, NEW m \in Member, NEW rp \in Reports(m),
           ReceivePosition(n, m, rp)
    PROVE  MayDeclare(n)
  <1>0. n \in Member
    BY BoundTypes
  <1>1. PICK pos \in [Member -> OpTime], nr \in Roles :
           /\ pos = [position[n] EXCEPT ![m] = rp.position]
           /\ nr = (IF rp.term > term[n] THEN "SteppingDown" ELSE role[n])
           /\ IsPrimary(role[n]) /\ m # n /\ rp.position.term = term[n] /\ rp.term \in Terms
           /\ UpdateTerm(n, rp.term)
           /\ position' = [position EXCEPT ![n] = pos]
           /\ SetCommitPoint(n, UpdateLastCommittedOpTime(n, nr, oplog[n], pos), candidates[n], FALSE)
           /\ UpdateLastCommittedOpTime(n, nr, oplog[n], pos) \in OpTime
           /\ Declare(n, oplog[n], UpdateLastCommittedOpTime(n, nr, oplog[n], pos))
           /\ lastVote' = lastVote /\ oplog' = oplog /\ durable' = durable /\ visible' = visible
           /\ buffer' = buffer /\ producer' = producer /\ fetcher' = fetcher /\ crashes' = crashes
    BY ReceivePositionIs
  <1> DEFINE c == UpdateLastCommittedOpTime(n, nr, oplog[n], pos)
             l == oplog[n]
             cand == candidates[n]
  <1>2. OpTimeOK(rp.position)
    <2>1. /\ rp.position \in OpTime
          /\ rp.position = Reached(m) \/ rp.position \in reported[m]
      BY ReportIs
    <2> QED
      BY <2>1, HeardKnown DEF LogInv, HeardInv
  <1>3. \A q \in Member : OpTimeOK(pos[q]) \/ Has(l, pos[q])
    <2>1. \A q \in Member : pos[q] = rp.position \/ pos[q] = position[n][q]
      BY <1>0, <1>1, MemberShape
    <2>2. \A q \in Member : OpTimeOK(position[n][q])
      BY <1>0 DEF LogInv, HeardInv
    <2> QED
      BY <1>2, <2>1, <2>2
  <1>4. /\ l \in Oplog /\ Len(l) <= MaxOplog /\ cand \in SUBSET OpTime /\ Begins(oplog[n], l)
        /\ OwnSuffix(l, term[n]) /\ IsPrimary(role[n]) /\ oplog'[n] = l
    <2>1. l \in Oplog /\ Len(l) <= MaxOplog /\ cand \in SUBSET OpTime /\ Begins(oplog[n], l)
      BY <1>0, MemberShape, ComingShape, OplogBegins
    <2>2. OwnSuffix(l, term[n])
      BY <1>1 DEF LogInv, DrainInv, OwnSuffix
    <2> QED
      BY <1>1, <2>1, <2>2
  <1>5. /\ SetCommitPoint(n, c, cand, FALSE) /\ c \in OpTime /\ Declare(n, l, c)
        /\ c = UpdateLastCommittedOpTime(n, nr, l, pos)
    BY <1>1
  <1>6. position'[n] = pos
    BY <1>0, <1>1, TypeParts DEF Shape
  <1>7. term'[n] = term[n] /\ (role'[n] = nr \/ nr = "SteppingDown")
    <2>1. term' = term
      BY <1>0, <1>1, UpdateTermIs
    <2>2. CASE rp.term > term[n]
      BY <1>1, <2>1, <2>2
    <2>3. CASE ~(rp.term > term[n])
      <3>1. role' = role
        BY <1>0, <1>1, <2>3, UpdateTermIs
      <3> QED
        BY <1>1, <2>1, <2>3, <3>1
    <2> QED
      BY <2>2, <2>3
  <1> HIDE DEF c, cand, l
  <1>8. commitPoint'[n] = c /\ \A q \in Member : q # n => commitPoint'[q] = commitPoint[q]
    <2>1. SetCommitPoint(n, c, cand, FALSE) /\ c \in OpTime /\ cand \in SUBSET OpTime /\ n \in Member
      BY <1>0, <1>4, <1>5
    <2>2. commitPoint'[n] = c /\ \A q \in Member \ {n} : commitPoint'[q] = commitPoint[q]
      BY <2>1, SetCommitPointIs
    <2> QED
      BY <2>2
  <1> QED
    BY <1>3, <1>4, <1>5, <1>6, <1>7, <1>8, Declaring

LEMMA TopOfPart ==
    ASSUME NEW l \in Oplog, Len(l) <= MaxOplog, NEW c \in OpTime, Has(l, c)
    PROVE  /\ Upto(l, c.ts) \in Oplog /\ Len(Upto(l, c.ts)) = c.ts /\ c.ts \in Nat /\ c.ts >= 1
           /\ Upto(l, c.ts) # <<>> /\ Top(Upto(l, c.ts)) = c
           /\ \A k \in 1..c.ts : Upto(l, c.ts)[k] = l[k]
           /\ Begins(Upto(l, c.ts), l)
  <1> DEFINE i == c.ts
             s == Upto(l, i)
  <1>1. i \in 1..Len(l) /\ l[i] = c.term /\ Len(l) \in Nat
    BY OplogLength DEF Has
  <1>2. i \in Nat /\ i >= 1 /\ i <= Len(l) /\ i <= MaxOplog
    BY <1>1, BoundTypes
  <1> HIDE DEF i
  <1>3. s \in Oplog /\ Len(s) = i /\ (\A k \in 1..i : s[k] = l[k]) /\ Begins(s, l)
    BY <1>2, Part DEF Oplog
  <1>4. s # <<>> /\ s[i] = c.term
    BY <1>1, <1>2, <1>3
  <1>5. Top(s) = [term |-> c.term, ts |-> i]
    BY <1>2, <1>3, <1>4 DEF Top, OpTimeAt
  <1>6. c = [term |-> c.term, ts |-> c.ts]
    BY DEF OpTime
  <1> QED
    BY <1>2, <1>3, <1>4, <1>5, <1>6 DEF i

LEMMA DeclareStep ==
    ASSUME OplogInv, Next
    PROVE  committed' = committed \/ \E n \in DataMember, c \in Entries : Declares(n, c)
  <1>0. Shape /\ LogInv /\ DrainInv'
    BY OplogInvStep DEF OplogInv, LogInv, Shape
  <1>1. CASE Quiet
    BY <1>1 DEF Quiet
  <1>2. ASSUME NEW n \in DataMember, NEW Q \in SUBSET Member, Elect(n, Q) PROVE committed' = committed
    BY <1>0, <1>2, ElectIs
  <1>3. ASSUME NEW n \in DataMember, MyStep(n)
        PROVE  committed' = committed \/ \E c \in Entries : Declares(n, c)
    BY <1>0, <1>3, MyDeclares DEF MayDeclare
  <1>4. ASSUME NEW n \in DataMember, NEW m \in Member, NEW r \in Reports(m), ReceivePosition(n, m, r)
        PROVE  committed' = committed \/ \E c \in Entries : Declares(n, c)
    BY <1>0, <1>4, ReceiveDeclares DEF MayDeclare
  <1>5. ASSUME NEW n \in DataMember, Rollback(n) PROVE committed' = committed
    BY <1>0, <1>5, RollbackQuiet
  <1>6. ASSUME NEW n \in Member, Crash(n) PROVE committed' = committed
    BY <1>0, <1>6, CrashReports
  <1> QED
    BY <1>0, <1>1, <1>2, <1>3, <1>4, <1>5, <1>6, CommitSteps

\* Those who count have acknowledged c.
LEMMA CountingAcked ==
    ASSUME TypeInv', PositionInv', NEW n \in DataMember, NEW c \in Entries, IsCounting(role'[n]),
           c.term = term'[n], NEW m \in Member, AtMost(c, position'[n][m])
    PROVE  Covers(position'[n][m], c) /\ Acked(m, c)'
  <1>0. n \in Member /\ c \in OpTime /\ position'[n][m] \in OpTime /\ term'[n] \in Int
    BY BoundTypes, EntryIs DEF TypeInv, OpTimeType, ControlType, Terms
  <1> DEFINE o == position'[n][m]
  <1>1. o.term <= term'[n]
    BY DEF PositionInv
  <1>2. /\ c.term \in Int /\ o.term \in Int /\ c.ts \in Int /\ o.ts \in Int
        /\ c.term < o.term \/ (c.term = o.term /\ c.ts <= o.ts)
    BY <1>0, OrderOfOpTimes
  <1>3. Covers(o, c)
    BY <1>0, <1>1, <1>2 DEF Covers
  <1>4. Acked(m, c)' <=> \/ \E p \in DataMember : IsCounting(role'[p]) /\ term'[p] = c.term /\ Covers(position'[p][m], c)
                         \/ \E x \in reported'[m] : Covers(x, c)
    BY DEF Acked, Covers
  <1> QED
    BY <1>3, <1>4

LEMMA CountedIsChoosable ==
    ASSUME TypeInv', PositionInv', NEW n \in DataMember, NEW c \in Entries, IsCounting(role'[n]),
           c.term = term'[n], Cardinality({m \in Member : AtMost(c, position'[n][m])}) >= WriteMajority,
           \A m \in Member : AtMost(c, position'[n][m]) => m \in Acceptors
    PROVE  Choosable(c)'
  <1> DEFINE A == {m \in Member : AtMost(c, position'[n][m])}
             C == {m \in Acceptors : MayAck(m, c)'}
  <1>1. A \subseteq C
    BY CountingAcked DEF MayAck
  <1>2. IsFiniteSet(C)
    BY AcceptorsAre, FS_Subset
  <1>3. Cardinality(A) <= Cardinality(C) /\ Cardinality(A) \in Nat /\ Cardinality(C) \in Nat
    BY <1>1, <1>2, FS_Subset, FS_CardinalityType
  <1>4. Cardinality(A) >= WriteMajority
    OBVIOUS
  <1>5. Cardinality(C) >= WriteMajority
    BY <1>3, <1>4, MajorityTypes
  <1> QED
    BY <1>5 DEF Choosable

LEMMA DeclaredTop ==
    ASSUME TypeInv', BeginInv', NEW n \in DataMember, NEW c \in Entries, Declares(n, c), committed' # committed
    PROVE  /\ committed' = Upto(oplog'[n], c.ts) /\ committed' # <<>> /\ Top(committed') = c
           /\ Len(committed') = c.ts /\ \A k \in 1..c.ts : committed'[k] = oplog'[n][k]
  <1>1. n \in Member /\ oplog'[n] \in Oplog /\ Len(oplog'[n]) \in Nat /\ Len(Coming(n)') <= MaxOplog
        /\ Begins(oplog'[n], Coming(n)') /\ Len(Coming(n)') \in Nat
    BY BoundTypes, ComingNext DEF BeginInv
  <1> DEFINE l == oplog'[n]
  <1>2. l \in Oplog /\ Len(l) <= MaxOplog
    BY <1>1, BoundTypes DEF Begins
  <1>3. Has(l, c) /\ committed' = Upto(l, c.ts)
    BY DEF Declares
  <1>4. c \in OpTime
    BY EntryIs
  <1> HIDE DEF l
  <1>5. /\ Upto(l, c.ts) # <<>> /\ Top(Upto(l, c.ts)) = c /\ Len(Upto(l, c.ts)) = c.ts
        /\ \A k \in 1..c.ts : Upto(l, c.ts)[k] = l[k]
    BY <1>2, <1>3, <1>4, TopOfPart
  <1> QED
    BY <1>3, <1>5 DEF l

----------------------------------------------------------------------------
(* Nobody loses what is protected.                                          *)

\* Two oplogs that are both beyond e agree on an entry that is.
LEMMA CommonBeyond ==
    ASSUME Shape, AgreeInv, NEW n \in DataMember, NEW s \in DataMember, NEW e \in Entries,
           Beyond(oplog[n], e), Beyond(oplog[s], e)
    PROVE  \E x \in 1..Len(oplog[n]) : /\ x <= Len(oplog[s]) /\ e.ts <= x
                                       /\ oplog[n][x] = e.term /\ oplog[s][x] = e.term
  <1>0. n \in Member /\ s \in Member
    BY BoundTypes
  <1>1. /\ Begins(oplog[n], Coming(n)) /\ Begins(oplog[s], Coming(s))
        /\ Len(oplog[n]) \in Nat /\ Len(oplog[s]) \in Nat /\ Len(Coming(n)) \in Nat /\ Len(Coming(s)) \in Nat
    BY <1>0, ComingShape
  <1>2. PICK j \in 1..Len(oplog[n]) : e.ts <= j /\ oplog[n][j] = e.term
    BY DEF Beyond
  <1>3. PICK i \in 1..Len(oplog[s]) : e.ts <= i /\ oplog[s][i] = e.term
    BY DEF Beyond
  <1>4. /\ j \in 1..Len(Coming(n)) /\ i \in 1..Len(Coming(s)) /\ j \in Nat /\ i \in Nat
        /\ Coming(n)[j] = Coming(s)[i]
        /\ \A k \in 1..Len(oplog[n]) : Coming(n)[k] = oplog[n][k]
        /\ \A k \in 1..Len(oplog[s]) : Coming(s)[k] = oplog[s][k]
    BY <1>1, <1>2, <1>3 DEF Begins
  <1>5. CASE j <= i
    <2>1. i \in j..Len(Coming(s)) /\ j \in 1..j /\ j <= Len(oplog[s]) /\ j \in 1..Len(oplog[s])
      BY <1>1, <1>4, <1>5
    <2>2. Coming(n)[j] = Coming(s)[j]
      BY <1>4, <2>1 DEF AgreeInv
    <2>3. oplog[s][j] = e.term
      BY <1>2, <1>4, <2>1, <2>2
    <2> QED
      BY <1>2, <2>1, <2>3
  <1>6. CASE ~(j <= i)
    <2>1. j \in i..Len(Coming(n)) /\ i \in 1..i /\ i \in 1..Len(oplog[n]) /\ i <= Len(oplog[s])
      BY <1>1, <1>4, <1>6
    <2>2. Coming(s)[i] = Coming(n)[i]
      BY <1>4, <2>1 DEF AgreeInv
    <2>3. oplog[n][i] = e.term
      BY <1>3, <1>4, <2>1, <2>2
    <2> QED
      BY <1>3, <2>1, <2>3
  <1> QED
    BY <1>5, <1>6

LEMMA RollbackKeeps ==
    ASSUME Shape, AgreeInv, NEW n \in DataMember, Rollback(n), NEW e \in Entries, InSource(e),
           Beyond(oplog[n], e)
    PROVE  Beyond(oplog'[n], e)
  <1>0. n \in Member /\ oplog \in [Member -> Oplog] /\ oplog[n] \in Oplog
    BY BoundTypes, TypeParts DEF Shape
  <1> DEFINE s == fetcher[n].source
  <1>1. /\ producer[n] = "Running" /\ fetcher[n].stage = "Diverged" /\ buffer[n] = <<>> /\ s \in DataMember
        /\ \/ oplog' = oplog
           \/ \E i \in 1..Len(oplog[n]) :
                 /\ \A j \in 1..Len(oplog[n]) : j <= Len(oplog[s]) /\ oplog[n][j] = oplog[s][j] => j <= i
                 /\ Upto(oplog[n], i) \in Oplog /\ Len(Upto(oplog[n], i)) = i
                 /\ Begins(Upto(oplog[n], i), oplog[n])
                 /\ oplog' = [oplog EXCEPT ![n] = Upto(oplog[n], i)]
    <2>1. /\ producer[n] = "Running" /\ fetcher[n].stage = "Diverged" /\ buffer[n] = <<>>
          /\ fetcher[n].source \in DataMember
      BY RollbackIs
    <2>2. \/ oplog' = oplog
          \/ \E i \in 1..Len(oplog[n]) :
                 /\ \A j \in 1..Len(oplog[n]) :
                       j <= Len(oplog[fetcher[n].source])
                          /\ oplog[n][j] = oplog[fetcher[n].source][j] => j <= i
                 /\ Upto(oplog[n], i) \in Oplog /\ Len(Upto(oplog[n], i)) = i
                 /\ Begins(Upto(oplog[n], i), oplog[n])
                 /\ oplog' = [oplog EXCEPT ![n] = Upto(oplog[n], i)]
      BY RollbackIs
    <2> QED
      BY <2>1, <2>2
  <1>2. Fetched(n) = oplog[n]
    BY <1>0, <1>1, ConcatEmpty DEF Fetched, Oplog
  <1>3. Beyond(oplog[s], e)
    BY <1>1, <1>2 DEF InSource
  <1> HIDE DEF s
  <1>4. PICK x \in 1..Len(oplog[n]) : /\ x <= Len(oplog[s]) /\ e.ts <= x
                                      /\ oplog[n][x] = e.term /\ oplog[s][x] = e.term
    BY <1>1, <1>3, CommonBeyond
  <1>5. CASE oplog' = oplog
    BY <1>5
  <1>6. ASSUME NEW i \in 1..Len(oplog[n]),
               \A j \in 1..Len(oplog[n]) : j <= Len(oplog[s]) /\ oplog[n][j] = oplog[s][j] => j <= i,
               Upto(oplog[n], i) \in Oplog, Len(Upto(oplog[n], i)) = i,
               Begins(Upto(oplog[n], i), oplog[n]),
               oplog' = [oplog EXCEPT ![n] = Upto(oplog[n], i)]
        PROVE  Beyond(oplog'[n], e)
    <2>1. x <= i /\ x \in 1..i
      BY <1>4, <1>6
    <2>2. oplog'[n] = Upto(oplog[n], i)
      BY <1>0, <1>6
    <2>3. oplog'[n][x] = e.term /\ x \in 1..Len(oplog'[n])
      BY <1>4, <1>6, <2>1, <2>2 DEF Begins
    <2> QED
      BY <1>4, <2>3 DEF Beyond
  <1> QED
    BY <1>1, <1>5, <1>6

\* A source that somebody who has to roll back has found keeps what is protected.
LEMMA BeyondStep ==
    ASSUME Shape, LogInv, CrashKeepsCounted, Next, NEW e \in Entries, InSource(e), NEW m \in DataMember,
           Beyond(oplog[m], e), NEW x \in DataMember, RollsBackTo(x, m)
    PROVE  Beyond(oplog'[m], e)
  <1>0. m \in Member /\ oplog \in [Member -> Oplog] /\ DataMember \subseteq Member /\ AgreeInv
    BY BoundTypes, TypeParts DEF Shape, LogInv
  <1>1. CASE Quiet
    BY <1>1 DEF Quiet
  <1>2. ASSUME NEW n \in DataMember, NEW Q \in SUBSET Member, Elect(n, Q) PROVE Beyond(oplog'[m], e)
    <2>1. oplog' = oplog
      BY <1>2, ElectIs
    <2> QED
      BY <2>1
  <1>3. ASSUME NEW n \in DataMember, MyStep(n) PROVE Beyond(oplog'[m], e)
    <2>1. PICK l \in Oplog : Begins(oplog[n], l) /\ oplog' = [oplog EXCEPT ![n] = l]
      BY <1>3 DEF MyStep
    <2>2. CASE m = n
      BY <1>0, <2>1, <2>2, BeyondKept
    <2>3. CASE m # n
      BY <1>0, <2>1, <2>3
    <2> QED
      BY <2>2, <2>3
  <1>4. ASSUME NEW n \in DataMember, NEW q \in Member, NEW r \in Reports(q), ReceivePosition(n, q, r)
        PROVE  Beyond(oplog'[m], e)
    <2>1. oplog' = oplog
      BY <1>4, ReceiveQuiet
    <2> QED
      BY <2>1
  <1>5. ASSUME NEW n \in DataMember, Rollback(n) PROVE Beyond(oplog'[m], e)
    <2>1. CASE m = n
      BY <1>0, <1>5, <2>1, RollbackKeeps
    <2>2. CASE m # n
      <3>1. oplog'[m] = oplog[m]
        BY <1>0, <1>5, <2>2, RollbackQuiet
      <3> QED
        BY <3>1
    <2> QED
      BY <2>1, <2>2
  <1>6. ASSUME NEW n \in Member, Crash(n) PROVE Beyond(oplog'[m], e)
    <2>1. n = m => durable[n] = Len(oplog[n])
      BY <1>6 DEF CrashKeepsCounted
    <2>2. oplog'[m] = oplog[m]
      BY <1>0, <1>6, <2>1, CrashReports
    <2> QED
      BY <2>2
  <1> QED
    BY <1>1, <1>2, <1>3, <1>4, <1>5, <1>6, CommitSteps

LEMMA CountedHas ==
    ASSUME Shape, NEW m \in DataMember, NEW e, CountedBeyond(oplog[m], durable[m], e)
    PROVE  Beyond(oplog[m], e)
  <1>1. /\ oplog[m] \in Oplog /\ durable[m] \in Nat /\ visible[m] \in Nat /\ Len(oplog[m]) \in Nat
        /\ durable[m] <= visible[m] /\ visible[m] <= Len(oplog[m])
    BY BoundTypes, MemberShape
  <1>2. durable[m] <= Len(oplog[m])
    BY <1>1
  <1> QED
    BY <1>1, <1>2, CountedIsBeyond

\* Everybody keeps what is protected and counts.
LEMMA CountedSame ==
    ASSUME Shape, NEW m \in DataMember, NEW e, CountedBeyond(oplog[m], durable[m], e), oplog'[m] \in Oplog,
           Begins(oplog[m], oplog'[m]), durable'[m] \in Nat, durable'[m] >= durable[m]
    PROVE  CountedBeyond(oplog'[m], durable'[m], e)
  <1>1. /\ oplog[m] \in Oplog /\ durable[m] \in Nat /\ visible[m] \in Nat /\ Len(oplog[m]) \in Nat
        /\ durable[m] <= visible[m] /\ visible[m] <= Len(oplog[m])
    BY BoundTypes, MemberShape
  <1> DEFINE s == oplog[m]
             t == oplog'[m]
             c == durable[m]
             d == durable'[m]
  <1>2. /\ s \in Oplog /\ t \in Oplog /\ Begins(s, t) /\ c \in Nat /\ d \in Nat /\ c <= d /\ c <= Len(s)
        /\ CountedBeyond(s, c, e)
    BY <1>1
  <1> HIDE DEF s, t, c, d
  <1>3. CountedBeyond(t, d, e)
    BY <1>2, CountedKept
  <1> QED
    BY <1>3 DEF t, d

LEMMA CountedRollback ==
    ASSUME Shape, AgreeInv, NEW n \in DataMember, Rollback(n), NEW e \in Entries, InSource(e),
           CountedBeyond(oplog[n], durable[n], e)
    PROVE  CountedBeyond(oplog'[n], durable'[n], e)
  <1>0. /\ n \in Member /\ oplog \in [Member -> Oplog] /\ durable \in [Member -> Nat]
        /\ oplog[n] \in Oplog /\ durable[n] \in Nat /\ visible[n] \in Nat /\ Len(oplog[n]) \in Nat
        /\ durable[n] <= visible[n] /\ visible[n] <= Len(oplog[n])
    BY BoundTypes, TypeParts, MemberShape DEF Shape
  <1>1. Beyond(oplog[n], e)
    BY <1>0, CountedIsBeyond
  <1>2. Beyond(oplog'[n], e)
    BY <1>1, RollbackKeeps
  <1>3. \/ oplog' = oplog /\ durable' = durable
        \/ \E i \in 1..Len(oplog[n]) :
                 /\ Upto(oplog[n], i) \in Oplog /\ Len(Upto(oplog[n], i)) = i
                 /\ oplog' = [oplog EXCEPT ![n] = Upto(oplog[n], i)]
                 /\ durable' = [durable EXCEPT ![n] = i]
    BY RollbackIs
  <1>4. CASE oplog' = oplog /\ durable' = durable
    BY <1>4
  <1>5. ASSUME NEW i \in 1..Len(oplog[n]), Upto(oplog[n], i) \in Oplog, Len(Upto(oplog[n], i)) = i,
               oplog' = [oplog EXCEPT ![n] = Upto(oplog[n], i)], durable' = [durable EXCEPT ![n] = i]
        PROVE  CountedBeyond(oplog'[n], durable'[n], e)
    <2>1. oplog'[n] = Upto(oplog[n], i) /\ durable'[n] = i
      BY <1>0, <1>5
    <2>2. oplog'[n] \in Oplog /\ durable'[n] = Len(oplog'[n])
      BY <1>5, <2>1
    <2> QED
      BY <1>2, <2>2, CountedAll
  <1> QED
    BY <1>3, <1>4, <1>5

LEMMA CountedCrash ==
    ASSUME Shape, NEW n \in DataMember, Crash(n), CrashKeepsCounted, NEW e,
           CountedBeyond(oplog[n], durable[n], e)
    PROVE  CountedBeyond(oplog'[n], durable'[n], e)
  <1>0. /\ n \in Member /\ oplog[n] \in Oplog /\ durable[n] \in Nat /\ visible[n] \in Nat /\ Len(oplog[n]) \in Nat
        /\ durable[n] <= visible[n] /\ visible[n] <= Len(oplog[n])
    BY BoundTypes, MemberShape
  <1>1. /\ durable' = durable /\ oplog'[n] = Upto(oplog[n], durable[n])
        /\ durable[n] = Len(oplog[n]) => oplog'[n] = oplog[n]
    BY <1>0, CrashReports
  <1>2. CASE durable[n] = Len(oplog[n])
    BY <1>1, <1>2
  <1>3. CASE ShouldJournal
    <2> DEFINE l == oplog[n]
               d == durable[n]
    <2>1. d \in Nat /\ d <= Len(l) /\ l \in Oplog
      BY <1>0
    <2>2. PICK j \in 1..d : e.ts <= j /\ l[j] = e.term
      BY <1>3 DEF CountedBeyond, CountedLength
    <2> HIDE DEF l, d
    <2>3. Upto(l, d)[j] = l[j]
      BY <2>1, <2>2, Part DEF Oplog
    <2>4. CountedBeyond(Upto(l, d), d, e)
      BY <1>3, <2>2, <2>3 DEF CountedBeyond, CountedLength
    <2> QED
      BY <1>1, <2>4 DEF l, d
  <1> QED
    BY <1>0, <1>2, <1>3 DEF CrashKeepsCounted

LEMMA CountedStep ==
    ASSUME Shape, LogInv, TypeInv', CrashKeepsCounted, Next, NEW e \in Entries, InSource(e), NEW m \in DataMember,
           CountedBeyond(oplog[m], durable[m], e)
    PROVE  CountedBeyond(oplog'[m], durable'[m], e)
  <1>0. /\ m \in Member /\ oplog \in [Member -> Oplog] /\ DataMember \subseteq Member /\ AgreeInv
        /\ durable \in [Member -> Nat] /\ durable[m] \in Nat /\ Len(oplog[m]) \in Nat
        /\ visible[m] \in Nat /\ durable[m] <= visible[m] /\ visible[m] <= Len(oplog[m])
    BY BoundTypes, TypeParts, MemberShape DEF Shape, LogInv
  <1>9. durable'[m] \in Nat /\ oplog'[m] \in Oplog
    BY <1>0, ComingNext DEF TypeInv, LogType
  <1>1. CASE Quiet
    BY <1>1 DEF Quiet
  <1>2. ASSUME NEW n \in DataMember, NEW Q \in SUBSET Member, Elect(n, Q)
        PROVE  CountedBeyond(oplog'[m], durable'[m], e)
    <2>1. /\ oplog' = oplog
          /\ \A q \in Q : durable'[q] = Len(oplog[q])
          /\ \A q \in Member \ Q : durable'[q] = durable[q]
      BY <1>2, ElectIs
    <2>2. durable'[m] >= durable[m]
      BY <1>0, <2>1
    <2>3. Begins(oplog[m], oplog'[m])
      BY <1>0, <2>1, BeginsItself
    <2> QED
      BY <1>9, <2>2, <2>3, CountedSame
  <1>3. ASSUME NEW n \in DataMember, MyStep(n) PROVE CountedBeyond(oplog'[m], durable'[m], e)
    <2>1. PICK l \in Oplog : Begins(oplog[n], l) /\ oplog' = [oplog EXCEPT ![n] = l]
      BY <1>3 DEF MyStep
    <2>2. durable'[n] >= durable[n] /\ \A q \in Member \ {n} : durable'[q] = durable[q]
      BY <1>3 DEF MyStep
    <2>3. CASE m = n
      <3>1. Begins(oplog[m], oplog'[m]) /\ durable'[m] >= durable[m]
        BY <1>0, <2>1, <2>2, <2>3
      <3> QED
        BY <1>9, <3>1, CountedSame
    <2>4. CASE m # n
      <3>1. oplog'[m] = oplog[m] /\ durable'[m] = durable[m]
        BY <1>0, <2>1, <2>2, <2>4
      <3> QED
        BY <3>1
    <2> QED
      BY <2>3, <2>4
  <1>4. ASSUME NEW n \in DataMember, NEW q \in Member, NEW r \in Reports(q), ReceivePosition(n, q, r)
        PROVE  CountedBeyond(oplog'[m], durable'[m], e)
    <2>1. oplog' = oplog /\ durable' = durable
      BY <1>4, ReceiveQuiet
    <2> QED
      BY <2>1
  <1>5. ASSUME NEW n \in DataMember, Rollback(n) PROVE CountedBeyond(oplog'[m], durable'[m], e)
    <2>1. CASE m = n
      BY <1>0, <1>5, <2>1, CountedRollback
    <2>2. CASE m # n
      <3>1. oplog'[m] = oplog[m]
        BY <1>0, <1>5, <2>2, RollbackQuiet
      <3>2. \/ oplog' = oplog /\ durable' = durable
            \/ \E i \in 1..Len(oplog[n]) :
                 /\ Upto(oplog[n], i) \in Oplog /\ Len(Upto(oplog[n], i)) = i
                 /\ oplog' = [oplog EXCEPT ![n] = Upto(oplog[n], i)]
                 /\ durable' = [durable EXCEPT ![n] = i]
        BY <1>5, RollbackIs
      <3>3. durable'[m] = durable[m]
        BY <1>0, <2>2, <3>2
      <3> QED
        BY <3>1, <3>3
    <2> QED
      BY <2>1, <2>2
  <1>6. ASSUME NEW n \in Member, Crash(n) PROVE CountedBeyond(oplog'[m], durable'[m], e)
    <2>1. CASE m = n
      BY <1>0, <1>6, <2>1, CountedCrash
    <2>2. CASE m # n
      <3>1. oplog'[m] = oplog[m] /\ durable' = durable
        BY <1>0, <1>6, <2>2, CrashReports
      <3> QED
        BY <3>1
    <2> QED
      BY <2>1, <2>2
  <1> QED
    BY <1>1, <1>2, <1>3, <1>4, <1>5, <1>6, CommitSteps

LEMMA FollowsStep ==
    ASSUME Shape, LogInv, TypeInv', Next, NEW e \in Entries, FollowsEntry(e), InPrimaries(e)
    PROVE  FollowsEntry(e)'
  <1> SUFFICES ASSUME NEW n \in DataMember, NEW j \in 1..Len(Coming(n)'), Coming(n)'[j] > e.term
               PROVE  \E k \in 1..j : e.ts <= k /\ Coming(n)'[k] = e.term
    BY DEF FollowsEntry
  <1>0. n \in Member /\ Len(Coming(n)') \in Nat /\ j \in Nat /\ 1 <= j
    BY BoundTypes, ComingNext
  <1>1. ASSUME NEW p \in DataMember, NEW Q \in SUBSET Member, Elect(p, Q)
        PROVE  \E k \in 1..j : e.ts <= k /\ Coming(n)'[k] = e.term
    <2>1. Coming(n)' = Coming(n)
      BY <1>0, <1>1, ElectBegin
    <2> QED
      BY <2>1 DEF FollowsEntry
  <1>2. CASE LogStep
    <2>1. Old(n, j) \/ New(n, j)
      BY <1>2, Origin
    <2>2. CASE Old(n, j)
      <3>1. PICK q \in DataMember : j <= Len(Coming(q)) /\ \A k \in 1..j : Coming(n)'[k] = Coming(q)[k]
        BY <2>2 DEF Old
      <3>2. q \in Member /\ Len(Coming(q)) \in Nat
        BY <3>1, BoundTypes, ComingShape
      <3>3. j \in 1..Len(Coming(q)) /\ j \in 1..j /\ Coming(q)[j] > e.term
        BY <1>0, <3>1, <3>2
      <3>4. PICK k \in 1..j : e.ts <= k /\ Coming(q)[k] = e.term
        BY <3>3 DEF FollowsEntry
      <3> QED
        BY <3>1, <3>4
    <2>3. CASE New(n, j)
      <3>1. /\ IsPrimary(role[n]) /\ Coming(n)' = oplog'[n] /\ j = Len(oplog[n]) + 1
            /\ Len(oplog'[n]) = Len(oplog[n]) + 1
            /\ Begins(oplog[n], oplog'[n]) /\ oplog'[n][Len(oplog'[n])] = term[n]
        BY <2>3 DEF New, Writes
      <3>2. term[n] > e.term
        BY <3>1
      <3>3. PICK k \in 1..Len(oplog[n]) : e.ts <= k /\ oplog[n][k] = e.term
        BY <3>1, <3>2 DEF InPrimaries, Beyond
      <3>4. k \in 1..j /\ oplog'[n][k] = e.term
        <4>1. Len(oplog[n]) \in Nat
          BY <1>0, MemberShape
        <4> QED
          BY <3>1, <3>3, <4>1 DEF Begins
      <3> QED
        BY <3>1, <3>3, <3>4
    <2> QED
      BY <2>1, <2>2, <2>3
  <1> QED
    BY <1>1, <1>2, StepKinds

LEMMA AcknowledgingStep ==
    ASSUME Shape, LogInv, VoteInv, TypeInv', PositionsFrom, ReportsKept, CrashKeepsCounted, Next,
           NEW e \in Entries, InSource(e), InAcknowledging(e)
    PROVE  InAcknowledging(e)'
  <1> SUFFICES ASSUME NEW m \in DataMember, Acked(m, e)'
               PROVE  CountedBeyond(oplog'[m], durable'[m], e)
    BY DEF InAcknowledging, CountedBeyond, CountedLength
  <1>1. CASE Acked(m, e)
    <2>1. CountedBeyond(oplog[m], durable[m], e)
      BY <1>1 DEF InAcknowledging
    <2> QED
      BY <2>1, CountedStep
  <1>2. ASSUME NEW o, Covers(o, e), Sent(m, o) PROVE CountedBeyond(oplog'[m], durable'[m], e)
    <2>1. CASE HasCounted(oplog[m], durable[m], o)
      <3>1. CountedBeyond(oplog[m], durable[m], e)
        BY <1>2, <2>1, HasIsCounted
      <3> QED
        BY <3>1, CountedStep
    <2>2. CASE HasCounted(oplog'[m], durable'[m], o)
      BY <1>2, <2>2, HasIsCounted
    <2> QED
      BY <1>2, <2>1, <2>2 DEF Sent
  <1>3. m \in Member
    BY BoundTypes
  <1> QED
    BY <1>1, <1>2, <1>3, AckedFrom

----------------------------------------------------------------------------
(* Who has what is committed.                                               *)

LEMMA CommittedTop ==
    ASSUME IsOplog(committed), committed # <<>>
    PROVE  /\ committed \in Oplog /\ Len(committed) \in Nat /\ Len(committed) >= 1 /\ Len(committed) <= MaxOplog
           /\ Top(committed) \in Entries /\ Top(committed).ts = Len(committed)
           /\ Top(committed).term = committed[Len(committed)] /\ Has(committed, Top(committed))
  <1>1. committed \in Oplog /\ Len(committed) <= MaxOplog
    BY DEF IsOplog, Oplog, Terms
  <1>2. /\ Top(committed) \in OpTime /\ Top(committed).term = committed[Len(committed)]
        /\ Top(committed).ts = Len(committed) /\ Has(committed, Top(committed))
    BY <1>1, TopType
  <1>3. Len(committed) \in Nat
    BY <1>1, OplogLength
  <1>4. Len(committed) >= 1
    BY <1>2, <1>3 DEF Has
  <1>5. committed[Len(committed)] \in Terms
    BY <1>1, <1>3, <1>4, OplogElement
  <1>6. Top(committed) \in Entries
    BY <1>1, <1>2, <1>3, <1>4, <1>5 DEF Entries, OpTime
  <1> QED
    BY <1>1, <1>2, <1>3, <1>4, <1>6

LEMMA PrefixIs ==
    ASSUME NEW s \in Oplog, NEW t \in Oplog
    PROVE  IsPrefixOf(s, t) <=> Begins(s, t)
  <1>0. Len(s) \in Nat /\ Len(t) \in Nat
    BY OplogLength
  <1>1. ASSUME Len(s) <= Len(t)
        PROVE  Upto(t, Len(s)) \in Oplog /\ Len(Upto(t, Len(s))) = Len(s) /\ \A k \in 1..Len(s) : Upto(t, Len(s))[k] = t[k]
    <2> DEFINE i == Len(s)
    <2>1. i \in Nat /\ i <= Len(t)
      BY <1>0, <1>1
    <2> HIDE DEF i
    <2>2. Upto(t, i) \in Oplog /\ Len(Upto(t, i)) = i /\ \A k \in 1..i : Upto(t, i)[k] = t[k]
      BY <2>1, Part DEF Oplog
    <2> QED
      BY <2>2 DEF i
  <1>2. ASSUME IsPrefixOf(s, t) PROVE Begins(s, t)
    BY <1>1, <1>2 DEF IsPrefixOf, Begins
  <1>3. ASSUME Begins(s, t) PROVE IsPrefixOf(s, t)
    <2>1. Len(s) <= Len(t) /\ \A k \in 1..Len(s) : t[k] = s[k]
      BY <1>3 DEF Begins
    <2> DEFINE u == Upto(t, Len(s))
    <2>2. u \in Oplog /\ Len(u) = Len(s) /\ \A k \in 1..Len(s) : u[k] = s[k]
      BY <1>1, <2>1
    <2> HIDE DEF u
    <2>3. u = s
      BY <2>2, SameSequence DEF Oplog
    <2> QED
      BY <2>1, <2>3 DEF IsPrefixOf, u
  <1> QED
    BY <1>2, <1>3

\* Whoever is beyond what is committed has it.
LEMMA BeyondHasCommitted ==
    ASSUME OplogInv, CommittedInv, committed # <<>>, NEW n \in DataMember, Beyond(oplog[n], Top(committed))
    PROVE  Begins(committed, oplog[n]) /\ IsPrefixOf(committed, oplog[n])
  <1>0. Shape /\ IsOplog(committed) /\ n \in Member
    BY BoundTypes DEF OplogInv, Shape
  <1>1. /\ committed \in Oplog /\ Len(committed) \in Nat /\ Top(committed).ts = Len(committed)
    BY <1>0, CommittedTop
  <1>2. /\ oplog[n] \in Oplog /\ Begins(oplog[n], Coming(n)) /\ Len(oplog[n]) \in Nat /\ Len(Coming(n)) \in Nat
    BY <1>0, MemberShape, ComingShape
  <1>3. PICK j \in 1..Len(oplog[n]) : Len(committed) <= j /\ oplog[n][j] = Top(committed).term
    BY <1>1 DEF Beyond
  <1>4. j \in 1..Len(Coming(n)) /\ Coming(n)[j] = Top(committed).term
    BY <1>2, <1>3 DEF Begins
  <1>5. \A k \in 1..Len(committed) : Coming(n)[k] = committed[k]
    BY <1>3, <1>4 DEF CommittedInv, HasCommitted
  <1>6. Len(committed) <= Len(oplog[n]) /\ \A k \in 1..Len(committed) : k \in 1..Len(oplog[n])
    BY <1>1, <1>2, <1>3
  <1>7. Begins(committed, oplog[n])
    BY <1>2, <1>5, <1>6 DEF Begins
  <1> QED
    BY <1>1, <1>2, <1>7, PrefixIs

\* Somebody has what is committed.
LEMMA Holder ==
    ASSUME CommitInv, committed # <<>>
    PROVE  \E h \in DataMember : Begins(committed, oplog[h])
  <1>0. OplogInv /\ CommittedInv /\ Shape
    BY DEF CommitInv, OplogInv, Shape
  <1> DEFINE W == {m \in DataMember : CountedBeyond(oplog[m], durable[m], Top(committed))}
  <1>1. Cardinality(W) >= WriteMajority
    BY <1>0 DEF CommittedInv
  <1>2. W # {}
    <2>1. ASSUME W = {} PROVE FALSE
      <3> HIDE DEF W
      <3>1. Cardinality(W) = 0
        BY <2>1, FS_EmptySet
      <3> QED
        BY <1>1, <3>1, MajorityTypes
    <2> QED
      BY <2>1
  <1>3. PICK h \in DataMember : CountedBeyond(oplog[h], durable[h], Top(committed))
    BY <1>2
  <1>4. Beyond(oplog[h], Top(committed))
    <2> DEFINE e == Top(committed)
    <2>1. CountedBeyond(oplog[h], durable[h], e)
      BY <1>3
    <2> HIDE DEF e
    <2>2. Beyond(oplog[h], e)
      BY <1>0, <2>1, CountedHas
    <2> QED
      BY <2>2 DEF e
  <1> QED
    BY <1>0, <1>4, BeyondHasCommitted

LEMMA CommittedAscends ==
    ASSUME CommitInv
    PROVE  committed \in Oplog /\ Len(committed) \in Nat /\ Len(committed) <= MaxOplog /\ Ascending(committed)
  <1>0. OplogInv /\ TermInv /\ Shape
    BY DEF CommitInv, OplogInv, Shape
  <1>1. committed \in Oplog /\ Len(committed) <= MaxOplog /\ Len(committed) \in Nat
    BY <1>0, OplogLength DEF OplogInv, IsOplog, Oplog, Terms
  <1>2. CASE committed = <<>>
    BY <1>1, <1>2 DEF Ascending
  <1>3. CASE committed # <<>>
    <2>1. PICK h \in DataMember : Begins(committed, oplog[h])
      BY <1>3, Holder
    <2>2. /\ oplog[h] \in Oplog /\ Coming(h) \in Oplog /\ Begins(oplog[h], Coming(h))
      BY <1>0, BoundTypes, MemberShape, ComingShape
    <2>3. Begins(committed, Coming(h))
      BY <1>1, <2>1, <2>2, BeginsTransitive
    <2> QED
      BY <1>0, <1>1, <2>2, <2>3, AscendingPart DEF TermInv
  <1> QED
    BY <1>1, <1>2, <1>3

LEMMA HasIsNotNull ==
    ASSUME NEW l \in Oplog, NEW o, Has(l, o)
    PROVE  o # Null /\ o.ts \in 1..Len(l) /\ l[o.ts] = o.term /\ o.term \in Terms /\ o.ts \in Nat
  <1>1. o.ts \in 1..Len(l) /\ l[o.ts] = o.term /\ Len(l) \in Nat
    BY OplogLength DEF Has
  <1>2. o.term \in Terms /\ o.ts \in Nat
    BY <1>1, OplogElement
  <1> QED
    BY <1>1, <1>2, NullType

\* An entry that an oplog has in front of a committed one of the same term is committed.
LEMMA OnCommitted ==
    ASSUME CommitInv, NEW n \in DataMember, NEW o \in OpTime, Has(oplog[n], o), NEW c \in OpTime,
           c.ts \in 1..Len(committed), o.ts <= c.ts, NEW h \in DataMember, Begins(committed, oplog[h]),
           committed[c.ts] = o.term
    PROVE  Has(committed, o)
  <1>0. Shape /\ AgreeInv
    BY DEF CommitInv, OplogInv, Shape, LogInv
  <1>1. committed \in Oplog /\ Len(committed) \in Nat
    BY CommittedAscends
  <1>2. /\ oplog[n] \in Oplog /\ Coming(n) \in Oplog /\ Begins(oplog[n], Coming(n))
        /\ Len(oplog[n]) \in Nat /\ Len(Coming(n)) \in Nat
        /\ oplog[h] \in Oplog /\ Coming(h) \in Oplog /\ Begins(oplog[h], Coming(h)) /\ Len(Coming(h)) \in Nat
    BY <1>0, BoundTypes, MemberShape, ComingShape
  <1>3. Begins(committed, Coming(h))
    BY <1>1, <1>2, BeginsTransitive
  <1> DEFINE i == o.ts
             j == c.ts
  <1>4. /\ i \in 1..Len(oplog[n]) /\ oplog[n][i] = o.term /\ j \in Nat /\ i \in Nat
    BY <1>2, HasIsNotNull, OrderOfOpTimes DEF OpTime
  <1> HIDE DEF i, j
  <1>5. i \in 1..Len(Coming(n)) /\ Coming(n)[i] = o.term
    BY <1>2, <1>4 DEF Begins
  <1>6. j \in i..Len(Coming(h)) /\ Coming(h)[j] = o.term
    BY <1>1, <1>2, <1>3, <1>4 DEF Begins, i, j
  <1>7. Coming(n)[i] = Coming(h)[i]
    BY <1>0, <1>4, <1>5, <1>6 DEF AgreeInv
  <1>8. i \in 1..Len(committed)
    BY <1>1, <1>4 DEF i, j
  <1>9. committed[i] = o.term
    BY <1>3, <1>5, <1>7, <1>8 DEF Begins
  <1> QED
    BY <1>8, <1>9 DEF Has, i

\* Where all data-bearing members have to acknowledge, all of them have it.
LEMMA AllHaveCommitted ==
    ASSUME CommitInv, committed # <<>>, WriteMajority # VoteMajority, NEW n \in DataMember
    PROVE  Top(committed).term <= term[n]
  <1>0. OplogInv /\ Shape /\ CommittedInv /\ TermInv /\ IsOplog(committed)
    BY DEF CommitInv, OplogInv, Shape
  <1> DEFINE e == Top(committed)
             W == {m \in DataMember : CountedBeyond(oplog[m], durable[m], e)}
  <1>1. Cardinality(W) >= WriteMajority /\ e \in Entries
    BY <1>0, CommittedTop DEF CommittedInv
  <1>2. WriteMajority = Cardinality(DataMember)
    BY DEF WriteMajority
  <1>3. IsFiniteSet(DataMember) /\ W \subseteq DataMember
    BY BoundTypes, FS_Subset
  <1> HIDE DEF W, e
  <1>4. Cardinality(W) \in Nat /\ Cardinality(W) <= Cardinality(DataMember) /\ Cardinality(DataMember) \in Nat
        /\ (Cardinality(W) = Cardinality(DataMember) => W = DataMember)
    BY <1>3, FS_Subset, FS_CardinalityType
  <1>5. W = DataMember
    BY <1>1, <1>2, <1>4
  <1>6. CountedBeyond(oplog[n], durable[n], e)
    BY <1>5 DEF W
  <1>7. Beyond(oplog[n], e)
    BY <1>0, <1>1, <1>6, CountedHas
  <1>8. PICK j \in 1..Len(oplog[n]) : oplog[n][j] = e.term
    BY <1>7 DEF Beyond
  <1>9. oplog[n][j] <= term[n]
    BY <1>0, <1>8, OplogBounded
  <1> QED
    BY <1>8, <1>9 DEF e

\* An entry that arbiters, too, may have acknowledged is committed, if what an
\* arbiter takes for the commit point is as far.
LEMMA PassedIsBeyond ==
    ASSUME CommitInv, NEW e \in Entries, FollowsEntry(e), NEW o \in OpTime, Covers(o, e), PassedIn(committed, o)
    PROVE  committed # <<>> /\ Beyond(committed, e)
  <1>0. Shape
    BY DEF CommitInv, OplogInv, Shape
  <1>1. committed \in Oplog /\ Len(committed) \in Nat /\ Len(committed) <= MaxOplog
    BY CommittedAscends
  <1>2. e.term \in Int /\ e.ts \in Int /\ o.term = e.term /\ o # Null
    BY EntryIs, NullType DEF Covers
  <1>3. committed # <<>>
    BY <1>1, <1>2 DEF PassedIn, Has
  <1>4. CASE Has(committed, o)
    BY <1>3, <1>4, HasIsBeyond
  <1>5. CASE o.term < Top(committed).term
    <2>1. PICK h \in DataMember : Begins(committed, oplog[h])
      BY <1>3, Holder
    <2>2. /\ oplog[h] \in Oplog /\ Coming(h) \in Oplog /\ Begins(oplog[h], Coming(h)) /\ Len(Coming(h)) \in Nat
      BY <1>0, BoundTypes, MemberShape, ComingShape
    <2>3. Begins(committed, Coming(h))
      BY <1>1, <2>1, <2>2, BeginsTransitive
    <2>4. Len(committed) \in 1..Len(Coming(h)) /\ Coming(h)[Len(committed)] = Top(committed).term
      <3>1. Top(committed).term = committed[Len(committed)]
        BY <1>1, <1>3, TopType
      <3>2. Len(committed) >= 1
        BY <1>1, <1>3, EmptySeq DEF Oplog
      <3> QED
        BY <1>1, <2>2, <2>3, <3>1, <3>2 DEF Begins
    <2>5. PICK k \in 1..Len(committed) : e.ts <= k /\ Coming(h)[k] = e.term
      <3>1. Coming(h)[Len(committed)] > e.term
        BY <1>2, <1>5, <2>4
      <3> QED
        BY <2>4, <3>1 DEF FollowsEntry
    <2>6. committed[k] = e.term
      BY <2>3, <2>5 DEF Begins
    <2> QED
      BY <1>3, <2>5, <2>6 DEF Beyond
  <1> QED
    BY <1>2, <1>3, <1>4, <1>5 DEF PassedIn

\* What an arbiter has acknowledged, and what has just been heard of it.
LEMMA ArbiterPassed ==
    ASSUME CommitInv, PositionsFrom, ReportsKept, NEW m \in Arbiter
    PROVE  /\ \A p \in DataMember : IsCounting(role'[p]) =>
                 (position'[p][m].term = term'[p] => PassedIn(committed, position'[p][m]))
           /\ \A o \in reported'[m] : PassedIn(committed, o)
  <1>0. Shape /\ LogInv /\ VoteInv /\ PassedInv /\ m \in Member
    BY BoundTypes DEF CommitInv, OplogInv, Shape
  <1>1. PassedIn(committed, commitPoint[m]) /\ \A o \in reported[m] : PassedIn(committed, o)
    BY <1>0 DEF PassedInv
  <1>2. \A o : Sent(m, o) => PassedIn(committed, o)
    BY <1>1 DEF Sent
  <1>3. ASSUME NEW p \in DataMember, IsCounting(role'[p]), position'[p][m].term = term'[p]
        PROVE  PassedIn(committed, position'[p][m])
    <2>1. PositionFrom(p, m)
      BY <1>0, <1>3 DEF PositionsFrom
    <2>2. CASE position'[p][m] = Null
      BY <2>2 DEF PassedIn
    <2>3. CASE IsCounting(role[p]) /\ term'[p] = term[p] /\ position'[p][m] = position[p][m]
      BY <1>0, <1>3, <2>3 DEF PassedInv
    <2>4. CASE term'[p] = term[p] /\ Hears(p, m)
      BY <1>1, <1>2, <1>3, <2>4 DEF Hears
    <2> QED
      BY <2>1, <2>2, <2>3, <2>4 DEF PositionFrom
  <1>4. ASSUME NEW o \in reported'[m] PROVE PassedIn(committed, o)
    <2>1. o \in reported[m] \/ Left(m, o)
      BY <1>0 DEF ReportsKept
    <2>2. Left(m, o) => Sent(m, o)
      BY <1>0, LeftIsSent
    <2> QED
      BY <1>1, <1>2, <2>1, <2>2
  <1> QED
    BY <1>3, <1>4

----------------------------------------------------------------------------
(* Elections.                                                               *)

\* A majority that has acknowledged shares a member with one that elects.
LEMMA ElectorHas ==
    ASSUME NEW W \in SUBSET Acceptors, Cardinality(W) >= WriteMajority, NEW Q \in SUBSET Member,
           Cardinality(Q) >= VoteMajority, NEW n \in DataMember, n \in Q
    PROVE  \E v \in W : v \in Q
  <1>1. /\ W \in SUBSET Member /\ IsFiniteSet(Member) /\ IsFiniteSet(Q) /\ IsFiniteSet(W)
        /\ IsFiniteSet(DataMember)
    BY AcceptorsAre, BoundTypes, FS_Subset
  <1>2. Cardinality(W) \in Nat /\ Cardinality(Q) \in Nat
    BY <1>1, FS_CardinalityType
  <1>3. CASE WriteMajority = VoteMajority
    <2>1. Cardinality(Q) + Cardinality(W) > Cardinality(Member)
      BY <1>2, <1>3, MajorityTypes
    <2>2. Q \cap W # {}
      BY <1>1, <2>1, FS_MajoritiesIntersect
    <2> QED
      BY <2>2
  <1>4. CASE WriteMajority # VoteMajority
    <2>1. Cardinality(W) >= Cardinality(DataMember) /\ W \subseteq DataMember
      BY <1>4 DEF WriteMajority, Acceptors
    <2>2. Cardinality(W) <= Cardinality(DataMember) /\ (Cardinality(W) = Cardinality(DataMember) => W = DataMember)
      BY <1>1, <2>1, FS_Subset
    <2>3. W = DataMember
      BY <1>2, <2>1, <2>2, MajorityTypes
    <2> QED
      BY <2>3
  <1> QED
    BY <1>3, <1>4

LEMMA VoterToWinner ==
    ASSUME Shape, TermInv, NEW n \in DataMember, NEW Q \in SUBSET Member, Elect(n, Q),
           NEW e \in Entries, FollowsEntry(e), NEW v \in DataMember, v \in Q, Beyond(oplog[v], e)
    PROVE  Beyond(oplog[n], e)
  <1>0. n \in Member /\ v \in Member
    BY BoundTypes
  <1>1. CASE v = n
    BY <1>1
  <1>2. CASE v # n
    <2>1. AtMost(LastApplied(v), LastApplied(n))
      BY <1>2, ElectIs
    <2>2. AtMost(Top(oplog[v]), Top(oplog[n]))
      BY <2>1 DEF LastApplied, DataMember
    <2> DEFINE s == oplog[v]
               t == oplog[n]
    <2>3. /\ s \in Oplog /\ t \in Oplog /\ Len(s) <= MaxOplog /\ Len(t) <= MaxOplog
          /\ Begins(s, Coming(v)) /\ Begins(t, Coming(n)) /\ Coming(v) \in Oplog
      BY <1>0, ComingShape, MemberShape
    <2>4. t # <<>>
      BY OplogBegins
    <2>5. Ascending(s)
      BY <2>3, AscendingPart DEF TermInv
    <2>6. AtMost(Top(s), Top(t)) /\ Beyond(s, e)
      BY <2>2
    <2> HIDE DEF s, t
    <2>7. t[Len(t)] > e.term => Beyond(t, e)
      BY <2>3, <2>4, LaterHasEntry
    <2>8. Beyond(t, e)
      BY <2>3, <2>4, <2>5, <2>6, <2>7, UpToDate
    <2> QED
      BY <2>8 DEF t
  <1> QED
    BY <1>1, <1>2

LEMMA CommittedToWinner ==
    ASSUME CommitInv, committed # <<>>, NEW n \in DataMember, NEW Q \in SUBSET Member, Elect(n, Q)
    PROVE  Begins(committed, oplog[n])
  <1>0. /\ OplogInv /\ Shape /\ TermInv /\ CommittedInv /\ SafeInv /\ IsOplog(committed)
        /\ n \in Q /\ Cardinality(Q) >= VoteMajority
    BY ElectIs DEF CommitInv, OplogInv, Shape
  <1> DEFINE e == Top(committed)
             W == {m \in DataMember : CountedBeyond(oplog[m], durable[m], e)}
  <1>1. e \in Entries /\ FollowsEntry(e)
    BY <1>0, CommittedTop DEF SafeInv, Protected
  <1>2. Cardinality(W) >= WriteMajority
    BY <1>0 DEF CommittedInv
  <1>3. W \in SUBSET Acceptors
    BY AcceptorsAre
  <1>4. PICK v \in W : v \in Q
    <2> HIDE DEF W
    <2> QED
      BY <1>0, <1>2, <1>3, ElectorHas
  <1> HIDE DEF e
  <1>5. v \in DataMember /\ Beyond(oplog[v], e)
    BY <1>0, <1>1, <1>4, CountedHas
  <1>6. Beyond(oplog[n], e)
    BY <1>0, <1>1, <1>4, <1>5, VoterToWinner
  <1> QED
    BY <1>0, <1>6, BeyondHasCommitted DEF e

\* An arbiter has acknowledged only what is committed, and the winner has that.
LEMMA ArbiterToWinner ==
    ASSUME CommitInv, TypeInv', PositionsFrom, ReportsKept, NEW n \in DataMember, NEW Q \in SUBSET Member, Elect(n, Q),
           NEW e \in Entries, FollowsEntry(e), NEW v \in Arbiter, Acked(v, e)'
    PROVE  Beyond(oplog[n], e)
  <1>0. Shape /\ v \in Member /\ n \in Member /\ oplog[n] \in Oplog
    BY BoundTypes, MemberShape DEF CommitInv, OplogInv, Shape
  <1>1. \E o \in OpTime : Covers(o, e) /\ PassedIn(committed, o)
    <2>1. \/ \E p \in DataMember : IsCounting(role'[p]) /\ term'[p] = e.term /\ Covers(position'[p][v], e)
          \/ \E o \in reported'[v] : Covers(o, e)
      BY DEF Acked, Covers
    <2>2. ASSUME NEW p \in DataMember, IsCounting(role'[p]), term'[p] = e.term, Covers(position'[p][v], e)
          PROVE  position'[p][v] \in OpTime /\ PassedIn(committed, position'[p][v])
      BY <1>0, <2>2, BoundTypes, ArbiterPassed DEF TypeInv, OpTimeType, Covers
    <2>3. ASSUME NEW o \in reported'[v], Covers(o, e) PROVE o \in OpTime /\ PassedIn(committed, o)
      BY <1>0, <2>3, ArbiterPassed DEF TypeInv, OpTimeType
    <2> QED
      BY <2>1, <2>2, <2>3
  <1>2. committed # <<>> /\ Beyond(committed, e)
    BY <1>1, PassedIsBeyond
  <1>3. Begins(committed, oplog[n]) /\ committed \in Oplog
    BY <1>2, CommittedToWinner, CommittedAscends
  <1> QED
    BY <1>0, <1>2, <1>3, BeyondKept

LEMMA PrimariesStep ==
    ASSUME CommitInv, TypeInv', PositionsFrom, ReportsKept, Next, NEW e \in Entries, Protected(e)',
           FollowsEntry(e), InPrimaries(e), InAcknowledging(e)'
    PROVE  InPrimaries(e)'
  <1> SUFFICES ASSUME NEW p \in DataMember, IsPrimary(role'[p]), term'[p] > e.term
               PROVE  Beyond(oplog'[p], e)
    BY DEF InPrimaries, Beyond
  <1> Shape /\ LogInv /\ TermInv
    BY DEF CommitInv, OplogInv, Shape
  <1>0. p \in Member /\ oplog[p] \in Oplog /\ oplog'[p] \in Oplog
    BY BoundTypes, MemberShape, ComingNext
  <1>1. CASE LogStep
    <2>1. IsPrimary(role[p]) /\ term'[p] = term[p] /\ Begins(oplog[p], oplog'[p])
      BY <1>1 DEF LogStep, Kept
    <2>2. Beyond(oplog[p], e)
      BY <2>1 DEF InPrimaries
    <2> QED
      BY <1>0, <2>1, <2>2, BeyondKept
  <1>2. ASSUME NEW n \in DataMember, NEW Q \in SUBSET Member, Elect(n, Q)
        PROVE  Beyond(oplog'[p], e)
    <2>1. /\ n \in Q /\ Cardinality(Q) >= VoteMajority /\ term'[n] = term[n] + 1
          /\ \A m \in Member \ {n} : role'[m] = role[m]
          /\ \A m \in Member : ~(m \in Q /\ role[m] = "Follower") => term'[m] = term[m]
          /\ \A m \in Q : lastVote'[m] = term[n] + 1
          /\ oplog' = oplog /\ committed' = committed
      BY <1>2, ElectIs
    <2>2. CASE p # n
      <3>1. role'[p] = role[p] /\ role[p] # "Follower"
        BY <1>0, <2>1, <2>2 DEF IsPrimary
      <3>2. term'[p] = term[p]
        BY <1>0, <2>1, <3>1
      <3> QED
        BY <2>1, <3>1, <3>2 DEF InPrimaries
    <2>3. CASE p = n
      <3>1. term[n] + 1 > e.term
        BY <2>1, <2>3
      <3>2. CASE Choosable(e)'
        <4> DEFINE W == {m \in Acceptors : MayAck(m, e)'}
        <4>1. Cardinality(W) >= WriteMajority
          BY <3>2 DEF Choosable
        <4>2. PICK v \in W : v \in Q
          <5>1. W \in SUBSET Acceptors
            OBVIOUS
          <5> HIDE DEF W
          <5> QED
            BY <2>1, <4>1, <5>1, ElectorHas
        <4>3. v \in Member
          BY <4>2, AcceptorsAre
        <4>4. (lastVote'[v] <= e.term) \/ Acked(v, e)'
          BY <4>2 DEF MayAck
        <4>5. Acked(v, e)'
          <5>1. lastVote'[v] = term[n] + 1 /\ term[n] \in Int /\ e.term \in Int
            BY <2>1, <4>2, TermIntegers, BoundTypes, EntryIs
          <5> QED
            BY <3>1, <4>4, <5>1
        <4>6. ASSUME v \in DataMember PROVE Beyond(oplog[v], e)
          <5>1. CountedBeyond(oplog'[v], durable'[v], e)
            BY <4>5, <4>6 DEF InAcknowledging, CountedBeyond, CountedLength
          <5>2. /\ oplog'[v] \in Oplog /\ durable'[v] \in Nat /\ visible'[v] \in Nat /\ v \in Member
                /\ durable'[v] <= visible'[v] /\ visible'[v] <= Len(oplog'[v])
            BY <4>6, BoundTypes DEF TypeInv, LogType
          <5>3. durable'[v] <= Len(oplog'[v])
            BY <5>2, OplogLength
          <5>4. Beyond(oplog'[v], e)
            BY <5>1, <5>2, <5>3, CountedIsBeyond
          <5> QED
            BY <2>1, <5>4
        <4>7. Beyond(oplog[n], e)
          <5>1. CASE v \in DataMember
            BY <1>2, <4>2, <4>6, <5>1, VoterToWinner
          <5>2. CASE v \in Arbiter
            BY <1>2, <4>5, <5>2, ArbiterToWinner
          <5> QED
            BY <4>3, <5>1, <5>2 DEF DataMember
        <4> QED
          BY <2>1, <2>3, <4>7
      <3>3. CASE committed # <<>> /\ e = Top(committed)
        <4>1. Begins(committed, oplog[n]) /\ committed \in Oplog /\ Has(committed, e)
          BY <1>2, <3>3, CommittedToWinner, CommittedAscends, CommittedTop DEF CommitInv, OplogInv
        <4>2. Covers(e, e)
          BY EntryIs DEF Covers
        <4>3. Beyond(committed, e)
          BY <4>1, <4>2, HasIsBeyond
        <4>4. Beyond(oplog[n], e)
          BY <1>0, <2>3, <4>1, <4>3, BeyondKept
        <4> QED
          BY <2>1, <2>3, <4>4
      <3>4. Choosable(e)' \/ (committed' # <<>> /\ e = Top(committed'))
        BY DEF Protected, Top, OpTimeAt, Null
      <3>5. Top(committed') = Top(committed)
        BY <2>1
      <3> QED
        BY <2>1, <3>2, <3>3, <3>4, <3>5
    <2> QED
      BY <2>2, <2>3
  <1> QED
    BY <1>1, <1>2, StepKinds

----------------------------------------------------------------------------
(* Where a member that has diverged has diverged from.                      *)

Diverges(n) == producer'[n] = "Running" /\ fetcher'[n].stage = "Diverged"
StillDiverged(n) ==
    /\ producer[n] = "Running" /\ fetcher[n].stage = "Diverged" /\ fetcher'[n] = fetcher[n]
    /\ Begins(Fetched(n)', Fetched(n))
NewlyDiverged(n, s) ==
    /\ fetcher'[n].source = s /\ oplog' = oplog /\ Fetched(n)' = Fetched(n)
    /\ Less(Top(Fetched(n)), Top(oplog[s]))

LEMMA SameDiverged ==
    ASSUME Shape, NEW m \in DataMember, Diverges(m), oplog'[m] = oplog[m], buffer'[m] = buffer[m],
           fetcher'[m] = fetcher[m], producer'[m] = producer[m]
    PROVE  StillDiverged(m)
  <1>1. m \in Member
    BY BoundTypes
  <1>2. Begins(Fetched(m)', Fetched(m))
    BY <1>1, SameFetched
  <1> QED
    BY <1>2 DEF StillDiverged, Diverges

\* The steps of a member that leave the response it works on in another stage, or stop it.
LEMMA FetcherMoves ==
    ASSUME Shape, NEW n \in DataMember, NEW m \in DataMember, Diverges(m),
           EnterDrainMode(n) \/ StepDownFinish(n) \/ StartProducer(n) \/ AdvanceCommitPoint(n) \/ ProcessBatch(n)
    PROVE  StillDiverged(m)
  <1>0. /\ m \in Member /\ n \in Member /\ fetcher \in [Member -> Response] /\ producer \in [Member -> Producers]
        /\ buffer \in [Member -> Oplog]
    BY BoundTypes, TypeParts DEF Shape
  <1>1. \A d, t : Advanced(d, t).stage = "Advanced" /\ NoFetch.stage = "None" /\ Waiting.stage = "Waiting"
    BY DEF Advanced, NoFetch, Waiting
  <1>2. CASE EnterDrainMode(n)
    <2>1. producer' = [producer EXCEPT ![n] = "Stopped"] /\ fetcher' = fetcher /\ oplog' = oplog /\ buffer' = buffer
      BY <1>2 DEF EnterDrainMode, logVars
    <2>2. m # n
      BY <1>0, <2>1 DEF Diverges
    <2> QED
      BY <1>0, <2>1, <2>2, SameDiverged
  <1>3. CASE StepDownFinish(n)
    <2>1. producer' = [producer EXCEPT ![n] = "Starting"] /\ fetcher' = fetcher /\ oplog' = oplog /\ buffer' = buffer
      BY <1>3 DEF StepDownFinish, logVars
    <2>2. m # n
      BY <1>0, <2>1 DEF Diverges
    <2> QED
      BY <1>0, <2>1, <2>2, SameDiverged
  <1>4. CASE StartProducer(n)
    <2>1. /\ producer' = [producer EXCEPT ![n] = "Running"] /\ fetcher' = [fetcher EXCEPT ![n] = NoFetch]
          /\ oplog' = oplog /\ buffer' = buffer
      BY <1>4 DEF StartProducer, logVars
    <2>2. m # n
      BY <1>0, <1>1, <2>1 DEF Diverges
    <2> QED
      BY <1>0, <2>1, <2>2, SameDiverged
  <1>5. CASE AdvanceCommitPoint(n)
    <2> DEFINE f == fetcher[n]
    <2>1. /\ producer' = producer /\ oplog' = oplog /\ buffer' = buffer
          /\ \/ fetcher' = [fetcher EXCEPT ![n] = NoFetch]
             \/ fetcher' = [fetcher EXCEPT ![n] = Advanced(f.docs, f.term)]
      BY <1>5 DEF AdvanceCommitPoint, logVars
    <2>2. m # n
      BY <1>0, <1>1, <2>1 DEF Diverges
    <2>3. fetcher'[m] = fetcher[m]
      BY <1>0, <2>1, <2>2
    <2> QED
      BY <2>1, <2>3, SameDiverged
  <1>6. CASE ProcessBatch(n)
    <2>1. /\ producer' = producer /\ oplog' = oplog
          /\ fetcher' = [fetcher EXCEPT ![n] = Waiting] \/ fetcher' = [fetcher EXCEPT ![n] = NoFetch]
          /\ \E docs : EnqueueDocuments(n, docs)
      BY <1>6 DEF ProcessBatch, logVars
    <2>2. m # n
      BY <1>0, <1>1, <2>1 DEF Diverges
    <2>3. fetcher'[m] = fetcher[m] /\ buffer'[m] = buffer[m]
      BY <1>0, <2>1, <2>2 DEF EnqueueDocuments
    <2> QED
      BY <2>1, <2>3, SameDiverged
  <1> QED
    BY <1>2, <1>3, <1>4, <1>5, <1>6

LEMMA AnswerDiverged ==
    ASSUME Shape, NEW n \in DataMember, NEW s \in DataMember, NEW f \in Response, Answer(n, s, f),
           NEW m \in DataMember, Diverges(m)
    PROVE  StillDiverged(m) \/ (m = n /\ fetcher'[m] = f /\ oplog' = oplog /\ buffer' = buffer)
  <1>0. m \in Member /\ n \in Member /\ s \in Member /\ fetcher \in [Member -> Response]
    BY BoundTypes, TypeParts DEF Shape
  <1>1. /\ fetcher' = [fetcher EXCEPT ![n] = IF term[n] > term[s] THEN NoFetch ELSE f]
        /\ oplog' = oplog /\ buffer' = buffer /\ producer' = producer
    BY <1>0, AnswerIs
  <1>2. CASE m # n
    BY <1>0, <1>1, <1>2, SameDiverged
  <1>3. CASE m = n
    <2>1. fetcher'[m] = NoFetch \/ fetcher'[m] = f
      BY <1>0, <1>1, <1>3
    <2>2. fetcher'[m] # NoFetch
      BY DEF Diverges, NoFetch
    <2> QED
      BY <1>1, <1>3, <2>1, <2>2
  <1> QED
    BY <1>2, <1>3

LEMMA FindDiverged ==
    ASSUME Shape, NEW n \in DataMember, NEW s \in DataMember, Find(n, s) \/ GetMore(n, s),
           NEW m \in DataMember, Diverges(m)
    PROVE  StillDiverged(m) \/ NewlyDiverged(m, s)
  <1>0. n \in Member /\ s \in Member
    BY BoundTypes
  <1>1. CASE GetMore(n, s)
    <2> DEFINE f == Checked(n, s, <<>>)
    <2>1. f \in Response /\ f.stage \in {"Checked", "Advanced"}
      <3>1. <<>> \in Oplog
        BY DEF Oplog
      <3> QED
        BY <1>0, <3>1, CheckedType
    <2>2. Answer(n, s, f)
      BY <1>1 DEF GetMore
    <2> HIDE DEF f
    <2>3. StillDiverged(m) \/ fetcher'[m] = f
      BY <2>1, <2>2, AnswerDiverged
    <2> QED
      BY <2>1, <2>3 DEF Diverges
  <1>2. CASE Find(n, s)
    <2>1. PICK f \in Response, v \in Nat :
              /\ Answer(n, s, f) /\ Less(LastFetched(n), Top(oplog[s])) /\ v <= visible[s]
              /\ \/ f = Diverged(s)
                 \/ /\ Has(Upto(oplog[s], v), LastFetched(n))
                    /\ f = Checked(n, s, After(Upto(oplog[s], v), LastFetched(n).ts))
      BY <1>2, FindIs
    <2>2. StillDiverged(m) \/ (m = n /\ fetcher'[m] = f /\ oplog' = oplog /\ buffer' = buffer)
      BY <2>1, AnswerDiverged
    <2>3. CASE f = Diverged(s)
      <3>1. f.source = s
        BY <2>3 DEF Diverged
      <3>2. Less(Top(Fetched(n)), Top(oplog[s]))
        BY <2>1 DEF LastFetched, Fetched
      <3>3. ASSUME m = n, fetcher'[m] = f, oplog' = oplog, buffer' = buffer PROVE NewlyDiverged(m, s)
        BY <3>1, <3>2, <3>3 DEF NewlyDiverged, Fetched
      <3> QED
        BY <2>2, <3>3
    <2>4. CASE f # Diverged(s)
      <3>1. \A docs : Checked(n, s, docs).stage \in {"Checked", "Advanced"}
        BY DEF Checked, Advanced
      <3>2. f.stage \in {"Checked", "Advanced"}
        BY <2>1, <2>4, <3>1
      <3> QED
        BY <2>2, <3>2 DEF Diverges
    <2> QED
      BY <2>3, <2>4
  <1> QED
    BY <1>1, <1>2

LEMMA OwnStepDiverged ==
    ASSUME Shape, NEW n \in DataMember, MyStep(n), NEW m \in DataMember, Diverges(m)
    PROVE  StillDiverged(m)
  <1>0. m \in Member /\ n \in Member /\ oplog \in [Member -> Oplog]
    BY BoundTypes, TypeParts DEF Shape
  <1>1. producer' = producer /\ fetcher' = fetcher /\ (Fetched(n)' = Fetched(n) \/ Appends(n))
    BY DEF MyStep
  <1>2. PICK l \in Oplog : oplog' = [oplog EXCEPT ![n] = l]
    BY DEF MyStep
  <1>3. CASE m # n
    <2>1. buffer'[m] = buffer[m] /\ oplog'[m] = oplog[m]
      BY <1>0, <1>2, <1>3 DEF MyStep
    <2> QED
      BY <1>1, <2>1, SameDiverged
  <1>4. CASE m = n
    <2>1. ~Appends(n)
      BY <1>1, <1>4 DEF Appends, Diverges
    <2>2. Fetched(m)' = Fetched(m) /\ Fetched(m) \in Oplog
      BY <1>0, <1>1, <1>4, <2>1, FetchedShape
    <2>3. Begins(Fetched(m)', Fetched(m))
      BY <2>2, BeginsItself
    <2> QED
      BY <1>1, <2>3 DEF StillDiverged, Diverges
  <1> QED
    BY <1>3, <1>4

LEMMA DivergedOrigin ==
    ASSUME Shape, LogInv, Next, NEW m \in DataMember, Diverges(m)
    PROVE  StillDiverged(m) \/ \E s \in DataMember : NewlyDiverged(m, s)
  <1>0. /\ m \in Member /\ fetcher \in [Member -> Response] /\ producer \in [Member -> Producers]
        /\ buffer \in [Member -> Oplog] /\ oplog \in [Member -> Oplog] /\ DataMember \subseteq Member
    BY BoundTypes, TypeParts DEF Shape
  <1>1. ASSUME NEW n \in DataMember,
               EnterDrainMode(n) \/ StepDownFinish(n) \/ StartProducer(n) \/ AdvanceCommitPoint(n) \/ ProcessBatch(n)
        PROVE  StillDiverged(m)
    BY <1>1, FetcherMoves
  <1>2. ASSUME NEW n \in DataMember, StepDownSelf(n) PROVE StillDiverged(m)
    BY <1>2, SameDiverged DEF StepDownSelf, fetchVars, logVars
  <1>3. ASSUME NEW n \in DataMember, SignalDrainComplete(n) \/ Write(n) \/ Journal(n) \/ ApplyBatch(n)
        PROVE  StillDiverged(m)
    BY <1>3, MySteps, OwnStepDiverged
  <1>4. ASSUME NEW n \in DataMember, NEW s \in DataMember, Find(n, s) \/ GetMore(n, s)
        PROVE  StillDiverged(m) \/ NewlyDiverged(m, s)
    BY <1>4, FindDiverged
  <1>5. ASSUME NEW n \in Member, NEW q \in Member, LearnTerm(n, q) \/ ArbiterHeartbeat(n, q)
        PROVE  StillDiverged(m)
    BY <1>5, SameDiverged DEF LearnTerm, ArbiterHeartbeat, fetchVars, logVars
  <1>6. ASSUME NEW n \in DataMember, NEW Q \in SUBSET Member, Elect(n, Q) PROVE StillDiverged(m)
    <2>1. oplog' = oplog /\ buffer' = buffer /\ producer' = producer /\ fetcher' = fetcher
      BY <1>6, ElectIs
    <2> QED
      BY <2>1, SameDiverged
  <1>7. ASSUME NEW n \in DataMember, NEW q \in Member, NEW r \in Reports(q), ReceivePosition(n, q, r)
        PROVE  StillDiverged(m)
    <2>1. oplog' = oplog /\ buffer' = buffer /\ producer' = producer /\ fetcher' = fetcher
      BY <1>7, ReceiveQuiet
    <2> QED
      BY <2>1, SameDiverged
  <1>8. ASSUME NEW n \in DataMember, Rollback(n) PROVE StillDiverged(m)
    <2>1. /\ buffer' = buffer /\ producer' = producer
          /\ \A q \in Member : q # n => fetcher'[q] = fetcher[q] /\ oplog'[q] = oplog[q]
      BY <1>8, RollbackQuiet
    <2>2. (fetcher' = fetcher /\ oplog' = oplog) \/ fetcher' = [fetcher EXCEPT ![n] = NoFetch]
      BY <1>8, RollbackIs
    <2>3. NoFetch.stage # "Diverged"
      BY DEF NoFetch
    <2>4. fetcher'[m] = fetcher[m] /\ oplog'[m] = oplog[m]
      BY <1>0, <2>1, <2>2, <2>3 DEF Diverges
    <2> QED
      BY <2>1, <2>4, SameDiverged
  <1>9. ASSUME NEW n \in Member, Crash(n) PROVE StillDiverged(m)
    <2>1. /\ fetcher'[n] = NoFetch
          /\ \A q \in Member : q # n => /\ oplog'[q] = oplog[q] /\ producer'[q] = producer[q]
                                        /\ fetcher'[q] = fetcher[q] /\ buffer'[q] = buffer[q]
      BY <1>9, CrashReports
    <2>2. m # n
      BY <2>1 DEF Diverges, NoFetch
    <2> QED
      BY <1>0, <2>1, <2>2, SameDiverged
  <1> QED
    BY <1>1, <1>2, <1>3, <1>4, <1>5, <1>6, <1>7, <1>8, <1>9, Actions

LEMMA SourceStep ==
    ASSUME Shape, LogInv, TermInv, TypeInv', CrashKeepsCounted, Next, NEW e \in Entries,
           FollowsEntry(e), InSource(e)
    PROVE  InSource(e)'
  <1> SUFFICES ASSUME NEW n \in DataMember, producer'[n] = "Running", fetcher'[n].stage = "Diverged",
                      Beyond(Fetched(n)', e)
               PROVE  Beyond(oplog'[fetcher'[n].source], e)
    BY DEF InSource, Beyond
  <1>0. n \in Member /\ Diverges(n) /\ Fetched(n)' \in Oplog /\ Fetched(n) \in Oplog
    BY BoundTypes, FetchedNext, FetchedShape DEF Diverges
  <1>1. CASE StillDiverged(n)
    <2>1. /\ producer[n] = "Running" /\ fetcher[n].stage = "Diverged" /\ fetcher'[n] = fetcher[n]
          /\ Begins(Fetched(n)', Fetched(n))
      BY <1>1 DEF StillDiverged
    <2>2. Beyond(Fetched(n), e)
      BY <1>0, <2>1, BeyondKept
    <2>3. fetcher[n].source \in DataMember
      BY <1>0, <2>1, MemberShape, ResponseIs
    <2>4. Beyond(oplog[fetcher[n].source], e)
      BY <2>1, <2>2 DEF InSource
    <2> DEFINE s == fetcher[n].source
    <2>5. s \in DataMember /\ Beyond(oplog[s], e) /\ fetcher'[n].source = s /\ RollsBackTo(n, s)
      BY <2>1, <2>3, <2>4 DEF RollsBackTo
    <2> HIDE DEF s
    <2>6. Beyond(oplog'[s], e)
      BY <2>5, BeyondStep
    <2> QED
      BY <2>5, <2>6
  <1>2. ASSUME NEW s \in DataMember, NewlyDiverged(n, s) PROVE Beyond(oplog'[fetcher'[n].source], e)
    <2>1. /\ fetcher'[n].source = s /\ oplog' = oplog /\ Fetched(n)' = Fetched(n)
          /\ Less(Top(Fetched(n)), Top(oplog[s]))
      BY <1>2 DEF NewlyDiverged
    <2> DEFINE l == Fetched(n)
               t == oplog[s]
    <2>2. /\ l \in Oplog /\ t \in Oplog /\ Len(l) <= MaxOplog /\ Len(t) <= MaxOplog
          /\ Begins(l, Coming(n)) /\ Begins(t, Coming(s)) /\ Coming(n) \in Oplog
      BY <1>0, BoundTypes, ComingShape, MemberShape
    <2>3. t # <<>>
      BY OplogBegins
    <2>4. Ascending(l)
      BY <2>2, AscendingPart DEF TermInv
    <2>5. AtMost(Top(l), Top(t)) /\ Beyond(l, e)
      BY <2>1 DEF AtMost
    <2> HIDE DEF l, t
    <2>6. t[Len(t)] > e.term => Beyond(t, e)
      BY <2>2, <2>3, LaterHasEntry
    <2>7. Beyond(t, e)
      BY <2>2, <2>3, <2>4, <2>5, <2>6, UpToDate
    <2> QED
      BY <2>1, <2>7 DEF t
  <1> QED
    BY <1>0, <1>1, <1>2, DivergedOrigin

----------------------------------------------------------------------------
(* The invariant is inductive.                                              *)

\* Whoever goes on has what is committed, if it was there before.
LEMMA CommittedFollows ==
    ASSUME OplogInv, TypeInv', CommittedInv, Next, committed # <<>>,
           NEW n \in DataMember, NEW j \in 1..Len(Coming(n)'), Len(committed) <= j,
           Coming(n)'[j] = Top(committed).term, NEW i \in 1..Len(committed)
    PROVE  Coming(n)'[i] = committed[i]
  <1>0. Shape /\ LogInv /\ IsOplog(committed) /\ n \in Member
    BY BoundTypes DEF OplogInv, Shape
  <1>1. Len(committed) \in Nat /\ Len(committed) >= 1 /\ Top(committed).ts = Len(committed) /\ Top(committed) \in Entries
    BY <1>0, CommittedTop
  <1>2. Len(Coming(n)') \in Nat /\ j \in Nat /\ i \in Nat /\ i <= j /\ 1 <= i
    BY <1>0, <1>1, ComingNext
  <1>3. \A q \in DataMember : \A x \in 1..Len(Coming(q)) :
           Len(committed) <= x /\ Coming(q)[x] = Top(committed).term => Coming(q)[i] = committed[i]
    BY DEF CommittedInv, HasCommitted
  <1>4. ASSUME NEW p \in DataMember, NEW Q \in SUBSET Member, Elect(p, Q) PROVE Coming(n)'[i] = committed[i]
    <2>1. Coming(n)' = Coming(n)
      BY <1>0, <1>4, ElectBegin
    <2> QED
      BY <1>3, <2>1
  <1>5. CASE LogStep
    <2>1. Old(n, j) \/ New(n, j)
      BY <1>0, <1>5, Origin
    <2>2. CASE Old(n, j)
      <3>1. PICK q \in DataMember : j <= Len(Coming(q)) /\ \A k \in 1..j : Coming(n)'[k] = Coming(q)[k]
        BY <2>2 DEF Old
      <3>2. q \in Member /\ Len(Coming(q)) \in Nat
        BY <1>0, BoundTypes, ComingShape
      <3>3. j \in 1..Len(Coming(q)) /\ j \in 1..j /\ i \in 1..j
        BY <1>2, <3>1, <3>2
      <3>4. Coming(q)[j] = Top(committed).term
        BY <3>1, <3>3
      <3>5. Coming(q)[i] = committed[i]
        BY <1>3, <3>3, <3>4
      <3> QED
        BY <3>1, <3>3, <3>5
    <2>3. CASE New(n, j)
      <3>1. /\ IsPrimary(role[n]) /\ Coming(n)' = oplog'[n] /\ j = Len(oplog[n]) + 1 /\ Coming(n) = oplog[n]
            /\ Len(oplog'[n]) = Len(oplog[n]) + 1
            /\ Begins(oplog[n], oplog'[n]) /\ oplog'[n][Len(oplog'[n])] = term[n]
        BY <2>3 DEF New, Writes
      <3>2. term[n] = Top(committed).term
        BY <3>1
      <3>3. Has(oplog[n], Top(committed))
        <4>1. OpTimeOK(Top(committed)) /\ Top(committed) # Null
          BY <1>1, EntryIs, NullType DEF CommittedInv
        <4> QED
          BY <3>1, <3>2, <4>1 DEF OpTimeOK
      <3>4. Len(committed) \in 1..Len(Coming(n)) /\ Coming(n)[Len(committed)] = Top(committed).term
        BY <1>1, <3>1, <3>3 DEF Has
      <3>5. Coming(n)[i] = committed[i]
        BY <1>1, <1>3, <3>4
      <3>6. i \in 1..Len(oplog[n])
        BY <1>2, <1>1, <3>1, <3>4, OplogLength, MemberShape
      <3> QED
        BY <3>1, <3>5, <3>6 DEF Begins
    <2> QED
      BY <2>1, <2>2, <2>3
  <1> QED
    BY <1>0, <1>4, <1>5, StepKinds

\* Somebody still has what was committed.
LEMMA HolderNext ==
    ASSUME CommitInv, TypeInv', BeginInv', CrashKeepsCounted, Next, committed # <<>>
    PROVE  \E h \in DataMember : Begins(committed, Coming(h)')
  <1>0. OplogInv /\ Shape /\ LogInv /\ SafeInv /\ CommittedInv /\ IsOplog(committed)
    BY DEF CommitInv, OplogInv, Shape
  <1> DEFINE e == Top(committed)
  <1>1. /\ committed \in Oplog /\ Len(committed) \in Nat /\ e \in Entries /\ e.ts = Len(committed)
    BY <1>0, CommittedTop
  <1>2. InSource(e)
    BY <1>0, <1>1 DEF SafeInv, Protected
  <1>3. PICK h \in DataMember : CountedBeyond(oplog[h], durable[h], e)
    <2> DEFINE W == {m \in DataMember : CountedBeyond(oplog[m], durable[m], e)}
    <2>1. Cardinality(W) >= WriteMajority
      BY <1>0 DEF CommittedInv
    <2>2. Cardinality({}) = 0
      BY FS_EmptySet
    <2>3. ASSUME W = {} PROVE FALSE
      <3> HIDE DEF W
      <3>1. Cardinality(W) = 0
        BY <2>2, <2>3
      <3> QED
        BY <2>1, <3>1, MajorityTypes
    <2> QED
      BY <2>3
  <1>4. Beyond(oplog'[h], e)
    <2> HIDE DEF e
    <2>1. CountedBeyond(oplog'[h], durable'[h], e)
      BY <1>0, <1>1, <1>2, <1>3, CountedStep
    <2>2. /\ oplog'[h] \in Oplog /\ durable'[h] \in Nat /\ visible'[h] \in Nat
          /\ durable'[h] <= visible'[h] /\ visible'[h] <= Len(oplog'[h])
      BY BoundTypes DEF TypeInv, LogType
    <2>3. durable'[h] <= Len(oplog'[h])
      BY <2>2, OplogLength
    <2> QED
      BY <2>1, <2>2, <2>3, CountedIsBeyond
  <1>5. /\ oplog'[h] \in Oplog /\ Begins(oplog'[h], Coming(h)') /\ Coming(h)' \in Oplog
        /\ Len(oplog'[h]) \in Nat /\ Len(Coming(h)') \in Nat
    BY BoundTypes, ComingNext
  <1>6. PICK j \in 1..Len(Coming(h)') : Len(committed) <= j /\ Coming(h)'[j] = e.term
    BY <1>1, <1>4, <1>5 DEF Beyond, Begins
  <1>7. \A i \in 1..Len(committed) : Coming(h)'[i] = committed[i]
    BY <1>0, <1>6, CommittedFollows
  <1> QED
    BY <1>1, <1>5, <1>6, <1>7 DEF Begins

LEMMA AlreadyCommitted ==
    ASSUME CommitInv, OplogInv', CrashKeepsCounted, Next, committed # <<>>,
           NEW n \in DataMember, NEW c \in Entries, Declares(n, c), Beyond(committed, c)
    PROVE  committed' = committed
  <1>0. /\ TypeInv' /\ BeginInv' /\ AgreeInv' /\ n \in Member
    BY BoundTypes DEF OplogInv, LogInv
  <1> DEFINE l == oplog'[n]
  <1>1. committed \in Oplog /\ Len(committed) \in Nat
    BY CommittedAscends
  <1>2. Has(l, c) /\ (committed' = committed \/ ~IsPrefixOf(Upto(l, c.ts), committed))
    BY DEF Declares
  <1>3. /\ l \in Oplog /\ Len(l) \in Nat /\ Begins(l, Coming(n)') /\ Coming(n)' \in Oplog
        /\ Len(Coming(n)') \in Nat /\ Len(Coming(n)') <= MaxOplog
    BY <1>0, ComingNext DEF BeginInv
  <1>4. Len(l) <= MaxOplog
    BY <1>3, BoundTypes DEF Begins
  <1> HIDE DEF l
  <1>5. c.ts \in 1..Len(l) /\ l[c.ts] = c.term /\ c.ts \in Nat /\ c \in OpTime
    BY <1>2, EntryIs DEF Has
  <1>6. Upto(l, c.ts) \in Oplog /\ Len(Upto(l, c.ts)) = c.ts /\ \A k \in 1..c.ts : Upto(l, c.ts)[k] = l[k]
    BY <1>2, <1>3, <1>4, <1>5, TopOfPart
  <1>7. PICK h \in DataMember : Begins(committed, Coming(h)')
    BY <1>0, HolderNext
  <1>8. Len(Coming(h)') \in Nat /\ Len(committed) <= Len(Coming(h)')
    BY <1>0, <1>7, BoundTypes, ComingNext DEF Begins
  <1>9. PICK k \in 1..Len(committed) : c.ts <= k /\ committed[k] = c.term
    BY DEF Beyond
  <1>10. /\ c.ts \in 1..Len(Coming(n)') /\ k \in c.ts..Len(Coming(h)') /\ Coming(n)'[c.ts] = Coming(h)'[k]
         /\ \A i \in 1..c.ts : i \in 1..Len(l) /\ i \in 1..Len(committed)
    BY <1>1, <1>3, <1>5, <1>7, <1>8, <1>9 DEF Begins
  <1>11. \A i \in 1..c.ts : Coming(n)'[i] = Coming(h)'[i]
    BY <1>0, <1>10 DEF AgreeInv
  <1>12. \A i \in 1..c.ts : committed[i] = l[i]
    BY <1>3, <1>7, <1>10, <1>11 DEF Begins
  <1>13. Begins(Upto(l, c.ts), committed)
    BY <1>1, <1>5, <1>6, <1>9, <1>12 DEF Begins
  <1> QED
    BY <1>1, <1>2, <1>6, <1>13, PrefixIs

\* A primary that counts an arbiter commits nothing new: the arbiter has heard of it.
LEMMA ArbiterAddsNothing ==
    ASSUME CommitInv, OplogInv', PositionInv', PositionsFrom, ReportsKept, CrashKeepsCounted, Next,
           NEW n \in DataMember, NEW c \in Entries, Declares(n, c), NEW m \in Arbiter, AtMost(c, position'[n][m])
    PROVE  committed' = committed
  <1>0. /\ Shape /\ LogInv /\ SafeInv /\ VoteInv /\ n \in Member /\ m \in Member /\ TypeInv'
    BY BoundTypes DEF CommitInv, OplogInv, Shape
  <1> DEFINE o == position'[n][m]
  <1>1. /\ c.term = term[n] /\ term'[n] = term[n] /\ IsCounting(role'[n])
        /\ Cardinality({q \in Member : AtMost(c, position'[n][q])}) >= WriteMajority
    BY DEF Declares
  <1>2. Covers(o, c) /\ o \in OpTime
    BY <1>0, <1>1, CountingAcked DEF TypeInv, OpTimeType
  <1>3. PassedIn(committed, o)
    BY <1>0, <1>1, <1>2, ArbiterPassed DEF Covers
  <1> HIDE DEF o
  <1>4. committed # <<>> /\ Beyond(committed, c)
    <2>1. CASE WriteMajority = VoteMajority
      <3>1. Choosable(c)'
        BY <1>0, <1>1, <2>1, CountedIsChoosable DEF Acceptors
      <3>2. Choosable(c)
        BY <1>0, <3>1, ChoosableKept
      <3>3. FollowsEntry(c)
        BY <1>0, <3>2 DEF SafeInv, Protected
      <3> QED
        BY <1>2, <1>3, <3>3, PassedIsBeyond
    <2>2. CASE WriteMajority # VoteMajority
      <3>1. o # Null /\ o.term = term[n] /\ term[n] \in Int
        BY <1>0, <1>1, <1>2, EntryIs, NullType, TermIntegers DEF Covers
      <3>2. committed # <<>>
        BY <1>3, <3>1 DEF PassedIn, Has
      <3>3. Top(committed).term <= term[n] /\ Top(committed).term \in Int
        BY <2>2, <3>2, AllHaveCommitted, CommittedTop, EntryIs DEF CommitInv, OplogInv
      <3>4. Has(committed, o)
        BY <1>3, <3>1, <3>3 DEF PassedIn
      <3> QED
        BY <1>2, <3>2, <3>4, HasIsBeyond
    <2> QED
      BY <2>1, <2>2
  <1> QED
    BY <1>4, AlreadyCommitted

LEMMA DeclaredIsChoosable ==
    ASSUME CommitInv, OplogInv', PositionInv', PositionsFrom, ReportsKept, CrashKeepsCounted, Next,
           NEW n \in DataMember, NEW c \in Entries, Declares(n, c), committed' # committed
    PROVE  Choosable(c)' /\ Cardinality({m \in DataMember : Acked(m, c)'}) >= WriteMajority
  <1>0. TypeInv'
    BY DEF OplogInv
  <1>1. /\ c.term = term'[n] /\ IsCounting(role'[n])
        /\ Cardinality({m \in Member : AtMost(c, position'[n][m])}) >= WriteMajority
    BY DEF Declares
  <1>2. \A m \in Member : AtMost(c, position'[n][m]) => m \in DataMember
    BY ArbiterAddsNothing DEF DataMember
  <1> DEFINE A == {m \in Member : AtMost(c, position'[n][m])}
             B == {m \in DataMember : Acked(m, c)'}
  <1>3. A \subseteq B
    BY <1>0, <1>1, <1>2, CountingAcked
  <1>4. IsFiniteSet(B)
    BY BoundTypes, FS_Subset
  <1>5. Cardinality(A) <= Cardinality(B) /\ Cardinality(A) \in Nat /\ Cardinality(B) \in Nat
    BY <1>3, <1>4, FS_Subset, FS_CardinalityType
  <1>6. Cardinality(B) >= WriteMajority
    BY <1>1, <1>5, MajorityTypes
  <1>7. Choosable(c)'
    BY <1>0, <1>1, <1>2, AcceptorsAre, CountedIsChoosable
  <1> QED
    BY <1>6, <1>7

\* Nothing becomes protected.
LEMMA ProtectedKept ==
    ASSUME CommitInv, OplogInv', PositionInv', PositionsFrom, ReportsKept, CrashKeepsCounted, Next,
           NEW e \in Entries, Protected(e)'
    PROVE  Protected(e)
  <1>0. OplogInv /\ Shape /\ LogInv /\ VoteInv /\ TypeInv' /\ BeginInv'
    BY DEF CommitInv, OplogInv, Shape
  <1>1. CASE Choosable(e)'
    BY <1>0, <1>1, ChoosableKept DEF Protected
  <1>2. CASE committed' # <<>> /\ e = Top(committed')
    <2>1. CASE committed' = committed
      BY <1>2, <2>1 DEF Protected
    <2>2. ASSUME NEW n \in DataMember, NEW c \in Entries, Declares(n, c), committed' # committed
          PROVE  Protected(e)
      <3>1. Choosable(c)' /\ e = c
        BY <1>0, <1>2, <2>2, DeclaredIsChoosable, DeclaredTop
      <3> QED
        BY <1>0, <3>1, ChoosableKept DEF Protected
    <2> QED
      BY <1>0, <2>1, <2>2, DeclareStep
  <1>3. Choosable(e)' \/ (committed' # <<>> /\ e = Top(committed'))
    BY DEF Protected, Top, OpTimeAt, Null
  <1> QED
    BY <1>1, <1>2, <1>3

LEMMA SafeStep ==
    ASSUME CommitInv, OplogInv', PositionInv', PositionsFrom, ReportsKept, CrashKeepsCounted, Next
    PROVE  SafeInv'
  <1>0. Shape /\ LogInv /\ TermInv /\ VoteInv /\ SafeInv /\ TypeInv'
    BY DEF CommitInv, OplogInv, Shape
  <1> SUFFICES ASSUME NEW e \in Entries, Protected(e)'
               PROVE  FollowsEntry(e)' /\ InPrimaries(e)' /\ InAcknowledging(e)' /\ InSource(e)'
    BY DEF SafeInv
  <1>1. Protected(e)
    BY ProtectedKept
  <1>2. FollowsEntry(e) /\ InPrimaries(e) /\ InAcknowledging(e) /\ InSource(e)
    BY <1>0, <1>1 DEF SafeInv
  <1>3. FollowsEntry(e)'
    BY <1>0, <1>2, FollowsStep
  <1>4. InAcknowledging(e)'
    BY <1>0, <1>2, AcknowledgingStep
  <1>5. InPrimaries(e)'
    BY <1>0, <1>2, <1>4, PrimariesStep
  <1>6. InSource(e)'
    BY <1>0, <1>2, SourceStep
  <1> QED
    BY <1>3, <1>4, <1>5, <1>6

\* The three parts of CommittedInv, when nothing more is committed.
LEMMA CommittedStays ==
    ASSUME OplogInv, TypeInv', CommittedInv, SafeInv, CrashKeepsCounted, Next, committed # <<>>, committed' = committed
    PROVE  CommittedInv'
  <1>0. Shape /\ LogInv /\ IsOplog(committed)
    BY DEF OplogInv, Shape
  <1> DEFINE e == Top(committed)
             A == {m \in DataMember : CountedBeyond(oplog[m], durable[m], e)}
             B == {m \in DataMember : CountedBeyond(oplog'[m], durable'[m], e)}
  <1>1. e \in Entries /\ Top(committed') = e
    BY <1>0, CommittedTop
  <1>2. InSource(e)
    BY <1>1 DEF SafeInv, Protected
  <1>3. Cardinality(A) >= WriteMajority /\ OpTimeOK(e)
    BY DEF CommittedInv
  <1> HIDE DEF e
  <1>4. A \subseteq B /\ IsFiniteSet(B)
    BY <1>0, <1>1, <1>2, CountedStep, BoundTypes, FS_Subset
  <1>5. Cardinality(A) <= Cardinality(B) /\ Cardinality(A) \in Nat /\ Cardinality(B) \in Nat
    BY <1>4, FS_Subset, FS_CardinalityType
  <1>6. Cardinality(B) >= WriteMajority
    BY <1>3, <1>5, MajorityTypes
  <1>7. OKAfter(Top(committed'))
    <2>1. e \in OpTime
      BY <1>1, EntryIs
    <2>2. OKAfter(e)
      BY <1>0, <1>3, <2>1, OKKept, StepKinds
    <2> QED
      BY <1>1, <2>2
  <1>8. ASSUME NEW n \in DataMember, NEW j \in 1..Len(Coming(n)'), Len(committed') <= j,
               Coming(n)'[j] = Top(committed').term, NEW k \in 1..Len(committed')
        PROVE  Coming(n)'[k] = committed'[k]
    BY <1>8, CommittedFollows
  <1>9. /\ Cardinality({m \in DataMember : CountedBeyond(oplog'[m], durable'[m], Top(committed'))}) >= WriteMajority
        /\ \A n \in DataMember : \A j \in 1..Len(Coming(n)') :
              Len(committed') <= j /\ Coming(n)'[j] = Top(committed').term =>
                 \A k \in 1..Len(committed') : Coming(n)'[k] = committed'[k]
    BY <1>1, <1>6, <1>8
  <1>10. OpTimeOK(Top(committed))'
    BY <1>7 DEF OKAfter, OpTimeOK, Elected, Has, Top, OpTimeAt, Null
  <1> QED
    BY <1>9, <1>10 DEF CommittedInv, HasCommitted, CountedBeyond, CountedLength

LEMMA CommittedDeclared ==
    ASSUME CommitInv, OplogInv', PositionInv', PositionsFrom, ReportsKept, CrashKeepsCounted, Next, SafeInv',
           NEW n \in DataMember, NEW c \in Entries, Declares(n, c), committed' # committed
    PROVE  CommittedInv'
  <1>0. TypeInv' /\ BeginInv' /\ ElectedInv' /\ OwnInv' /\ AgreeInv' /\ n \in Member
    BY BoundTypes DEF OplogInv, LogInv
  <1>1. /\ committed' # <<>> /\ Top(committed') = c
        /\ Len(committed') = c.ts /\ \A k \in 1..c.ts : committed'[k] = oplog'[n][k]
    BY <1>0, DeclaredTop
  <1>2. Choosable(c)' /\ Cardinality({m \in DataMember : Acked(m, c)'}) >= WriteMajority
    BY <1>0, DeclaredIsChoosable
  <1>3. InAcknowledging(c)'
    BY <1>2 DEF SafeInv, Protected
  <1> DEFINE A == {m \in DataMember : Acked(m, c)'}
             B == {m \in DataMember : CountedBeyond(oplog'[m], durable'[m], c)}
  <1>4. A \subseteq B /\ IsFiniteSet(B)
    <2>1. \A m \in DataMember : Acked(m, c)' => CountedBeyond(oplog'[m], durable'[m], c)
      BY <1>3 DEF InAcknowledging, CountedBeyond, CountedLength
    <2> QED
      BY <2>1, BoundTypes, FS_Subset
  <1>5. Cardinality(A) <= Cardinality(B) /\ Cardinality(A) \in Nat /\ Cardinality(B) \in Nat
    BY <1>4, FS_Subset, FS_CardinalityType
  <1>6. Cardinality(B) >= WriteMajority
    BY <1>2, <1>5, MajorityTypes
  <1>7. OKAfter(Top(committed'))
    BY <1>0, <1>1, EntryIs, EntryOKAfter DEF Declares
  <1>8. ASSUME NEW q \in DataMember, NEW j \in 1..Len(Coming(q)'), c.ts <= j,
               Coming(q)'[j] = c.term, NEW k \in 1..c.ts
        PROVE  Coming(q)'[k] = oplog'[n][k]
    <2>1. /\ Len(Coming(q)') \in Nat /\ Len(Coming(n)') \in Nat /\ Len(oplog'[n]) \in Nat
          /\ Begins(oplog'[n], Coming(n)')
      BY <1>0, BoundTypes, ComingNext
    <2>2. c.ts \in 1..Len(oplog'[n]) /\ oplog'[n][c.ts] = c.term
      BY DEF Declares, Has
    <2>3. c.ts \in 1..Len(Coming(n)') /\ Coming(n)'[c.ts] = c.term /\ j \in c.ts..Len(Coming(q)')
      BY <1>8, <2>1, <2>2 DEF Begins
    <2>4. Coming(n)'[k] = Coming(q)'[k]
      BY <1>0, <1>8, <2>3 DEF AgreeInv
    <2>5. k \in 1..Len(oplog'[n])
      BY <2>1, <2>2
    <2> QED
      BY <2>1, <2>4, <2>5 DEF Begins
  <1>9. /\ Cardinality({m \in DataMember : CountedBeyond(oplog'[m], durable'[m], Top(committed'))}) >= WriteMajority
        /\ \A q \in DataMember : \A j \in 1..Len(Coming(q)') :
              Len(committed') <= j /\ Coming(q)'[j] = Top(committed').term =>
                 \A k \in 1..Len(committed') : Coming(q)'[k] = committed'[k]
    BY <1>1, <1>6, <1>8
  <1>10. OpTimeOK(Top(committed))'
    BY <1>7 DEF OKAfter, OpTimeOK, Elected, Has, Top, OpTimeAt, Null
  <1> QED
    BY <1>9, <1>10 DEF CommittedInv, HasCommitted, CountedBeyond, CountedLength

\* The invariant, but for what the members take for the commit point.
LEMMA CoreStep ==
    ASSUME CommitInv, Next, Careful
    PROVE  /\ OplogInv' /\ TermInv' /\ VoteInv' /\ PositionInv' /\ SafeInv' /\ CommittedInv'
           /\ PositionsFrom /\ ReportsKept /\ CrashKeepsCounted
  <1>0. /\ OplogInv /\ TermInv /\ VoteInv /\ PositionInv /\ SafeInv /\ CommittedInv
        /\ NoFetchInLimbo /\ CrashKeepsCounted
    BY DEF CommitInv, Careful
  <1>1. Shape /\ LogInv
    BY <1>0 DEF OplogInv, Shape
  <1>2. OplogInv' /\ TypeInv'
    BY <1>0, OplogInvStep DEF OplogInv
  <1>3. TermInv'
    BY <1>0, <1>1, TermInvStep
  <1>4. VoteInv'
    BY <1>0, <1>1, VoteStep
  <1>5. PositionsFrom /\ ReportsKept
    BY <1>0, <1>1, PositionStep, ReportsStep
  <1>6. PositionInv'
    BY <1>0, <1>1, <1>5, PositionInvStep
  <1>7. SafeInv'
    BY <1>0, <1>2, <1>5, <1>6, SafeStep
  <1>8. CommittedInv'
    <2>1. CASE committed' = committed /\ committed # <<>>
      BY <1>0, <1>2, <2>1, CommittedStays
    <2>2. CASE committed' = <<>>
      BY <2>2 DEF CommittedInv
    <2>3. ASSUME NEW n \in DataMember, NEW c \in Entries, Declares(n, c), committed' # committed
          PROVE  CommittedInv'
      BY <1>0, <1>2, <1>5, <1>6, <1>7, <2>3, CommittedDeclared
    <2> QED
      BY <1>0, <2>1, <2>2, <2>3, DeclareStep
  <1> QED
    BY <1>0, <1>2, <1>3, <1>4, <1>5, <1>6, <1>7, <1>8

\* A primary whose term is not before the last committed one has what is committed.
LEMMA PrimaryHasCommitted ==
    ASSUME CommitInv, committed # <<>>, NEW n \in DataMember, IsPrimary(role[n]),
           term[n] >= Top(committed).term
    PROVE  Begins(committed, oplog[n]) /\ IsPrefixOf(committed, oplog[n])
  <1>0. OplogInv /\ Shape /\ IsOplog(committed) /\ CommittedInv /\ SafeInv /\ n \in Member
    BY BoundTypes DEF CommitInv, OplogInv, Shape
  <1> DEFINE e == Top(committed)
  <1>1. e \in Entries /\ e.term \in Int /\ e # Null
    BY <1>0, CommittedTop, EntryIs, NullType
  <1>2. Protected(e)
    BY DEF Protected
  <1>3. term[n] \in Int
    BY <1>0, TermIntegers
  <1>4. CASE term[n] > e.term
    <2>1. Beyond(oplog[n], e)
      BY <1>0, <1>1, <1>2, <1>4 DEF SafeInv, InPrimaries
    <2> QED
      BY <1>0, <2>1, BeyondHasCommitted
  <1>5. CASE term[n] = e.term
    <2>1. Has(oplog[n], e)
      BY <1>0, <1>1, <1>5 DEF CommittedInv, OpTimeOK
    <2>2. Beyond(oplog[n], e)
      <3> HIDE DEF e
      <3>1. Covers(e, e)
        BY <1>1, EntryIs DEF Covers
      <3> QED
        BY <2>1, <3>1, HasIsBeyond
    <2> QED
      BY <1>0, <2>2, BeyondHasCommitted
  <1> QED
    BY <1>1, <1>3, <1>4, <1>5

\* Two commit points that are declared are on one branch: c, when it is declared,
\* is on that of what was committed before, whichever of the two terms is later.
LEMMA DeclaredExtends ==
    ASSUME CommitInv, Next, Careful, committed # <<>>,
           NEW n \in DataMember, NEW c \in Entries, Declares(n, c), committed' # committed
    PROVE  Begins(committed, committed')
  <1>0. /\ OplogInv /\ Shape /\ LogInv /\ IsOplog(committed) /\ CommittedInv /\ SafeInv /\ TermInv /\ VoteInv
        /\ CrashKeepsCounted /\ n \in Member
    BY BoundTypes DEF CommitInv, OplogInv, Shape, Careful
  <1>1. OplogInv' /\ PositionInv' /\ PositionsFrom /\ ReportsKept
    BY CoreStep
  <1>2. TypeInv' /\ BeginInv'
    BY <1>1 DEF OplogInv
  <1> DEFINE e == Top(committed)
             l == oplog'[n]
  <1>3. /\ committed \in Oplog /\ Len(committed) \in Nat /\ Len(committed) >= 1
        /\ e \in Entries /\ e.ts = Len(committed) /\ e.term = committed[Len(committed)] /\ e.term \in Int
    BY <1>0, CommittedTop, EntryIs
  <1>4. /\ committed' = Upto(l, c.ts) /\ Len(committed') = c.ts
        /\ \A k \in 1..c.ts : committed'[k] = l[k]
    BY <1>2, DeclaredTop
  <1>5. /\ Has(l, c) /\ c.term = term[n] /\ term'[n] = term[n] /\ IsCounting(role'[n])
        /\ ~IsPrefixOf(Upto(l, c.ts), committed)
    BY DEF Declares
  <1>6. /\ l \in Oplog /\ Len(l) \in Nat /\ Begins(l, Coming(n)') /\ Coming(n)' \in Oplog
        /\ Len(Coming(n)') \in Nat
    BY <1>0, <1>2, ComingNext
  <1>7. c.ts \in 1..Len(l) /\ l[c.ts] = c.term /\ c.ts \in Nat /\ c.term \in Int /\ c \in OpTime
    BY <1>5, EntryIs DEF Has
  <1>8. Upto(l, c.ts) \in Oplog /\ Len(Upto(l, c.ts)) = c.ts /\ \A k \in 1..c.ts : Upto(l, c.ts)[k] = l[k]
    <2> DEFINE i == c.ts
    <2>1. i \in Nat /\ i <= Len(l)
      BY <1>7
    <2> HIDE DEF i, l
    <2>2. Upto(l, i) \in Oplog /\ Len(Upto(l, i)) = i /\ \A k \in 1..i : Upto(l, i)[k] = l[k]
      BY <1>6, <2>1, Part DEF Oplog
    <2> QED
      BY <2>2 DEF i
  <1>9. ASSUME Begins(committed, l), Len(committed) <= c.ts PROVE Begins(committed, committed')
    BY <1>3, <1>4, <1>7, <1>9 DEF Begins
  <1>10. ASSUME c.ts <= Len(committed), \A k \in 1..c.ts : committed[k] = l[k] PROVE FALSE
    <2>1. Begins(Upto(l, c.ts), committed)
      BY <1>3, <1>8, <1>10 DEF Begins
    <2> QED
      BY <1>3, <1>5, <1>8, <2>1, PrefixIs
  <1>11. CASE term[n] >= e.term
    <2>1. IsPrimary(role[n]) /\ Begins(oplog[n], l)
      <3>1. PositionFrom(n, n) /\ IsPrimary(role'[n])
        BY <1>0, <1>1, <1>5 DEF PositionsFrom, IsCounting, IsPrimary
      <3>2. LogStep \/ \E p \in DataMember : \E Q \in SUBSET Member : Elect(p, Q)
        BY <1>0, StepKinds
      <3>3. CASE LogStep
        BY <3>1, <3>3 DEF LogStep, Kept
      <3>4. ASSUME NEW p \in DataMember, NEW Q \in SUBSET Member, Elect(p, Q) PROVE FALSE
        <4>1. committed' = committed
          BY <1>0, <3>4, ElectIs
        <4> QED
          BY <4>1
      <3> QED
        BY <3>2, <3>3, <3>4
    <2>2. Begins(committed, oplog[n])
      BY <1>11, <2>1, PrimaryHasCommitted
    <2>3. Begins(committed, l)
      BY <1>0, <1>3, <1>6, <2>1, <2>2, MemberShape, BeginsTransitive
    <2>4. Len(committed) \in 1..Len(l) /\ l[Len(committed)] = e.term
      BY <1>3, <1>6, <2>3 DEF Begins
    <2>5. CASE Len(committed) <= c.ts
      BY <1>9, <2>3, <2>5
    <2>6. CASE ~(Len(committed) <= c.ts)
      <3>1. c.ts <= Len(committed) /\ \A k \in 1..c.ts : committed[k] = l[k]
        BY <1>3, <1>7, <2>3, <2>6 DEF Begins
      <3> QED
        BY <1>10, <3>1
    <2> QED
      BY <2>5, <2>6
  <1>12. CASE ~(term[n] >= e.term)
    <2>0. e.term > c.term
      BY <1>0, <1>3, <1>5, <1>12, TermIntegers
    <2>1. FollowsEntry(c)
      <3>1. Choosable(c)'
        BY <1>0, <1>1, DeclaredIsChoosable
      <3>2. Choosable(c)
        BY <1>0, <1>1, <3>1, ChoosableKept
      <3> QED
        BY <1>0, <3>2 DEF SafeInv, Protected
    <2>2. PassedIn(committed, c) /\ Covers(c, c)
      BY <1>7, <2>0 DEF PassedIn, Covers
    <2>3. Beyond(committed, c)
      BY <1>7, <2>1, <2>2, PassedIsBeyond
    <2>4. committed' = committed
      BY <1>0, <1>1, <2>3, AlreadyCommitted
    <2> QED
      BY <2>4
  <1> QED
    BY <1>11, <1>12

LEMMA CommittedKept ==
    ASSUME CommitInv, Next, Careful
    PROVE  committed \in Oplog /\ committed' \in Oplog /\ Begins(committed, committed')
  <1>1. OplogInv /\ committed \in Oplog
    BY DEF CommitInv, OplogInv, IsOplog, Oplog, Terms
  <1>2. committed' \in Oplog
    BY <1>1, OplogInvStep DEF OplogInv, IsOplog, Oplog, Terms
  <1>3. CASE committed' = committed
    BY <1>1, <1>3, BeginsItself
  <1>4. CASE committed = <<>>
    BY <1>1, <1>2, <1>4, OplogLength DEF Begins
  <1>5. ASSUME NEW n \in DataMember, NEW c \in Entries, Declares(n, c), committed' # committed, committed # <<>>
        PROVE  Begins(committed, committed')
    BY <1>5, DeclaredExtends
  <1> QED
    BY <1>1, <1>2, <1>3, <1>4, <1>5, DeclareStep

----------------------------------------------------------------------------
(* Commit points are committed, or passed by. *)

LEMMA PassedGrows ==
    ASSUME NEW s \in Oplog, NEW t \in Oplog, Len(s) <= MaxOplog, Len(t) <= MaxOplog, Begins(s, t), Ascending(t),
           NEW o \in OpTime, PassedIn(s, o)
    PROVE  PassedIn(t, o)
  <1>1. CASE o = Null
    BY <1>1 DEF PassedIn
  <1>2. CASE Has(s, o)
    BY <1>2, HasKept DEF PassedIn
  <1>3. CASE s # <<>> /\ o.term < Top(s).term
    <2>1. Len(s) \in Nat /\ Len(t) \in Nat /\ Len(s) >= 1 /\ Len(s) <= Len(t)
      BY <1>3, OplogLength, EmptySeq DEF Begins, Oplog
    <2>2. t # <<>> /\ Top(t).term = t[Len(t)] /\ Top(s).term = s[Len(s)]
      <3>1. t # <<>>
        BY <2>1
      <3> QED
        BY <1>3, <3>1, TopType
    <2>3. t[Len(s)] = s[Len(s)] /\ t[Len(s)] <= t[Len(t)]
      BY <2>1 DEF Begins, Ascending
    <2>4. t[Len(s)] \in Int /\ t[Len(t)] \in Int /\ o.term \in Int
      BY <2>1, OplogElement, OrderOfOpTimes
    <2> QED
      BY <1>3, <2>2, <2>3, <2>4 DEF PassedIn
  <1> QED
    BY <1>1, <1>2, <1>3 DEF PassedIn

\* What lies before an optime that is passed, in an earlier term, is passed too.
LEMMA PassedBelow ==
    ASSUME NEW l \in Oplog, Len(l) <= MaxOplog, Ascending(l), NEW o \in OpTime, PassedIn(l, o),
           NEW c \in OpTime, c.term < o.term, o # Null
    PROVE  PassedIn(l, c)
  <1>0. o.term \in Int /\ c.term \in Int
    BY OrderOfOpTimes
  <1>1. CASE Has(l, o)
    <2>1. o.ts \in 1..Len(l) /\ l[o.ts] = o.term /\ Len(l) \in Nat
      BY <1>1, OplogLength DEF Has
    <2>2. l # <<>> /\ Top(l).term = l[Len(l)]
      <3>1. l # <<>>
        BY <2>1
      <3> QED
        BY <3>1, TopType
    <2>3. l[o.ts] <= l[Len(l)] /\ l[Len(l)] \in Int
      BY <2>1, OplogElement DEF Ascending
    <2> QED
      BY <1>0, <2>1, <2>2, <2>3 DEF PassedIn
  <1>2. CASE l # <<>> /\ o.term < Top(l).term
    <2>1. Top(l).term \in Int
      BY TopType, OrderOfOpTimes
    <2> QED
      BY <1>0, <1>2, <2>1 DEF PassedIn
  <1> QED
    BY <1>1, <1>2 DEF PassedIn

\* advanceLastCommittedOpTime takes the last applied optime only in an earlier term.
LEMMA AdvancePassed ==
    ASSUME Shape, NEW n \in Member, NEW r, NEW l \in Oplog, Len(l) <= MaxOplog, NEW o \in OpTime,
           NEW h \in Oplog, Len(h) <= MaxOplog, Ascending(h), PassedIn(h, o), PassedIn(h, commitPoint[n]),
           NEW c, c = AdvanceLastCommittedOpTime(n, r, l, o)
    PROVE  c \in OpTime /\ PassedIn(h, c)
  <1>0. commitPoint[n] \in OpTime /\ term[n] \in Terms /\ Top(l) \in OpTime
    BY MemberShape, TopType
  <1>1. c \in OpTime
    BY <1>0, AdvanceIs
  <1> DEFINE known == IF n \notin Arbiter /\ Top(l).term # o.term THEN Smaller(o, Top(l)) ELSE o
  <1>2. c = commitPoint[n] \/ c = known
    BY DEF AdvanceLastCommittedOpTime
  <1>3. known = o \/ (known = Top(l) /\ Top(l).term # o.term /\ Less(known, o))
    BY <1>0, OrderOfOpTimes, SmallerIs DEF Smaller, AtMost
  <1> HIDE DEF known
  <1>4. CASE c = commitPoint[n] \/ c = o
    BY <1>1, <1>4
  <1>5. CASE c = Top(l) /\ Top(l).term # o.term /\ Less(c, o)
    <2>1. c.term < o.term
      BY <1>5 DEF Less
    <2>2. o # Null
      <3>1. c.term >= -1
        BY <1>1 DEF OpTime
      <3>2. c.term \in Int /\ o.term \in Int
        BY <1>1, OrderOfOpTimes
      <3> QED
        BY <2>1, <3>1, <3>2, NullType
    <2> QED
      BY <1>1, <2>1, <2>2, PassedBelow
  <1> QED
    BY <1>1, <1>2, <1>3, <1>4, <1>5

FetcherFrom(m) ==
    \/ fetcher'[m] = fetcher[m] \/ fetcher'[m].stage # "Checked"
    \/ \E s \in Member : fetcher'[m].committed = commitPoint[s]
PointFrom(m) == commitPoint'[m] = commitPoint[m] \/ PassedIn(committed', commitPoint'[m])
PassesOn == \A m \in Member : FetcherFrom(m) /\ PointFrom(m)

LEMMA FetchFrom ==
    ASSUME Shape, NEW n \in DataMember, NEW s \in DataMember, Find(n, s) \/ GetMore(n, s)
    PROVE  \A m \in Member : FetcherFrom(m) /\ commitPoint'[m] = commitPoint[m]
  <1>0. n \in Member /\ s \in Member /\ <<>> \in Oplog
    BY BoundTypes DEF Oplog
  <1>1. \E f \in Response : /\ Answer(n, s, f)
                            /\ f.stage = "Checked" => f.committed = commitPoint[s]
    <2>1. CASE GetMore(n, s)
      BY <1>0, <2>1, CheckedType DEF GetMore
    <2>2. CASE Find(n, s)
      <3>1. PICK f \in Response, v \in Nat :
              /\ Answer(n, s, f)
              /\ f = Diverged(s) \/ f = Checked(n, s, After(Upto(oplog[s], v), LastFetched(n).ts))
        BY <2>2, FindIs
      <3> DEFINE docs == After(Upto(oplog[s], v), LastFetched(n).ts)
      <3>3. f = Diverged(s) \/ f = Checked(n, s, docs)
        BY <3>1
      <3>2. f.stage = "Checked" => f.committed = commitPoint[s]
        <4>1. Diverged(s).stage # "Checked"
          BY DEF Diverged
        <4> HIDE DEF docs
        <4>2. Checked(n, s, docs).stage = "Checked" => Checked(n, s, docs).committed = commitPoint[s]
          BY DEF Checked, Advanced
        <4> QED
          BY <3>3, <4>1, <4>2
      <3> QED
        BY <3>1, <3>2
    <2> QED
      BY <2>1, <2>2
  <1>2. PICK f \in Response : /\ Answer(n, s, f)
                              /\ f.stage = "Checked" => f.committed = commitPoint[s]
    BY <1>1
  <1>3. /\ fetcher' = [fetcher EXCEPT ![n] = IF term[n] > term[s] THEN NoFetch ELSE f]
        /\ commitPoint' = commitPoint
    BY <1>0, <1>2, AnswerIs
  <1>4. ASSUME NEW m \in Member PROVE FetcherFrom(m)
    <2>1. fetcher'[m] \in {fetcher[m], NoFetch, f} /\ (fetcher'[m] = f => f.stage # "Checked" \/ f.committed = commitPoint[s])
      BY <1>0, <1>2, <1>3, TypeParts DEF Shape
    <2>2. NoFetch.stage # "Checked"
      BY DEF NoFetch
    <2> QED
      BY <1>0, <2>1, <2>2 DEF FetcherFrom
  <1> QED
    BY <1>3, <1>4

\* A primary's commit point is committed when it moves.
LEMMA DeclaredPassed ==
    ASSUME Shape, OplogInv', IsOplog(committed), NEW n \in DataMember, MayDeclare(n)
    PROVE  \A m \in Member : PointFrom(m)
  <1>1. ASSUME NEW c \in Entries, Declares(n, c) PROVE PassedIn(committed', c)
    <2>1. /\ oplog'[n] \in Oplog /\ Len(oplog'[n]) <= MaxOplog
      <3>1. n \in Member /\ TypeInv' /\ BeginInv'
        BY BoundTypes DEF OplogInv
      <3>2. /\ Begins(oplog'[n], Coming(n)') /\ oplog'[n] \in Oplog /\ Len(oplog'[n]) \in Nat
            /\ Len(Coming(n)') \in Nat /\ Len(Coming(n)') <= MaxOplog
        BY <3>1, ComingNext DEF BeginInv
      <3> QED
        BY <3>2, BoundTypes DEF Begins
    <2>2. c \in OpTime /\ Has(oplog'[n], c)
      BY <1>1, EntryIs DEF Declares
    <2>3. /\ Upto(oplog'[n], c.ts) \in Oplog /\ Len(Upto(oplog'[n], c.ts)) = c.ts /\ c.ts \in Nat /\ c.ts >= 1
          /\ \A k \in 1..c.ts : Upto(oplog'[n], c.ts)[k] = oplog'[n][k]
      BY <2>1, <2>2, TopOfPart
    <2>4. Has(Upto(oplog'[n], c.ts), c)
      BY <2>2, <2>3 DEF Has
    <2>5. committed \in Oplog
      BY DEF IsOplog, Oplog, Terms
    <2>6. CASE committed' = Upto(oplog'[n], c.ts)
      BY <2>4, <2>6 DEF PassedIn
    <2>7. CASE committed' = committed /\ IsPrefixOf(Upto(oplog'[n], c.ts), committed)
      <3>1. Begins(Upto(oplog'[n], c.ts), committed)
        BY <2>3, <2>5, <2>7, PrefixIs
      <3>2. Has(committed, c)
        BY <2>2, <2>3, <2>4, <2>5, <3>1, HasKept
      <3> QED
        BY <2>7, <3>2 DEF PassedIn
    <2> QED
      BY <1>1, <2>6, <2>7 DEF Declares
  <1> QED
    BY <1>1 DEF MayDeclare, Declares, PointFrom

LEMMA SamePoints ==
    ASSUME commitPoint' = commitPoint,
           \A m \in Member : fetcher'[m] = fetcher[m] \/ fetcher'[m].stage # "Checked"
    PROVE  PassesOn
  BY DEF PassesOn, FetcherFrom, PointFrom

LEMMA AdvancePasses ==
    ASSUME CommitInv, NEW n \in DataMember, AdvanceCommitPoint(n)
    PROVE  PassesOn
  <1>0. /\ n \in Member /\ oplog[n] \in Oplog /\ Len(oplog[n]) <= MaxOplog /\ candidates[n] \in SUBSET OpTime /\ Shape
        /\ fetcher \in [Member -> Response]
    <2>1. Shape /\ n \in Member
      BY BoundTypes DEF CommitInv, OplogInv, Shape
    <2> QED
      BY <2>1, MemberShape, ComingShape, TypeParts DEF Shape
  <1> DEFINE f == fetcher[n]
             o == f.committed
             r == role[n]
             l == oplog[n]
             c == AdvanceLastCommittedOpTime(n, r, l, o)
             cand == candidates[n]
             no == FALSE
  <1>1. /\ SetCommitPoint(n, c, cand, no) /\ committed' = committed /\ f.stage = "Checked"
        /\ fetcher' = [fetcher EXCEPT ![n] =
                        IF f.docs = <<>> /\ f.term <= term[n] THEN NoFetch ELSE Advanced(f.docs, f.term)]
    BY DEF AdvanceCommitPoint
  <1>2. o \in OpTime
    BY <1>0, <1>1, MemberShape, ResponseIs
  <1>3. c \in OpTime /\ PassedIn(committed, c)
    <2>1. c = AdvanceLastCommittedOpTime(n, r, l, o) /\ l \in Oplog /\ Len(l) <= MaxOplog
      BY <1>0
    <2>2. PassedIn(committed, o) /\ PassedIn(committed, commitPoint[n])
      BY <1>0, <1>1 DEF CommitInv, PassedInv
    <2>3. committed \in Oplog /\ Len(committed) <= MaxOplog /\ Ascending(committed)
      BY CommittedAscends
    <2> HIDE DEF o, r, l, c
    <2> QED
      BY <1>0, <1>2, <2>1, <2>2, <2>3, AdvancePassed
  <1>4. \A m \in Member : fetcher'[m] = fetcher[m] \/ fetcher'[m].stage # "Checked"
    BY <1>0, <1>1 DEF NoFetch, Advanced
  <1> HIDE DEF c, cand, no
  <1>5. commitPoint'[n] = c /\ \A m \in Member \ {n} : commitPoint'[m] = commitPoint[m]
    BY <1>0, <1>1, <1>3, SetCommitPointIs DEF cand
  <1>6. \A m \in Member : PointFrom(m)
    BY <1>1, <1>3, <1>5 DEF PointFrom
  <1> QED
    BY <1>4, <1>6 DEF PassesOn, FetcherFrom

LEMMA HeartbeatPasses ==
    ASSUME CommitInv, NEW n \in Member, NEW s \in Member, ArbiterHeartbeat(n, s)
    PROVE  PassesOn
  <1>0. Shape /\ <<>> \in Oplog /\ Len(<<>>) <= MaxOplog
    BY BoundTypes DEF CommitInv, OplogInv, Shape, Oplog
  <1> DEFINE o == commitPoint[s]
             r == role[n]
             l == <<>>
             c == AdvanceLastCommittedOpTime(n, r, l, o)
  <1>1. commitPoint' = [commitPoint EXCEPT ![n] = c] /\ committed' = committed /\ fetcher' = fetcher
    BY DEF ArbiterHeartbeat, fetchVars
  <1>2. o \in OpTime
    BY <1>0, MemberShape
  <1>3. PassedIn(committed, c)
    <2>1. c = AdvanceLastCommittedOpTime(n, r, l, o) /\ l \in Oplog /\ Len(l) <= MaxOplog
      BY <1>0
    <2>2. PassedIn(committed, o) /\ PassedIn(committed, commitPoint[n])
      BY DEF CommitInv, PassedInv
    <2>3. committed \in Oplog /\ Len(committed) <= MaxOplog /\ Ascending(committed)
      BY CommittedAscends
    <2> HIDE DEF o, r, l, c
    <2> QED
      BY <1>0, <1>2, <2>1, <2>2, <2>3, AdvancePassed
  <1> HIDE DEF c
  <1>4. \A m \in Member : commitPoint'[m] = commitPoint[m] \/ commitPoint'[m] = c
    BY <1>0, <1>1, TypeParts DEF Shape
  <1> QED
    BY <1>1, <1>3, <1>4 DEF PassesOn, FetcherFrom, PointFrom

LEMMA PassSteps ==
    ASSUME CommitInv, Next, OplogInv'
    PROVE  PassesOn
  <1>0. /\ Shape /\ LogInv /\ IsOplog(committed) /\ DrainInv' /\ fetcher \in [Member -> Response]
        /\ commitPoint \in [Member -> OpTime] /\ \A n \in DataMember : n \in Member
    BY BoundTypes, TypeParts DEF CommitInv, OplogInv, Shape, LogInv
  <1>1. ASSUME NEW n \in DataMember, NEW Q \in SUBSET Member, Elect(n, Q) PROVE PassesOn
    <2>1. fetcher' = fetcher /\ commitPoint' = commitPoint
      BY <1>0, <1>1, ElectIs
    <2> QED
      BY <2>1, SamePoints
  <1>2. ASSUME NEW n \in DataMember,
               EnterDrainMode(n) \/ StepDownSelf(n) \/ StepDownFinish(n) \/ StartProducer(n) \/ ProcessBatch(n)
        PROVE PassesOn
    <2>1. commitPoint' = commitPoint
      BY <1>2 DEF EnterDrainMode, StepDownSelf, StepDownFinish, StartProducer, ProcessBatch, commitVars
    <2>2. \A m \in Member : fetcher'[m] = fetcher[m] \/ fetcher'[m].stage # "Checked"
      BY <1>0, <1>2
         DEF EnterDrainMode, StepDownSelf, StepDownFinish, StartProducer, ProcessBatch, fetchVars, NoFetch, Waiting
    <2> QED
      BY <2>1, <2>2, SamePoints
  <1>3. ASSUME NEW n \in DataMember, NEW s \in DataMember, Find(n, s) \/ GetMore(n, s) PROVE PassesOn
    BY <1>0, <1>3, FetchFrom DEF PassesOn, PointFrom
  <1>4. ASSUME NEW n \in Member, NEW m \in Member, LearnTerm(n, m) PROVE PassesOn
    <2>1. fetcher' = fetcher /\ commitPoint' = commitPoint
      BY <1>4 DEF LearnTerm, fetchVars, commitVars
    <2> QED
      BY <2>1, SamePoints
  <1>5. ASSUME NEW n \in DataMember, SignalDrainComplete(n) \/ Write(n) \/ Journal(n) \/ ApplyBatch(n) PROVE PassesOn
    <2>1. MyStep(n)
      BY <1>0, <1>5, MySteps
    <2>2. fetcher' = fetcher
      BY <2>1 DEF MyStep
    <2>3. MayDeclare(n)
      BY <1>0, <2>1, MyDeclares
    <2> QED
      BY <1>0, <2>2, <2>3, DeclaredPassed DEF PassesOn, FetcherFrom
  <1>6. ASSUME NEW n \in DataMember, NEW m \in Member, NEW r \in Reports(m), ReceivePosition(n, m, r) PROVE PassesOn
    <2>1. fetcher' = fetcher
      BY <1>6 DEF ReceivePosition, fetchVars
    <2>2. MayDeclare(n)
      BY <1>0, <1>6, ReceiveDeclares
    <2> QED
      BY <1>0, <2>1, <2>2, DeclaredPassed DEF PassesOn, FetcherFrom
  <1>7. ASSUME NEW n \in DataMember, Rollback(n) PROVE PassesOn
    <2>1. commitPoint' = commitPoint /\ (fetcher' = fetcher \/ fetcher' = [fetcher EXCEPT ![n] = NoFetch])
      BY <1>0, <1>7, RollbackIs
    <2>2. \A m \in Member : fetcher'[m] = fetcher[m] \/ fetcher'[m].stage # "Checked"
      BY <1>0, <2>1 DEF NoFetch
    <2> QED
      BY <2>1, <2>2, SamePoints
  <1>8. ASSUME NEW n \in Member, Crash(n) PROVE PassesOn
    <2>1. commitPoint' = [commitPoint EXCEPT ![n] = Null] /\ fetcher' = [fetcher EXCEPT ![n] = NoFetch]
      BY <1>8 DEF Crash
    <2>2. \A m \in Member : fetcher'[m] = fetcher[m] \/ fetcher'[m].stage # "Checked"
      BY <1>0, <2>1 DEF NoFetch
    <2>3. \A m \in Member : commitPoint'[m] = commitPoint[m] \/ commitPoint'[m] = Null
      BY <1>0, <2>1
    <2> QED
      BY <2>2, <2>3 DEF PassesOn, FetcherFrom, PointFrom, PassedIn
  <1> QED
    BY <1>1, <1>2, <1>3, <1>4, <1>5, <1>6, <1>7, <1>8, Actions, AdvancePasses, HeartbeatPasses

LEMMA CommittedAscendsNext ==
    ASSUME CommitInv, OplogInv', TermInv', Next
    PROVE  committed' \in Oplog /\ Len(committed') \in Nat /\ Len(committed') <= MaxOplog /\ Ascending(committed')
  <1>0. OplogInv /\ OplogInv' /\ TermInv' /\ TypeInv' /\ BeginInv'
    BY DEF CommitInv, OplogInv
  <1>1. committed' \in Oplog /\ Len(committed') <= MaxOplog /\ Len(committed') \in Nat
    BY <1>0, OplogLength DEF OplogInv, IsOplog, Oplog, Terms
  <1>2. CASE committed' = committed
    BY <1>1, <1>2, CommittedAscends
  <1>3. ASSUME NEW n \in DataMember, NEW c \in Entries, Declares(n, c), committed' # committed
        PROVE  Ascending(committed')
    <2>1. Len(committed') = c.ts /\ \A k \in 1..c.ts : committed'[k] = oplog'[n][k]
      BY <1>0, <1>3, DeclaredTop
    <2>2. /\ oplog'[n] \in Oplog /\ Len(oplog'[n]) \in Nat /\ Coming(n)' \in Oplog /\ Begins(oplog'[n], Coming(n)')
      BY <1>0, BoundTypes, ComingNext
    <2>3. c.ts <= Len(oplog'[n])
      BY <1>3, <2>2 DEF Declares, Has
    <2>4. Begins(committed', oplog'[n])
      BY <2>1, <2>3 DEF Begins
    <2>5. Begins(committed', Coming(n)')
      BY <1>1, <2>2, <2>4, BeginsTransitive
    <2> QED
      BY <1>0, <1>1, <2>2, <2>5, AscendingPart DEF TermInv
  <1> QED
    BY <1>0, <1>1, <1>2, <1>3, DeclareStep

LEMMA PassedStep ==
    ASSUME CommitInv, Next, Careful
    PROVE  PassedInv'
  <1>0. PassedInv
    BY DEF CommitInv
  <1>1. OplogInv' /\ TermInv' /\ PositionsFrom /\ ReportsKept
    BY CoreStep
  <1>2. PassesOn
    BY <1>1, PassSteps
  <1>3. committed \in Oplog /\ Len(committed) <= MaxOplog
    BY CommittedAscends
  <1>4. committed' \in Oplog /\ Len(committed') <= MaxOplog /\ Ascending(committed')
    BY <1>1, CommittedAscendsNext
  <1>5. ASSUME NEW o \in OpTime, PassedIn(committed, o) PROVE PassedIn(committed', o)
    BY <1>3, <1>4, <1>5, CommittedKept, PassedGrows
  <1>6. Shape
    BY DEF CommitInv, OplogInv, Shape
  <1>7. ASSUME NEW m \in Member PROVE PassedIn(committed', commitPoint'[m])
    <2>1. commitPoint[m] \in OpTime /\ PassedIn(committed, commitPoint[m])
      BY <1>0, <1>6, MemberShape DEF PassedInv
    <2>2. PassedIn(committed', commitPoint[m])
      BY <1>5, <2>1
    <2> QED
      BY <1>2, <2>2 DEF PassesOn, PointFrom
  <1>8. ASSUME NEW m \in Member, fetcher'[m].stage = "Checked" PROVE PassedIn(committed', fetcher'[m].committed)
    <2>1. CASE fetcher'[m] = fetcher[m]
      <3>1. fetcher[m].committed \in OpTime /\ PassedIn(committed, fetcher[m].committed)
        BY <1>0, <1>6, <1>8, <2>1, MemberShape, ResponseIs DEF PassedInv
      <3> QED
        BY <1>5, <2>1, <3>1
    <2>2. ASSUME NEW s \in Member, fetcher'[m].committed = commitPoint[s]
          PROVE  PassedIn(committed', fetcher'[m].committed)
      <3>1. commitPoint[s] \in OpTime /\ PassedIn(committed, commitPoint[s])
        BY <1>0, <1>6, MemberShape DEF PassedInv
      <3> QED
        BY <1>5, <2>2, <3>1
    <2> QED
      BY <1>2, <1>8, <2>1, <2>2 DEF PassesOn, FetcherFrom
  <1>9. position' \in [Member -> [Member -> OpTime]] /\ reported' \in [Member -> SUBSET OpTime]
    BY <1>1 DEF OplogInv, TypeInv, OpTimeType
  <1>10. ASSUME NEW m \in Arbiter, NEW o \in reported'[m] PROVE PassedIn(committed', o)
    <2>1. PassedIn(committed, o)
      BY <1>1, ArbiterPassed
    <2>2. o \in OpTime
      BY <1>9, BoundTypes
    <2> QED
      BY <1>5, <2>1, <2>2
  <1>11. ASSUME NEW m \in Arbiter, NEW p \in DataMember, IsCounting(role'[p]), position'[p][m].term = term'[p]
         PROVE  PassedIn(committed', position'[p][m])
    <2>1. PassedIn(committed, position'[p][m])
      BY <1>1, <1>11, ArbiterPassed
    <2>2. position'[p][m] \in OpTime
      BY <1>9, BoundTypes
    <2> QED
      BY <1>5, <2>1, <2>2
  <1> QED
    BY <1>7, <1>8, <1>10, <1>11 DEF PassedInv, IsCounting

LEMMA CommitInvStep ==
    ASSUME CommitInv, Next, Careful
    PROVE  CommitInv' /\ PositionsFrom /\ ReportsKept
  BY CoreStep, PassedStep DEF CommitInv

LEMMA CommitInit ==
    ASSUME Init
    PROVE  CommitInv
  <1>0. OplogInv /\ Shape /\ DataMember \subseteq Member /\ Arbiter \subseteq Member
    BY InitInv, BoundTypes DEF OplogInv, Shape
  <1>1. ASSUME NEW n \in DataMember
        PROVE  /\ Fetched(n) = << 0 >> /\ Coming(n) = << 0 >> /\ ~InCallback(n)
    <2>1. oplog[n] = << 0 >> /\ buffer[n] = <<>> /\ fetcher[n] = NoFetch
      BY <1>0 DEF Init, FirstOplog
    <2>2. InFlight(n) = <<>> /\ ~InCallback(n)
      BY <2>1 DEF InFlight, InCallback, NoFetch
    <2>3. << 0 >> \in Seq(Nat)
      OBVIOUS
    <2>4. Fetched(n) = << 0 >>
      BY <2>1, <2>3, ConcatEmpty DEF Fetched
    <2>5. Coming(n) = << 0 >>
      BY <2>2, <2>3, <2>4, ConcatEmpty DEF Coming
    <2> QED
      BY <2>2, <2>4, <2>5
  <1>2. ASSUME NEW n \in Member
        PROVE  /\ role[n] = "Follower" /\ term[n] = 0 /\ lastVote[n] = 0 /\ reported[n] = {}
               /\ fetcher[n].stage = "None"
    BY DEF Init, NoFetch
  <1>3. TermInv
    <2>1. ASSUME NEW n \in DataMember, NEW i \in 1..Len(Fetched(n)) PROVE Fetched(n)[i] <= term[n]
      <3>1. Fetched(n)[i] = 0
        BY <1>1
      <3> QED
        BY <1>0, <1>2, <3>1
    <2>2. ASSUME NEW n \in DataMember PROVE Ascending(Coming(n))
      <3>1. \A i \in 1..Len(Coming(n)) : Coming(n)[i] = 0
        BY <1>1
      <3> QED
        BY <3>1 DEF Ascending
    <2> QED
      BY <1>1, <2>1, <2>2 DEF TermInv
  <1>4. VoteInv
    BY <1>2 DEF VoteInv
  <1>5. PositionInv
    BY <1>0, <1>2 DEF PositionInv, IsCounting
  <1>6. SafeInv
    <2> SUFFICES ASSUME NEW e \in Entries
                 PROVE  FollowsEntry(e) /\ InPrimaries(e) /\ InAcknowledging(e) /\ InSource(e)
      BY DEF SafeInv
    <2>1. FollowsEntry(e)
      <3>1. ASSUME NEW n \in DataMember, NEW j \in 1..Len(Coming(n)) PROVE ~(Coming(n)[j] > e.term)
        <4>1. Coming(n)[j] = 0
          BY <1>1
        <4> QED
          BY <4>1, EntryIs
      <3> QED
        BY <3>1 DEF FollowsEntry
    <2>2. InPrimaries(e) /\ InAcknowledging(e) /\ InSource(e)
      BY <1>0, <1>2 DEF InPrimaries, InAcknowledging, InSource, Acked, IsPrimary, IsCounting
    <2> QED
      BY <2>1, <2>2
  <1>7. CommittedInv
    BY DEF Init, CommittedInv
  <1>8. PassedInv
    <2>1. \A n \in Member : commitPoint[n] = Null
      BY DEF Init
    <2> QED
      BY <1>0, <1>2, <2>1 DEF PassedInv, PassedIn, IsCounting
  <1> QED
    BY <1>0, <1>3, <1>4, <1>5, <1>6, <1>7, <1>8 DEF CommitInv

LEMMA CommitInvStutters ==
    ASSUME CommitInv, UNCHANGED vars
    PROVE  CommitInv'
  <1>1. /\ role' = role /\ term' = term /\ pendingTerm' = pendingTerm /\ lastVote' = lastVote
        /\ oplog' = oplog /\ durable' = durable /\ visible' = visible
        /\ buffer' = buffer /\ producer' = producer /\ fetcher' = fetcher
        /\ position' = position /\ reported' = reported /\ commitPoint' = commitPoint
        /\ candidates' = candidates /\ snapshot' = snapshot /\ committed' = committed
    BY DEF vars, electionVars, logVars, fetchVars, positionVars, commitVars
  <1>2. \A n \in DataMember : Coming(n)' = Coming(n) /\ Fetched(n)' = Fetched(n) /\ InCallback(n)' = InCallback(n)
    BY <1>1 DEF Coming, Fetched, InFlight, InCallback
  <1>3. OplogInv'
    BY OplogInvStutters DEF CommitInv
  <1>4. TermInv' /\ VoteInv' /\ PositionInv'
    BY <1>1, <1>2 DEF CommitInv, TermInv, VoteInv, PositionInv, Ascending
  <1>5. SafeInv'
    <2> SUFFICES ASSUME NEW e \in Entries, Protected(e)'
                 PROVE  FollowsEntry(e)' /\ InPrimaries(e)' /\ InAcknowledging(e)' /\ InSource(e)'
      BY DEF SafeInv
    <2>1. \A m \in Member : Acked(m, e)' <=> Acked(m, e)
      BY <1>1 DEF Acked
    <2>2. \A m \in Member : MayAck(m, e)' <=> MayAck(m, e)
      BY <1>1, <2>1 DEF MayAck
    <2>3. Choosable(e)' <=> Choosable(e)
      <3>1. {m \in Acceptors : MayAck(m, e)'} = {m \in Acceptors : MayAck(m, e)}
        BY <2>2, AcceptorsAre
      <3> QED
        BY <3>1 DEF Choosable
    <2>4. Protected(e)
      BY <1>1, <2>3 DEF Protected
    <2>5. FollowsEntry(e) /\ InPrimaries(e) /\ InAcknowledging(e) /\ InSource(e)
      BY <2>4 DEF CommitInv, SafeInv
    <2> QED
      BY <1>1, <1>2, <2>1, <2>5, BoundTypes DEF FollowsEntry, InPrimaries, InAcknowledging, InSource
  <1>6. CommittedInv'
    BY <1>1, <1>2 DEF CommitInv, CommittedInv, HasCommitted, OpTimeOK, Elected
  <1>7. PassedInv'
    BY <1>1 DEF CommitInv, PassedInv, PassedIn
  <1> QED
    BY <1>3, <1>4, <1>5, <1>6, <1>7 DEF CommitInv

(* The invariant of the commit point, where nothing is fetched during a step    *)
(* down, and a crash neither loses what counts nor hits a member that another   *)
(* one is about to roll back to.                                                *)
THEOREM CommitInvariant ==
    Spec /\ [][Careful]_vars => []CommitInv
  <1>1. Init => CommitInv
    BY CommitInit
  <1>2. CommitInv /\ [Next]_vars /\ [Careful]_vars => CommitInv'
    BY CommitInvStep, CommitInvStutters
  <1> QED
    BY <1>1, <1>2, PTL DEF Spec

(* Every primary has everything that was counted on a majority in its term or   *)
(* before, whoever voted for it, whatever was rolled back and whenever reports  *)
(* arrive (WouldVote, _setLastOptime_inlock, _updateLastCommittedOpTime_inlock). *)
THEOREM LeadersComplete ==
    Spec /\ [][Careful]_vars => []LeaderCompleteness
  <1>1. CommitInv => LeaderCompleteness
    <2> SUFFICES ASSUME CommitInv, NEW n \in Member, role[n] = "Master", committed # <<>>,
                        term[n] >= committed[Len(committed)]
                 PROVE  IsPrefixOf(committed, oplog[n])
      BY DEF LeaderCompleteness
    <2>1. Shape /\ IsOplog(committed) /\ IsPrimary(role[n])
      BY DEF CommitInv, OplogInv, Shape, IsPrimary
    <2>2. n \in DataMember /\ term[n] >= Top(committed).term
      BY <2>1, DataPrimary, CommittedTop
    <2> QED
      BY <2>1, <2>2, PrimaryHasCommitted
  <1> QED
    BY <1>1, CommitInvariant, PTL

(* What has been counted on a majority is never counted out again: two primaries *)
(* never commit different entries at the same place, and the committed entries   *)
(* only grow at their end (_updateLastCommittedOpTime_inlock, whichever primary  *)
(* of whichever term is the one that counts).                                    *)
THEOREM CommittedGrows ==
    Spec /\ [][Careful]_vars => [][IsPrefixOf(committed, committed')]_vars
  <1>1. CommitInv /\ [Next]_vars /\ [Careful]_vars => [IsPrefixOf(committed, committed')]_vars
    <2> SUFFICES ASSUME CommitInv, Next, Careful PROVE IsPrefixOf(committed, committed')
      OBVIOUS
    <2>1. committed \in Oplog /\ committed' \in Oplog /\ Begins(committed, committed')
      BY CommittedKept
    <2> QED
      BY <2>1, PrefixIs
  <1> QED
    BY <1>1, CommitInvariant, PTL DEF Spec
=============================================================================
