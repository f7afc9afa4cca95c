----------------------- MODULE CommitPointRefinement -----------------------
(****************************************************************************)
(* What clients see: a write that is acknowledged with majority concern is  *)
(* committed, and majority reads show prefixes of one log that only grows.  *)
(* What commit points are worth: everything below one is committed, only a  *)
(* late response puts one wrong, and what is committed is not rolled back.  *)
(****************************************************************************)
EXTENDS CommitPointProofs

----------------------------------------------------------------------------
(* The invariant.                                                           *)

\* The candidates are on the member's own branch, and the committed snapshot is
\* one of them, not beyond the commit point.
ShownAt(n) ==
    /\ \A o \in candidates[n] : Has(oplog[n], o)
    /\ snapshot[n] # Null => snapshot[n] \in candidates[n] /\ AtMost(snapshot[n], commitPoint[n])
ShownInv == \A n \in DataMember : ShownAt(n)

----------------------------------------------------------------------------
(* The candidates and the committed snapshot.                               *)

\* The steps of n by what they do to its snapshot.
Untouched(n) ==
    /\ oplog'[n] = oplog[n] /\ commitPoint'[n] = commitPoint[n]
    /\ candidates'[n] = candidates[n] /\ snapshot'[n] = snapshot[n]
Drops(n) == ShownAt(n)' /\ snapshot'[n] = Null
Raises(n) ==
    /\ ShownAt(n)'
    /\ snapshot[n] # Null =>
          snapshot'[n] # Null /\ AtMost(snapshot[n], snapshot'[n]) /\ Has(oplog'[n], snapshot[n])

\* The greatest candidate that is not beyond the commit point.
LEMMA StableIs ==
    ASSUME NEW cand \in SUBSET OpTime, NEW c \in OpTime, \A o \in cand : o # Null
    PROVE  /\ StableOpTime(cand, c) = Null => \A o \in cand : ~AtMost(o, c)
           /\ StableOpTime(cand, c) # Null =>
                 /\ StableOpTime(cand, c) \in cand /\ AtMost(StableOpTime(cand, c), c)
                 /\ StableOpTime(cand, c) \in CleanedUp(cand, c)
                 /\ \A o \in cand : AtMost(o, c) => AtMost(o, StableOpTime(cand, c))
  <1> DEFINE below == {o \in cand : AtMost(o, c)}
  <1>1. below # {} => Greatest(below) \in below /\ \A p \in below : AtMost(p, Greatest(below))
    <2>1. below \in SUBSET OpTime
      OBVIOUS
    <2> HIDE DEF below
    <2> QED
      BY <2>1, GreatestIs
  <1>2. StableOpTime(cand, c) = IF below = {} THEN Null ELSE Greatest(below)
    BY DEF StableOpTime
  <1>3. CASE below = {}
    BY <1>2, <1>3
  <1>4. CASE below # {}
    <2>1. /\ StableOpTime(cand, c) \in cand /\ AtMost(StableOpTime(cand, c), c)
          /\ \A o \in cand : AtMost(o, c) => AtMost(o, StableOpTime(cand, c))
      BY <1>1, <1>2, <1>4
    <2>2. AtMost(StableOpTime(cand, c), StableOpTime(cand, c))
      BY DEF AtMost
    <2>3. StableOpTime(cand, c) \in CleanedUp(cand, c) /\ StableOpTime(cand, c) # Null
      BY <2>1, <2>2 DEF CleanedUp
    <2> QED
      BY <2>1, <2>3
  <1> QED
    BY <1>3, <1>4

\* _setStableTimestampForStorage_inlock never takes the snapshot back.
LEMMA SetRaises ==
    ASSUME Shape, NEW n \in DataMember, ShownAt(n), NEW c \in OpTime, NEW cand \in SUBSET OpTime, NEW refresh,
           SetCommitPoint(n, c, cand, refresh), AtMost(commitPoint[n], c), candidates[n] \subseteq cand,
           oplog'[n] \in Oplog, \A o \in cand : Has(oplog'[n], o)
    PROVE  Raises(n) /\ \A m \in Member : m # n => /\ commitPoint'[m] = commitPoint[m]
                                                   /\ candidates'[m] = candidates[m] /\ snapshot'[m] = snapshot[m]
  <1>0. /\ n \in Member /\ commitPoint[n] \in OpTime /\ snapshot[n] \in OpTime /\ candidates[n] \in SUBSET OpTime
    BY BoundTypes, MemberShape
  <1>1. /\ commitPoint'[n] = c /\ candidates'[n] \subseteq cand
        /\ snapshot'[n] = snapshot[n] \/ (snapshot'[n] = StableOpTime(cand, c) /\ snapshot'[n] # Null)
        /\ ~refresh /\ c = commitPoint[n] => candidates'[n] = cand /\ snapshot'[n] = snapshot[n]
        /\ refresh \/ c # commitPoint[n] => candidates'[n] = CleanedUp(cand, c)
        /\ \A m \in Member : m # n => /\ commitPoint'[m] = commitPoint[m]
                                      /\ candidates'[m] = candidates[m] /\ snapshot'[m] = snapshot[m]
    BY <1>0, SetCommitPointIs
  <1>2. \A o \in candidates'[n] : Has(oplog'[n], o)
    BY <1>1
  <1>3. snapshot[n] # Null =>
           /\ snapshot[n] \in cand /\ Has(oplog'[n], snapshot[n]) /\ AtMost(snapshot[n], c)
    <2>1. ASSUME snapshot[n] # Null PROVE snapshot[n] \in cand /\ AtMost(snapshot[n], c)
      <3>1. snapshot[n] \in cand /\ AtMost(snapshot[n], commitPoint[n])
        BY <2>1 DEF ShownAt
      <3> QED
        BY <1>0, <3>1, OrderOfOpTimes
    <2> QED
      BY <2>1
  <1>4. \A o \in cand : o # Null
    BY HasIsNotNull
  <1>5. CASE ~refresh /\ c = commitPoint[n]
    <2>1. candidates'[n] = cand /\ snapshot'[n] = snapshot[n]
      BY <1>1, <1>5
    <2>2. AtMost(snapshot[n], snapshot[n])
      BY DEF AtMost
    <2> QED
      BY <1>1, <1>2, <1>3, <2>1, <2>2 DEF Raises, ShownAt
  <1>6. CASE refresh \/ c # commitPoint[n]
    <2> DEFINE st == StableOpTime(cand, c)
    <2>1. /\ candidates'[n] = CleanedUp(cand, c)
          /\ snapshot' = [snapshot EXCEPT ![n] = IF st = Null THEN snapshot[n] ELSE st]
      BY <1>1, <1>6 DEF SetCommitPoint
    <2>2. snapshot'[n] = IF st = Null THEN snapshot[n] ELSE st
      BY <1>0, <2>1, TypeParts DEF Shape
    <2>3. st = Null => snapshot[n] = Null
      BY <1>3, <1>4, StableIs
    <2>4. st # Null => st \in CleanedUp(cand, c) /\ AtMost(st, c) /\ (snapshot[n] # Null => AtMost(snapshot[n], st))
      BY <1>3, <1>4, StableIs
    <2> HIDE DEF st
    <2> QED
      BY <1>1, <1>2, <1>3, <2>1, <2>2, <2>3, <2>4 DEF Raises, ShownAt
  <1> QED
    BY <1>1, <1>5, <1>6

\* The commit point only rises.
LEMMA UpdateRises ==
    ASSUME Shape, NEW n \in Member, NEW r, NEW l \in Oplog, Len(l) <= MaxOplog,
           NEW pos \in [Member -> OpTime], NEW c, c = UpdateLastCommittedOpTime(n, r, l, pos)
    PROVE  c \in OpTime /\ AtMost(commitPoint[n], c)
  <1>1. c \in OpTime /\ (c # commitPoint[n] => Less(commitPoint[n], c))
    BY UpdateIs
  <1> QED
    BY <1>1 DEF AtMost

\* The snapshots of the others, in a step of n.
OnlyHere(n) ==
    \A m \in DataMember : m # n => Untouched(m)
Commits(n) == Raises(n) /\ \E c \in Entries : Declares(n, c)
ShowStep(n) ==
    OnlyHere(n) /\ (Untouched(n) \/ Raises(n) \/ Drops(n)) /\ (committed' = committed \/ Commits(n))

LEMMA MyShows ==
    ASSUME Shape, ShownInv, NEW n \in DataMember, MyStep(n)
    PROVE  OnlyHere(n) /\ Raises(n)
  <1>0. n \in Member /\ oplog[n] \in Oplog /\ candidates[n] \in SUBSET OpTime /\ oplog[n] # <<>>
    <2>1. 1 <= Len(oplog[n]) /\ n \in Member
      BY OplogBegins
    <2> QED
      BY <2>1, MemberShape
  <1>1. PICK l \in Oplog, d \in Nat, v \in Nat :
          /\ Len(l) <= MaxOplog /\ d <= v /\ v <= Len(l) /\ Begins(oplog[n], l)
          /\ oplog' = [oplog EXCEPT ![n] = l] /\ SetMyOpTimes(n, role'[n], l, d, v)
    BY DEF MyStep
  <1>2. oplog'[n] = l /\ \A m \in Member : m # n => oplog'[m] = oplog[m]
    BY <1>0, <1>1, TypeParts DEF Shape
  <1> DEFINE r == role'[n]
             pos == [position[n] EXCEPT ![n] = Counts(l, d)]
             c == UpdateLastCommittedOpTime(n, r, l, pos)
             cand == candidates[n] \cup (IF Top(l) # Top(oplog[n]) THEN {Top(l)} ELSE {})
             refresh == Top(l) # Top(oplog[n]) /\ AtMost(Top(l), c)
  <1>3. SetCommitPoint(n, c, cand, refresh)
    BY <1>1 DEF SetMyOpTimes
  <1>4. pos \in [Member -> OpTime]
    <2>1. d \in 0..Len(l)
      BY <1>1, OplogLength
    <2>2. Counts(l, d) \in OpTime
      BY <1>1, <2>1, CountsType
    <2> QED
      BY <1>0, <2>2, MemberShape
  <1>5. c \in OpTime /\ AtMost(commitPoint[n], c)
    <2>1. c = UpdateLastCommittedOpTime(n, r, l, pos)
      OBVIOUS
    <2> HIDE DEF r, pos, c
    <2> QED
      BY <1>0, <1>1, <1>4, <2>1, UpdateRises
  <1>6. l # <<>> /\ Top(l) \in OpTime /\ Has(l, Top(l))
    <2>1. Len(l) >= Len(oplog[n]) /\ Len(oplog[n]) >= 1 /\ Len(l) \in Nat
      BY <1>1, OplogBegins, OplogLength DEF Begins
    <2>2. l # <<>>
      BY <2>1
    <2> QED
      BY <1>1, <2>2, TopType
  <1>7. cand \in SUBSET OpTime /\ candidates[n] \subseteq cand
    BY <1>0, <1>6
  <1>8. \A o \in cand : Has(l, o)
    <2>1. ASSUME NEW o \in candidates[n] PROVE Has(l, o)
      <3>1. Has(oplog[n], o) /\ o \in OpTime
        BY <1>0 DEF ShownInv, ShownAt
      <3> QED
        BY <1>0, <1>1, <3>1, HasKept
    <2> QED
      BY <1>6, <2>1
  <1>9. ShownAt(n)
    BY DEF ShownInv
  <1> HIDE DEF c, cand, refresh
  <1>10. /\ Raises(n)
         /\ \A m \in Member : m # n => /\ commitPoint'[m] = commitPoint[m]
                                       /\ candidates'[m] = candidates[m] /\ snapshot'[m] = snapshot[m]
    BY <1>2, <1>3, <1>5, <1>7, <1>8, <1>9, SetRaises
  <1> QED
    BY <1>2, <1>10, BoundTypes DEF OnlyHere, Untouched

LEMMA ReceiveShows ==
    ASSUME Shape, ShownInv, NEW n \in DataMember, NEW m \in Member, NEW rp \in Reports(m),
           ReceivePosition(n, m, rp)
    PROVE  OnlyHere(n) /\ Raises(n)
  <1>0. n \in Member /\ oplog[n] \in Oplog /\ Len(oplog[n]) <= MaxOplog /\ candidates[n] \in SUBSET OpTime
    BY BoundTypes, MemberShape, ComingShape
  <1>1. PICK pos \in [Member -> OpTime], nr \in Roles :
           /\ SetCommitPoint(n, UpdateLastCommittedOpTime(n, nr, oplog[n], pos), candidates[n], FALSE)
           /\ oplog' = oplog
    BY ReceivePositionIs
  <1> DEFINE c == UpdateLastCommittedOpTime(n, nr, oplog[n], pos)
             cand == candidates[n]
             no == FALSE
  <1>2. SetCommitPoint(n, c, cand, no)
    BY <1>1
  <1>3. c \in OpTime /\ AtMost(commitPoint[n], c)
    BY <1>0, UpdateRises
  <1>4. cand \in SUBSET OpTime /\ candidates[n] \subseteq cand /\ \A o \in cand : Has(oplog'[n], o)
    BY <1>0, <1>1 DEF ShownInv, ShownAt
  <1>5. ShownAt(n) /\ oplog'[n] \in Oplog
    BY <1>0, <1>1 DEF ShownInv
  <1> HIDE DEF c, cand, no
  <1>6. /\ Raises(n)
        /\ \A q \in Member : q # n => /\ commitPoint'[q] = commitPoint[q]
                                      /\ candidates'[q] = candidates[q] /\ snapshot'[q] = snapshot[q]
    BY <1>2, <1>3, <1>4, <1>5, SetRaises
  <1> QED
    BY <1>1, <1>6, BoundTypes DEF OnlyHere, Untouched

LEMMA AdvanceShows ==
    ASSUME Shape, ShownInv, NEW n \in DataMember, AdvanceCommitPoint(n)
    PROVE  OnlyHere(n) /\ Raises(n)
  <1>0. /\ n \in Member /\ oplog[n] \in Oplog /\ Len(oplog[n]) <= MaxOplog /\ candidates[n] \in SUBSET OpTime
        /\ commitPoint[n] \in OpTime /\ term[n] \in Terms
    BY BoundTypes, MemberShape, ComingShape
  <1> DEFINE o == fetcher[n].committed
             r == role[n]
             l == oplog[n]
             c == AdvanceLastCommittedOpTime(n, r, l, o)
             cand == candidates[n]
             no == FALSE
  <1>1. SetCommitPoint(n, c, cand, no) /\ oplog' = oplog /\ fetcher[n].stage = "Checked"
    BY DEF AdvanceCommitPoint, logVars
  <1>2. o \in OpTime
    BY <1>0, <1>1, MemberShape, ResponseIs
  <1>3. c \in OpTime /\ AtMost(commitPoint[n], c)
    <2>1. c = AdvanceLastCommittedOpTime(n, r, l, o) /\ l \in Oplog /\ Len(l) <= MaxOplog
      BY <1>0
    <2> HIDE DEF o, r, l, c
    <2>2. c \in OpTime /\ (c # commitPoint[n] => Less(commitPoint[n], c))
      BY <1>0, <1>2, <2>1, AdvanceIs
    <2> QED
      BY <2>2 DEF AtMost
  <1>4. cand \in SUBSET OpTime /\ candidates[n] \subseteq cand /\ \A q \in cand : Has(oplog'[n], q)
    BY <1>0, <1>1 DEF ShownInv, ShownAt
  <1>5. ShownAt(n) /\ oplog'[n] \in Oplog
    BY <1>0, <1>1 DEF ShownInv
  <1> HIDE DEF c, cand, no
  <1>6. /\ Raises(n)
        /\ \A q \in Member : q # n => /\ commitPoint'[q] = commitPoint[q]
                                      /\ candidates'[q] = candidates[q] /\ snapshot'[q] = snapshot[q]
    BY <1>1, <1>3, <1>4, <1>5, SetRaises
  <1> QED
    BY <1>1, <1>6, BoundTypes DEF OnlyHere, Untouched

\* Rollback drops the candidates that are not on the branch any more.
LEMMA RollbackShows ==
    ASSUME Shape, TermInv, ShownInv, NEW n \in DataMember, Rollback(n)
    PROVE  ShowStep(n)
  <1>0. /\ n \in Member /\ oplog[n] \in Oplog /\ Len(oplog[n]) <= MaxOplog /\ candidates[n] \in SUBSET OpTime
        /\ Len(oplog[n]) \in Nat /\ commitPoint[n] \in OpTime
        /\ oplog \in [Member -> Oplog] /\ candidates \in [Member -> SUBSET OpTime]
        /\ snapshot \in [Member -> OpTime]
    BY BoundTypes, MemberShape, ComingShape, TypeParts DEF Shape
  <1>1. commitPoint' = commitPoint /\ committed' = committed
    BY RollbackIs
  <1>2. CASE oplog' = oplog /\ candidates' = candidates /\ snapshot' = snapshot
    BY <1>1, <1>2 DEF ShowStep, OnlyHere, Untouched
  <1>3. ASSUME NEW i \in 1..Len(oplog[n]),
               Upto(oplog[n], i) \in Oplog, Len(Upto(oplog[n], i)) = i,
               Begins(Upto(oplog[n], i), oplog[n]),
               oplog' = [oplog EXCEPT ![n] = Upto(oplog[n], i)],
               snapshot' = [snapshot EXCEPT ![n] = Null],
               candidates' = [candidates EXCEPT ![n] =
                     KeptCandidates(candidates[n] \cup {Top(Upto(oplog[n], i))},
                                    Top(Upto(oplog[n], i)), commitPoint[n])]
        PROVE  ShowStep(n)
    <2> DEFINE l == Upto(oplog[n], i)
               top == Top(l)
               cand == candidates[n] \cup {top}
    <2>1. l \in Oplog /\ Len(l) = i /\ Begins(l, oplog[n]) /\ i \in Nat /\ i >= 1 /\ i <= Len(oplog[n])
      BY <1>0, <1>3
    <2>2. l # <<>> /\ top \in OpTime /\ Has(l, top) /\ top.ts = i /\ top.term = l[i]
      <3> HIDE DEF l
      <3>1. l # <<>> /\ Len(l) <= MaxOplog
        BY <1>0, <2>1, BoundTypes
      <3> QED
        BY <2>1, <3>1, TopType
    <2>3. oplog'[n] = l /\ snapshot'[n] = Null /\ candidates'[n] = KeptCandidates(cand, top, commitPoint[n])
      BY <1>0, <1>3
    <2>4. OnlyHere(n)
      BY <1>0, <1>1, <1>3, BoundTypes DEF OnlyHere, Untouched
    <2>5. Ascending(oplog[n])
      BY <1>0, ComingShape, AscendingPart DEF TermInv
    <2> HIDE DEF l, top, cand
    <2>6. ASSUME NEW o \in candidates[n], AtMost(o, top) PROVE Has(l, o)
      <3>1. o \in OpTime /\ Has(oplog[n], o)
        BY <1>0 DEF ShownInv, ShownAt
      <3>2. o.ts \in 1..Len(oplog[n]) /\ oplog[n][o.ts] = o.term
        BY <3>1 DEF Has
      <3>3. o.term < top.term \/ (o.term = top.term /\ o.ts <= top.ts)
        BY <2>2, <2>6, <3>1, OrderOfOpTimes
      <3>4. oplog[n][i] = top.term /\ oplog[n][i] \in Int /\ oplog[n][o.ts] \in Int
        BY <1>0, <2>1, <2>2, <3>2, OplogElement DEF Begins
      <3>5. o.ts <= i
        <4>1. CASE o.ts <= i
          BY <4>1
        <4>2. CASE i <= o.ts
          <5>1. oplog[n][i] <= oplog[n][o.ts]
            BY <1>0, <2>1, <2>5, <3>2, <4>2 DEF Ascending
          <5> QED
            BY <2>2, <3>2, <3>3, <3>4, <5>1
        <4> QED
          BY <2>1, <3>2, <4>1, <4>2, <1>0
      <3> QED
        BY <2>1, <3>2, <3>5 DEF Has, Begins
    <2>7. \A o \in candidates'[n] : Has(l, o)
      <3>1. \A o \in candidates'[n] : o \in cand /\ AtMost(o, top)
        <4>1. cand \in SUBSET OpTime
          BY <1>0, <2>2 DEF cand
        <4>2. KeptCandidates(cand, top, commitPoint[n]) \subseteq cand
          BY <1>0, <2>2, <4>1, KeptType
        <4>3. \A o \in KeptCandidates(cand, top, commitPoint[n]) : AtMost(o, top)
          BY DEF KeptCandidates
        <4> QED
          BY <2>3, <4>2, <4>3
      <3> QED
        BY <2>2, <2>6, <3>1 DEF cand
    <2> QED
      BY <1>1, <2>3, <2>4, <2>7 DEF ShowStep, Drops, ShownAt
  <1> QED
    BY <1>2, <1>3, RollbackIs

LEMMA CrashShows ==
    ASSUME Shape, ShownInv, NEW n \in Member, Crash(n)
    PROVE  \E m \in DataMember : ShowStep(m)
  <1>0. /\ oplog \in [Member -> Oplog] /\ candidates \in [Member -> SUBSET OpTime]
        /\ snapshot \in [Member -> OpTime] /\ commitPoint \in [Member -> OpTime]
    BY TypeParts DEF Shape
  <1>1. PICK l \in Oplog :
           /\ Len(l) = durable[n] /\ Len(l) <= MaxOplog
           /\ oplog' = [oplog EXCEPT ![n] = l]
           /\ commitPoint' = [commitPoint EXCEPT ![n] = Null]
           /\ candidates' = [candidates EXCEPT ![n] = StartCandidates(n, l)]
           /\ snapshot' = [snapshot EXCEPT ![n] = Null] /\ committed' = committed
    BY CrashIs
  <1>2. OnlyHere(n)
    BY <1>0, <1>1, BoundTypes DEF OnlyHere, Untouched
  <1>3. CASE n \in DataMember
    <2>1. l # <<>>
      BY <1>1, <1>3, OplogBegins
    <2>2. Has(l, Top(l))
      BY <1>1, <2>1, TopType
    <2>3. oplog'[n] = l /\ candidates'[n] = {Top(l)} /\ snapshot'[n] = Null
      BY <1>0, <1>1, <1>3 DEF StartCandidates
    <2>4. Drops(n)
      BY <2>2, <2>3 DEF Drops, ShownAt
    <2> QED
      BY <1>1, <1>2, <1>3, <2>4 DEF ShowStep
  <1>4. CASE n \notin DataMember
    <2>1. PICK m \in DataMember : TRUE
      BY BoundTypes
    <2>2. OnlyHere(m) /\ Untouched(m)
      BY <1>2, <1>4, <2>1 DEF OnlyHere
    <2> QED
      BY <1>1, <2>2 DEF ShowStep
  <1> QED
    BY <1>3, <1>4

\* The steps that have nothing to do with the commit point.
LEMMA OtherShows ==
    ASSUME Shape, committed' = committed, oplog' = oplog, candidates' = candidates, snapshot' = snapshot,
           \A m \in DataMember : commitPoint'[m] = commitPoint[m]
    PROVE  \E n \in DataMember : ShowStep(n)
  <1>1. \A m \in DataMember : Untouched(m)
    BY DEF Untouched
  <1> QED
    BY <1>1, BoundTypes DEF ShowStep, OnlyHere

LEMMA ShowSteps ==
    ASSUME OplogInv, TermInv, ShownInv, Next
    PROVE  \E n \in DataMember : ShowStep(n)
  <1>0. Shape /\ LogInv /\ DrainInv'
    BY OplogInvStep DEF OplogInv, LogInv, Shape
  <1> DEFINE P == \E n \in DataMember : ShowStep(n)
  <1>1. ASSUME NEW n \in DataMember, NEW Q \in SUBSET Member, Elect(n, Q) PROVE P
    BY <1>0, <1>1, ElectIs, OtherShows
  <1>2. ASSUME NEW n \in DataMember,
               EnterDrainMode(n) \/ StepDownSelf(n) \/ StepDownFinish(n) \/ StartProducer(n) \/ ProcessBatch(n)
        PROVE P
    <2>1. oplog' = oplog /\ candidates' = candidates /\ snapshot' = snapshot /\ commitPoint' = commitPoint /\ committed' = committed
      BY <1>2 DEF EnterDrainMode, StepDownSelf, StepDownFinish, StartProducer, ProcessBatch, logVars, commitVars
    <2> QED
      BY <1>0, <2>1, OtherShows
  <1>3. ASSUME NEW n \in DataMember, NEW s \in DataMember, Find(n, s) \/ GetMore(n, s) PROVE P
    <2>1. oplog' = oplog /\ candidates' = candidates /\ snapshot' = snapshot /\ commitPoint' = commitPoint /\ committed' = committed
      BY <1>3 DEF Find, GetMore, Answer, logVars, commitVars
    <2> QED
      BY <1>0, <2>1, OtherShows
  <1>4. ASSUME NEW n \in Member, NEW m \in Member, LearnTerm(n, m) PROVE P
    <2>1. oplog' = oplog /\ candidates' = candidates /\ snapshot' = snapshot /\ commitPoint' = commitPoint /\ committed' = committed
      BY <1>4 DEF LearnTerm, logVars, commitVars
    <2> QED
      BY <1>0, <2>1, OtherShows
  <1>5. ASSUME NEW n \in Member, NEW m \in Member, ArbiterHeartbeat(n, m) PROVE P
    <2>1. /\ oplog' = oplog /\ candidates' = candidates /\ snapshot' = snapshot /\ n \in Arbiter /\ committed' = committed
          /\ commitPoint' = [commitPoint EXCEPT ![n] =
                 AdvanceLastCommittedOpTime(n, role[n], <<>>, commitPoint[m])]
      BY <1>5 DEF ArbiterHeartbeat, logVars
    <2>2. \A q \in DataMember : commitPoint'[q] = commitPoint[q]
      <3>1. \A q \in DataMember : q # n /\ q \in Member
        BY <2>1 DEF DataMember
      <3> QED
        BY <1>0, <2>1, <3>1, TypeParts DEF Shape
    <2> QED
      BY <1>0, <2>1, <2>2, OtherShows
  <1>6. ASSUME NEW n \in DataMember, SignalDrainComplete(n) \/ Write(n) \/ Journal(n) \/ ApplyBatch(n) PROVE P
    <2>1. MyStep(n)
      BY <1>0, <1>6, MySteps
    <2>2. OnlyHere(n) /\ Raises(n)
      BY <1>0, <2>1, MyShows
    <2>3. committed' = committed \/ \E c \in Entries : Declares(n, c)
      BY <1>0, <2>1, MyDeclares DEF MayDeclare
    <2> QED
      BY <2>2, <2>3 DEF ShowStep, Commits
  <1>7. ASSUME NEW n \in DataMember, NEW m \in Member, NEW r \in Reports(m), ReceivePosition(n, m, r) PROVE P
    <2>1. OnlyHere(n) /\ Raises(n)
      BY <1>0, <1>7, ReceiveShows
    <2>2. committed' = committed \/ \E c \in Entries : Declares(n, c)
      BY <1>0, <1>7, ReceiveDeclares DEF MayDeclare
    <2> QED
      BY <2>1, <2>2 DEF ShowStep, Commits
  <1>8. ASSUME NEW n \in DataMember, AdvanceCommitPoint(n) PROVE P
    <2>1. OnlyHere(n) /\ Raises(n)
      BY <1>0, <1>8, AdvanceShows
    <2>2. committed' = committed
      BY <1>8 DEF AdvanceCommitPoint
    <2> QED
      BY <2>1, <2>2 DEF ShowStep
  <1>9. ASSUME NEW n \in DataMember, Rollback(n) PROVE P
    BY <1>0, <1>9, RollbackShows
  <1>10. ASSUME NEW n \in Member, Crash(n) PROVE P
    BY <1>0, <1>10, CrashShows
  <1> HIDE DEF P
  <1>11. P
    BY <1>1, <1>2, <1>3, <1>4, <1>5, <1>6, <1>7, <1>8, <1>9, <1>10, Actions
  <1> QED
    BY <1>11 DEF P

LEMMA ShownStep ==
    ASSUME OplogInv, TermInv, ShownInv, Next
    PROVE  ShownInv'
  <1>1. PICK n \in DataMember : ShowStep(n)
    BY ShowSteps
  <1>2. ASSUME NEW m \in DataMember, Untouched(m) PROVE ShownAt(m)'
    BY <1>2 DEF Untouched, ShownInv, ShownAt
  <1>3. ASSUME NEW m \in DataMember PROVE ShownAt(m)'
    <2>1. CASE m = n
      BY <1>1, <1>2, <2>1 DEF ShowStep, Raises, Drops
    <2>2. CASE m # n
      BY <1>1, <1>2, <2>2 DEF ShowStep, OnlyHere
    <2> QED
      BY <2>1, <2>2
  <1> QED
    BY <1>3 DEF ShownInv

----------------------------------------------------------------------------
(* The committed snapshot is where the storage engine may recover to.       *)

BranchInv == OplogInv /\ TermInv /\ ShownInv

LEMMA BranchInit ==
    ASSUME Init
    PROVE  BranchInv
  <1>1. OplogInv /\ TermInv
    BY CommitInit DEF CommitInv
  <1>2. ASSUME NEW n \in DataMember PROVE ShownAt(n)
    <2>1. n \in Member /\ n \in DataMember
      BY BoundTypes
    <2>2. oplog[n] = << 0 >> /\ candidates[n] = {Top(<< 0 >>)} /\ snapshot[n] = Null
      BY <2>1 DEF Init, FirstOplog, StartCandidates
    <2>3. Has(<< 0 >>, Top(<< 0 >>))
      BY DEF Has, Top, OpTimeAt
    <2> QED
      BY <2>2, <2>3 DEF ShownAt
  <1> QED
    BY <1>1, <1>2 DEF BranchInv, ShownInv

LEMMA ShownStutters ==
    ASSUME ShownInv, UNCHANGED vars
    PROVE  ShownInv'
  BY DEF vars, logVars, commitVars, ShownInv, ShownAt

LEMMA BranchStutters ==
    ASSUME BranchInv, UNCHANGED vars
    PROVE  BranchInv'
  <1>1. OplogInv' /\ ShownInv'
    BY OplogInvStutters, ShownStutters DEF BranchInv
  <1>2. TermInv'
    <2>1. /\ oplog' = oplog /\ buffer' = buffer /\ fetcher' = fetcher /\ producer' = producer /\ term' = term
      BY DEF vars, logVars, fetchVars, electionVars
    <2> QED
      BY <2>1 DEF BranchInv, TermInv, Fetched, Coming, InFlight, InCallback
  <1> QED
    BY <1>1, <1>2 DEF BranchInv

LEMMA BranchStep ==
    ASSUME BranchInv, Next, NoFetchInLimbo
    PROVE  BranchInv'
  <1>1. Shape /\ LogInv /\ TermInv /\ ShownInv /\ OplogInv
    BY DEF BranchInv, OplogInv, Shape
  <1> QED
    BY <1>1, OplogInvStep, TermInvStep, ShownStep DEF BranchInv

(* The candidates for the stable optime, and the committed snapshot among them,  *)
(* stay on the member's own branch (_addStableOpTimeCandidate_inlock, and the    *)
(* filter that rollback applies to them).                                        *)
THEOREM BranchInvariant == Spec /\ [][NoFetchInLimbo]_vars => []BranchInv
  <1>1. BranchInv /\ [Next]_vars /\ [NoFetchInLimbo]_vars => BranchInv'
    BY BranchStep, BranchStutters
  <1> QED
    BY <1>1, BranchInit, PTL DEF Spec

(* A majority read never shows an entry that the member has rolled back, and the *)
(* storage engine never recovers to one, if nothing is fetched during a step     *)
(* down: what rollback keeps of the candidates is found by comparing optimes     *)
(* (resetLastOpTimesFromOplog), which is right only where terms ascend.          *)
THEOREM SnapshotsOnBranch == Spec /\ [][NoFetchInLimbo]_vars => []SnapshotOnBranch
  <1>1. BranchInv => SnapshotOnBranch
    BY DEF BranchInv, ShownInv, ShownAt, SnapshotOnBranch
  <1> QED
    BY <1>1, BranchInvariant, PTL

\* Two optimes of one ascending oplog are in the order of their timestamps.
LEMMA OrderOnBranch ==
    ASSUME NEW l \in Oplog, Ascending(l), NEW a \in OpTime, NEW b \in OpTime, Has(l, a), Has(l, b), AtMost(a, b)
    PROVE  a.ts <= b.ts
  <1>1. /\ a.ts \in 1..Len(l) /\ b.ts \in 1..Len(l) /\ l[a.ts] = a.term /\ l[b.ts] = b.term
        /\ a.ts \in Nat /\ b.ts \in Nat
    BY HasIsNotNull
  <1>2. a.term < b.term \/ (a.term = b.term /\ a.ts <= b.ts)
    BY OrderOfOpTimes
  <1>3. b.ts <= a.ts => b.term <= a.term
    BY <1>1 DEF Ascending
  <1>4. a.term \in Int /\ b.term \in Int
    BY OrderOfOpTimes
  <1> QED
    BY <1>1, <1>2, <1>3, <1>4

LEMMA RaisesInOrder ==
    ASSUME TypeInv', TermInv', NEW n \in DataMember, Raises(n), snapshot[n] \in OpTime, snapshot[n] # Null
    PROVE  AtMost(snapshot[n], snapshot'[n]) /\ snapshot[n].ts <= snapshot'[n].ts
  <1>1. /\ n \in Member /\ oplog'[n] \in Oplog /\ snapshot'[n] \in OpTime
        /\ Coming(n)' \in Oplog /\ Begins(oplog'[n], Coming(n)')
    <2>1. n \in Member
      BY BoundTypes
    <2> QED
      BY <2>1, ComingNext DEF TypeInv, OpTimeType
  <1>2. Ascending(oplog'[n])
    BY <1>1, AscendingPart DEF TermInv
  <1>3. /\ AtMost(snapshot[n], snapshot'[n]) /\ Has(oplog'[n], snapshot[n])
        /\ snapshot'[n] \in candidates'[n] /\ Has(oplog'[n], snapshot'[n])
    BY DEF Raises, ShownAt
  <1>4. snapshot[n].ts <= snapshot'[n].ts
    BY <1>1, <1>2, <1>3, OrderOnBranch
  <1> QED
    BY <1>3, <1>4

\* A response with an old commit point, a step down or a batch never takes the
\* committed snapshot back, in term or in timestamp, until it is dropped: the other
\* invariant() of _updateCommittedSnapshot_inlock.
SnapshotRises ==
    [][\A n \in DataMember : snapshot[n] # Null /\ snapshot'[n] # Null =>
         AtMost(snapshot[n], snapshot'[n]) /\ snapshot[n].ts <= snapshot'[n].ts]_vars

(* The committed snapshot never goes back, neither in term nor in timestamp,     *)
(* until a rollback or a restart drops it: the invariant() that                  *)
(* _updateCommittedSnapshot_inlock makes of it never stops a member.             *)
THEOREM SnapshotsRise == Spec /\ [][NoFetchInLimbo]_vars => SnapshotRises
  <1> DEFINE Rises == \A n \in DataMember : snapshot[n] # Null /\ snapshot'[n] # Null =>
                          AtMost(snapshot[n], snapshot'[n]) /\ snapshot[n].ts <= snapshot'[n].ts
  <1>1. BranchInv /\ [Next]_vars /\ [NoFetchInLimbo]_vars => [Rises]_vars
    <2> SUFFICES ASSUME BranchInv, Next, NoFetchInLimbo PROVE Rises
      OBVIOUS
    <2>1. BranchInv' /\ OplogInv /\ Shape /\ LogInv /\ TermInv /\ ShownInv /\ TypeInv' /\ TermInv'
      BY BranchStep DEF BranchInv, OplogInv, Shape
    <2>2. PICK n \in DataMember : ShowStep(n)
      BY <2>1, ShowSteps
    <2>3. ASSUME NEW m \in DataMember, snapshot[m] # Null, snapshot'[m] # Null
          PROVE  AtMost(snapshot[m], snapshot'[m]) /\ snapshot[m].ts <= snapshot'[m].ts
      <3>0. snapshot[m] \in OpTime
        BY <2>1, BoundTypes, MemberShape
      <3>1. CASE snapshot'[m] = snapshot[m]
        BY <3>0, <3>1, OrderOfOpTimes DEF AtMost
      <3>2. CASE Raises(m)
        BY <2>1, <2>3, <3>0, <3>2, RaisesInOrder
      <3> QED
        BY <2>2, <2>3, <3>1, <3>2 DEF ShowStep, OnlyHere, Untouched, Drops
    <2> QED
      BY <2>3
  <1> QED
    BY <1>1, BranchInvariant, PTL DEF Spec, SnapshotRises

----------------------------------------------------------------------------
(* What is acknowledged.                                                    *)

SeenInv == CommitInv /\ ShownInv

LEMMA SnapshotPassed ==
    ASSUME SeenInv, NEW n \in DataMember
    PROVE  snapshot[n] \in OpTime /\ PassedIn(committed, snapshot[n])
  <1>0. Shape /\ CommitInv /\ n \in Member
    BY BoundTypes DEF SeenInv, CommitInv, OplogInv, Shape
  <1> DEFINE o == snapshot[n]
             c == commitPoint[n]
  <1>1. o \in OpTime /\ c \in OpTime /\ oplog[n] \in Oplog
    BY <1>0, MemberShape
  <1>2. PassedIn(committed, c)
    BY <1>0 DEF CommitInv, PassedInv
  <1>3. committed \in Oplog /\ Len(committed) \in Nat /\ Len(committed) <= MaxOplog /\ Ascending(committed)
    BY <1>0, CommittedAscends
  <1>4. ASSUME o # Null PROVE PassedIn(committed, o)
    <2>1. Has(oplog[n], o) /\ AtMost(o, c)
      BY <1>4 DEF SeenInv, ShownInv, ShownAt
    <2> HIDE DEF o, c
    <2>2. o.term \in Terms /\ o.ts \in Nat /\ o.ts >= 1
      BY <1>1, <2>1, HasIsNotNull
    <2>3. /\ o.term < c.term \/ (o.term = c.term /\ o.ts <= c.ts)
          /\ o.term \in Int /\ c.term \in Int /\ c.ts \in Int
      BY <1>1, <2>1, OrderOfOpTimes
    <2>4. c # Null
      BY <2>2, <2>3, NullType DEF Terms
    <2>5. CASE o.term < c.term
      BY <1>1, <1>2, <1>3, <2>4, <2>5, PassedBelow
    <2>6. CASE o.term = c.term /\ o.ts <= c.ts
      <3>1. CASE committed # <<>> /\ c.term < Top(committed).term
        BY <2>6, <3>1 DEF PassedIn
      <3>2. CASE Has(committed, c)
        <4>1. c.ts \in 1..Len(committed) /\ committed[c.ts] = o.term
          BY <2>6, <3>2 DEF Has
        <4>2. committed # <<>>
          BY <1>3, <4>1
        <4>3. PICK h \in DataMember : Begins(committed, oplog[h])
          BY <1>0, <4>2, Holder
        <4>4. Has(committed, o)
          BY <1>0, <1>1, <2>1, <2>6, <4>1, <4>3, OnCommitted
        <4> QED
          BY <4>4 DEF PassedIn
      <3> QED
        BY <1>2, <2>4, <3>1, <3>2 DEF PassedIn
    <2> QED
      BY <2>3, <2>5, <2>6
  <1>5. CASE o = Null
    BY <1>1, <1>5 DEF PassedIn
  <1> QED
    BY <1>1, <1>4, <1>5

LEMMA HeardIsAcked ==
    ASSUME Shape, PositionInv, NEW n \in DataMember, NEW c \in Entries, IsCounting(role[n]),
           c.term = term[n], NEW m \in Member, AtMost(c, position[n][m])
    PROVE  MayAck(m, c)
  <1>0. n \in Member /\ c \in OpTime /\ position[n][m] \in OpTime /\ term[n] \in Int
    BY BoundTypes, EntryIs, MemberShape, TermIntegers
  <1> DEFINE o == position[n][m]
  <1>1. o.term <= term[n]
    BY DEF PositionInv
  <1>2. /\ c.term \in Int /\ o.term \in Int /\ c.ts \in Int /\ o.ts \in Int
        /\ c.term < o.term \/ (c.term = o.term /\ c.ts <= o.ts)
    BY <1>0, OrderOfOpTimes
  <1>3. o.term = c.term /\ c.ts <= o.ts
    BY <1>0, <1>1, <1>2
  <1>4. Covers(o, c)
    BY <1>3 DEF Covers
  <1> QED
    BY <1>4 DEF MayAck, Acked

LEMMA HeardIsChoosable ==
    ASSUME Shape, PositionInv, WriteMajority = VoteMajority,
           NEW n \in DataMember, NEW c \in Entries, IsCounting(role[n]),
           c.term = term[n], Cardinality({m \in Member : AtMost(c, position[n][m])}) >= WriteMajority
    PROVE  Choosable(c)
  <1> DEFINE A == {m \in Member : AtMost(c, position[n][m])}
             C == {m \in Acceptors : MayAck(m, c)}
  <1>1. A \subseteq C
    BY HeardIsAcked DEF Acceptors
  <1>2. IsFiniteSet(C)
    BY AcceptorsAre, FS_Subset
  <1>3. Cardinality(A) <= Cardinality(C) /\ Cardinality(A) \in Nat /\ Cardinality(C) \in Nat
    BY <1>1, <1>2, FS_Subset, FS_CardinalityType
  <1>4. Cardinality(A) >= WriteMajority
    OBVIOUS
  <1>5. Cardinality(C) >= WriteMajority
    BY <1>3, <1>4, MajorityTypes
  <1> QED
    BY <1>5 DEF Choosable

\* A write that a client is told a majority has.
LEMMA Acknowledged ==
    ASSUME SeenInv, NEW n \in DataMember, NEW o \in Entries, Has(oplog[n], o), DoneWaitingForReplication(n, o)
    PROVE  Has(committed, o)
  <1>0. Shape /\ CommitInv /\ n \in Member /\ TermInv /\ PositionInv /\ SafeInv /\ o \in OpTime
    BY BoundTypes, EntryIs DEF SeenInv, CommitInv, OplogInv, Shape
  <1> DEFINE s == snapshot[n]
  <1>1. /\ IsCounting(role[n]) /\ o.term = term[n] /\ s # Null /\ AtMost(o, s)
        /\ Cardinality({m \in Member : AtMost(o, position[n][m])}) >= WriteMajority
    BY DEF DoneWaitingForReplication, IsCounting
  <1>2. s \in OpTime /\ PassedIn(committed, s) /\ Has(oplog[n], s) /\ oplog[n] \in Oplog
    BY <1>0, <1>1, SnapshotPassed, MemberShape DEF SeenInv, ShownInv, ShownAt
  <1> HIDE DEF s
  <1>3. s.ts \in 1..Len(oplog[n]) /\ oplog[n][s.ts] = s.term
    BY <1>2 DEF Has
  <1>4. s.term <= term[n]
    BY <1>0, <1>3, OplogBounded
  <1>5. s.term = o.term /\ o.ts <= s.ts /\ s.ts \in Int /\ o.ts \in Int /\ o.term \in Int
    <2>1. /\ s.term \in Int /\ o.term \in Int /\ s.ts \in Int /\ o.ts \in Int
          /\ o.term < s.term \/ (o.term = s.term /\ o.ts <= s.ts)
      BY <1>0, <1>1, <1>2, OrderOfOpTimes
    <2> QED
      BY <1>1, <1>4, <2>1
  <1>6. committed \in Oplog /\ Len(committed) \in Nat /\ Len(committed) <= MaxOplog
    BY <1>0, CommittedAscends
  <1>7. committed # <<>>
    BY <1>1, <1>2, <1>6 DEF PassedIn, Has
  <1>8. PICK h \in DataMember : Begins(committed, oplog[h])
    BY <1>0, <1>7, Holder
  <1>9. CASE Has(committed, s)
    <2>1. s.ts \in 1..Len(committed) /\ committed[s.ts] = o.term
      BY <1>5, <1>9 DEF Has
    <2> QED
      BY <1>0, <1>2, <1>5, <1>8, <2>1, OnCommitted
  <1>10. CASE s.term < Top(committed).term
    <2>1. FollowsEntry(o)
      <3>0. WriteMajority = VoteMajority
        <4>1. Top(committed).term \in Int
          BY <1>6, TopType, OrderOfOpTimes
        <4> QED
          BY <1>0, <1>1, <1>5, <1>7, <1>10, <4>1, AllHaveCommitted
      <3>1. Choosable(o)
        BY <1>0, <1>1, <3>0, HeardIsChoosable
      <3> QED
        BY <1>0, <3>1 DEF SafeInv, Protected
    <2>2. /\ oplog[h] \in Oplog /\ Coming(h) \in Oplog /\ Begins(oplog[h], Coming(h)) /\ Len(Coming(h)) \in Nat
      BY <1>0, BoundTypes, MemberShape, ComingShape
    <2>3. Begins(committed, Coming(h))
      BY <1>6, <1>8, <2>2, BeginsTransitive
    <2>4. Len(committed) \in 1..Len(Coming(h)) /\ Coming(h)[Len(committed)] = Top(committed).term
      <3>1. Top(committed).term = committed[Len(committed)]
        BY <1>6, <1>7, TopType
      <3>2. Len(committed) >= 1
        BY <1>6, <1>7, EmptySeq DEF Oplog
      <3> QED
        BY <1>6, <2>2, <2>3, <3>1, <3>2 DEF Begins
    <2>5. PICK k \in 1..Len(committed) : o.ts <= k /\ Coming(h)[k] = o.term
      <3>1. Coming(h)[Len(committed)] > o.term
        BY <1>5, <1>10, <2>4
      <3> QED
        BY <2>1, <2>4, <3>1 DEF FollowsEntry
    <2>6. committed[k] = o.term
      BY <2>3, <2>5 DEF Begins
    <2> DEFINE c == [term |-> o.term, ts |-> k]
    <2>7. c \in OpTime /\ c.ts = k
      BY <1>0, <1>6, <2>5, BoundTypes DEF OpTime
    <2> HIDE DEF c
    <2> QED
      BY <1>0, <1>8, <2>5, <2>6, <2>7, OnCommitted
  <1> QED
    BY <1>1, <1>2, <1>9, <1>10 DEF PassedIn

LEMMA SeenInit ==
    ASSUME Init
    PROVE  SeenInv
  BY CommitInit, BranchInit DEF BranchInv, SeenInv

LEMMA SeenStutters ==
    ASSUME SeenInv, UNCHANGED vars
    PROVE  SeenInv'
  BY CommitInvStutters, ShownStutters DEF SeenInv

LEMMA SeenStep ==
    ASSUME SeenInv, Next, Careful
    PROVE  SeenInv'
  <1>1. OplogInv /\ TermInv /\ ShownInv /\ CommitInv
    BY DEF SeenInv, CommitInv
  <1> QED
    BY <1>1, CommitInvStep, ShownStep DEF SeenInv

(* Whatever a member takes for committed is committed, or is an entry of an older *)
(* term that a later commit has passed by (_onSuccessfulBatch reads the commit    *)
(* point of a response, and advanceLastCommittedOpTime holds it back).            *)
THEOREM SeenInvariant ==
    Spec /\ [][Careful]_vars => []SeenInv
  <1>1. SeenInv /\ [Next]_vars /\ [Careful]_vars => SeenInv'
    BY SeenStep, SeenStutters
  <1> QED
    BY <1>1, SeenInit, PTL DEF Spec

(* A write that _doneWaitingForReplication_inlock acknowledges with majority      *)
(* concern is committed, so it is never lost to a later primary, although the     *)
(* acknowledgement looks at this member's snapshot and positions only.            *)
THEOREM AcknowledgedStays ==
    Spec /\ [][Careful]_vars => []AcknowledgedIsCommitted
  <1>1. SeenInv => AcknowledgedIsCommitted
    <2> SUFFICES ASSUME SeenInv, NEW n \in DataMember, NEW i \in 1..Len(oplog[n]),
                        DoneWaitingForReplication(n, OpTimeAt(oplog[n], i))
                 PROVE  Has(committed, OpTimeAt(oplog[n], i))
      BY DEF AcknowledgedIsCommitted
    <2> DEFINE o == OpTimeAt(oplog[n], i)
    <2>1. Shape /\ n \in Member
      BY BoundTypes DEF SeenInv, CommitInv, OplogInv, Shape
    <2>2. oplog[n] \in Oplog /\ Len(oplog[n]) \in Nat /\ Len(oplog[n]) <= MaxOplog
      BY <2>1, MemberShape, ComingShape
    <2>3. /\ o \in OpTime /\ Has(oplog[n], o) /\ oplog[n][i] \in Terms
          /\ o = [term |-> oplog[n][i], ts |-> i]
      <3>1. i \in 0..Len(oplog[n]) /\ i # 0
        BY <2>2
      <3> QED
        BY <2>2, <3>1, OpTimeAtType DEF OpTimeAt
    <2>4. o \in Entries
      <3>1. i \in 1..MaxOplog
        BY <2>2, BoundTypes
      <3> QED
        BY <2>3, <3>1 DEF Entries
    <2>5. DoneWaitingForReplication(n, o)
      OBVIOUS
    <2> HIDE DEF o
    <2>6. Has(committed, o)
      BY <2>3, <2>4, <2>5, Acknowledged
    <2> QED
      BY <2>6 DEF o
  <1> QED
    BY <1>1, SeenInvariant, PTL

----------------------------------------------------------------------------
(* The refinement.                                                          *)

\* What is shown of the committed entries l with the snapshot o.
Seen(l, o) == IF o # Null /\ Has(l, o) THEN o.ts ELSE 0

LEMMA SeenRange ==
    ASSUME NEW l \in Oplog, NEW o
    PROVE  Seen(l, o) \in 0..Len(l) /\ Seen(l, o) \in Nat
  <1>1. Has(l, o) => o.ts \in 1..Len(l)
    BY DEF Has
  <1> QED
    BY <1>1, OplogLength DEF Seen

\* What has been passed by does not come back when more is committed.
LEMMA SeenSame ==
    ASSUME NEW s \in Oplog, NEW t \in Oplog, Len(s) <= MaxOplog, Len(t) <= MaxOplog, Begins(s, t), Ascending(t),
           NEW o \in OpTime, PassedIn(s, o)
    PROVE  Seen(t, o) = Seen(s, o)
  <1>1. CASE o = Null
    BY <1>1 DEF Seen
  <1>2. CASE Has(s, o)
    BY <1>2, HasKept DEF Seen
  <1>3. CASE ~Has(s, o) /\ s # <<>> /\ o.term < Top(s).term
    <2>1. Len(s) \in Nat /\ Len(t) \in Nat /\ Len(s) >= 1 /\ Len(s) <= Len(t) /\ Top(s).term = s[Len(s)]
      BY <1>3, OplogLength, EmptySeq, TopType DEF Begins, Oplog
    <2>2. ASSUME Has(t, o) PROVE FALSE
      <3>1. o.ts \in 1..Len(t) /\ t[o.ts] = o.term
        BY <2>2 DEF Has
      <3>2. CASE o.ts <= Len(s)
        BY <1>3, <2>1, <3>1, <3>2 DEF Has, Begins
      <3>3. CASE Len(s) <= o.ts
        <4>1. t[Len(s)] <= t[o.ts] /\ t[Len(s)] = s[Len(s)]
          BY <2>1, <3>1, <3>3 DEF Ascending, Begins
        <4>2. t[Len(s)] \in Int /\ o.term \in Int
          BY <2>1, OplogElement, OrderOfOpTimes
        <4> QED
          BY <1>3, <2>1, <3>1, <4>1, <4>2
      <3> QED
        BY <2>1, <3>1, <3>2, <3>3
    <2> QED
      BY <1>3, <2>2 DEF Seen
  <1> QED
    BY <1>1, <1>2, <1>3 DEF PassedIn

\* The step of the abstract specification, from what is shown at n afterwards.
LEMMA AbstractStep ==
    ASSUME NEW n \in DataMember, NEW k, committed' \in Oplog,
           [m \in DataMember |-> ShownBy(m)]' = [[m \in DataMember |-> ShownBy(m)] EXCEPT ![n] = k],
           \/ committed' = committed /\ k = 0
           \/ committed' = committed /\ k \in ShownBy(n)..Len(committed')
           \/ /\ k \in ShownBy(n)..Len(committed') /\ Len(committed) < Len(committed')
              /\ SubSeq(committed', 1, Len(committed)) = committed
    PROVE  Abstract!Next
  <1>1. [m \in DataMember |-> ShownBy(m)][n] = ShownBy(n)
    OBVIOUS
  <1>2. committed' \in Seq(0..MaxTerm)
    BY DEF Oplog, Terms
  <1>3. k \in ShownBy(n)..Len(committed') => Abstract!Raise(n)
    BY <1>1 DEF Abstract!Raise
  <1>4. CASE committed' = committed /\ k = 0
    BY <1>4 DEF Abstract!Drop, Abstract!Next
  <1>5. CASE committed' = committed /\ k \in ShownBy(n)..Len(committed')
    BY <1>3, <1>5 DEF Abstract!Show, Abstract!Next
  <1>6. CASE /\ k \in ShownBy(n)..Len(committed') /\ Len(committed) < Len(committed')
             /\ SubSeq(committed', 1, Len(committed)) = committed
    BY <1>2, <1>3, <1>6 DEF Abstract!Commit, Abstract!Next
  <1> QED
    BY <1>4, <1>5, <1>6

\* A primary that commits more shows what it has shown, or more.
LEMMA CommitShows ==
    ASSUME SeenInv, CommitInv', NEW n \in DataMember, Commits(n), committed' # committed
    PROVE  Seen(committed, snapshot[n]) <= Seen(committed', snapshot'[n])
  <1>0. /\ TypeInv' /\ BeginInv' /\ TermInv' /\ n \in Member /\ Shape /\ snapshot[n] \in OpTime
        /\ committed \in Oplog /\ committed' \in Oplog
    <2>1. /\ TypeInv' /\ BeginInv' /\ TermInv' /\ n \in Member /\ Shape
          /\ committed \in Oplog /\ committed' \in Oplog
      BY BoundTypes DEF SeenInv, CommitInv, OplogInv, Shape, IsOplog, Oplog, Terms
    <2> QED
      BY <2>1, MemberShape
  <1>1. PICK c \in Entries : Declares(n, c)
    BY DEF Commits
  <1> DEFINE o == snapshot[n]
             x == snapshot'[n]
  <1>2. CASE Seen(committed, o) = 0
    BY <1>0, <1>2, SeenRange
  <1>3. CASE Seen(committed, o) # 0
    <2>1. o # Null /\ Seen(committed, o) = o.ts
      BY <1>3 DEF Seen
    <2>2. x # Null /\ x \in candidates'[n] /\ Has(oplog'[n], x) /\ AtMost(x, commitPoint'[n])
      BY <2>1 DEF Commits, Raises, ShownAt
    <2>3. o.ts <= x.ts
      BY <1>0, <2>1, RaisesInOrder DEF Commits
    <2>4. /\ oplog'[n] \in Oplog /\ Coming(n)' \in Oplog /\ Begins(oplog'[n], Coming(n)') /\ x \in OpTime
      BY <1>0, ComingNext DEF TypeInv, OpTimeType
    <2>5. Ascending(oplog'[n])
      BY <1>0, <2>4, AscendingPart DEF TermInv
    <2>6. c \in OpTime /\ Has(oplog'[n], c) /\ commitPoint'[n] = c
      BY <1>1, EntryIs DEF Declares
    <2>7. x.ts <= c.ts
      BY <2>2, <2>4, <2>5, <2>6, OrderOnBranch
    <2>8. Len(committed') = c.ts /\ \A k \in 1..c.ts : committed'[k] = oplog'[n][k]
      BY <1>0, <1>1, DeclaredTop
    <2>9. x.ts \in 1..Len(oplog'[n]) /\ oplog'[n][x.ts] = x.term /\ x.ts \in Nat /\ c.ts \in Nat
      BY <2>2, <2>4, <2>6, HasIsNotNull
    <2>10. Has(committed', x)
      BY <2>7, <2>8, <2>9 DEF Has
    <2>11. Seen(committed', x) = x.ts
      BY <2>2, <2>10 DEF Seen
    <2> QED
      BY <2>1, <2>3, <2>11
  <1> QED
    BY <1>2, <1>3

LEMMA RefineStep ==
    ASSUME SeenInv, Next, Careful
    PROVE  Abstract!Next \/ UNCHANGED <<committed, [m \in DataMember |-> ShownBy(m)]>>
  <1>0. /\ CommitInv /\ OplogInv /\ TermInv /\ ShownInv /\ SeenInv' /\ CommitInv'
        /\ TypeInv' /\ TermInv'
    BY SeenStep DEF SeenInv, CommitInv, OplogInv
  <1>1. PICK n \in DataMember : ShowStep(n)
    BY <1>0, ShowSteps
  <1>2. /\ committed \in Oplog /\ committed' \in Oplog /\ Begins(committed, committed')
        /\ Len(committed) \in Nat /\ Len(committed') \in Nat
        /\ Len(committed) <= MaxOplog /\ Len(committed') <= MaxOplog /\ Ascending(committed')
    BY <1>0, CommittedKept, CommittedAscends, CommittedAscendsNext DEF CommitInv
  <1>3. \A m \in DataMember : ShownBy(m) = Seen(committed, snapshot[m])
    BY DEF ShownBy, Seen
  <1>4. \A m \in DataMember : ShownBy(m)' = Seen(committed', snapshot'[m])
    BY DEF ShownBy, Seen, Has, Null
  <1>5. ASSUME NEW m \in DataMember, snapshot'[m] = snapshot[m] PROVE ShownBy(m)' = ShownBy(m)
    <2>1. snapshot[m] \in OpTime /\ PassedIn(committed, snapshot[m])
      BY SnapshotPassed
    <2> QED
      BY <1>2, <1>3, <1>4, <1>5, <2>1, SeenSame
  <1> DEFINE k == Seen(committed', snapshot'[n])
  <1>6. [m \in DataMember |-> ShownBy(m)]' = [[m \in DataMember |-> ShownBy(m)] EXCEPT ![n] = k]
    <2>1. \A m \in DataMember : m # n => ShownBy(m)' = ShownBy(m)
      BY <1>1, <1>5 DEF ShowStep, OnlyHere, Untouched
    <2>2. ShownBy(n)' = k
      BY <1>4
    <2> QED
      BY <2>1, <2>2
  <1>7. k \in 0..Len(committed') /\ k \in Nat /\ ShownBy(n) \in Nat
    BY <1>2, <1>3, SeenRange
  <1>8. CASE committed' # committed
    <2>1. ShownBy(n) <= k
      BY <1>0, <1>1, <1>3, <1>8, CommitShows DEF ShowStep
    <2>2. Len(committed) < Len(committed')
      BY <1>2, <1>8, SameSequence DEF Begins, Oplog
    <2>3. SubSeq(committed', 1, Len(committed)) = committed
      <3>1. IsPrefixOf(committed, committed')
        BY <1>2, PrefixIs
      <3> QED
        BY <3>1 DEF IsPrefixOf, Upto
    <2>4. k \in ShownBy(n)..Len(committed')
      BY <1>2, <1>7, <2>1
    <2> HIDE DEF k
    <2> QED
      BY <1>2, <1>6, <2>2, <2>3, <2>4, AbstractStep
  <1>9. CASE committed' = committed
    <2>1. CASE Untouched(n)
      <3>1. k = ShownBy(n)
        BY <1>4, <1>5, <2>1 DEF Untouched
      <3>2. [m \in DataMember |-> ShownBy(m)]' = [m \in DataMember |-> ShownBy(m)]
        BY <1>6, <3>1
      <3> QED
        BY <1>9, <3>2
    <2>2. CASE k = 0
      <3> HIDE DEF k
      <3> QED
        BY <1>2, <1>6, <1>9, <2>2, AbstractStep
    <2>3. CASE Raises(n) /\ k # 0
      <3>1. snapshot'[n] # Null /\ Has(committed, snapshot'[n]) /\ k = snapshot'[n].ts
        BY <1>9, <2>3 DEF Seen
      <3>2. ShownBy(n) <= k
        <4>1. CASE ShownBy(n) = 0
          BY <1>7, <4>1
        <4>2. CASE ShownBy(n) # 0
          <5>1. snapshot[n] # Null /\ ShownBy(n) = snapshot[n].ts /\ snapshot[n] \in OpTime
            BY <4>2, SnapshotPassed DEF ShownBy
          <5>2. snapshot[n].ts <= snapshot'[n].ts
            BY <1>0, <2>3, <5>1, RaisesInOrder
          <5> QED
            BY <3>1, <5>1, <5>2
        <4> QED
          BY <4>1, <4>2
      <3>3. k \in ShownBy(n)..Len(committed')
        BY <1>2, <1>7, <3>2
      <3> HIDE DEF k
      <3> QED
        BY <1>2, <1>6, <1>9, <3>3, AbstractStep
    <2>4. Drops(n) => k = 0
      BY DEF Drops, Seen
    <2> QED
      BY <1>1, <2>1, <2>2, <2>3, <2>4 DEF ShowStep
  <1> QED
    BY <1>8, <1>9

(* The replica set implements one log that only grows: counting a majority        *)
(* (_updateLastCommittedOpTime_inlock) appends to it, and the committed snapshot  *)
(* of a member (_updateCommittedSnapshot_inlock) shows a prefix of it, which      *)
(* grows until a rollback or a restart drops it.                                  *)
THEOREM MajorityLogImplemented ==
    Spec /\ [][Careful]_vars => ImplementsMajorityLog
  <1>1. Init => Abstract!Init
    <2>1. Init => committed = <<>> /\ [n \in DataMember |-> ShownBy(n)] = [n \in DataMember |-> 0]
      BY BoundTypes DEF Init, ShownBy
    <2> QED
      BY <2>1 DEF Abstract!Init
  <1>2. SeenInv /\ [Next]_vars /\ [Careful]_vars =>
           [Abstract!Next]_<<committed, [n \in DataMember |-> ShownBy(n)]>>
    <2>1. CASE UNCHANGED vars
      <3>1. committed' = committed /\ snapshot' = snapshot
        BY <2>1 DEF vars, commitVars
      <3>2. \A n \in DataMember : ShownBy(n)' = ShownBy(n)
        BY <3>1 DEF ShownBy
      <3> QED
        BY <3>1, <3>2
    <2> QED
      BY <2>1, RefineStep
  <1> QED
    BY <1>1, <1>2, SeenInvariant, PTL DEF Spec, ImplementsMajorityLog, Abstract!Spec

----------------------------------------------------------------------------
(* What lies below a commit point.                                          *)

\* Where h is committed, the entries of l from terms before that of o are committed,
\* and at timestamps before that of o.
IsBelow(h, l, o, i) == i < o.ts /\ i <= Len(h) /\ h[i] = l[i]
Below(h, l, o) == \A i \in 1..Len(l) : l[i] < o.term => IsBelow(h, l, o, i)

\* The exception, which lets a late response mislead: the entries of the last term,
\* which n may have written itself after the response was checked.
Own(n, i) ==
    /\ producer[n] # "Running" /\ Fetched(n)[i] = Fetched(n)[Len(Fetched(n))]
    /\ IsPrimary(role[n]) => Fetched(n)[i] = term[n]
HeardBelow(n) ==
    \A i \in 1..Len(Fetched(n)) : Fetched(n)[i] < fetcher[n].committed.term =>
        IsBelow(committed, Fetched(n), fetcher[n].committed, i) \/ Own(n, i)

BelowAt(n) ==
    /\ commitPoint[n].term <= Top(oplog[n]).term
    /\ Below(committed, Fetched(n), commitPoint[n])
    /\ fetcher[n].stage = "Checked" => HeardBelow(n)
BelowInv == \A n \in DataMember : BelowAt(n)

LEMMA IsBelowKept ==
    ASSUME NEW h \in Oplog, NEW g \in Oplog, Begins(h, g), NEW l \in Oplog, NEW k \in Oplog, NEW o,
           NEW i \in 1..Len(l), i <= Len(k), k[i] = l[i], IsBelow(h, l, o, i)
    PROVE  IsBelow(g, k, o, i)
  <1>1. Len(h) \in Nat /\ Len(g) \in Nat /\ i \in Nat /\ i >= 1 /\ Len(l) \in Nat
    BY OplogLength
  <1> QED
    BY <1>1 DEF IsBelow, Begins

\* A shorter log, and more that is committed.
LEMMA BelowKept ==
    ASSUME NEW h \in Oplog, NEW g \in Oplog, Begins(h, g), NEW l \in Oplog, NEW k \in Oplog, Begins(k, l),
           NEW o, Below(h, l, o)
    PROVE  Below(g, k, o)
  <1> SUFFICES ASSUME NEW i \in 1..Len(k), k[i] < o.term PROVE IsBelow(g, k, o, i)
    BY DEF Below
  <1>1. Len(k) \in Nat /\ Len(l) \in Nat /\ i \in 1..Len(l) /\ k[i] = l[i] /\ i <= Len(k)
    BY OplogLength DEF Begins
  <1>2. IsBelow(h, l, o, i)
    BY <1>1 DEF Below
  <1> QED
    BY <1>1, <1>2, IsBelowKept

\* A log that goes on where it had reached the term of o.
LEMMA BelowGrows ==
    ASSUME NEW h \in Oplog, NEW g \in Oplog, Begins(h, g), NEW l \in Oplog, NEW k \in Oplog, Begins(l, k),
           Ascending(k), NEW o \in OpTime, Below(h, l, o), NEW j \in 1..Len(l), o.term <= l[j]
    PROVE  Below(g, k, o)
  <1> SUFFICES ASSUME NEW i \in 1..Len(k), k[i] < o.term PROVE IsBelow(g, k, o, i)
    BY DEF Below
  <1>1. /\ Len(k) \in Nat /\ Len(l) \in Nat /\ Len(l) <= Len(k) /\ k[j] = l[j] /\ j \in 1..Len(k)
        /\ k[i] \in Int /\ k[j] \in Int /\ o.term \in Int /\ i \in Nat /\ j \in Nat
    BY OplogLength, OplogElement, OrderOfOpTimes DEF Begins
  <1>2. i < j
    <2>1. CASE j <= i
      <3>1. k[j] <= k[i]
        BY <1>1, <2>1 DEF Ascending
      <3> QED
        BY <1>1, <3>1
    <2> QED
      BY <1>1, <2>1
  <1>3. i \in 1..Len(l) /\ k[i] = l[i]
    BY <1>1, <1>2 DEF Begins
  <1>4. IsBelow(h, l, o, i)
    BY <1>3 DEF Below
  <1> QED
    BY <1>1, <1>3, <1>4, IsBelowKept

\* The last entry of the oplog among what is fetched.
LEMMA TopFetched ==
    ASSUME Shape, NEW n \in DataMember
    PROVE  /\ Len(oplog[n]) \in 1..Len(Fetched(n)) /\ Fetched(n)[Len(oplog[n])] = Top(oplog[n]).term
           /\ Top(oplog[n]) \in OpTime /\ Top(oplog[n]).ts = Len(oplog[n]) /\ Has(oplog[n], Top(oplog[n]))
           /\ Fetched(n) \in Oplog /\ Len(Fetched(n)) \in Nat /\ Begins(oplog[n], Fetched(n)) /\ n \in Member
           /\ oplog[n] \in Oplog /\ Len(oplog[n]) <= MaxOplog
  <1>1. n \in Member /\ 1 <= Len(oplog[n]) /\ oplog[n] \in Oplog /\ Len(oplog[n]) \in Nat
    BY OplogBegins
  <1>2. Fetched(n) \in Oplog /\ Len(Fetched(n)) \in Nat /\ Begins(oplog[n], Fetched(n)) /\ Len(oplog[n]) <= MaxOplog
    BY <1>1, ComingShape, FetchedShape
  <1>3. oplog[n] # <<>>
    BY <1>1
  <1>4. /\ Top(oplog[n]) \in OpTime /\ Top(oplog[n]).term = oplog[n][Len(oplog[n])]
        /\ Top(oplog[n]).ts = Len(oplog[n]) /\ Has(oplog[n], Top(oplog[n]))
    BY <1>1, <1>2, <1>3, TopType
  <1> QED
    BY <1>1, <1>2, <1>4 DEF Begins

LEMMA FetchedAscends ==
    ASSUME Shape, TermInv, NEW n \in DataMember
    PROVE  Ascending(Fetched(n)) /\ Ascending(oplog[n])
  <1>1. n \in Member
    BY BoundTypes
  <1>2. /\ Fetched(n) \in Oplog /\ Coming(n) \in Oplog /\ Begins(Fetched(n), Coming(n))
        /\ oplog[n] \in Oplog /\ Begins(oplog[n], Coming(n))
    BY <1>1, ComingShape, MemberShape
  <1> QED
    BY <1>2, AscendingPart DEF TermInv

\* The last term of what is fetched.
LEMMA LastFetchedTerm ==
    ASSUME Shape, TermInv, NEW n \in DataMember
    PROVE  Fetched(n)[Len(Fetched(n))] \in Int /\ Top(oplog[n]).term <= Fetched(n)[Len(Fetched(n))]
  <1>1. /\ Len(oplog[n]) \in 1..Len(Fetched(n)) /\ Fetched(n)[Len(oplog[n])] = Top(oplog[n]).term
        /\ Fetched(n) \in Oplog /\ Len(Fetched(n)) \in Nat
    BY TopFetched
  <1>2. Ascending(Fetched(n)) /\ Len(Fetched(n)) \in 1..Len(Fetched(n)) /\ Len(oplog[n]) <= Len(Fetched(n))
    BY <1>1, FetchedAscends
  <1> QED
    BY <1>1, <1>2, OplogElement DEF Ascending

LogFact(n) ==
    /\ Len(oplog[n]) \in 1..Len(Fetched(n)) /\ Fetched(n)[Len(oplog[n])] = Top(oplog[n]).term
    /\ Top(oplog[n]) \in OpTime /\ Top(oplog[n]).ts = Len(oplog[n]) /\ Has(oplog[n], Top(oplog[n]))
    /\ Fetched(n) \in Oplog /\ Len(Fetched(n)) \in Nat /\ Begins(oplog[n], Fetched(n))
    /\ oplog[n] \in Oplog /\ Len(oplog[n]) <= MaxOplog /\ Ascending(Fetched(n)) /\ Ascending(oplog[n])
    /\ Fetched(n)[Len(Fetched(n))] \in Int /\ Top(oplog[n]).term <= Fetched(n)[Len(Fetched(n))]
LogFacts == \A n \in DataMember : LogFact(n)

LEMMA LogFactsHold == CommitInv => LogFacts
  <1> SUFFICES ASSUME CommitInv, NEW n \in DataMember PROVE LogFact(n)
    BY DEF LogFacts
  <1>1. Shape /\ TermInv
    BY DEF CommitInv, OplogInv, Shape
  <1> QED
    BY <1>1, TopFetched, FetchedAscends, LastFetchedTerm DEF LogFact

LEMMA LogFactsNext ==
    ASSUME CommitInv'
    PROVE  LogFacts'
  BY LogFactsHold, PTL

----------------------------------------------------------------------------
(* The commit point of a member stays above what is not committed.          *)

PointBelow(n) == commitPoint[n].term <= Top(oplog[n]).term /\ Below(committed, Fetched(n), commitPoint[n])

\* The member goes on behind what it has.
LEMMA PointGrows ==
    ASSUME CommitInv, CommitInv', Next, Careful, NEW n \in DataMember, PointBelow(n),
           commitPoint'[n] = commitPoint[n], Begins(oplog[n], oplog'[n]), Begins(Fetched(n), Fetched(n)')
    PROVE  PointBelow(n)'
  <1>1. LogFact(n) /\ LogFact(n)'
    BY LogFactsHold, LogFactsNext DEF LogFacts
  <1>2. committed \in Oplog /\ committed' \in Oplog /\ Begins(committed, committed')
    BY CommittedKept
  <1>3. commitPoint[n] \in OpTime /\ commitPoint[n].term \in Int
    <2>1. Shape /\ n \in Member
      BY BoundTypes DEF CommitInv, OplogInv, Shape
    <2> QED
      BY <2>1, MemberShape, OrderOfOpTimes
  <1>4. commitPoint[n].term <= Fetched(n)[Len(oplog[n])]
    BY <1>1 DEF LogFact, PointBelow
  <1>5. Below(committed', Fetched(n)', commitPoint[n])
    BY <1>1, <1>2, <1>3, <1>4, BelowGrows DEF LogFact, PointBelow
  <1>6. Top(oplog[n]).term <= Top(oplog'[n]).term
    <2>1. /\ Len(oplog[n]) \in 1..Len(oplog'[n]) /\ Len(oplog'[n]) \in 1..Len(oplog'[n])
          /\ oplog'[n][Len(oplog[n])] = oplog[n][Len(oplog[n])]
      BY <1>1, OplogLength DEF LogFact, Begins, Has
    <2>2. oplog'[n][Len(oplog[n])] <= oplog'[n][Len(oplog'[n])]
      BY <1>1, <2>1 DEF LogFact, Ascending
    <2> QED
      BY <1>1, <2>1, <2>2 DEF LogFact, Has
  <1>7. commitPoint[n].term <= Top(oplog'[n]).term
    BY <1>1, <1>3, <1>6, OrderOfOpTimes DEF PointBelow, LogFact
  <1> QED
    BY <1>5, <1>7 DEF PointBelow

\* The member loses the end of what it has, but nothing of the commit point's term.
LEMMA PointShortens ==
    ASSUME CommitInv, CommitInv', Next, Careful, NEW n \in DataMember, PointBelow(n),
           commitPoint'[n] = commitPoint[n], Begins(Fetched(n)', Fetched(n)),
           commitPoint[n].term <= Top(oplog'[n]).term
    PROVE  PointBelow(n)'
  <1>1. LogFact(n) /\ LogFact(n)'
    BY LogFactsHold, LogFactsNext DEF LogFacts
  <1>2. committed \in Oplog /\ committed' \in Oplog /\ Begins(committed, committed')
    BY CommittedKept
  <1>3. Below(committed', Fetched(n)', commitPoint[n])
    BY <1>1, <1>2, BelowKept DEF LogFact, PointBelow
  <1> QED
    BY <1>3 DEF PointBelow

\* A restart begins without a commit point.
LEMMA PointForgotten ==
    ASSUME CommitInv', NEW n \in DataMember, commitPoint'[n] = Null
    PROVE  PointBelow(n)'
  <1>1. LogFact(n)'
    BY LogFactsNext DEF LogFacts
  <1>2. Top(oplog'[n]).term \in Int /\ Top(oplog'[n]).term >= 0
    <2>1. Top(oplog'[n]).term = Fetched(n)'[Len(oplog'[n])] /\ Len(oplog'[n]) \in 1..Len(Fetched(n)')
      BY <1>1 DEF LogFact
    <2>2. Fetched(n)'[Len(oplog'[n])] \in Terms
      BY <1>1, <2>1, OplogElement DEF LogFact
    <2> QED
      BY <2>1, <2>2, BoundTypes DEF Terms
  <1>3. \A i \in 1..Len(Fetched(n)') : ~(Fetched(n)'[i] < -1)
    <2>1. \A i \in 1..Len(Fetched(n)') : Fetched(n)'[i] \in Terms
      BY <1>1, OplogElement DEF LogFact
    <2> QED
      BY <2>1, BoundTypes DEF Terms
  <1> QED
    BY <1>2, <1>3, NullType DEF PointBelow, Below

\* A primary counts an entry of its own term.
LEMMA PointDeclared ==
    ASSUME CommitInv, CommitInv', NEW n \in DataMember, NEW c \in Entries, Declares(n, c)
    PROVE  PointBelow(n)' /\ Has(committed', c)
  <1>0. c \in OpTime /\ c.term \in Int /\ c.ts \in Int
    BY EntryIs
  <1>1. LogFact(n)'
    BY LogFactsNext DEF LogFacts
  <1>2. Has(oplog'[n], c) /\ commitPoint'[n] = c
    BY DEF Declares
  <1> DEFINE l == oplog'[n]
             h == Upto(l, c.ts)
  <1>3. /\ h \in Oplog /\ Len(h) = c.ts /\ c.ts \in Nat /\ c.ts >= 1 /\ c.ts <= Len(l) /\ Len(l) \in Nat
        /\ \A k \in 1..c.ts : h[k] = l[k]
    <2>1. l \in Oplog /\ Len(l) <= MaxOplog /\ Has(l, c)
      BY <1>1, <1>2 DEF LogFact
    <2>2. c.ts <= Len(l) /\ Len(l) \in Nat
      BY <2>1, OplogLength DEF Has
    <2> HIDE DEF l
    <2> QED
      BY <1>0, <2>1, <2>2, TopOfPart
  <1>4. committed' \in Oplog /\ Len(committed') \in Nat
    BY OplogLength DEF CommitInv, OplogInv, IsOplog, Oplog, Terms
  <1>5. Begins(h, committed')
    <2>1. CASE committed' = h
      <3> HIDE DEF h
      <3> QED
        BY <1>3, <2>1, BeginsItself
    <2>2. CASE committed' = committed /\ IsPrefixOf(h, committed)
      <3> HIDE DEF h
      <3> QED
        BY <1>3, <1>4, <2>2, PrefixIs
    <2> QED
      BY <2>1, <2>2 DEF Declares
  <1>6. ASSUME NEW i \in 1..c.ts PROVE i <= Len(committed') /\ committed'[i] = l[i]
    BY <1>3, <1>4, <1>5, <1>6 DEF Begins
  <1> HIDE DEF l, h
  <1>7. l = oplog'[n]
    BY DEF l
  <1>8. Has(committed', c)
    BY <1>2, <1>3, <1>4, <1>6, <1>7 DEF Has
  <1>9. c.term <= Top(l).term
    <2>1. c.ts \in 1..Len(l) /\ Len(l) \in 1..Len(l) /\ l[c.ts] = c.term /\ Top(l).term = l[Len(l)]
      BY <1>1, <1>2, <1>3, <1>7 DEF LogFact, Has
    <2> QED
      BY <1>1, <1>3, <1>7, <2>1 DEF LogFact, Ascending
  <1>10. ASSUME NEW i \in 1..Len(Fetched(n)'), Fetched(n)'[i] < c.term PROVE IsBelow(committed', Fetched(n)', c, i)
    <2>1. /\ c.ts \in 1..Len(Fetched(n)') /\ Fetched(n)'[c.ts] = c.term /\ Fetched(n)' \in Oplog
          /\ Ascending(Fetched(n)') /\ Fetched(n)'[i] \in Int /\ i \in Nat /\ i >= 1
      BY <1>1, <1>2, <1>3, <1>7, OplogElement DEF LogFact, Begins, Has
    <2>2. i < c.ts
      <3>1. CASE c.ts <= i
        <4>1. Fetched(n)'[c.ts] <= Fetched(n)'[i]
          BY <2>1, <3>1 DEF Ascending
        <4> QED
          BY <1>0, <1>10, <2>1, <4>1
      <3> QED
        BY <1>3, <2>1, <3>1
    <2>3. i \in 1..c.ts /\ Fetched(n)'[i] = l[i]
      BY <1>1, <1>3, <1>7, <2>1, <2>2 DEF LogFact, Begins
    <2> QED
      BY <1>6, <2>2, <2>3 DEF IsBelow
  <1> QED
    BY <1>2, <1>7, <1>8, <1>9, <1>10 DEF PointBelow, Below

\* advanceLastCommittedOpTime: the commit point of a response, or in its stead the last
\* applied optime if that is of an earlier term.
LEMMA AdvanceCommitIs ==
    ASSUME Shape, NEW n \in DataMember, AdvanceCommitPoint(n)
    PROVE  /\ fetcher[n].stage = "Checked" /\ fetcher[n].committed \in OpTime /\ fetcher'[n].stage # "Checked"
           /\ \A m \in Member : m # n => fetcher'[m] = fetcher[m] /\ commitPoint'[m] = commitPoint[m]
           /\ oplog' = oplog /\ buffer' = buffer /\ committed' = committed
           /\ commitPoint'[n] # commitPoint[n] =>
                 \/ /\ commitPoint'[n] = fetcher[n].committed
                    /\ fetcher[n].committed.term <= Top(oplog[n]).term
                 \/ /\ commitPoint'[n] = Top(oplog[n])
                    /\ Top(oplog[n]).term < fetcher[n].committed.term
  <1>0. /\ n \in Member /\ n \notin Arbiter /\ candidates[n] \in SUBSET OpTime /\ fetcher \in [Member -> Response]
        /\ oplog[n] \in Oplog /\ Len(oplog[n]) <= MaxOplog /\ commitPoint[n] \in OpTime /\ term[n] \in Terms
        /\ Top(oplog[n]) \in OpTime
    BY BoundTypes, MemberShape, ComingShape, TypeParts, TopFetched DEF Shape, DataMember
  <1> DEFINE f == fetcher[n]
             o == f.committed
             r == role[n]
             l == oplog[n]
             c == AdvanceLastCommittedOpTime(n, r, l, o)
             cand == candidates[n]
             no == FALSE
  <1>1. /\ SetCommitPoint(n, c, cand, no) /\ committed' = committed /\ f.stage = "Checked"
        /\ oplog' = oplog /\ buffer' = buffer
        /\ fetcher' = [fetcher EXCEPT ![n] =
                        IF f.docs = <<>> /\ f.term <= term[n] THEN NoFetch ELSE Advanced(f.docs, f.term)]
    BY DEF AdvanceCommitPoint, logVars
  <1>2. o \in OpTime
    BY <1>0, <1>1, MemberShape, ResponseIs
  <1>3. /\ c \in OpTime
        /\ c # commitPoint[n] => (c = o /\ o.term <= Top(l).term) \/ (c = Top(l) /\ Top(l).term < o.term)
    <2>1. c = AdvanceLastCommittedOpTime(n, r, l, o) /\ l \in Oplog /\ Len(l) <= MaxOplog /\ Top(l) \in OpTime
      BY <1>0
    <2> HIDE DEF o, r, l, c
    <2>2. c \in OpTime
      BY <1>0, <1>2, <2>1, AdvanceIs
    <2>3. /\ o.term \in Int /\ Top(l).term \in Int
          /\ Less(o, Top(l)) <=> o.term < Top(l).term \/ (o.term = Top(l).term /\ o.ts < Top(l).ts)
      BY <1>2, <2>1, OrderOfOpTimes DEF Less
    <2>4. c # commitPoint[n] => c = IF Top(l).term # o.term THEN Smaller(o, Top(l)) ELSE o
      BY <1>0, <2>1 DEF AdvanceLastCommittedOpTime
    <2> QED
      BY <2>2, <2>3, <2>4 DEF Smaller
  <1>4. fetcher'[n].stage # "Checked" /\ \A m \in Member : m # n => fetcher'[m] = fetcher[m]
    BY <1>0, <1>1 DEF NoFetch, Advanced
  <1> HIDE DEF c, cand, no
  <1>5. commitPoint'[n] = c /\ \A m \in Member \ {n} : commitPoint'[m] = commitPoint[m]
    BY <1>0, <1>1, <1>3, SetCommitPointIs DEF cand
  <1> QED
    BY <1>1, <1>2, <1>3, <1>4, <1>5

\* What a response says is below its commit point, or is of the last term.
LEMMA HeardUpTo ==
    ASSUME CommitInv, NEW n \in DataMember, HeardBelow(n), NEW i \in 1..Len(Fetched(n)),
           Fetched(n)[i] < fetcher[n].committed.term, Fetched(n)[i] < Top(oplog[n]).term
    PROVE  IsBelow(committed, Fetched(n), fetcher[n].committed, i)
  <1>1. LogFact(n)
    BY LogFactsHold DEF LogFacts
  <1>2. /\ Fetched(n)[i] \in Int /\ Top(oplog[n]).term \in Int /\ Fetched(n)[Len(Fetched(n))] \in Int
        /\ Top(oplog[n]).term <= Fetched(n)[Len(Fetched(n))]
    BY <1>1, OplogElement, OrderOfOpTimes DEF LogFact
  <1>3. Fetched(n)[i] # Fetched(n)[Len(Fetched(n))]
    BY <1>2
  <1> QED
    BY <1>3 DEF HeardBelow, Own

LEMMA PointAdvances ==
    ASSUME CommitInv, NEW n \in DataMember, PointBelow(n), fetcher[n].stage = "Checked" => HeardBelow(n),
           AdvanceCommitPoint(n)
    PROVE  PointBelow(n)'
  <1>0. Shape /\ n \in Member
    BY BoundTypes DEF CommitInv, OplogInv, Shape
  <1>1. LogFact(n)
    BY LogFactsHold DEF LogFacts
  <1> DEFINE o == fetcher[n].committed
             c == commitPoint'[n]
             top == Top(oplog[n])
  <1>2. /\ fetcher[n].stage = "Checked" /\ o \in OpTime /\ oplog' = oplog /\ buffer' = buffer /\ committed' = committed
        /\ c # commitPoint[n] => (c = o /\ o.term <= top.term) \/ (c = top /\ top.term < o.term)
    BY <1>0, AdvanceCommitIs
  <1>3. Fetched(n)' = Fetched(n)
    BY <1>0, <1>2, SameFetched
  <1>4. HeardBelow(n)
    BY <1>2
  <1>5. CASE c = commitPoint[n]
    BY <1>2, <1>3, <1>5 DEF PointBelow
  <1>6. top \in OpTime /\ top.term \in Int /\ o.term \in Int
    BY <1>1, <1>2, OrderOfOpTimes DEF LogFact
  <1>7. ASSUME c = o, o.term <= top.term PROVE PointBelow(n)'
    <2>1. ASSUME NEW i \in 1..Len(Fetched(n)), Fetched(n)[i] < o.term PROVE IsBelow(committed, Fetched(n), o, i)
      <3>1. Fetched(n)[i] \in Int
        BY <1>1, OplogElement DEF LogFact
      <3>2. Fetched(n)[i] < top.term
        BY <1>6, <1>7, <2>1, <3>1
      <3> QED
        BY <1>4, <2>1, <3>2, HeardUpTo
    <2> QED
      BY <1>2, <1>3, <1>7, <2>1 DEF PointBelow, Below
  <1>8. ASSUME c = top, top.term < o.term PROVE PointBelow(n)'
    <2>1. ASSUME NEW i \in 1..Len(Fetched(n)), Fetched(n)[i] < top.term PROVE IsBelow(committed, Fetched(n), top, i)
      <3>1. /\ Fetched(n)[i] \in Int /\ i \in Nat /\ top.ts = Len(oplog[n]) /\ Fetched(n)[Len(oplog[n])] = top.term
            /\ Len(oplog[n]) \in 1..Len(Fetched(n)) /\ Len(Fetched(n)) \in Nat
        BY <1>1, OplogElement DEF LogFact
      <3>2. IsBelow(committed, Fetched(n), o, i)
        BY <1>4, <1>6, <1>8, <2>1, <3>1, HeardUpTo
      <3>3. i < top.ts
        <4>1. CASE top.ts <= i
          <5>1. top.term <= Fetched(n)[i]
            BY <1>1, <3>1, <4>1 DEF LogFact, Ascending
          <5> QED
            BY <1>6, <2>1, <3>1, <5>1
        <4> QED
          BY <3>1, <4>1
      <3> QED
        BY <3>2, <3>3 DEF IsBelow
    <2>2. top.term <= top.term
      BY <1>6
    <2> QED
      BY <1>2, <1>3, <1>8, <2>1, <2>2 DEF PointBelow, Below
  <1> QED
    BY <1>2, <1>5, <1>7, <1>8

\* What the steps do to the commit point and the oplog of a member.
PointMoves(m) ==
    \/ /\ commitPoint'[m] = commitPoint[m] /\ Begins(oplog[m], oplog'[m]) /\ Begins(Fetched(m), Fetched(m)')
    \/ /\ commitPoint'[m] = commitPoint[m] /\ Begins(Fetched(m)', Fetched(m))
       /\ commitPoint[m].term <= Top(oplog'[m]).term
    \/ commitPoint'[m] = Null
    \/ \E c \in Entries : Declares(m, c)
    \/ AdvanceCommitPoint(m)

LEMMA SamePoint ==
    ASSUME Shape, NEW m \in DataMember, commitPoint'[m] = commitPoint[m], oplog'[m] = oplog[m],
           buffer'[m] = buffer[m]
    PROVE  PointMoves(m)
  <1>1. oplog[m] \in Oplog /\ Fetched(m) \in Oplog /\ m \in Member
    BY TopFetched
  <1>2. Fetched(m)' = Fetched(m)
    BY <1>1, SameFetched
  <1> QED
    BY <1>1, <1>2, BeginsItself DEF PointMoves

LEMMA BeginsBehind ==
    ASSUME NEW l \in Oplog, NEW s \in Oplog, NEW t \in Oplog, Begins(s, t)
    PROVE  Begins(l \o s, l \o t)
  <1>1. /\ Len(l \o s) = Len(l) + Len(s) /\ Len(l \o t) = Len(l) + Len(t)
        /\ \A i \in 1..Len(l) : (l \o s)[i] = l[i] /\ (l \o t)[i] = l[i]
        /\ \A i \in Len(l)+1..Len(l)+Len(s) : (l \o s)[i] = s[i - Len(l)]
        /\ \A i \in Len(l)+1..Len(l)+Len(t) : (l \o t)[i] = t[i - Len(l)]
    BY Concat DEF Oplog
  <1>2. Len(l) \in Nat /\ Len(s) \in Nat /\ Len(t) \in Nat /\ Len(s) <= Len(t)
    BY OplogLength DEF Begins
  <1>3. ASSUME NEW i \in 1..Len(l) + Len(s), ~(i <= Len(l)) PROVE (l \o t)[i] = (l \o s)[i]
    <2>1. i \in Len(l)+1..Len(l)+Len(s) /\ i \in Len(l)+1..Len(l)+Len(t) /\ i - Len(l) \in 1..Len(s)
      BY <1>2, <1>3
    <2> QED
      BY <1>1, <2>1 DEF Begins
  <1>4. ASSUME NEW i \in 1..Len(l) + Len(s), i <= Len(l) PROVE (l \o t)[i] = (l \o s)[i]
    <2>1. i \in 1..Len(l)
      BY <1>2, <1>4
    <2> QED
      BY <1>1, <2>1
  <1> QED
    BY <1>1, <1>2, <1>3, <1>4 DEF Begins

\* The member puts a batch behind what it has fetched.
LEMMA ProcessMoves ==
    ASSUME Shape, TypeInv', NEW n \in DataMember, ProcessBatch(n), NEW m \in DataMember
    PROVE  PointMoves(m)
  <1>0. /\ n \in Member /\ m \in Member /\ oplog[m] \in Oplog /\ buffer[m] \in Oplog /\ buffer \in [Member -> Oplog]
        /\ fetcher[n] \in Response
    BY BoundTypes, MemberShape, TypeParts DEF Shape
  <1>1. oplog' = oplog /\ commitPoint' = commitPoint /\ fetcher[n].stage = "Advanced"
    BY DEF ProcessBatch, logVars, commitVars
  <1>2. PICK docs \in Oplog : buffer' = buffer \/ buffer' = [buffer EXCEPT ![n] = buffer[n] \o docs]
    <2>1. fetcher[n].docs \in Oplog /\ <<>> \in Oplog
      BY <1>0, <1>1, ResponseIs DEF Oplog
    <2> QED
      BY <2>1 DEF ProcessBatch, EnqueueDocuments
  <1>3. CASE buffer'[m] = buffer[m]
    BY <1>1, <1>3, SamePoint
  <1>4. CASE buffer'[m] = buffer[m] \o docs
    <2>1. buffer[m] \o docs \in Oplog /\ Begins(buffer[m], buffer[m] \o docs)
      BY <1>0, OplogConcat
    <2>2. Fetched(m)' = oplog[m] \o (buffer[m] \o docs) /\ Fetched(m) = oplog[m] \o buffer[m]
      BY <1>1, <1>4 DEF Fetched
    <2>4. Begins(Fetched(m), Fetched(m)')
      BY <1>0, <2>1, <2>2, BeginsBehind
    <2> QED
      BY <1>0, <1>1, <2>4, BeginsItself DEF PointMoves
  <1> QED
    BY <1>0, <1>2, <1>3, <1>4

LEMMA MyMoves ==
    ASSUME Shape, LogInv, DrainInv', TypeInv', NEW n \in DataMember, MyStep(n), NEW m \in DataMember
    PROVE  PointMoves(m)
  <1>0. n \in Member /\ m \in Member /\ oplog \in [Member -> Oplog] /\ oplog[m] \in Oplog /\ buffer[m] \in Oplog
    BY BoundTypes, MemberShape, TypeParts DEF Shape
  <1>1. PICK l \in Oplog : Begins(oplog[n], l) /\ oplog' = [oplog EXCEPT ![n] = l]
    BY DEF MyStep
  <1>2. MayDeclare(n)
    BY MyDeclares
  <1>3. CASE m # n
    <2>1. oplog'[m] = oplog[m] /\ buffer'[m] = buffer[m] /\ commitPoint'[m] = commitPoint[m]
      BY <1>0, <1>1, <1>2, <1>3 DEF MyStep, MayDeclare
    <2> QED
      BY <2>1, SamePoint
  <1>4. CASE m = n /\ commitPoint'[m] = commitPoint[m]
    <2>1. oplog'[m] = l /\ Begins(oplog[m], oplog'[m])
      BY <1>0, <1>1, <1>4
    <2>2. Begins(Fetched(m), Fetched(m)')
      <3>1. CASE Fetched(m)' = Fetched(m)
        BY <1>0, <3>1, FetchedShape, BeginsItself
      <3>2. CASE Appends(m)
        <4>1. buffer[m] = <<>> /\ buffer'[m] = <<>>
          BY <3>2 DEF Appends
        <4>2. Fetched(m) = oplog[m] /\ Fetched(m)' = oplog'[m]
          BY <1>0, <2>1, <4>1, ConcatEmpty DEF Fetched, Oplog
        <4> QED
          BY <2>1, <4>2
      <3> QED
        BY <1>4, <3>1, <3>2 DEF MyStep
    <2> QED
      BY <1>4, <2>1, <2>2 DEF PointMoves
  <1>5. CASE m = n /\ \E c \in Entries : Declares(n, c)
    BY <1>5 DEF PointMoves
  <1> QED
    BY <1>2, <1>3, <1>4, <1>5 DEF MayDeclare

LEMMA RollbackMoves ==
    ASSUME Shape, NEW n \in DataMember, Rollback(n), NEW m \in DataMember
    PROVE  PointMoves(m)
  <1>0. /\ n \in Member /\ m \in Member /\ oplog \in [Member -> Oplog] /\ oplog[m] \in Oplog /\ buffer[m] \in Oplog
        /\ commitPoint[n] \in OpTime /\ Len(oplog[n]) \in Nat /\ Len(oplog[n]) <= MaxOplog /\ MaxOplog \in Nat
    BY BoundTypes, MemberShape, ComingShape, TypeParts DEF Shape
  <1>1. commitPoint' = commitPoint /\ buffer' = buffer /\ buffer[n] = <<>>
    BY RollbackIs
  <1>2. CASE oplog' = oplog
    BY <1>1, <1>2, SamePoint
  <1>3. ASSUME NEW i \in 1..Len(oplog[n]), Upto(oplog[n], i) \in Oplog, Len(Upto(oplog[n], i)) = i,
               Begins(Upto(oplog[n], i), oplog[n]), oplog' = [oplog EXCEPT ![n] = Upto(oplog[n], i)],
               ~ Less(Top(Upto(oplog[n], i)), commitPoint[n])
        PROVE  PointMoves(m)
    <2> DEFINE l == Upto(oplog[n], i)
    <2>1. l \in Oplog /\ Len(l) <= MaxOplog /\ Begins(l, oplog[n]) /\ ~Less(Top(l), commitPoint[n]) /\ oplog'[n] = l
      BY <1>0, <1>3
    <2>2. CASE m # n
      <3>1. oplog'[m] = oplog[m]
        BY <1>0, <1>3, <2>2
      <3> QED
        BY <1>1, <3>1, SamePoint
    <2>3. CASE m = n
      <3> HIDE DEF l
      <3>1. Fetched(n) = oplog[n] /\ Fetched(n)' = l
        BY <1>0, <1>1, <2>1, <2>3, ConcatEmpty DEF Fetched, Oplog
      <3>2. Top(l) \in OpTime
        BY <2>1, TopType
      <3>3. commitPoint[n].term <= Top(l).term
        BY <1>0, <2>1, <3>2, OrderOfOpTimes DEF Less
      <3> QED
        BY <1>1, <2>1, <2>3, <3>1, <3>3 DEF PointMoves
    <2> QED
      BY <2>2, <2>3
  <1> QED
    BY <1>2, <1>3, RollbackIs

LEMMA CrashMoves ==
    ASSUME Shape, NEW n \in Member, Crash(n), NEW m \in DataMember
    PROVE  PointMoves(m)
  <1>0. m \in Member /\ commitPoint \in [Member -> OpTime]
    BY BoundTypes, TypeParts DEF Shape
  <1>1. commitPoint' = [commitPoint EXCEPT ![n] = Null]
    BY CrashIs
  <1>2. CASE m = n
    BY <1>0, <1>1, <1>2 DEF PointMoves
  <1>3. CASE m # n
    <2>1. oplog'[m] = oplog[m] /\ buffer'[m] = buffer[m] /\ commitPoint'[m] = commitPoint[m]
      BY <1>0, <1>1, <1>3, CrashReports
    <2> QED
      BY <2>1, SamePoint
  <1> QED
    BY <1>2, <1>3

LEMMA PointSteps ==
    ASSUME CommitInv, CommitInv', Next, NEW m \in DataMember
    PROVE  PointMoves(m)
  <1>0. /\ Shape /\ LogInv /\ DrainInv' /\ TypeInv' /\ m \in Member /\ m \notin Arbiter
        /\ commitPoint \in [Member -> OpTime]
    BY BoundTypes, TypeParts DEF CommitInv, OplogInv, Shape, LogInv, DataMember
  <1> DEFINE P == PointMoves(m)
  <1>1. ASSUME NEW n \in DataMember, NEW Q \in SUBSET Member, Elect(n, Q) PROVE P
    <2>1. oplog' = oplog /\ buffer' = buffer /\ commitPoint' = commitPoint
      BY <1>0, <1>1, ElectIs
    <2> QED
      BY <1>0, <2>1, SamePoint
  <1>2. ASSUME NEW n \in DataMember, EnterDrainMode(n) \/ StepDownSelf(n) \/ StepDownFinish(n) \/ StartProducer(n)
        PROVE  P
    <2>1. oplog' = oplog /\ buffer' = buffer /\ commitPoint' = commitPoint
      BY <1>2 DEF EnterDrainMode, StepDownSelf, StepDownFinish, StartProducer, commitVars, logVars, fetchVars
    <2> QED
      BY <1>0, <2>1, SamePoint
  <1>3. ASSUME NEW n \in DataMember, NEW s \in DataMember, Find(n, s) \/ GetMore(n, s) PROVE P
    <2>1. oplog' = oplog /\ buffer' = buffer /\ commitPoint' = commitPoint
      BY <1>3 DEF Find, GetMore, Answer, commitVars, logVars
    <2> QED
      BY <1>0, <2>1, SamePoint
  <1>4. ASSUME NEW n \in Member, NEW s \in Member, LearnTerm(n, s) PROVE P
    <2>1. oplog' = oplog /\ buffer' = buffer /\ commitPoint' = commitPoint
      BY <1>4 DEF LearnTerm, fetchVars, commitVars, logVars
    <2> QED
      BY <1>0, <2>1, SamePoint
  <1>5. ASSUME NEW n \in DataMember, SignalDrainComplete(n) \/ Write(n) \/ Journal(n) \/ ApplyBatch(n) PROVE P
    BY <1>0, <1>5, MySteps, MyMoves
  <1>6. ASSUME NEW n \in DataMember, NEW q \in Member, NEW r \in Reports(q), ReceivePosition(n, q, r) PROVE P
    <2>1. oplog' = oplog /\ buffer' = buffer
      BY <1>0, <1>6, ReceiveQuiet
    <2>2. MayDeclare(n)
      BY <1>0, <1>6, ReceiveDeclares
    <2>3. CASE commitPoint'[m] = commitPoint[m]
      BY <1>0, <2>1, <2>3, SamePoint
    <2> QED
      BY <1>0, <2>2, <2>3 DEF MayDeclare, PointMoves
  <1>7. ASSUME NEW n \in DataMember, AdvanceCommitPoint(n) PROVE P
    <2>1. oplog' = oplog /\ buffer' = buffer /\ (m # n => commitPoint'[m] = commitPoint[m])
      BY <1>0, <1>7, AdvanceCommitIs
    <2>2. CASE m = n
      BY <1>7, <2>2 DEF PointMoves
    <2> QED
      BY <1>0, <2>1, <2>2, SamePoint
  <1>8. ASSUME NEW n \in Member, NEW s \in Member, ArbiterHeartbeat(n, s) PROVE P
    <2>1. /\ oplog' = oplog /\ buffer' = buffer /\ n \in Arbiter
          /\ \E c : commitPoint' = [commitPoint EXCEPT ![n] = c]
      BY <1>8 DEF ArbiterHeartbeat, fetchVars, logVars
    <2> QED
      BY <1>0, <2>1, SamePoint
  <1> QED
    BY <1>0, <1>1, <1>2, <1>3, <1>4, <1>5, <1>6, <1>7, <1>8, Actions, ProcessMoves, RollbackMoves, CrashMoves

LEMMA PointStep ==
    ASSUME CommitInv, BelowInv, Next, Careful, NEW n \in DataMember
    PROVE  PointBelow(n)'
  <1>1. CommitInv'
    BY CommitInvStep
  <1>2. PointMoves(n)
    BY <1>1, PointSteps
  <1>3. PointBelow(n) /\ (fetcher[n].stage = "Checked" => HeardBelow(n))
    BY DEF BelowInv, BelowAt, PointBelow
  <1> QED
    BY <1>1, <1>2, <1>3, PointGrows, PointShortens, PointForgotten, PointDeclared, PointAdvances DEF PointMoves

----------------------------------------------------------------------------
(* What a member is told of the commit point.                               *)

StillHeard(m) ==
    /\ fetcher'[m] = fetcher[m] /\ Fetched(m)' = Fetched(m)
    /\ producer'[m] = "Running" => producer[m] = "Running"
    /\ IsPrimary(role'[m]) => IsPrimary(role[m]) /\ term'[m] = term[m]
HeardWhileWriting(m) ==
    /\ Appends(m) /\ fetcher'[m] = fetcher[m] /\ producer'[m] = producer[m]
    /\ IsPrimary(role'[m]) /\ term'[m] = term[m]
HeardFrom(m, s) ==
    /\ fetcher'[m].committed = commitPoint[s] /\ Fetched(m)' = Fetched(m) /\ Begins(Fetched(m), oplog[s])
HeardMoves(m) ==
    fetcher'[m].stage = "Checked" =>
        \/ StillHeard(m) \/ HeardWhileWriting(m)
        \/ \E Q \in SUBSET Member : Elect(m, Q)
        \/ \E s \in DataMember : HeardFrom(m, s)

LEMMA HeardStays ==
    ASSUME CommitInv, CommitInv', Next, Careful, NEW m \in DataMember, StillHeard(m), HeardBelow(m)
    PROVE  HeardBelow(m)'
  <1> DEFINE o == fetcher[m].committed
             l == Fetched(m)
  <1>1. fetcher'[m].committed = o /\ Fetched(m)' = l
    BY DEF StillHeard
  <1>2. committed \in Oplog /\ committed' \in Oplog /\ Begins(committed, committed') /\ l \in Oplog
    BY CommittedKept, LogFactsHold DEF LogFacts, LogFact
  <1>3. ASSUME NEW i \in 1..Len(l), l[i] < o.term PROVE IsBelow(committed', l, o, i) \/ Own(m, i)'
    <2>1. CASE IsBelow(committed, l, o, i)
      <3>1. i <= Len(l)
        BY <1>2, OplogLength
      <3> HIDE DEF l, o
      <3> QED
        BY <1>2, <2>1, <3>1, IsBelowKept
    <2>2. CASE Own(m, i)
      BY <1>1, <2>2 DEF Own, StillHeard
    <2> QED
      BY <1>3, <2>1, <2>2 DEF HeardBelow
  <1> HIDE DEF l, o
  <1> QED
    BY <1>1, <1>3 DEF HeardBelow

\* What a primary writes while a response waits is the exception.
LEMMA HeardWrites ==
    ASSUME CommitInv, CommitInv', Next, Careful, NEW m \in DataMember,
           HeardWhileWriting(m), HeardBelow(m)
    PROVE  HeardBelow(m)'
  <1> DEFINE o == fetcher[m].committed
             l == Fetched(m)
             k == Fetched(m)'
  <1>0. Shape /\ m \in Member /\ oplog[m] \in Oplog /\ oplog'[m] \in Oplog
    <2>1. Shape /\ m \in Member /\ TypeInv'
      BY BoundTypes DEF CommitInv, OplogInv, Shape
    <2> QED
      BY <2>1, MemberShape, ComingNext
  <1>1. /\ fetcher'[m].committed = o /\ IsPrimary(role[m]) /\ producer[m] = "Stopped" /\ buffer[m] = <<>>
        /\ Len(oplog'[m]) = Len(oplog[m]) + 1 /\ Begins(oplog[m], oplog'[m])
        /\ oplog'[m][Len(oplog'[m])] = term[m] /\ buffer'[m] = <<>>
        /\ producer'[m] = "Stopped" /\ term'[m] = term[m]
    BY DEF HeardWhileWriting, Appends
  <1>2. l = oplog[m] /\ k = oplog'[m]
    BY <1>0, <1>1, ConcatEmpty DEF Fetched, Oplog
  <1>3. /\ l \in Oplog /\ k \in Oplog /\ Len(l) \in Nat /\ Len(k) = Len(l) + 1 /\ k[Len(k)] = term[m]
        /\ \A i \in 1..Len(l) : k[i] = l[i]
    BY <1>0, <1>1, <1>2, OplogLength DEF Begins
  <1>4. committed \in Oplog /\ committed' \in Oplog /\ Begins(committed, committed')
    BY CommittedKept
  <1>5. ASSUME NEW i \in 1..Len(k), k[i] = term[m] PROVE Own(m, i)'
    BY <1>1, <1>3, <1>5 DEF Own
  <1>6. ASSUME NEW i \in 1..Len(k), k[i] < o.term PROVE IsBelow(committed', k, o, i) \/ Own(m, i)'
    <2>1. CASE i = Len(k)
      BY <1>3, <1>5, <2>1
    <2>2. CASE i # Len(k)
      <3>1. i \in 1..Len(l) /\ k[i] = l[i] /\ i <= Len(k)
        BY <1>3, <2>2
      <3>2. CASE IsBelow(committed, l, o, i)
        <4> HIDE DEF l, o, k
        <4> QED
          BY <1>3, <1>4, <3>1, <3>2, IsBelowKept
      <3>3. CASE Own(m, i)
        <4>1. l[i] = term[m]
          BY <1>1, <3>3 DEF Own
        <4> QED
          BY <1>5, <3>1, <4>1
      <3> QED
        BY <1>6, <3>1, <3>2, <3>3 DEF HeardBelow
    <2> QED
      BY <2>1, <2>2
  <1>7. fetcher'[m].committed = o
    BY <1>1
  <1> HIDE DEF l, o
  <1> QED
    BY <1>6, <1>7 DEF HeardBelow

\* What the source has below its commit point, its follower has below it.
LEMMA HeardFetched ==
    ASSUME CommitInv, CommitInv', Next, Careful, NEW m \in DataMember, NEW s \in DataMember,
           HeardFrom(m, s), PointBelow(s)
    PROVE  HeardBelow(m)'
  <1>1. /\ committed \in Oplog /\ committed' \in Oplog /\ Begins(committed, committed')
        /\ LogFact(m) /\ LogFact(s)
    BY CommittedKept, LogFactsHold DEF LogFacts
  <1>2. Begins(Fetched(m), Fetched(s))
    BY <1>1, BeginsTransitive DEF LogFact, HeardFrom
  <1>3. Below(committed', Fetched(m), commitPoint[s])
    BY <1>1, <1>2, BelowKept DEF LogFact, PointBelow
  <1> QED
    BY <1>3 DEF HeardBelow, HeardFrom, Below

\* A primary has what is committed.
PrimaryFacts ==
    \A n \in DataMember : committed # <<>> /\ IsPrimary(role[n]) /\ term[n] >= Top(committed).term
        => Begins(committed, oplog[n])
LEMMA PrimaryFactsHold == CommitInv => PrimaryFacts
  BY PrimaryHasCommitted DEF PrimaryFacts

\* A response that a member brings into its term as primary has no exceptions.
LEMMA HeardElected ==
    ASSUME CommitInv, CommitInv', Next, Careful, NEW m \in DataMember,
           NEW Q \in SUBSET Member, Elect(m, Q), fetcher[m].stage = "Checked", HeardBelow(m)
    PROVE  HeardBelow(m)'
  <1>0. Shape /\ m \in Member
    BY BoundTypes DEF CommitInv, OplogInv, Shape
  <1> DEFINE o == fetcher[m].committed
             l == Fetched(m)
             e == Top(committed)
  <1>1. /\ oplog' = oplog /\ buffer' = buffer /\ fetcher' = fetcher /\ committed' = committed
        /\ role'[m] = "LeaderElect" /\ term'[m] = term[m] + 1 /\ term[m] + 1 \in Terms
    BY <1>0, ElectIs
  <1>2. Fetched(m)' = l
    BY <1>0, <1>1, SameFetched
  <1>3. LogFact(m) /\ committed \in Oplog /\ Len(committed) \in Nat /\ Len(committed) <= MaxOplog /\ Ascending(committed)
    BY LogFactsHold, CommittedAscends DEF LogFacts
  <1>4. o \in OpTime /\ o.term \in Int /\ PassedIn(committed, o)
    BY <1>0, MemberShape, ResponseIs, OrderOfOpTimes DEF CommitInv, PassedInv
  <1>5. ASSUME NEW i \in 1..Len(l), l[i] < o.term PROVE l[i] # l[Len(l)]
    <2>1. l[i] \in Terms /\ l[i] \in Int /\ l[Len(l)] \in Int /\ l[i] >= 0
      BY <1>3, OplogElement, BoundTypes DEF LogFact, Terms
    <2>2. o # Null
      BY <1>5, <2>1, NullType
    <2>3. committed # <<>>
      BY <1>3, <1>4, <2>2 DEF PassedIn, Has
    <2>4. /\ e \in OpTime /\ e.term = committed[Len(committed)] /\ Len(committed) >= 1 /\ e.term \in Int
          /\ e.term \in Terms
      <3>1. IsOplog(committed)
        BY DEF CommitInv, OplogInv
      <3> QED
        BY <2>3, <3>1, CommittedTop, EntryIs
    <2>5. o.term <= e.term
      <3>1. CASE Has(committed, o)
        BY <1>3, <2>4, <3>1 DEF Ascending, Has
      <3>2. CASE o.term < e.term
        BY <1>4, <2>4, <3>2
      <3> QED
        BY <1>4, <2>2, <3>1, <3>2 DEF PassedIn
    <2>6. e.term < term[m] + 1
      <3>1. OpTimeOK(e) /\ e # Null
        BY <2>3, <2>4, NullType, BoundTypes DEF CommitInv, CommittedInv, Terms
      <3>2. Elected(e.term)
        BY <3>1 DEF OpTimeOK
      <3> QED
        BY <1>0, <2>4, <3>2, ElectedBelow
    <2>7. Begins(committed, oplog[m])
      <3>1. PrimaryFacts'
        BY PrimaryFactsHold, PTL
      <3>2. IsPrimary(role'[m]) /\ term'[m] >= e.term /\ committed' = committed
        <4>1. term[m] \in Int
          BY <1>0, TermIntegers
        <4> QED
          BY <1>1, <2>4, <2>6, <4>1 DEF IsPrimary
      <3> QED
        BY <1>1, <2>3, <3>1, <3>2 DEF PrimaryFacts
    <2>8. /\ Len(committed) \in 1..Len(l) /\ l[Len(committed)] = e.term /\ Len(l) \in 1..Len(l)
          /\ Ascending(l) /\ Len(committed) <= Len(l)
      <3>1. /\ Len(committed) <= Len(oplog[m]) /\ oplog[m][Len(committed)] = e.term
            /\ Begins(oplog[m], l) /\ Len(oplog[m]) \in 1..Len(l) /\ Len(l) \in Nat /\ Ascending(l)
        BY <1>3, <2>4, <2>7 DEF LogFact, Begins
      <3> QED
        BY <1>3, <2>4, <3>1 DEF Begins
    <2>9. e.term <= l[Len(l)]
      BY <2>8 DEF Ascending
    <2> QED
      BY <1>4, <1>5, <2>1, <2>4, <2>5, <2>9
  <1>6. ASSUME NEW i \in 1..Len(l), l[i] < o.term PROVE IsBelow(committed, l, o, i)
    BY <1>5, <1>6 DEF HeardBelow, Own
  <1>7. fetcher'[m].committed = o
    BY <1>1
  <1> HIDE DEF l, o
  <1> QED
    BY <1>1, <1>2, <1>6, <1>7 DEF HeardBelow

LEMMA HeardSame ==
    ASSUME Shape, NEW m \in DataMember, oplog'[m] = oplog[m], buffer'[m] = buffer[m],
           fetcher'[m] = fetcher[m] \/ fetcher'[m].stage # "Checked",
           fetcher'[m] = fetcher[m] => (producer'[m] = "Running" => producer[m] = "Running"),
           IsPrimary(role'[m]) => IsPrimary(role[m]) /\ term'[m] = term[m]
    PROVE  HeardMoves(m)
  <1>1. m \in Member
    BY BoundTypes
  <1>2. Fetched(m)' = Fetched(m)
    BY <1>1, SameFetched
  <1> QED
    BY <1>2 DEF HeardMoves, StillHeard

\* What is fetched begins the oplog of the source whose response was checked.
LEMMA FetchedBegins ==
    ASSUME Shape, AgreeInv, NEW n \in DataMember, NEW s \in DataMember, Has(oplog[s], Top(Fetched(n)))
    PROVE  Begins(Fetched(n), oplog[s])
  <1>0. /\ n \in Member /\ s \in Member /\ Fetched(n) \in Oplog /\ Len(Fetched(n)) <= MaxOplog
        /\ Len(Fetched(n)) \in 1..Len(Fetched(n)) /\ Len(Fetched(n)) \in Nat /\ oplog[s] \in Oplog /\ Len(oplog[s]) \in Nat
        /\ Begins(Fetched(n), Coming(n)) /\ Begins(oplog[s], Coming(s))
        /\ Len(Coming(n)) \in Nat /\ Len(Coming(s)) \in Nat
    <2>1. /\ n \in Member /\ s \in Member /\ Fetched(n) \in Oplog /\ Len(Fetched(n)) \in Nat /\ oplog[s] \in Oplog
          /\ Len(oplog[n]) \in 1..Len(Fetched(n))
      BY TopFetched
    <2>2. Len(Fetched(n)) \in 1..Len(Fetched(n))
      BY <2>1
    <2> QED
      BY <2>1, <2>2, ComingShape
  <1> DEFINE x == Len(Fetched(n))
  <1>1. Top(Fetched(n)).ts = x /\ Top(Fetched(n)).term = Fetched(n)[x]
    <2>1. Fetched(n) # <<>>
      BY <1>0
    <2> QED
      BY <1>0, <2>1, TopType
  <1>2. x \in 1..Len(oplog[s]) /\ oplog[s][x] = Fetched(n)[x]
    BY <1>1 DEF Has
  <1>3. x \in 1..Len(Coming(n)) /\ x \in x..Len(Coming(s)) /\ Coming(n)[x] = Coming(s)[x]
    BY <1>0, <1>2 DEF Begins
  <1>4. \A k \in 1..x : Coming(n)[k] = Coming(s)[k]
    BY <1>3 DEF AgreeInv
  <1>5. ASSUME NEW k \in 1..x PROVE oplog[s][k] = Fetched(n)[k]
    BY <1>0, <1>2, <1>4, <1>5 DEF Begins
  <1> QED
    BY <1>0, <1>2, <1>5 DEF Begins

LEMMA FetchHeard ==
    ASSUME Shape, AgreeInv, NEW n \in DataMember, NEW s \in DataMember, Find(n, s) \/ GetMore(n, s),
           NEW m \in DataMember
    PROVE  HeardMoves(m)
  <1>0. /\ n \in Member /\ s \in Member /\ m \in Member /\ <<>> \in Oplog /\ oplog[s] \in Oplog /\ visible[s] \in Nat
        /\ visible[s] <= Len(oplog[s]) /\ LastFetched(n) = Top(Fetched(n)) /\ Has(oplog[s], Top(oplog[s]))
        /\ fetcher \in [Member -> Response] /\ Len(oplog[s]) \in Nat /\ term[n] \in Terms
    BY BoundTypes, MemberShape, TopFetched, TypeParts DEF Oplog, LastFetched, Fetched, Shape
  <1>1. \E f \in Response : /\ Answer(n, s, f)
                            /\ f.stage = "Checked" => f.committed = commitPoint[s] /\ Has(oplog[s], Top(Fetched(n)))
    <2>1. CASE GetMore(n, s)
      BY <1>0, <2>1, CheckedType DEF GetMore
    <2>2. CASE Find(n, s)
      <3>1. PICK f \in Response, v \in Nat :
              /\ Answer(n, s, f) /\ v <= visible[s]
              /\ \/ f = Diverged(s)
                 \/ /\ f = Checked(n, s, After(Upto(oplog[s], v), LastFetched(n).ts))
                    /\ Has(Upto(oplog[s], v), LastFetched(n))
        BY <2>2, FindIs
      <3> DEFINE docs == After(Upto(oplog[s], v), LastFetched(n).ts)
      <3>2. f.stage = "Checked" => f = Checked(n, s, docs)
        BY <3>1 DEF Diverged
      <3> HIDE DEF docs
      <3>3. Checked(n, s, docs).stage = "Checked" => Checked(n, s, docs).committed = commitPoint[s]
        BY DEF Checked, Advanced
      <3>4. Has(Upto(oplog[s], v), LastFetched(n)) => Has(oplog[s], LastFetched(n))
        <4>0. v <= Len(oplog[s])
          BY <1>0, <3>1
        <4>1. Len(Upto(oplog[s], v)) = v /\ \A k \in 1..v : Upto(oplog[s], v)[k] = oplog[s][k]
          BY <1>0, <4>0, Part DEF Oplog
        <4> QED
          BY <1>0, <4>0, <4>1 DEF Has
      <3>5. Diverged(s).stage # "Checked"
        BY DEF Diverged
      <3> QED
        BY <1>0, <3>1, <3>2, <3>3, <3>4, <3>5
    <2> QED
      BY <2>1, <2>2
  <1>2. PICK f \in Response : /\ Answer(n, s, f)
                              /\ f.stage = "Checked" =>
                                    f.committed = commitPoint[s] /\ Has(oplog[s], Top(Fetched(n)))
    BY <1>1
  <1>3. /\ fetcher' = [fetcher EXCEPT ![n] = IF term[n] > term[s] THEN NoFetch ELSE f]
        /\ oplog' = oplog /\ buffer' = buffer /\ producer' = producer /\ UpdateTerm(s, term[n])
    BY <1>0, <1>2, AnswerIs
  <1>4. IsPrimary(role'[m]) => IsPrimary(role[m]) /\ term'[m] = term[m]
    BY <1>0, <1>3, UpdateTermKeeps
  <1>5. NoFetch.stage # "Checked"
    BY DEF NoFetch
  <1>6. CASE fetcher'[m] = fetcher[m] \/ fetcher'[m].stage # "Checked"
    BY <1>3, <1>4, <1>6, HeardSame
  <1>7. CASE m = n /\ fetcher'[m] = f /\ f.stage = "Checked"
    <2>1. Begins(Fetched(m), oplog[s])
      BY <1>2, <1>7, FetchedBegins
    <2>2. Fetched(m)' = Fetched(m)
      BY <1>0, <1>3, SameFetched
    <2>3. HeardFrom(m, s)
      BY <1>2, <1>7, <2>1, <2>2 DEF HeardFrom
    <2> QED
      BY <2>3 DEF HeardMoves
  <1> QED
    BY <1>0, <1>3, <1>5, <1>6, <1>7

LEMMA MyHeard ==
    ASSUME Shape, NEW n \in DataMember, MyStep(n), NEW m \in DataMember
    PROVE  HeardMoves(m)
  <1>0. n \in Member /\ m \in Member /\ oplog \in [Member -> Oplog]
    BY BoundTypes, TypeParts DEF Shape
  <1>1. /\ fetcher' = fetcher /\ producer' = producer /\ term' = term
        /\ \E l : oplog' = [oplog EXCEPT ![n] = l]
        /\ \A q \in Member \ {n} : role'[q] = role[q] /\ buffer'[q] = buffer[q]
        /\ role'[n] = role[n] \/ (role[n] = "LeaderElect" /\ role'[n] = "Master")
        /\ Fetched(n)' = Fetched(n) \/ Appends(n)
    BY DEF MyStep
  <1>2. IsPrimary(role'[m]) <=> IsPrimary(role[m])
    BY <1>0, <1>1 DEF IsPrimary
  <1>3. CASE m # n
    <2>1. oplog'[m] = oplog[m] /\ buffer'[m] = buffer[m]
      BY <1>0, <1>1, <1>3
    <2> QED
      BY <1>1, <1>2, <2>1, HeardSame
  <1>4. CASE m = n /\ Fetched(m)' = Fetched(m)
    BY <1>1, <1>2, <1>4 DEF HeardMoves, StillHeard
  <1>5. CASE m = n /\ Appends(m)
    BY <1>1, <1>2, <1>5 DEF HeardMoves, HeardWhileWriting, Appends
  <1> QED
    BY <1>1, <1>3, <1>4, <1>5

LEMMA HeardSteps ==
    ASSUME CommitInv, Next, NEW m \in DataMember
    PROVE  HeardMoves(m)
  <1>0. /\ Shape /\ LogInv /\ AgreeInv /\ m \in Member /\ fetcher \in [Member -> Response]
        /\ role \in [Member -> Roles] /\ term \in [Member -> Terms] /\ oplog \in [Member -> Oplog]
        /\ buffer \in [Member -> Oplog]
        /\ producer \in [Member -> Producers] /\ \A n \in DataMember : n \in Member
    BY BoundTypes, TypeParts DEF CommitInv, OplogInv, Shape, LogInv
  <1> DEFINE P == HeardMoves(m)
  <1>1. ASSUME NEW n \in DataMember, NEW Q \in SUBSET Member, Elect(n, Q) PROVE P
    <2>1. CASE m = n
      BY <1>1, <2>1 DEF HeardMoves
    <2>2. CASE m # n
      <3>1. /\ oplog' = oplog /\ buffer' = buffer /\ fetcher' = fetcher /\ producer' = producer
            /\ role'[m] = role[m] /\ (role[m] # "Follower" => term'[m] = term[m])
        BY <1>0, <1>1, <2>2, ElectIs
      <3>2. IsPrimary(role'[m]) => IsPrimary(role[m]) /\ term'[m] = term[m]
        BY <3>1 DEF IsPrimary
      <3> QED
        BY <1>0, <3>1, <3>2, HeardSame
    <2> QED
      BY <2>1, <2>2
  <1>2. ASSUME NEW n \in DataMember, EnterDrainMode(n) \/ StepDownSelf(n) PROVE P
    <2>1. /\ oplog' = oplog /\ buffer' = buffer /\ fetcher' = fetcher /\ term' = term
          /\ producer'[m] = producer[m] \/ producer'[m] = "Stopped"
          /\ role'[m] = role[m] \/ (IsPrimary(role[m]) /\ role'[m] = "SteppingDown")
      BY <1>0, <1>2 DEF EnterDrainMode, StepDownSelf, fetchVars, logVars, electionVars, IsPrimary
    <2> QED
      BY <1>0, <2>1, HeardSame
  <1>3. ASSUME NEW n \in DataMember, StepDownFinish(n) PROVE P
    <2>1. /\ oplog' = oplog /\ buffer' = buffer /\ fetcher' = fetcher
          /\ producer'[m] = producer[m] \/ producer'[m] = "Starting"
          /\ (role'[m] = role[m] /\ term'[m] = term[m]) \/ ~IsPrimary(role'[m])
      BY <1>0, <1>3 DEF StepDownFinish, fetchVars, logVars, IsPrimary
    <2> QED
      BY <1>0, <2>1, HeardSame
  <1>4. ASSUME NEW n \in DataMember, StartProducer(n) PROVE P
    <2>1. /\ oplog' = oplog /\ buffer' = buffer /\ role' = role /\ term' = term
          /\ m # n => fetcher'[m] = fetcher[m] /\ producer'[m] = producer[m]
          /\ fetcher'[n].stage # "Checked"
      BY <1>0, <1>4 DEF StartProducer, logVars, electionVars, NoFetch
    <2>2. CASE m = n
      BY <2>1, <2>2 DEF HeardMoves
    <2> QED
      BY <1>0, <2>1, <2>2, HeardSame
  <1>5. ASSUME NEW n \in DataMember, AdvanceCommitPoint(n) PROVE P
    <2>1. /\ role' = role /\ term' = term /\ producer' = producer
      BY <1>5 DEF AdvanceCommitPoint, electionVars
    <2>2. /\ oplog' = oplog /\ buffer' = buffer /\ fetcher'[n].stage # "Checked"
          /\ m # n => fetcher'[m] = fetcher[m]
      BY <1>0, <1>5, AdvanceCommitIs
    <2>3. CASE m = n
      BY <2>2, <2>3 DEF HeardMoves
    <2> QED
      BY <1>0, <2>1, <2>2, <2>3, HeardSame
  <1>6. ASSUME NEW n \in DataMember, ProcessBatch(n) PROVE P
    <2>1. /\ oplog' = oplog /\ producer' = producer /\ UpdateTerm(n, fetcher[n].term) /\ fetcher[n].stage = "Advanced"
          /\ m # n => fetcher'[m] = fetcher[m] /\ buffer'[m] = buffer[m]
          /\ fetcher'[n].stage # "Checked"
      BY <1>0, <1>6 DEF ProcessBatch, EnqueueDocuments, logVars, NoFetch, Waiting
    <2>2. IsPrimary(role'[m]) => IsPrimary(role[m]) /\ term'[m] = term[m]
      <3>1. fetcher[n].term \in Terms
        BY <1>0, <2>1, ResponseIs
      <3> QED
        BY <1>0, <2>1, <3>1, UpdateTermKeeps
    <2>3. CASE m = n
      BY <2>1, <2>3 DEF HeardMoves
    <2> QED
      BY <1>0, <2>1, <2>2, <2>3, HeardSame
  <1>7. ASSUME NEW n \in DataMember, Rollback(n) PROVE P
    <2>1. /\ buffer' = buffer /\ producer' = producer /\ term' = term
          /\ m # n => role'[m] = role[m] /\ fetcher'[m] = fetcher[m] /\ oplog'[m] = oplog[m]
      BY <1>0, <1>7, RollbackQuiet
    <2>2. fetcher'[n].stage # "Checked"
      <3>1. fetcher[n].stage = "Diverged" /\ (fetcher' = fetcher \/ fetcher' = [fetcher EXCEPT ![n] = NoFetch])
        BY <1>0, <1>7, RollbackIs
      <3> QED
        BY <1>0, <3>1 DEF NoFetch
    <2>3. CASE m = n
      BY <2>2, <2>3 DEF HeardMoves
    <2> QED
      BY <1>0, <2>1, <2>3, HeardSame
  <1>8. ASSUME NEW n \in Member, Crash(n) PROVE P
    <2>1. /\ fetcher'[n] = NoFetch
          /\ m # n => /\ role'[m] = role[m] /\ term'[m] = term[m] /\ oplog'[m] = oplog[m]
                      /\ producer'[m] = producer[m] /\ fetcher'[m] = fetcher[m] /\ buffer'[m] = buffer[m]
      BY <1>0, <1>8, CrashReports
    <2>2. CASE m = n
      BY <2>1, <2>2 DEF HeardMoves, NoFetch
    <2> QED
      BY <1>0, <2>1, <2>2, HeardSame
  <1>9. ASSUME NEW n \in DataMember, NEW q \in Member, NEW r \in Reports(q), ReceivePosition(n, q, r) PROVE P
    <2>1. oplog' = oplog /\ buffer' = buffer /\ fetcher' = fetcher /\ producer' = producer
      BY <1>0, <1>9, ReceiveQuiet
    <2>2. UpdateTerm(n, r.term) /\ r.term \in Terms
      BY <1>0, <1>9, ReceivePositionIs
    <2>3. IsPrimary(role'[m]) => IsPrimary(role[m]) /\ term'[m] = term[m]
      BY <1>0, <2>2, UpdateTermKeeps
    <2> QED
      BY <1>0, <2>1, <2>3, HeardSame
  <1>10. ASSUME NEW n \in Member, NEW q \in Member, LearnTerm(n, q) \/ ArbiterHeartbeat(n, q) PROVE P
    <2>1. oplog' = oplog /\ buffer' = buffer /\ fetcher' = fetcher /\ producer' = producer /\ UpdateTerm(n, term[q])
      BY <1>10 DEF LearnTerm, ArbiterHeartbeat, fetchVars, logVars
    <2>2. IsPrimary(role'[m]) => IsPrimary(role[m]) /\ term'[m] = term[m]
      BY <1>0, <2>1, UpdateTermKeeps
    <2> QED
      BY <1>0, <2>1, <2>2, HeardSame
  <1>11. ASSUME NEW n \in DataMember, SignalDrainComplete(n) \/ Write(n) \/ Journal(n) \/ ApplyBatch(n) PROVE P
    BY <1>0, <1>11, MySteps, MyHeard
  <1>12. ASSUME NEW n \in DataMember, NEW s \in DataMember, Find(n, s) \/ GetMore(n, s) PROVE P
    BY <1>0, <1>12, FetchHeard
  <1> QED
    BY <1>1, <1>2, <1>3, <1>4, <1>5, <1>6, <1>7, <1>8, <1>9, <1>10, <1>11, <1>12, Actions

LEMMA BelowInit ==
    ASSUME Init
    PROVE  BelowInv
  <1>1. CommitInv
    BY CommitInit
  <1> SUFFICES ASSUME NEW n \in DataMember PROVE BelowAt(n)
    BY DEF BelowInv
  <1>2. LogFact(n) /\ n \in Member
    BY <1>1, LogFactsHold, BoundTypes DEF LogFacts
  <1>3. commitPoint[n] = Null /\ fetcher[n] = NoFetch
    BY <1>2 DEF Init
  <1>4. \A i \in 1..Len(Fetched(n)) : Fetched(n)[i] \in Int /\ ~(Fetched(n)[i] < -1)
    <2>1. \A i \in 1..Len(Fetched(n)) : Fetched(n)[i] \in Terms
      BY <1>2, OplogElement DEF LogFact
    <2> QED
      BY <2>1, BoundTypes DEF Terms
  <1>5. -1 <= Top(oplog[n]).term
    <2>1. Fetched(n)[Len(oplog[n])] = Top(oplog[n]).term /\ Len(oplog[n]) \in 1..Len(Fetched(n))
      BY <1>2 DEF LogFact
    <2> QED
      BY <1>4, <2>1
  <1> QED
    BY <1>3, <1>4, <1>5, NullType DEF BelowAt, Below, NoFetch

LEMMA BelowStep ==
    ASSUME CommitInv, BelowInv, Next, Careful
    PROVE  BelowInv'
  <1>1. CommitInv'
    BY CommitInvStep
  <1> SUFFICES ASSUME NEW n \in DataMember PROVE BelowAt(n)'
    BY DEF BelowInv
  <1>2. PointBelow(n)'
    BY PointStep
  <1>3. ASSUME fetcher'[n].stage = "Checked" PROVE HeardBelow(n)'
    <2>1. \A m \in DataMember : PointBelow(m) /\ (fetcher[m].stage = "Checked" => HeardBelow(m))
      BY DEF BelowInv, BelowAt, PointBelow
    <2>2. CASE StillHeard(n)
      BY <1>1, <1>3, <2>1, <2>2, HeardStays DEF StillHeard
    <2>3. CASE HeardWhileWriting(n)
      BY <1>1, <1>3, <2>1, <2>3, HeardWrites DEF HeardWhileWriting
    <2>4. ASSUME NEW Q \in SUBSET Member, Elect(n, Q) PROVE HeardBelow(n)'
      <3>1. fetcher' = fetcher
        BY <2>4 DEF Elect, fetchVars
      <3> QED
        BY <1>1, <1>3, <2>1, <2>4, <3>1, HeardElected
    <2>5. ASSUME NEW s \in DataMember, HeardFrom(n, s) PROVE HeardBelow(n)'
      BY <1>1, <2>1, <2>5, HeardFetched
    <2> QED
      BY <1>3, <2>2, <2>3, <2>4, <2>5, HeardSteps DEF HeardMoves
  <1> QED
    BY <1>2, <1>3 DEF BelowAt, PointBelow

LEMMA BelowStutters ==
    ASSUME BelowInv, UNCHANGED vars
    PROVE  BelowInv'
  <1>1. /\ oplog' = oplog /\ buffer' = buffer /\ fetcher' = fetcher /\ producer' = producer /\ role' = role
        /\ term' = term /\ commitPoint' = commitPoint /\ committed' = committed
    BY DEF vars, electionVars, logVars, fetchVars, commitVars
  <1>2. ASSUME NEW n \in DataMember PROVE BelowAt(n)'
    <2>1. BelowAt(n) /\ Fetched(n)' = Fetched(n)
      BY <1>1 DEF BelowInv, Fetched
    <2>2. HeardBelow(n) => HeardBelow(n)'
      BY <1>1, <2>1 DEF HeardBelow, Own
    <2> QED
      BY <1>1, <2>1, <2>2 DEF BelowAt
  <1> QED
    BY <1>2 DEF BelowInv

(* Below a commit point everything is committed: an entry that a member has from a *)
(* term before that of its commit point, or of the one it is told of in a response *)
(* (_onSuccessfulBatch), is committed and has a smaller timestamp, except for what *)
(* the member wrote itself after it had checked the response.                      *)
THEOREM BelowInvariant ==
    Spec /\ [][Careful]_vars => [](SeenInv /\ BelowInv)
  <1>1. Init => SeenInv /\ BelowInv
    BY SeenInit, BelowInit
  <1>2. SeenInv /\ BelowInv /\ [Next]_vars /\ [Careful]_vars => (SeenInv /\ BelowInv)'
    BY SeenStep, SeenStutters, BelowStep, BelowStutters DEF SeenInv
  <1> QED
    BY <1>1, <1>2, PTL DEF Spec

LEMMA TimestampOrder ==
    ASSUME SeenInv, BelowInv
    PROVE  SnapshotTimestamp
  <1> SUFFICES ASSUME NEW n \in DataMember, snapshot[n] # Null PROVE snapshot[n].ts <= commitPoint[n].ts
    BY DEF SnapshotTimestamp
  <1>1. Shape /\ n \in Member /\ LogFact(n)
    BY BoundTypes, LogFactsHold DEF SeenInv, CommitInv, OplogInv, Shape, LogFacts
  <1>2. Has(oplog[n], snapshot[n]) /\ AtMost(snapshot[n], commitPoint[n])
    BY DEF SeenInv, ShownInv, ShownAt
  <1>3. /\ snapshot[n] \in OpTime /\ commitPoint[n] \in OpTime /\ snapshot[n].ts \in Int /\ commitPoint[n].ts \in Int
        /\ \/ snapshot[n].term < commitPoint[n].term
           \/ snapshot[n].term = commitPoint[n].term /\ snapshot[n].ts <= commitPoint[n].ts
    BY <1>1, <1>2, MemberShape, OrderOfOpTimes
  <1>4. snapshot[n].ts \in 1..Len(Fetched(n)) /\ Fetched(n)[snapshot[n].ts] = snapshot[n].term
    BY <1>1, <1>2 DEF LogFact, Has, Begins
  <1>5. CASE snapshot[n].term < commitPoint[n].term
    <2>1. IsBelow(committed, Fetched(n), commitPoint[n], snapshot[n].ts)
      BY <1>4, <1>5 DEF BelowInv, BelowAt, Below
    <2> QED
      BY <1>3, <2>1 DEF IsBelow
  <1> QED
    BY <1>3, <1>5

(* The invariant() of _getStableOpTime_inlock and of                               *)
(* _updateCommittedSnapshot_inlock, that the snapshot's timestamp is not beyond    *)
(* the commit point's, holds although a late response may put a commit point on    *)
(* another branch than the one that is committed.                                  *)
THEOREM SnapshotTimestamps ==
    Spec /\ [][Careful]_vars => []SnapshotTimestamp
  <1>1. SeenInv /\ BelowInv => SnapshotTimestamp
    BY TimestampOrder
  <1> QED
    BY <1>1, BelowInvariant, PTL

----------------------------------------------------------------------------
(* Where wrong commit points come from.                                     *)

CommittedGrown ==
    \A o \in OpTime : IsCommitted(o) => IsCommitted(o)'

LEMMA CommittedIsKept ==
    ASSUME CommitInv, Next, Careful
    PROVE  CommittedGrown
  <1> SUFFICES ASSUME NEW o \in OpTime, IsCommitted(o) PROVE IsCommitted(o)'
    BY DEF CommittedGrown
  <1>1. committed \in Oplog /\ committed' \in Oplog /\ Begins(committed, committed')
    BY CommittedKept
  <1> QED
    BY <1>1, HasKept DEF IsCommitted

LateResponse(n) == fetcher[n].stage = "Checked" /\ fetcher'[n] # fetcher[n] /\ producer[n] # "Running"

\* A response that is processed in time tells the truth.
LEMMA AdvanceInTime ==
    ASSUME CommitInv, BelowInv, CommitPointCommitted, NEW n \in DataMember, AdvanceCommitPoint(n), ~LateResponse(n),
           NEW m \in Member
    PROVE  IsCommitted(commitPoint'[m])
  <1>0. Shape /\ n \in Member /\ LogFact(n)
    BY BoundTypes, LogFactsHold DEF CommitInv, OplogInv, Shape, LogFacts
  <1> DEFINE o == fetcher[n].committed
             top == Top(oplog[n])
  <1>1. /\ fetcher[n].stage = "Checked" /\ fetcher'[n].stage # "Checked" /\ o \in OpTime
        /\ m # n => commitPoint'[m] = commitPoint[m]
        /\ commitPoint'[n] # commitPoint[n] =>
              commitPoint'[n] = o \/ (commitPoint'[n] = top /\ top.term < o.term)
    BY <1>0, AdvanceCommitIs
  <1>2. IsCommitted(commitPoint[m]) /\ IsCommitted(commitPoint[n]) /\ IsCommitted(o)
    BY <1>0, <1>1 DEF CommitPointCommitted
  <1>3. producer[n] = "Running"
    BY <1>1 DEF LateResponse
  <1>4. ASSUME top.term < o.term PROVE IsCommitted(top)
    <2>1. /\ Len(oplog[n]) \in 1..Len(Fetched(n)) /\ Fetched(n)[Len(oplog[n])] = top.term
          /\ top.ts = Len(oplog[n]) /\ Len(oplog[n]) >= 1 /\ Len(oplog[n]) \in Nat
      BY <1>0 DEF LogFact
    <2>2. IsBelow(committed, Fetched(n), o, Len(oplog[n])) \/ Own(n, Len(oplog[n]))
      BY <1>1, <1>4, <2>1 DEF BelowInv, BelowAt, HeardBelow
    <2>3. Len(oplog[n]) <= Len(committed) /\ committed[Len(oplog[n])] = top.term
      BY <1>3, <2>1, <2>2 DEF IsBelow, Own
    <2>4. Len(committed) \in Nat
      BY OplogLength DEF CommitInv, OplogInv, IsOplog, Oplog, Terms
    <2> QED
      BY <2>1, <2>3, <2>4 DEF IsCommitted, Has
  <1> QED
    BY <1>1, <1>2, <1>4

LEMMA ArbiterPoint ==
    ASSUME CommitInv, CommitInv', Next, NEW m \in Member, m \in Arbiter
    PROVE  commitPoint'[m] = Null \/ \E s \in Member : commitPoint'[m] = commitPoint[s]
  <1>0. /\ Shape /\ LogInv /\ DrainInv' /\ commitPoint \in [Member -> OpTime] /\ \A n \in DataMember : n # m
    BY BoundTypes, TypeParts DEF CommitInv, OplogInv, Shape, LogInv, DataMember
  <1> DEFINE P == commitPoint'[m] = Null \/ \E s \in Member : commitPoint'[m] = commitPoint[s]
  <1>1. CASE commitPoint'[m] = commitPoint[m]
    BY <1>1
  <1>2. ASSUME NEW n \in DataMember, NEW Q \in SUBSET Member, Elect(n, Q) PROVE P
    BY <1>0, <1>1, <1>2, ElectIs
  <1>3. ASSUME NEW n \in DataMember,
               EnterDrainMode(n) \/ StepDownSelf(n) \/ StepDownFinish(n) \/ StartProducer(n) \/ ProcessBatch(n)
        PROVE  P
    BY <1>1, <1>3 DEF EnterDrainMode, StepDownSelf, StepDownFinish, StartProducer, ProcessBatch, commitVars
  <1>4. ASSUME NEW n \in DataMember, NEW s \in DataMember, Find(n, s) \/ GetMore(n, s) PROVE P
    BY <1>1, <1>4 DEF Find, GetMore, Answer, commitVars
  <1>5. ASSUME NEW n \in Member, NEW s \in Member, LearnTerm(n, s) PROVE P
    BY <1>1, <1>5 DEF LearnTerm, commitVars
  <1>6. ASSUME NEW n \in DataMember, MayDeclare(n) PROVE P
    BY <1>0, <1>1, <1>6 DEF MayDeclare
  <1>7. ASSUME NEW n \in DataMember, SignalDrainComplete(n) \/ Write(n) \/ Journal(n) \/ ApplyBatch(n) PROVE P
    BY <1>0, <1>6, <1>7, MySteps, MyDeclares
  <1>8. ASSUME NEW n \in DataMember, NEW q \in Member, NEW r \in Reports(q), ReceivePosition(n, q, r) PROVE P
    BY <1>0, <1>6, <1>8, ReceiveDeclares
  <1>9. ASSUME NEW n \in DataMember, AdvanceCommitPoint(n) PROVE P
    BY <1>0, <1>1, <1>9, AdvanceCommitIs
  <1>10. ASSUME NEW n \in DataMember, Rollback(n) PROVE P
    BY <1>0, <1>1, <1>10, RollbackIs
  <1>11. ASSUME NEW n \in Member, Crash(n) PROVE P
    <2>1. commitPoint' = [commitPoint EXCEPT ![n] = Null]
      BY <1>0, <1>11, CrashIs
    <2> QED
      BY <1>0, <2>1
  <1>12. ASSUME NEW n \in Member, NEW s \in Member, ArbiterHeartbeat(n, s) PROVE P
    <2> DEFINE c == AdvanceLastCommittedOpTime(n, role[n], <<>>, commitPoint[s])
    <2>1. commitPoint' = [commitPoint EXCEPT ![n] = c] /\ n \in Arbiter
      BY <1>12 DEF ArbiterHeartbeat
    <2>2. c = commitPoint[n] \/ c = commitPoint[s]
      BY <2>1 DEF AdvanceLastCommittedOpTime
    <2> HIDE DEF c
    <2> QED
      BY <1>0, <2>1, <2>2
  <1> QED
    BY <1>2, <1>3, <1>4, <1>5, <1>7, <1>8, <1>9, <1>10, <1>11, <1>12, Actions

\* The other ways to a commit point.
LEMMA PointsStay ==
    ASSUME CommitInv, BelowInv, CommitPointCommitted, Next, Careful, \A n \in Member : ~LateResponse(n),
           NEW m \in Member
    PROVE  IsCommitted(commitPoint[m])'
  <1>0. /\ Shape /\ CommittedGrown /\ CommitInv' /\ m \in Member
        /\ commitPoint[m] \in OpTime /\ commitPoint'[m] \in OpTime
    <2>1. Shape /\ CommitInv' /\ TypeInv'
      BY CommitInvStep DEF CommitInv, OplogInv, Shape
    <2>2. commitPoint'[m] \in OpTime
      BY <2>1 DEF TypeInv, OpTimeType
    <2> QED
      BY <2>1, <2>2, MemberShape, CommittedIsKept
  <1>1. IsCommitted(commitPoint[m])
    BY DEF CommitPointCommitted
  <1>2. CASE IsCommitted(commitPoint'[m])
    BY <1>0, <1>2 DEF CommittedGrown
  <1>3. CASE m \in DataMember
    <2>1. PointMoves(m)
      BY <1>0, <1>3, PointSteps
    <2>2. CASE commitPoint'[m] \in {commitPoint[m], Null}
      BY <1>0, <1>1, <1>2, <2>2 DEF IsCommitted
    <2>3. CASE \E c \in Entries : Declares(m, c)
      <3>1. PICK c \in Entries : Declares(m, c)
        BY <2>3
      <3>2. Has(committed', c) /\ commitPoint'[m] = c
        BY <1>0, <1>3, <3>1, PointDeclared DEF Declares
      <3> QED
        BY <3>2 DEF IsCommitted
    <2>4. CASE AdvanceCommitPoint(m)
      BY <1>0, <1>2, <1>3, <2>4, AdvanceInTime
    <2> QED
      BY <2>1, <2>2, <2>3, <2>4 DEF PointMoves
  <1>4. CASE m \in Arbiter
    <2>1. commitPoint'[m] = Null \/ \E s \in Member : commitPoint'[m] = commitPoint[s]
      BY <1>0, <1>4, ArbiterPoint
    <2> QED
      BY <1>2, <2>1 DEF CommitPointCommitted, IsCommitted
  <1> QED
    BY <1>3, <1>4 DEF DataMember

LEMMA ResponsesStay ==
    ASSUME CommitInv, CommitPointCommitted, Next, Careful,
           NEW m \in Member, fetcher'[m].stage = "Checked"
    PROVE  IsCommitted(fetcher[m].committed)'
  <1>0. Shape /\ CommittedGrown /\ PassesOn
    BY CommitInvStep, CommittedIsKept, PassSteps DEF CommitInv, OplogInv, Shape
  <1>1. CASE fetcher'[m] = fetcher[m]
    <2>1. fetcher[m].committed \in OpTime /\ IsCommitted(fetcher[m].committed)
      BY <1>0, <1>1, MemberShape, ResponseIs DEF CommitPointCommitted
    <2> QED
      BY <1>0, <1>1, <2>1 DEF CommittedGrown
  <1>2. ASSUME NEW s \in Member, fetcher'[m].committed = commitPoint[s] PROVE IsCommitted(fetcher[m].committed)'
    <2>1. commitPoint[s] \in OpTime /\ IsCommitted(commitPoint[s])
      BY <1>0, MemberShape DEF CommitPointCommitted
    <2> QED
      BY <1>0, <1>2, <2>1 DEF CommittedGrown, IsCommitted
  <1> QED
    BY <1>0, <1>1, <1>2 DEF PassesOn, FetcherFrom

LEMMA MisledLate ==
    ASSUME SeenInv, BelowInv, Next, Careful, CommitPointCommitted, ~CommitPointCommitted'
    PROVE  \E n \in Member : LateResponse(n)
  <1> SUFFICES ASSUME \A n \in Member : ~LateResponse(n) PROVE CommitPointCommitted'
    OBVIOUS
  <1>1. CommitInv
    BY DEF SeenInv
  <1>2. \A m \in Member : IsCommitted(commitPoint[m])'
    BY <1>1, PointsStay
  <1>3. \A m \in Member : fetcher'[m].stage = "Checked" => IsCommitted(fetcher[m].committed)'
    BY <1>1, ResponsesStay
  <1> QED
    BY <1>2, <1>3 DEF CommitPointCommitted

(* Commit points go wrong in one way only: a member that has stopped its producer   *)
(* still processes a response (processMetadata, after the end of catchup) and takes *)
(* its own last entry for committed.  Everything else, elections, rollbacks, late   *)
(* reports and the heartbeats of arbiters included, keeps right ones right.         *)
THEOREM MisledOnlyByLateResponses ==
    Spec /\ [][Careful]_vars => OnlyLateResponsesMislead
  <1>1. SeenInv /\ BelowInv /\ [Next]_vars /\ [Careful]_vars =>
          [CommitPointCommitted /\ ~ CommitPointCommitted' =>
             \E n \in Member : /\ fetcher[n].stage = "Checked" /\ fetcher'[n] # fetcher[n]
                               /\ producer[n] # "Running"]_vars
    BY MisledLate DEF LateResponse
  <1> QED
    BY <1>1, BelowInvariant, PTL DEF Spec, OnlyLateResponsesMislead

----------------------------------------------------------------------------
(* What is committed stays where it is.                                     *)

\* What an oplog that goes on had, it has.
LEMMA PrefixGrows ==
    ASSUME Shape, IsOplog(committed), NEW m \in DataMember, oplog'[m] \in Oplog, Begins(oplog[m], oplog'[m]),
           IsPrefixOf(committed, oplog[m])
    PROVE  IsPrefixOf(committed, oplog'[m])
  <1>1. m \in Member /\ oplog[m] \in Oplog /\ committed \in Oplog
    BY BoundTypes, MemberShape DEF IsOplog, Oplog, Terms
  <1>2. Begins(committed, oplog[m])
    BY <1>1, PrefixIs
  <1>3. Begins(committed, oplog'[m])
    BY <1>1, <1>2, BeginsTransitive
  <1> QED
    BY <1>1, <1>3, PrefixIs

\* A rollback cuts behind what is committed: the source has it as well.
LEMMA RollbackLeavesCommitted ==
    ASSUME CommitInv, NEW n \in DataMember, Rollback(n), NEW m \in DataMember, IsPrefixOf(committed, oplog[m])
    PROVE  IsPrefixOf(committed, oplog'[m])
  <1>0. /\ OplogInv /\ Shape /\ AgreeInv /\ IsOplog(committed) /\ SafeInv /\ n \in Member /\ m \in Member
        /\ oplog \in [Member -> Oplog] /\ oplog[m] \in Oplog /\ Len(oplog[m]) \in Nat
    BY BoundTypes, MemberShape, ComingShape, TypeParts DEF CommitInv, OplogInv, Shape, LogInv
  <1>1. oplog'[m] \in Oplog /\ Begins(oplog'[m], oplog[m]) /\ (m # n => oplog'[m] = oplog[m])
    <2>1. CASE oplog' = oplog
      BY <1>0, <2>1, BeginsItself
    <2>2. CASE \E i \in 1..Len(oplog[n]) : /\ Upto(oplog[n], i) \in Oplog /\ Begins(Upto(oplog[n], i), oplog[n])
                                           /\ oplog' = [oplog EXCEPT ![n] = Upto(oplog[n], i)]
      BY <1>0, <2>2, BeginsItself
    <2> QED
      BY <1>0, <2>1, <2>2, RollbackIs
  <1>2. committed \in Oplog /\ Len(committed) \in Nat /\ Begins(committed, oplog[m])
    <2>1. committed \in Oplog
      BY <1>0 DEF IsOplog, Oplog, Terms
    <2> QED
      BY <1>0, <2>1, OplogLength, PrefixIs
  <1>3. CASE m # n
    BY <1>1, <1>3
  <1>4. CASE m = n /\ committed = <<>>
    <2>1. Begins(committed, oplog'[m])
      BY <1>1, <1>4, OplogLength DEF Begins
    <2> QED
      BY <1>1, <1>2, <2>1, PrefixIs
  <1>5. CASE m = n /\ committed # <<>>
    <2> DEFINE e == Top(committed)
    <2>1. /\ e \in Entries /\ e.ts = Len(committed) /\ e.term = committed[Len(committed)] /\ Len(committed) >= 1
      BY <1>0, <1>5, CommittedTop
    <2>2. InSource(e)
      BY <1>0, <1>5, <2>1 DEF SafeInv, Protected
    <2>3. Len(committed) \in 1..Len(oplog[n]) /\ oplog[n][Len(committed)] = committed[Len(committed)]
      BY <1>0, <1>2, <1>5, <2>1 DEF Begins
    <2>4. Beyond(oplog[n], e)
      BY <2>1, <2>3 DEF Beyond
    <2> HIDE DEF e
    <2>5. Beyond(oplog'[n], e)
      BY <1>0, <2>1, <2>2, <2>4, RollbackKeeps
    <2>6. Len(committed) <= Len(oplog'[n])
      BY <1>1, <1>2, <1>5, <2>1, <2>5, OplogLength DEF Beyond
    <2>7. Begins(committed, oplog'[n])
      BY <1>1, <1>2, <1>5, <2>6, OplogLength DEF Begins
    <2> QED
      BY <1>1, <1>2, <1>5, <2>7, PrefixIs
  <1> QED
    BY <1>3, <1>4, <1>5

LEMMA StepKeepsCommitted ==
    ASSUME CommitInv, Next, crashes' = crashes, NEW m \in DataMember, IsPrefixOf(committed, oplog[m])
    PROVE  IsPrefixOf(committed, oplog'[m])
  <1>0. Shape /\ LogInv /\ IsOplog(committed) /\ m \in Member /\ oplog \in [Member -> Oplog] /\ oplog[m] \in Oplog
    BY BoundTypes, MemberShape, TypeParts DEF CommitInv, OplogInv, Shape, LogInv
  <1>1. CASE oplog' = oplog
    BY <1>1
  <1>2. ASSUME NEW n \in DataMember, MyStep(n) PROVE IsPrefixOf(committed, oplog'[m])
    <2>1. PICK l \in Oplog : Begins(oplog[n], l) /\ oplog' = [oplog EXCEPT ![n] = l]
      BY <1>2 DEF MyStep
    <2>2. oplog'[m] \in Oplog /\ Begins(oplog[m], oplog'[m])
      <3>1. CASE m = n
        BY <1>0, <2>1, <3>1
      <3>2. CASE m # n
        BY <1>0, <2>1, <3>2, BeginsItself
      <3> QED
        BY <3>1, <3>2
    <2> QED
      BY <1>0, <2>2, PrefixGrows
  <1>3. ASSUME NEW n \in DataMember, NEW Q \in SUBSET Member, Elect(n, Q) PROVE oplog' = oplog
    BY <1>0, <1>3, ElectIs
  <1>4. ASSUME NEW n \in DataMember, NEW q \in Member, NEW r \in Reports(q), ReceivePosition(n, q, r)
        PROVE  oplog' = oplog
    BY <1>0, <1>4, ReceiveQuiet
  <1>5. ASSUME NEW n \in Member, Crash(n) PROVE FALSE
    <2>1. crashes \in Int /\ crashes' = crashes + 1
      BY <1>0, <1>5, TypeParts DEF Crash, Shape
    <2> QED
      BY <2>1
  <1> QED
    BY <1>0, <1>1, <1>2, <1>3, <1>4, <1>5, CommitSteps, RollbackLeavesCommitted DEF Quiet

(* A member that has everything that is committed loses nothing of it in a rollback *)
(* (RollbackImpl::_findCommonPoint, _truncateOplog), whichever source it diverged   *)
(* from, and by nothing else but a crash.                                           *)
THEOREM RollbacksKeepCommitted ==
    Spec /\ [][Careful]_vars => RollbackKeepsCommitted
  <1>1. CommitInv /\ [Next]_vars =>
          [\A n \in DataMember :
             IsPrefixOf(committed, oplog[n]) /\ ~ IsPrefixOf(committed, oplog'[n]) => crashes' # crashes]_vars
    BY StepKeepsCommitted
  <1> QED
    BY <1>1, CommitInvariant, PTL DEF Spec, RollbackKeepsCommitted

\* What counts of an oplog that reaches beyond what is committed has all of it.
LEMMA CountedHasCommitted ==
    ASSUME CommitInv, committed # <<>>, NEW m \in DataMember,
           CountedBeyond(oplog[m], durable[m], Top(committed))
    PROVE  IsPrefixOf(committed, Upto(oplog[m], Counts(oplog[m], durable[m]).ts))
  <1>0. /\ OplogInv /\ CommittedInv /\ Shape /\ IsOplog(committed) /\ m \in Member
        /\ oplog[m] \in Oplog /\ Len(oplog[m]) \in Nat /\ durable[m] \in Nat /\ durable[m] <= Len(oplog[m])
    BY BoundTypes, MemberShape, ComingShape DEF CommitInv, OplogInv, Shape
  <1>1. committed \in Oplog /\ Len(committed) \in Nat /\ Top(committed).ts = Len(committed) /\ Len(committed) >= 1
    BY <1>0, CommittedTop
  <1> DEFINE d == CountedLength(oplog[m], durable[m])
  <1>2. d \in Nat /\ d <= Len(oplog[m]) /\ Counts(oplog[m], durable[m]).ts = d
    BY <1>0 DEF CountedLength, Counts, Top, OpTimeAt, Null
  <1>3. PICK j \in 1..d : Top(committed).ts <= j /\ oplog[m][j] = Top(committed).term
    BY DEF CountedBeyond
  <1> HIDE DEF d
  <1>4. Beyond(oplog[m], Top(committed)) /\ Len(committed) <= d
    BY <1>0, <1>1, <1>2, <1>3 DEF Beyond
  <1>5. Begins(committed, oplog[m])
    BY <1>0, <1>4, BeyondHasCommitted
  <1>6. /\ Upto(oplog[m], d) \in Oplog /\ Len(Upto(oplog[m], d)) = d
        /\ \A k \in 1..d : Upto(oplog[m], d)[k] = oplog[m][k]
    BY <1>0, <1>2, Part DEF Oplog
  <1>7. Begins(committed, Upto(oplog[m], d))
    BY <1>1, <1>2, <1>4, <1>5, <1>6 DEF Begins
  <1> QED
    BY <1>1, <1>2, <1>6, <1>7, PrefixIs

LEMMA OnMajority == CommitInv => CommittedOnMajority
  <1> SUFFICES ASSUME CommitInv, committed # <<>> PROVE CommittedOnMajority
    BY DEF CommittedOnMajority
  <1> DEFINE S == {m \in DataMember : CountedBeyond(oplog[m], durable[m], Top(committed))}
             T == {m \in DataMember : IsPrefixOf(committed, Upto(oplog[m], Counts(oplog[m], durable[m]).ts))}
  <1>1. S \subseteq T
    BY CountedHasCommitted
  <1>2. IsFiniteSet(T)
    <2>1. T \subseteq DataMember
      OBVIOUS
    <2> QED
      BY <2>1, BoundTypes, FS_Subset
  <1>3. Cardinality(S) <= Cardinality(T) /\ Cardinality(S) \in Nat /\ Cardinality(T) \in Nat
    <2>1. IsFiniteSet(S)
      BY <1>1, <1>2, FS_Subset
    <2> QED
      BY <1>1, <1>2, <2>1, FS_Subset, FS_CardinalityType
  <1>4. Cardinality(S) >= WriteMajority
    BY DEF CommitInv, CommittedInv
  <1>5. WriteMajority \in Int
    BY MajorityTypes
  <1> QED
    BY <1>3, <1>4, <1>5 DEF CommittedOnMajority

(* What getLastCommittedOpTime promises: "a majority of the voting nodes of the     *)
(* config are known to have the operation in their oplogs", in the journaled part   *)
(* if durable optimes count, at all times and not only when they were counted.      *)
THEOREM CommittedStaysOnMajority ==
    Spec /\ [][Careful]_vars => []CommittedOnMajority
  <1> QED
    BY OnMajority, CommitInvariant, PTL
=============================================================================
