------------------------ MODULE CommitPointInvariant ------------------------
(****************************************************************************)
(* What holds of the oplogs whatever is lost and whoever votes: the types,  *)
(* one primary for each term, and that two members that have entries of one *)
(* term agree up to the earlier of the two.                                 *)
(****************************************************************************)
EXTENDS CommitPoint, FiniteSetTheorems, SequenceTheorems, WellFoundedInduction, TLAPS

----------------------------------------------------------------------------
(* The invariant.                                                           *)

Terms == 0..MaxTerm
Oplog == Seq(Terms)

Response ==
    [stage : {"None", "Waiting"}] \union [stage : {"Diverged"}, source : DataMember]
    \union [stage : {"Advanced"}, docs : Oplog, term : Terms]
    \union [stage : {"Checked"}, docs : Oplog, term : Terms, committed : OpTime]

\* What n has fetched, and what it will have when the response it works on is
\* taken, which happens only while the producer is running.
Fetched(n) == oplog[n] \o buffer[n]
InFlight(n) == IF InCallback(n) /\ producer[n] = "Running" THEN fetcher[n].docs ELSE <<>>
Coming(n) == Fetched(n) \o InFlight(n)

ControlType ==
    /\ role \in [Member -> {"Follower", "LeaderElect", "Master", "SteppingDown", "Aborted"}]
    /\ term \in [Member -> Terms] /\ pendingTerm \in [Member -> Terms]
    /\ lastVote \in [Member -> Terms]
    /\ producer \in [Member -> {"Starting", "Running", "Stopped"}]
LogType ==
    /\ oplog \in [Member -> Oplog] /\ buffer \in [Member -> Oplog]
    /\ durable \in [Member -> Nat] /\ visible \in [Member -> Nat]
    /\ \A n \in Member : durable[n] <= visible[n] /\ visible[n] <= Len(oplog[n])
FetchType == fetcher \in [Member -> Response]
OpTimeType ==
    /\ position \in [Member -> [Member -> OpTime]] /\ reported \in [Member -> SUBSET OpTime]
    /\ commitPoint \in [Member -> OpTime] /\ snapshot \in [Member -> OpTime]
    /\ candidates \in [Member -> SUBSET OpTime]
TypeInv == ControlType /\ LogType /\ FetchType /\ OpTimeType

\* Every oplog begins with the entry that initiated the set and has room for
\* what is under way; arbiters have none.
BeginInv ==
    /\ \A n \in DataMember : durable[n] >= 1 /\ oplog[n][1] = 0
    /\ \A n \in Member : Len(Coming(n)) <= MaxOplog
    /\ \A n \in Arbiter : /\ oplog[n] = <<>> /\ buffer[n] = <<>> /\ durable[n] = 0
                          /\ role[n] = "Follower" /\ fetcher[n] = NoFetch

\* A majority has voted in term t or later.
Elected(t) == Cardinality({v \in Member : lastVote[v] >= t}) >= VoteMajority

ElectedInv ==
    /\ \A p \in DataMember : IsPrimary(role[p]) => Elected(term[p])
    /\ \A n \in DataMember : \A i \in 1..Len(Coming(n)) : Elected(Coming(n)[i])

PrimaryInv ==
    \A p, q \in DataMember :
        IsPrimary(role[p]) /\ IsPrimary(role[q]) /\ term[p] = term[q] => p = q

\* The primary of a term has every entry of it that there is.
OwnInv ==
    \A p, n \in DataMember : \A i \in 1..Len(Coming(n)) :
        IsPrimary(role[p]) /\ Coming(n)[i] = term[p] =>
            i <= Len(oplog[p]) /\ oplog[p][i] = term[p]

\* A primary writes when it has drained, and from then on nothing else gets
\* into its oplog.
DrainInv ==
    \A p \in DataMember : IsPrimary(role[p]) =>
        /\ role[p] = "Master" => producer[p] = "Stopped" /\ buffer[p] = <<>>
        /\ \A i \in 1..Len(oplog[p]) : oplog[p][i] = term[p] =>
              /\ role[p] # "LeaderElect" /\ producer[p] = "Stopped" /\ buffer[p] = <<>>
              /\ \A j \in i..Len(oplog[p]) : oplog[p][j] = term[p]

\* Two members that have entries of one term agree up to the earlier one.
AgreeInv ==
    \A n, m \in DataMember : \A i \in 1..Len(Coming(n)) : \A j \in i..Len(Coming(m)) :
        Coming(n)[i] = Coming(m)[j] => \A k \in 1..i : Coming(n)[k] = Coming(m)[k]

\* An optime that somebody has heard of is an entry of the primary of its term,
\* if there still is one.
OpTimeOK(o) ==
    o # Null =>
        /\ o.term \in Terms /\ o.ts \in 1..MaxOplog /\ Elected(o.term)
        /\ \A p \in DataMember : IsPrimary(role[p]) /\ term[p] = o.term => Has(oplog[p], o)
HeardInv ==
    \A n \in Member :
        /\ OpTimeOK(commitPoint[n]) /\ \A o \in reported[n] : OpTimeOK(o)
        /\ \A m \in Member : OpTimeOK(position[n][m])
        /\ fetcher[n].stage = "Checked" => OpTimeOK(fetcher[n].committed)

LogInv == ElectedInv /\ PrimaryInv /\ OwnInv /\ DrainInv /\ AgreeInv /\ HeardInv

----------------------------------------------------------------------------
(* Sequences and optimes.                                                   *)

\* t begins with s.
Begins(s, t) == Len(s) <= Len(t) /\ \A k \in 1..Len(s) : t[k] = s[k]

LEMMA BoundTypes ==
    /\ MaxTerm \in Nat /\ MaxOplog \in Nat /\ MaxOplog >= 1
    /\ ShouldJournal \in BOOLEAN /\ JournalLags \in BOOLEAN
    /\ DataMember \subseteq Member /\ Arbiter \subseteq Member
    /\ IsFiniteSet(Member) /\ IsFiniteSet(DataMember) /\ DataMember # {}
  <1>1. DataMember \in SUBSET Member
    BY DEF DataMember
  <1> QED
    BY <1>1, FS_Subset, MemberAssumption, BoundAssumption

LEMMA Concat ==
    ASSUME NEW S, NEW s \in Seq(S), NEW t \in Seq(S)
    PROVE  /\ s \o t \in Seq(S) /\ Len(s \o t) = Len(s) + Len(t)
           /\ \A i \in 1..Len(s) : (s \o t)[i] = s[i]
           /\ \A i \in 1..Len(t) : (s \o t)[Len(s) + i] = t[i]
           /\ \A i \in Len(s)+1..Len(s)+Len(t) : (s \o t)[i] = t[i - Len(s)]
  OBVIOUS

LEMMA ConcatEmpty ==
    ASSUME NEW S, NEW s \in Seq(S)
    PROVE  s \o <<>> = s /\ <<>> \in Seq(S)
  <1>1. <<>> \in Seq(S) /\ Len(<<>>) = 0
    OBVIOUS
  <1> QED
    BY <1>1

LEMMA Part ==
    ASSUME NEW S, NEW s \in Seq(S), NEW i \in Nat, i <= Len(s)
    PROVE  /\ Upto(s, i) \in Seq(S) /\ Len(Upto(s, i)) = i
           /\ \A k \in 1..i : Upto(s, i)[k] = s[k]
           /\ Begins(Upto(s, i), s)
           /\ After(s, i) \in Seq(S) /\ Len(After(s, i)) = Len(s) - i
           /\ \A k \in 1..Len(s) - i : After(s, i)[k] = s[i + k]
  <1>1. /\ SubSeq(s, 1, i) \in Seq(S) /\ Len(SubSeq(s, 1, i)) = i
        /\ \A k \in 1..i : SubSeq(s, 1, i)[k] = s[k]
    OBVIOUS
  <1>2. Len(s) \in Nat /\ i + 1 \in 1..Len(s)+1
    OBVIOUS
  <1>3. /\ SubSeq(s, i + 1, Len(s)) \in Seq(S) /\ Len(SubSeq(s, i + 1, Len(s))) = Len(s) - i
        /\ \A k \in 1..Len(s) - i : SubSeq(s, i + 1, Len(s))[k] = s[i + k]
    BY <1>2
  <1> QED
    BY <1>1, <1>3 DEF Upto, After, Begins

LEMMA SameSequence ==
    ASSUME NEW S, NEW s \in Seq(S), NEW t \in Seq(S), Len(s) = Len(t),
           \A k \in 1..Len(s) : s[k] = t[k]
    PROVE  s = t
  OBVIOUS

LEMMA OrderOfOpTimes ==
    ASSUME NEW a \in OpTime, NEW b \in OpTime
    PROVE  /\ a.term \in Int /\ a.ts \in Int
           /\ AtMost(a, b) <=> a.term < b.term \/ (a.term = b.term /\ a.ts <= b.ts)
           /\ Less(a, b) <=> ~AtMost(b, a)
           /\ AtMost(a, b) \/ AtMost(b, a)
  <1>1. /\ a.term \in Int /\ a.ts \in Int /\ b.term \in Int /\ b.ts \in Int
        /\ a = b <=> (a.term = b.term /\ a.ts = b.ts)
    BY BoundTypes DEF OpTime
  <1> QED
    BY <1>1 DEF AtMost, Less

LEMMA LeastNatural ==
    ASSUME NEW T \in SUBSET Nat, T # {}
    PROVE  \E x \in T : \A y \in T : x <= y
  <1> DEFINE R == OpToRel(<, Nat)
  <1>1. IsWellFoundedOn(R, Nat)
    BY NatLessThanWellFounded
  <1>2. \A x, y \in Nat : <<y, x>> \in R <=> y < x
    BY DEF OpToRel
  <1> HIDE DEF R
  <1>3. PICK x \in T : \A y \in T : ~(<<y, x>> \in R)
    BY <1>1, WFMin
  <1>4. ASSUME NEW y \in T PROVE x <= y
    <2>1. x \in Nat /\ y \in Nat /\ ~(y < x)
      BY <1>2, <1>3
    <2> QED
      BY <2>1
  <1> QED
    BY <1>4

(* Greatest is what its name says. *)
LEMMA GreatestIs ==
    ASSUME NEW S \in SUBSET OpTime, S # {}
    PROVE  Greatest(S) \in S /\ \A p \in S : AtMost(p, Greatest(S))
  <1> DEFINE gap(o) == MaxTerm + 1 - o.term
             A == {gap(o) : o \in S}
  <1>1. A \in SUBSET Nat /\ A # {}
    BY BoundTypes DEF OpTime
  <1>2. PICK g \in A : \A y \in A : g <= y
    BY <1>1, LeastNatural
  <1>3. PICK a \in S : g = gap(a)
    BY <1>2
  <1> DEFINE T == {o \in S : o.term = a.term}
             B == {MaxOplog + 1 - o.ts : o \in T}
  <1>4. B \in SUBSET Nat /\ B # {}
    BY <1>3, BoundTypes DEF OpTime
  <1>5. PICK h \in B : \A y \in B : h <= y
    <2> HIDE DEF B
    <2> QED
      BY <1>4, LeastNatural
  <1>6. PICK b \in T : h = MaxOplog + 1 - b.ts
    BY <1>5
  <1>7. ASSUME NEW p \in S PROVE p.term <= a.term
    <2>1. gap(a) <= gap(p)
      BY <1>2, <1>3
    <2>2. a \in OpTime /\ p \in OpTime
      OBVIOUS
    <2>3. a.term \in Int /\ p.term \in Int /\ MaxTerm \in Int
      BY <2>2, OrderOfOpTimes, BoundTypes
    <2> QED
      BY <2>1, <2>3
  <1>8. \A p \in T : p.ts <= b.ts
    <2> TAKE p \in T
    <2>1. h <= MaxOplog + 1 - p.ts
      BY <1>5
    <2> QED
      BY <1>6, <2>1, BoundTypes DEF OpTime
  <1>9. b \in S /\ \A p \in S : AtMost(p, b)
    <2>1. b \in S /\ b.term = a.term /\ b \in OpTime
      BY <1>6
    <2>2. ASSUME NEW p \in S PROVE AtMost(p, b)
      <3>1. p \in OpTime /\ p.term <= b.term
        BY <1>7, <2>1
      <3>2. p.term = b.term => p.ts <= b.ts
        BY <1>8, <2>1
      <3>3. p.term \in Int /\ b.term \in Int
        BY <3>1, <2>1, OrderOfOpTimes
      <3> QED
        BY <2>1, <3>1, <3>2, <3>3, OrderOfOpTimes
    <2> QED
      BY <2>1, <2>2
  <1>10. \E o \in S : \A p \in S : AtMost(p, o)
    BY <1>9
  <1> QED
    BY <1>10 DEF Greatest

LEMMA NullType == Null \in OpTime /\ Null.term = -1 /\ Null.ts = 0
  BY BoundTypes DEF Null, OpTime

LEMMA OpTimeAtType ==
    ASSUME NEW l \in Oplog, Len(l) <= MaxOplog, NEW i \in 0..Len(l)
    PROVE  /\ OpTimeAt(l, i) \in OpTime
           /\ i # 0 => /\ OpTimeAt(l, i).term = l[i] /\ OpTimeAt(l, i).ts = i
                       /\ Has(l, OpTimeAt(l, i)) /\ OpTimeAt(l, i) # Null
                       /\ l[i] \in Terms
           /\ i = 0 => OpTimeAt(l, i) = Null
  <1>1. CASE i = 0
    BY <1>1, NullType DEF OpTimeAt
  <1>2. CASE i # 0
    <2>1. i \in 1..Len(l) /\ l[i] \in Terms
      BY <1>2 DEF Oplog
    <2>2. OpTimeAt(l, i) = [term |-> l[i], ts |-> i]
      BY <1>2 DEF OpTimeAt
    <2>3. l[i] \in -1..MaxTerm+1 /\ i \in 0..MaxOplog+1 /\ l[i] # -1
      BY <2>1, BoundTypes DEF Terms, Oplog
    <2> QED
      BY <1>2, <2>1, <2>2, <2>3, NullType DEF OpTime, Has
  <1> QED
    BY <1>1, <1>2

LEMMA TopType ==
    ASSUME NEW l \in Oplog, Len(l) <= MaxOplog
    PROVE  /\ Top(l) \in OpTime
           /\ l # <<>> => /\ Top(l).term = l[Len(l)] /\ Top(l).ts = Len(l)
                          /\ Has(l, Top(l)) /\ Top(l) # Null
           /\ l = <<>> => Top(l) = Null
           /\ Top(l).ts = Len(l)
  <1>1. Len(l) \in Nat /\ (Len(l) = 0 <=> l = <<>>) /\ Len(l) \in 0..Len(l)
    BY DEF Oplog
  <1> QED
    BY <1>1, OpTimeAtType, NullType DEF Top

LEMMA CountsType ==
    ASSUME NEW l \in Oplog, Len(l) <= MaxOplog, NEW d \in 0..Len(l)
    PROVE  /\ Counts(l, d) \in OpTime
           /\ Counts(l, d) = Null \/ Has(l, Counts(l, d))
           /\ \E i \in 0..Len(l) : Counts(l, d) = OpTimeAt(l, i)
  <1>1. Len(l) \in 0..Len(l)
    BY DEF Oplog
  <1> QED
    BY <1>1, OpTimeAtType DEF Counts, Top

LEMMA SmallerIs ==
    ASSUME NEW a \in OpTime, NEW b \in OpTime
    PROVE  /\ Smaller(a, b) \in {a, b} /\ AtMost(Smaller(a, b), a) /\ AtMost(Smaller(a, b), b)
  BY OrderOfOpTimes DEF Smaller, AtMost

(* Where the term of n begins in its oplog. *)
LEMMA FirstIs ==
    ASSUME NEW l \in Oplog, Len(l) <= MaxOplog, NEW t \in Terms
    PROVE  /\ FirstOpTimeOfMyTerm(l, t) \in OpTime
           /\ (\A i \in 1..Len(l) : l[i] # t) => FirstOpTimeOfMyTerm(l, t) = MaxOpTime
           /\ \A j \in 1..Len(l) : l[j] = t =>
                 /\ FirstOpTimeOfMyTerm(l, t) # MaxOpTime
                 /\ FirstOpTimeOfMyTerm(l, t).term = t
                 /\ FirstOpTimeOfMyTerm(l, t).ts \in 1..j
                 /\ l[FirstOpTimeOfMyTerm(l, t).ts] = t
  <1> DEFINE own == {i \in 1..Len(l) : l[i] = t}
  <1>0. Len(l) \in Nat /\ MaxOpTime \in OpTime /\ MaxOpTime.term = MaxTerm + 1
    BY BoundTypes DEF Oplog, MaxOpTime, OpTime
  <1>1. CASE own = {}
    <2>1. FirstOpTimeOfMyTerm(l, t) = MaxOpTime
      BY <1>1 DEF FirstOpTimeOfMyTerm
    <2> QED
      BY <1>0, <1>1, <2>1
  <1>2. CASE own # {}
    <2>1. own \in SUBSET Nat
      BY <1>0
    <2>2. \E i \in own : \A j \in own : i <= j
      <3> HIDE DEF own
      <3> QED
        BY <1>2, <2>1, LeastNatural
    <2> DEFINE i == CHOOSE i \in own : \A j \in own : i <= j
    <2>3. i \in own /\ \A j \in own : i <= j
      <3> HIDE DEF own
      <3> QED
        BY <2>2
    <2>4. FirstOpTimeOfMyTerm(l, t) = OpTimeAt(l, i)
      BY <1>2 DEF FirstOpTimeOfMyTerm
    <2> HIDE DEF i
    <2>5. i \in 1..Len(l) /\ l[i] = t /\ i \in 0..Len(l) /\ i # 0
      BY <1>0, <2>3
    <2>6. OpTimeAt(l, i).term = t /\ OpTimeAt(l, i).ts = i /\ OpTimeAt(l, i) \in OpTime
      BY <2>5, OpTimeAtType
    <2>7. OpTimeAt(l, i) # MaxOpTime
      BY <1>0, <2>6, BoundTypes DEF Terms
    <2>8. \A j \in 1..Len(l) : l[j] = t => i <= j
      BY <2>3
    <2>9. ASSUME NEW j \in 1..Len(l), l[j] = t PROVE i \in 1..j
      BY <1>0, <2>5, <2>8, <2>9
    <2> QED
      BY <1>2, <2>4, <2>5, <2>6, <2>7, <2>9
  <1> QED
    BY <1>1, <1>2


(* What SetCommitPoint makes of the candidates. *)
LEMMA StableType ==
    ASSUME NEW cand \in SUBSET OpTime, NEW c \in OpTime
    PROVE  /\ StableOpTime(cand, c) \in OpTime /\ CleanedUp(cand, c) \in SUBSET OpTime
           /\ StableOpTime(cand, c) = Null \/ StableOpTime(cand, c) \in cand
           /\ CleanedUp(cand, c) \subseteq cand
  <1> DEFINE below == {o \in cand : AtMost(o, c)}
  <1>1. below = {} \/ Greatest(below) \in below
    <2>1. below \in SUBSET OpTime
      OBVIOUS
    <2> HIDE DEF below
    <2> QED
      BY <2>1, GreatestIs
  <1>2. StableOpTime(cand, c) = IF below = {} THEN Null ELSE Greatest(below)
    BY DEF StableOpTime
  <1> QED
    BY <1>1, <1>2, NullType DEF CleanedUp

LEMMA LeastIs ==
    ASSUME NEW S \in SUBSET OpTime, S # {}
    PROVE  \E o \in S : \A p \in S : AtMost(o, p)
  <1> DEFINE mirror(o) == [term |-> MaxTerm - o.term, ts |-> MaxOplog + 1 - o.ts]
             R == {mirror(o) : o \in S}
  <1>1. \A o \in OpTime : /\ mirror(o) \in OpTime
                          /\ mirror(o).term = MaxTerm - o.term
                          /\ mirror(o).ts = MaxOplog + 1 - o.ts
    BY BoundTypes DEF OpTime
  <1>2. ASSUME NEW a \in OpTime, NEW b \in OpTime, AtMost(mirror(a), mirror(b))
        PROVE  AtMost(b, a)
    <2>1. /\ a.term \in Int /\ b.term \in Int /\ a.ts \in Int /\ b.ts \in Int
          /\ MaxTerm \in Int /\ MaxOplog \in Int
      BY OrderOfOpTimes, BoundTypes
    <2> HIDE DEF mirror
    <2>2. \/ mirror(a).term < mirror(b).term
          \/ mirror(a).term = mirror(b).term /\ mirror(a).ts <= mirror(b).ts
      BY <1>1, <1>2, OrderOfOpTimes
    <2>3. b.term < a.term \/ (b.term = a.term /\ b.ts <= a.ts)
      BY <1>1, <2>1, <2>2
    <2> QED
      BY <2>3, OrderOfOpTimes
  <1> HIDE DEF mirror
  <1>3. R \in SUBSET OpTime /\ R # {}
    BY <1>1
  <1>4. PICK r \in R : \A q \in R : AtMost(q, r)
    <2> HIDE DEF R
    <2> QED
      BY <1>3, GreatestIs
  <1>5. PICK o \in S : r = mirror(o)
    BY <1>4
  <1>6. \A p \in S : AtMost(mirror(p), mirror(o))
    BY <1>4, <1>5
  <1> QED
    BY <1>2, <1>6

LEMMA MajorityTypes ==
    /\ VoteMajority \in Nat /\ WriteMajority \in Nat
    /\ WriteMajority <= Cardinality(Member) /\ WriteMajority <= Cardinality(DataMember)
    /\ VoteMajority <= Cardinality(Member) /\ WriteMajority <= VoteMajority
    /\ 2 * VoteMajority > Cardinality(Member)
    /\ Cardinality(Member) \in Nat /\ Cardinality(DataMember) \in Nat /\ WriteMajority >= 1
  <1>1. /\ Cardinality(Member) \in Nat /\ Cardinality(DataMember) \in Nat
        /\ Cardinality(DataMember) # 0 /\ Cardinality(DataMember) <= Cardinality(Member)
    BY BoundTypes, FS_CardinalityType, FS_EmptySet, FS_Subset
  <1>2. VoteMajority = (Cardinality(Member) \div 2) + 1
    BY DEF VoteMajority
  <1>3. /\ VoteMajority \in Nat /\ 2 * VoteMajority > Cardinality(Member)
        /\ VoteMajority >= 1 /\ VoteMajority <= Cardinality(Member)
    <2> DEFINE c == Cardinality(Member)
    <2>1. c \in Nat /\ c >= 1
      BY <1>1
    <2> HIDE DEF c
    <2>2. (c \div 2) + 1 \in Nat /\ 2 * ((c \div 2) + 1) > c /\ (c \div 2) + 1 >= 1 /\ (c \div 2) + 1 <= c
      BY <2>1
    <2> QED
      BY <1>2, <2>2 DEF c
  <1> QED
    BY <1>1, <1>3 DEF WriteMajority

(* What a majority has reached. *)
LEMMA MajorityIs ==
    ASSUME NEW pos \in [Member -> OpTime]
    PROVE  /\ MajorityOpTime(pos) \in OpTime
           /\ \E m \in Member : MajorityOpTime(pos) = pos[m]
           /\ Cardinality({m \in Member : AtMost(MajorityOpTime(pos), pos[m])}) >= WriteMajority
           /\ \A m \in Member :
                 Cardinality({q \in Member : AtMost(pos[m], pos[q])}) >= WriteMajority =>
                    AtMost(pos[m], MajorityOpTime(pos))
  <1> DEFINE all == {pos[m] : m \in Member}
             reached == {o \in all : Cardinality({m \in Member : AtMost(o, pos[m])}) >= WriteMajority}
  <1>1. all \in SUBSET OpTime /\ all # {}
    BY BoundTypes
  <1>2. PICK o \in all : \A p \in all : AtMost(o, p)
    <2> HIDE DEF all
    <2> QED
      BY <1>1, LeastIs
  <1>3. {m \in Member : AtMost(o, pos[m])} = Member
    BY <1>2
  <1>4. o \in reached
    BY <1>2, <1>3, MajorityTypes
  <1>5. Greatest(reached) \in reached /\ \A p \in reached : AtMost(p, Greatest(reached))
    <2>1. reached \in SUBSET OpTime /\ reached # {}
      BY <1>1, <1>4
    <2> HIDE DEF reached
    <2> QED
      BY <2>1, GreatestIs
  <1>6. MajorityOpTime(pos) = Greatest(reached)
    BY DEF MajorityOpTime
  <1> HIDE DEF reached
  <1>7. MajorityOpTime(pos) \in reached /\ \A p \in reached : AtMost(p, MajorityOpTime(pos))
    BY <1>5, <1>6
  <1> QED
    BY <1>1, <1>7 DEF reached

(* Where the commit point may go. *)
LEMMA AdvanceIs ==
    ASSUME NEW n \in Member, NEW r, NEW l \in Oplog, Len(l) <= MaxOplog, NEW o \in OpTime,
           commitPoint[n] \in OpTime, term[n] \in Terms,
           NEW c, c = AdvanceLastCommittedOpTime(n, r, l, o)
    PROVE  /\ c \in OpTime /\ c \in {commitPoint[n], o, Top(l)}
           /\ c # commitPoint[n] =>
                 /\ Less(commitPoint[n], c)
                 /\ IsPrimary(r) => ~Less(o, FirstOpTimeOfMyTerm(l, term[n]))
                 /\ c = o \/ (c = Top(l) /\ Less(c, o))
                 /\ n \notin Arbiter => (c = o /\ Top(l).term = o.term) \/ (AtMost(c, o) /\ AtMost(c, Top(l)))
  <1>1. Top(l) \in OpTime
    BY TopType
  <1> DEFINE known == IF n \notin Arbiter /\ Top(l).term # o.term THEN Smaller(o, Top(l)) ELSE o
  <1>2. c = IF (IsPrimary(r) /\ Less(o, FirstOpTimeOfMyTerm(l, term[n]))) \/ ~ Less(commitPoint[n], known)
              THEN commitPoint[n] ELSE known
    BY DEF AdvanceLastCommittedOpTime
  <1>3. /\ known \in {o, Top(l)} /\ (known = o \/ (known = Top(l) /\ Less(known, o)))
        /\ n \notin Arbiter => (known = o /\ Top(l).term = o.term)
                               \/ (AtMost(known, o) /\ AtMost(known, Top(l)))
    BY <1>1, SmallerIs, OrderOfOpTimes DEF Smaller
  <1> HIDE DEF known
  <1>4. c = commitPoint[n] \/ c = known
    BY <1>2
  <1> QED
    BY <1>1, <1>2, <1>3, <1>4

----------------------------------------------------------------------------
(* What the shared parts of the actions do.                                 *)

Shape == TypeInv /\ BeginInv

(* What follows of a member from the types. *)
LEMMA MemberShape ==
    ASSUME Shape, NEW n \in Member
    PROVE  /\ role[n] \in {"Follower", "LeaderElect", "Master", "SteppingDown", "Aborted"}
           /\ term[n] \in Terms /\ pendingTerm[n] \in Terms /\ lastVote[n] \in Terms
           /\ producer[n] \in {"Starting", "Running", "Stopped"}
           /\ oplog[n] \in Oplog /\ buffer[n] \in Oplog /\ Len(oplog[n]) \in Nat
           /\ durable[n] \in Nat /\ visible[n] \in Nat
           /\ durable[n] <= visible[n] /\ visible[n] <= Len(oplog[n])
           /\ fetcher[n] \in Response
           /\ position[n] \in [Member -> OpTime] /\ reported[n] \in SUBSET OpTime
           /\ commitPoint[n] \in OpTime /\ snapshot[n] \in OpTime /\ candidates[n] \in SUBSET OpTime
  <1>1. oplog[n] \in Oplog
    BY DEF Shape, TypeInv, LogType
  <1>2. Len(oplog[n]) \in Nat
    BY <1>1 DEF Oplog
  <1> QED
    BY <1>1, <1>2 DEF Shape, TypeInv, ControlType, LogType, FetchType, OpTimeType

LEMMA ResponseIs ==
    ASSUME NEW f \in Response
    PROVE  /\ f.stage \in {"None", "Waiting", "Diverged", "Advanced", "Checked"}
           /\ f.stage \in {"Advanced", "Checked"} => f.docs \in Oplog /\ f.term \in Terms
           /\ f.stage = "Checked" => f.committed \in OpTime
           /\ f.stage = "Diverged" => f.source \in DataMember
  BY DEF Response

LEMMA OplogConcat ==
    ASSUME NEW s \in Oplog, NEW t \in Oplog
    PROVE  /\ s \o t \in Oplog /\ Len(s \o t) = Len(s) + Len(t) /\ Len(s \o t) \in Nat
           /\ Len(s) \in Nat /\ Len(t) \in Nat
           /\ \A i \in 1..Len(s) : (s \o t)[i] = s[i]
           /\ \A i \in 1..Len(t) : (s \o t)[Len(s) + i] = t[i]
           /\ Begins(s, s \o t) /\ Len(s) <= Len(s \o t)
  <1>1. /\ s \o t \in Oplog /\ Len(s \o t) = Len(s) + Len(t)
        /\ Len(s) \in Nat /\ Len(t) \in Nat
        /\ \A i \in 1..Len(s) : (s \o t)[i] = s[i]
        /\ \A i \in 1..Len(t) : (s \o t)[Len(s) + i] = t[i]
    BY DEF Oplog
  <1>2. Len(s) <= Len(s \o t) /\ Len(s \o t) \in Nat
    BY <1>1
  <1> QED
    BY <1>1, <1>2 DEF Begins

LEMMA BeginsTransitive ==
    ASSUME NEW s \in Oplog, NEW t \in Oplog, NEW u \in Oplog, Begins(s, t), Begins(t, u)
    PROVE  Begins(s, u)
  <1>1. Len(s) \in Nat /\ Len(t) \in Nat /\ Len(u) \in Nat
    BY DEF Oplog
  <1> QED
    BY <1>1 DEF Begins

LEMMA ComingShape ==
    ASSUME Shape, NEW n \in Member
    PROVE  /\ Fetched(n) \in Oplog /\ InFlight(n) \in Oplog /\ Coming(n) \in Oplog
           /\ Len(Fetched(n)) = Len(oplog[n]) + Len(buffer[n])
           /\ Len(Coming(n)) = Len(Fetched(n)) + Len(InFlight(n))
           /\ Begins(oplog[n], Fetched(n)) /\ Begins(Fetched(n), Coming(n)) /\ Begins(oplog[n], Coming(n))
           /\ Len(Coming(n)) <= MaxOplog /\ Len(Fetched(n)) <= MaxOplog /\ Len(oplog[n]) <= MaxOplog
           /\ Len(oplog[n]) \in Nat /\ Len(buffer[n]) \in Nat /\ Len(Coming(n)) \in Nat
           /\ Len(InFlight(n)) \in Nat
  <1>1. oplog[n] \in Oplog /\ buffer[n] \in Oplog /\ fetcher[n] \in Response
    BY MemberShape
  <1>2. InFlight(n) \in Oplog
    <2>1. CASE InCallback(n) /\ producer[n] = "Running"
      BY <1>1, <2>1, ResponseIs DEF InFlight, InCallback
    <2>2. CASE ~(InCallback(n) /\ producer[n] = "Running")
      <3>1. InFlight(n) = <<>>
        BY <2>2 DEF InFlight
      <3> QED
        BY <3>1, ConcatEmpty, <1>1 DEF Oplog
    <2> QED
      BY <2>1, <2>2
  <1>3. Fetched(n) = oplog[n] \o buffer[n] /\ Coming(n) = Fetched(n) \o InFlight(n)
    BY DEF Fetched, Coming
  <1>4. /\ Fetched(n) \in Oplog /\ Len(Fetched(n)) = Len(oplog[n]) + Len(buffer[n])
        /\ Begins(oplog[n], Fetched(n)) /\ Len(oplog[n]) \in Nat /\ Len(buffer[n]) \in Nat
        /\ Len(Fetched(n)) \in Nat
    <2> DEFINE s == oplog[n]  t == buffer[n]  u == Fetched(n)
    <2>1. s \in Oplog /\ t \in Oplog /\ u = s \o t
      BY <1>1, <1>3
    <2> HIDE DEF s, t, u
    <2>2. /\ u \in Oplog /\ Len(u) = Len(s) + Len(t) /\ Begins(s, u) /\ Len(s) \in Nat
          /\ Len(t) \in Nat /\ Len(u) \in Nat
      BY <2>1, OplogConcat
    <2> QED
      BY <2>2 DEF s, t, u
  <1>5. /\ Coming(n) \in Oplog /\ Len(Coming(n)) = Len(Fetched(n)) + Len(InFlight(n))
        /\ Begins(Fetched(n), Coming(n)) /\ Len(InFlight(n)) \in Nat /\ Len(Coming(n)) \in Nat
    <2> DEFINE s == Fetched(n)  t == InFlight(n)  u == Coming(n)
    <2>1. s \in Oplog /\ t \in Oplog /\ u = s \o t
      BY <1>2, <1>3, <1>4
    <2> HIDE DEF s, t, u
    <2>2. /\ u \in Oplog /\ Len(u) = Len(s) + Len(t) /\ Begins(s, u) /\ Len(t) \in Nat
          /\ Len(u) \in Nat
      BY <2>1, OplogConcat
    <2> QED
      BY <2>2 DEF s, t, u
  <1>6. Begins(oplog[n], Coming(n))
    BY <1>1, <1>4, <1>5, BeginsTransitive
  <1>7. Len(Coming(n)) <= MaxOplog
    BY DEF Shape, BeginInv
  <1>8. Len(Fetched(n)) <= MaxOplog /\ Len(oplog[n]) <= MaxOplog
    <2> DEFINE a == Len(oplog[n])  b == Len(buffer[n])  c == Len(InFlight(n))
    <2>1. a \in Nat /\ b \in Nat /\ c \in Nat /\ Len(Fetched(n)) = a + b
      BY <1>4, <1>5
    <2>2. (a + b) + c <= MaxOplog
      BY <1>5, <1>7, <2>1
    <2> HIDE DEF a, b, c
    <2>3. a + b <= MaxOplog /\ a <= MaxOplog
      BY <2>1, <2>2, BoundTypes
    <2> QED
      BY <2>1, <2>3 DEF a
  <1> QED
    BY <1>2, <1>4, <1>5, <1>6, <1>7, <1>8

LEMMA ReachedIs ==
    ASSUME Shape, NEW m \in Member
    PROVE  /\ Reached(m) \in OpTime /\ Top(oplog[m]) \in OpTime
           /\ \/ Reached(m) = Null
              \/ m \in Arbiter /\ Reached(m) = commitPoint[m]
              \/ Has(oplog[m], Reached(m))
  <1>1. oplog[m] \in Oplog /\ Len(oplog[m]) <= MaxOplog /\ durable[m] \in 0..Len(oplog[m])
    <2>1. oplog[m] \in Oplog /\ Len(oplog[m]) <= MaxOplog
      BY ComingShape, MemberShape
    <2>2. /\ durable[m] \in Nat /\ visible[m] \in Nat /\ Len(oplog[m]) \in Nat
          /\ durable[m] <= visible[m] /\ visible[m] <= Len(oplog[m])
      BY MemberShape
    <2>3. durable[m] \in 0..Len(oplog[m])
      BY <2>2
    <2> QED
      BY <2>1, <2>3
  <1>2. /\ Counts(oplog[m], durable[m]) \in OpTime
        /\ Counts(oplog[m], durable[m]) = Null \/ Has(oplog[m], Counts(oplog[m], durable[m]))
    BY <1>1, CountsType
  <1>3. Top(oplog[m]) \in OpTime
    BY <1>1, TopType
  <1> QED
    BY <1>2, <1>3, MemberShape DEF Reached

LEMMA LeaveIs ==
    ASSUME Shape, NEW S, Leave(S)
    PROVE  /\ reported' \in [Member -> SUBSET OpTime]
           /\ \A m \in Member : reported[m] \subseteq reported'[m]
           /\ \A m \in Member : \A o \in reported'[m] :
                 o \in reported[m] \/ (m \in S /\ o = Reached(m) /\ o.term = term[m])
  <1>1. \A m \in Member : reported[m] \in SUBSET OpTime /\ Reached(m) \in OpTime
    BY MemberShape, ReachedIs
  <1> QED
    BY <1>1 DEF Leave

(* What is in a report. *)
LEMMA UpdateTermIs ==
    ASSUME Shape, NEW n \in Member, NEW t \in Terms, UpdateTerm(n, t)
    PROVE  /\ role' \in [Member -> {"Follower", "LeaderElect", "Master", "SteppingDown", "Aborted"}]
           /\ term' \in [Member -> Terms] /\ pendingTerm' \in [Member -> Terms]
           /\ reported' \in [Member -> SUBSET OpTime]
           /\ \A m \in Member \ {n} : /\ role'[m] = role[m] /\ term'[m] = term[m]
                                      /\ pendingTerm'[m] = pendingTerm[m]
           /\ IsPrimary(role[n]) /\ t > term[n] =>
                 /\ role'[n] = "SteppingDown" /\ pendingTerm'[n] >= t /\ pendingTerm'[n] >= pendingTerm[n]
                 /\ term' = term /\ reported' = reported
           /\ ~(IsPrimary(role[n]) /\ t > term[n]) => role' = role /\ pendingTerm' = pendingTerm
           /\ ~(IsPrimary(role[n]) /\ t > term[n]) => term'[n] >= term[n] /\ term'[n] >= t
           /\ IsPrimary(role[n]) => term' = term
           /\ \A m \in Member : reported[m] \subseteq reported'[m]
           /\ \A m \in Member : \A o \in reported'[m] :
                 o \in reported[m] \/ (m = n /\ o = Reached(m) /\ o.term = term[m] /\ t > term[m])
  <1>0. /\ role \in [Member -> {"Follower", "LeaderElect", "Master", "SteppingDown", "Aborted"}]
        /\ term \in [Member -> Terms] /\ pendingTerm \in [Member -> Terms]
        /\ reported \in [Member -> SUBSET OpTime]
    BY DEF Shape, TypeInv, ControlType, OpTimeType
  <1>1. term[n] \in Int /\ pendingTerm[n] \in Int /\ t \in Int
    BY <1>0, BoundTypes DEF Terms
  <1>2. CASE t > term[n] /\ IsPrimary(role[n])
    <2>1. /\ role' = [role EXCEPT ![n] = "SteppingDown"]
          /\ pendingTerm' = [pendingTerm EXCEPT ![n] = IF t > pendingTerm[n] THEN t ELSE pendingTerm[n]]
          /\ term' = term /\ reported' = reported
      BY <1>2 DEF UpdateTerm
    <2>2. pendingTerm'[n] = IF t > pendingTerm[n] THEN t ELSE pendingTerm[n]
      BY <1>0, <2>1
    <2>3. pendingTerm'[n] >= t /\ pendingTerm'[n] >= pendingTerm[n]
      BY <1>1, <2>2
    <2> QED
      BY <1>0, <1>2, <2>1, <2>3
  <1>3. CASE ~(t > term[n] /\ IsPrimary(role[n]))
    <2>1. /\ term' = [term EXCEPT ![n] = IF t > term[n] THEN t ELSE term[n]]
          /\ Leave(IF t > term[n] THEN {n} ELSE {})
          /\ role' = role /\ pendingTerm' = pendingTerm
      BY <1>3 DEF UpdateTerm
    <2>2. term'[n] = IF t > term[n] THEN t ELSE term[n]
      BY <1>0, <2>1
    <2>3. term'[n] >= term[n] /\ term'[n] >= t
      BY <1>1, <2>2
    <2>4. IsPrimary(role[n]) => term' = term
      BY <1>0, <1>3, <2>1
    <2>5. /\ reported' \in [Member -> SUBSET OpTime]
          /\ \A m \in Member : reported[m] \subseteq reported'[m]
          /\ \A m \in Member : \A o \in reported'[m] :
                o \in reported[m] \/ (m = n /\ o = Reached(m) /\ o.term = term[m] /\ t > term[m])
      BY <2>1, LeaveIs
    <2> QED
      BY <1>0, <1>3, <2>1, <2>3, <2>4, <2>5
  <1> QED
    BY <1>2, <1>3

LEMMA SetCommitPointIs ==
    ASSUME Shape, NEW n \in Member, NEW c \in OpTime, NEW cand \in SUBSET OpTime, NEW refresh,
           SetCommitPoint(n, c, cand, refresh)
    PROVE  /\ commitPoint' \in [Member -> OpTime] /\ candidates' \in [Member -> SUBSET OpTime]
           /\ snapshot' \in [Member -> OpTime]
           /\ commitPoint'[n] = c /\ \A m \in Member \ {n} : commitPoint'[m] = commitPoint[m]
           /\ candidates'[n] \subseteq cand
           /\ \A m \in Member \ {n} : candidates'[m] = candidates[m] /\ snapshot'[m] = snapshot[m]
           /\ snapshot'[n] = snapshot[n] \/ (snapshot'[n] = StableOpTime(cand, c) /\ snapshot'[n] # Null)
           /\ ~refresh /\ c = commitPoint[n] => candidates'[n] = cand /\ snapshot'[n] = snapshot[n]
           /\ refresh \/ c # commitPoint[n] => candidates'[n] = CleanedUp(cand, c)
  <1>0. /\ commitPoint \in [Member -> OpTime] /\ snapshot \in [Member -> OpTime]
        /\ candidates \in [Member -> SUBSET OpTime]
    BY DEF Shape, TypeInv, OpTimeType
  <1>1. /\ StableOpTime(cand, c) \in OpTime /\ CleanedUp(cand, c) \in SUBSET OpTime
        /\ CleanedUp(cand, c) \subseteq cand
    BY StableType
  <1>2. commitPoint' = [commitPoint EXCEPT ![n] = c]
    BY DEF SetCommitPoint
  <1>3. CASE refresh \/ c # commitPoint[n]
    <2>1. /\ candidates' = [candidates EXCEPT ![n] = CleanedUp(cand, c)]
          /\ snapshot' = [snapshot EXCEPT ![n] =
                            IF StableOpTime(cand, c) = Null THEN snapshot[n] ELSE StableOpTime(cand, c)]
      BY <1>3 DEF SetCommitPoint
    <2> QED
      BY <1>0, <1>1, <1>2, <1>3, <2>1
  <1>4. CASE ~refresh /\ c = commitPoint[n]
    <2>1. candidates' = [candidates EXCEPT ![n] = cand] /\ snapshot' = snapshot
      BY <1>4 DEF SetCommitPoint
    <2> QED
      BY <1>0, <1>2, <1>4, <2>1
  <1> QED
    BY <1>3, <1>4

(* The commit point that n gets when what it has heard becomes pos. *)
LEMMA UpdateIs ==
    ASSUME Shape, NEW n \in Member, NEW r, NEW l \in Oplog, Len(l) <= MaxOplog,
           NEW pos \in [Member -> OpTime], NEW c, c = UpdateLastCommittedOpTime(n, r, l, pos)
    PROVE  /\ c \in OpTime
           /\ c # commitPoint[n] =>
                 /\ r \in {"LeaderElect", "Master"}
                 /\ Less(commitPoint[n], c)
                 /\ ~Less(MajorityOpTime(pos), FirstOpTimeOfMyTerm(l, term[n]))
                 /\ c = MajorityOpTime(pos) \/ (c = Top(l) /\ Less(c, MajorityOpTime(pos)))
                 /\ n \notin Arbiter =>
                       \/ c = MajorityOpTime(pos) /\ Top(l).term = MajorityOpTime(pos).term
                       \/ AtMost(c, MajorityOpTime(pos)) /\ AtMost(c, Top(l))
  <1>1. commitPoint[n] \in OpTime /\ term[n] \in Terms
    BY MemberShape
  <1>2. CASE r \in {"LeaderElect", "Master"}
    <2> DEFINE o == MajorityOpTime(pos)
    <2>1. o \in OpTime
      BY MajorityIs
    <2>2. c = AdvanceLastCommittedOpTime(n, r, l, o)
      BY <1>2 DEF UpdateLastCommittedOpTime
    <2>3. IsPrimary(r)
      BY <1>2 DEF IsPrimary
    <2> HIDE DEF o
    <2>4. /\ c \in OpTime
          /\ c # commitPoint[n] =>
                 /\ Less(commitPoint[n], c)
                 /\ IsPrimary(r) => ~Less(o, FirstOpTimeOfMyTerm(l, term[n]))
                 /\ c = o \/ (c = Top(l) /\ Less(c, o))
                 /\ n \notin Arbiter => (c = o /\ Top(l).term = o.term) \/ (AtMost(c, o) /\ AtMost(c, Top(l)))
      BY <1>1, <2>1, <2>2, AdvanceIs
    <2> QED
      BY <1>2, <2>3, <2>4 DEF o
  <1>3. CASE r \notin {"LeaderElect", "Master"}
    BY <1>1, <1>3 DEF UpdateLastCommittedOpTime
  <1> QED
    BY <1>2, <1>3

LEMMA SetMyTypes ==
    ASSUME Shape, NEW n \in Member, NEW r, NEW l \in Oplog, Len(l) <= MaxOplog,
           NEW d \in Nat, NEW v \in Nat, d <= v, v <= Len(l), SetMyOpTimes(n, r, l, d, v)
    PROVE  /\ oplog' = [oplog EXCEPT ![n] = l]
           /\ durable' = [durable EXCEPT ![n] = d] /\ visible' = [visible EXCEPT ![n] = v]
           /\ position' \in [Member -> [Member -> OpTime]]
           /\ commitPoint' \in [Member -> OpTime] /\ candidates' \in [Member -> SUBSET OpTime]
           /\ snapshot' \in [Member -> OpTime]
  <1> DEFINE pos == [position[n] EXCEPT ![n] = Counts(l, d)]
             c == UpdateLastCommittedOpTime(n, r, l, pos)
             cand == candidates[n] \cup (IF Top(l) # Top(oplog[n]) THEN {Top(l)} ELSE {})
             refresh == Top(l) # Top(oplog[n]) /\ AtMost(Top(l), c)
  <1>1. /\ oplog' = [oplog EXCEPT ![n] = l]
        /\ durable' = [durable EXCEPT ![n] = d] /\ visible' = [visible EXCEPT ![n] = v]
        /\ position' = IF IsPrimary(r) THEN [position EXCEPT ![n] = pos] ELSE position
        /\ SetCommitPoint(n, c, cand, refresh)
        /\ Declare(n, l, c)
    BY DEF SetMyOpTimes
  <1>2. Counts(l, d) \in OpTime /\ (Counts(l, d) = Null \/ Has(l, Counts(l, d)))
    <2>1. d \in 0..Len(l)
      BY DEF Oplog
    <2> QED
      BY <2>1, CountsType
  <1>3. /\ position \in [Member -> [Member -> OpTime]] /\ candidates[n] \in SUBSET OpTime
    BY MemberShape DEF Shape, TypeInv, OpTimeType
  <1>4. pos \in [Member -> OpTime]
    BY <1>2, <1>3
  <1>5. /\ position' \in [Member -> [Member -> OpTime]]
        /\ \A m \in Member \ {n} : position'[m] = position[m]
        /\ IsPrimary(r) => position'[n] = pos
        /\ ~IsPrimary(r) => position'[n] = position[n]
    BY <1>1, <1>3, <1>4
  <1>6. c \in OpTime
    <2> HIDE DEF pos
    <2> QED
      BY <1>4, UpdateIs
  <1>7. cand \in SUBSET OpTime
    BY <1>3, TopType
  <1>8. /\ commitPoint' \in [Member -> OpTime] /\ candidates' \in [Member -> SUBSET OpTime]
        /\ snapshot' \in [Member -> OpTime]
        /\ commitPoint'[n] = c /\ \A m \in Member \ {n} : commitPoint'[m] = commitPoint[m]
        /\ \A m \in Member \ {n} : candidates'[m] = candidates[m] /\ snapshot'[m] = snapshot[m]
    <2> HIDE DEF c, cand, refresh
    <2> QED
      BY <1>1, <1>6, <1>7, SetCommitPointIs
  <1> QED
    BY <1>1, <1>5, <1>8

(* An entry is written. *)
LEMMA LogOpIs ==
    ASSUME Shape, NEW n \in DataMember, NEW r, LogOp(n, r), NEW l, l = Append(oplog[n], term[n])
    PROVE  /\ l \in Oplog /\ Len(l) = Len(oplog[n]) + 1 /\ Len(l) <= MaxOplog /\ Len(l) \in Nat
           /\ \A i \in 1..Len(oplog[n]) : l[i] = oplog[n][i]
           /\ l[Len(l)] = term[n]
           /\ \E d, v \in Nat : /\ d <= v /\ v <= Len(l) /\ durable[n] <= d /\ visible[n] <= v
                                /\ ~JournalLags => d = Len(l)
                                /\ SetMyOpTimes(n, r, l, d, v)
  <1>1. n \in Member
    BY BoundTypes
  <1>2. /\ oplog[n] \in Seq(Terms) /\ term[n] \in Terms /\ Len(oplog[n]) \in Nat
        /\ durable[n] \in Nat /\ visible[n] \in Nat
        /\ durable[n] <= visible[n] /\ visible[n] <= Len(oplog[n])
    BY <1>1, MemberShape DEF Oplog
  <1> DEFINE s == oplog[n]
  <1>3. /\ l \in Seq(Terms) /\ Len(l) = Len(s) + 1 /\ \A i \in 1..Len(s) : l[i] = s[i]
        /\ l[Len(l)] = term[n]
    <2> HIDE DEF s
    <2>1. s \in Seq(Terms) /\ l = Append(s, term[n])
      BY <1>2 DEF s
    <2> QED
      BY <1>2, <2>1
  <1>4. /\ Len(oplog[n]) < MaxOplog
        /\ SetMyOpTimes(n, r, l, Journaled(n, l), VisibleOf(n, l))
    BY DEF LogOp
  <1>5. Len(l) <= MaxOplog /\ Len(l) \in Nat
    BY <1>2, <1>3, <1>4, BoundTypes
  <1>6. /\ Journaled(n, l) \in Nat /\ VisibleOf(n, l) \in Nat
        /\ Journaled(n, l) <= VisibleOf(n, l) /\ VisibleOf(n, l) <= Len(l)
        /\ durable[n] <= Journaled(n, l) /\ visible[n] <= VisibleOf(n, l)
        /\ ~JournalLags => Journaled(n, l) = Len(l)
    BY <1>2, <1>3, <1>5 DEF Journaled, VisibleOf
  <1> HIDE DEF s
  <1> QED
    BY <1>3, <1>4, <1>5, <1>6 DEF Oplog, s

----------------------------------------------------------------------------
(* The types are kept.                                                      *)

Roles == {"Follower", "LeaderElect", "Master", "SteppingDown", "Aborted"}
Producers == {"Starting", "Running", "Stopped"}

(* The steps of Next, by name. *)
LEMMA Actions ==
    ASSUME Next
    PROVE  \/ \E n \in DataMember : \E Q \in SUBSET Member : Elect(n, Q)
           \/ \E n \in DataMember : EnterDrainMode(n)
           \/ \E n \in DataMember : SignalDrainComplete(n)
           \/ \E n \in DataMember : StepDownSelf(n)
           \/ \E n \in DataMember : StepDownFinish(n)
           \/ \E n \in DataMember : StartProducer(n)
           \/ \E n \in DataMember : AdvanceCommitPoint(n)
           \/ \E n \in DataMember : ProcessBatch(n)
           \/ \E n \in DataMember : Rollback(n)
           \/ \E n, s \in DataMember : Find(n, s)
           \/ \E n, s \in DataMember : GetMore(n, s)
           \/ \E n \in DataMember : Write(n)
           \/ \E n \in DataMember : Journal(n)
           \/ \E n \in DataMember : ApplyBatch(n)
           \/ \E n \in DataMember, m \in Member : \E r \in Reports(m) : ReceivePosition(n, m, r)
           \/ \E n \in Member : Crash(n)
           \/ \E n, m \in Member : LearnTerm(n, m)
           \/ \E n, m \in Member : ArbiterHeartbeat(n, m)
  BY DEF Next, ElectionStep, FetchStep

LEMMA TypeParts ==
    ASSUME TypeInv
    PROVE  /\ role \in [Member -> Roles] /\ term \in [Member -> Terms] /\ pendingTerm \in [Member -> Terms]
           /\ lastVote \in [Member -> Terms] /\ producer \in [Member -> Producers]
           /\ oplog \in [Member -> Oplog] /\ buffer \in [Member -> Oplog]
           /\ durable \in [Member -> Nat] /\ visible \in [Member -> Nat]
           /\ \A n \in Member : durable[n] <= visible[n] /\ visible[n] <= Len(oplog[n])
           /\ fetcher \in [Member -> Response]
           /\ position \in [Member -> [Member -> OpTime]] /\ reported \in [Member -> SUBSET OpTime]
           /\ commitPoint \in [Member -> OpTime] /\ snapshot \in [Member -> OpTime]
           /\ candidates \in [Member -> SUBSET OpTime]
  BY DEF TypeInv, ControlType, LogType, FetchType, OpTimeType, Roles, Producers

LEMMA TypePartsSuffice ==
    ASSUME role' \in [Member -> Roles], term' \in [Member -> Terms], pendingTerm' \in [Member -> Terms],
           lastVote' \in [Member -> Terms], producer' \in [Member -> Producers],
           oplog' \in [Member -> Oplog], buffer' \in [Member -> Oplog],
           durable' \in [Member -> Nat], visible' \in [Member -> Nat],
           \A n \in Member : durable'[n] <= visible'[n] /\ visible'[n] <= Len(oplog'[n]),
           fetcher' \in [Member -> Response],
           position' \in [Member -> [Member -> OpTime]], reported' \in [Member -> SUBSET OpTime],
           commitPoint' \in [Member -> OpTime], snapshot' \in [Member -> OpTime],
           candidates' \in [Member -> SUBSET OpTime]
    PROVE  TypeInv'
  BY DEF TypeInv, ControlType, LogType, FetchType, OpTimeType, Roles, Producers

LEMMA Responses ==
    /\ NoFetch \in Response /\ Waiting \in Response
    /\ \A s \in DataMember : Diverged(s) \in Response
    /\ \A d \in Oplog, t \in Terms : Advanced(d, t) \in Response
    /\ \A d \in Oplog, t \in Terms, c \in OpTime :
          [stage |-> "Checked", docs |-> d, term |-> t, committed |-> c] \in Response
  BY DEF Response, NoFetch, Waiting, Diverged, Advanced

LEMMA NoPositionsType == NoPositions \in [Member -> OpTime]
  BY NullType DEF NoPositions

(* The documents that s gives to n. *)
LEMMA CheckedType ==
    ASSUME Shape, NEW n \in Member, NEW s \in Member, NEW docs \in Oplog
    PROVE  /\ Checked(n, s, docs) \in Response
           /\ Checked(n, s, docs).stage \in {"Checked", "Advanced"}
           /\ Checked(n, s, docs).docs = docs /\ Checked(n, s, docs).term = term[s]
           /\ Checked(n, s, docs).stage = "Checked" => Checked(n, s, docs).committed = commitPoint[s]
  <1>1. term[s] \in Terms /\ commitPoint[s] \in OpTime
    BY MemberShape
  <1> QED
    BY <1>1, Responses DEF Checked, Advanced

LEMMA AnswerIs ==
    ASSUME Shape, NEW n \in Member, NEW s \in Member, NEW f \in Response, Answer(n, s, f)
    PROVE  /\ s # n /\ producer[n] = "Running" /\ fetcher[n] = NoFetch
           /\ role[n] # "Aborted" /\ role[s] # "Aborted"
           /\ UpdateTerm(s, term[n])
           /\ fetcher' = [fetcher EXCEPT ![n] = IF term[n] > term[s] THEN NoFetch ELSE f]
           /\ lastVote' = lastVote /\ oplog' = oplog /\ durable' = durable /\ visible' = visible
           /\ buffer' = buffer /\ producer' = producer /\ position' = position
           /\ commitPoint' = commitPoint /\ candidates' = candidates /\ snapshot' = snapshot
           /\ committed' = committed /\ crashes' = crashes /\ stepDowns' = stepDowns
           /\ TypeInv'
  <1>1. /\ s # n /\ producer[n] = "Running" /\ fetcher[n] = NoFetch
        /\ role[n] # "Aborted" /\ role[s] # "Aborted"
        /\ UpdateTerm(s, term[n])
        /\ fetcher' = [fetcher EXCEPT ![n] = IF term[n] > term[s] THEN NoFetch ELSE f]
        /\ lastVote' = lastVote /\ oplog' = oplog /\ durable' = durable /\ visible' = visible
        /\ buffer' = buffer /\ producer' = producer /\ position' = position
        /\ commitPoint' = commitPoint /\ candidates' = candidates /\ snapshot' = snapshot
        /\ committed' = committed /\ crashes' = crashes /\ stepDowns' = stepDowns
    BY DEF Answer, Alive, logVars, commitVars, faultVars
  <1>2. term[n] \in Terms
    BY MemberShape
  <1>3. /\ role' \in [Member -> Roles] /\ term' \in [Member -> Terms] /\ pendingTerm' \in [Member -> Terms]
        /\ reported' \in [Member -> SUBSET OpTime]
    BY <1>1, <1>2, UpdateTermIs DEF Roles
  <1>4. TypeInv
    BY DEF Shape
  <1>5. fetcher' \in [Member -> Response]
    BY <1>1, <1>4, TypeParts, Responses
  <1>6. TypeInv'
    BY <1>1, <1>3, <1>4, <1>5, TypeParts, TypePartsSuffice
  <1> QED
    BY <1>1, <1>6

(* What a member finds at its source. *)
LEMMA FindIs ==
    ASSUME Shape, NEW n \in DataMember, NEW s \in DataMember, Find(n, s)
    PROVE  \E f \in Response, v \in Nat :
              /\ Answer(n, s, f) /\ Less(LastFetched(n), Top(oplog[s])) /\ v <= visible[s]
              /\ \/ f = Diverged(s)
                 \/ /\ Has(Upto(oplog[s], v), LastFetched(n))
                    /\ f = Checked(n, s, After(Upto(oplog[s], v), LastFetched(n).ts))
  <1>1. n \in Member /\ s \in Member
    BY BoundTypes
  <1>2. PICK v \in 0..visible[s] :
          Answer(n, s, IF Has(Upto(oplog[s], v), LastFetched(n))
                         THEN Checked(n, s, After(Upto(oplog[s], v), LastFetched(n).ts)) ELSE Diverged(s))
    BY DEF Find, CheckRemoteOplogStart
  <1> DEFINE seen == Upto(oplog[s], v)
             docs == After(seen, LastFetched(n).ts)
             f == IF Has(seen, LastFetched(n)) THEN Checked(n, s, docs) ELSE Diverged(s)
  <1>3. seen \in Oplog /\ Len(seen) = v /\ v \in Nat /\ v <= visible[s]
    <2>1. oplog[s] \in Seq(Terms) /\ v \in Nat /\ v <= Len(oplog[s]) /\ v <= visible[s]
      BY <1>1, MemberShape DEF Oplog
    <2> DEFINE l == oplog[s]
    <2> HIDE DEF l
    <2>2. Upto(l, v) \in Seq(Terms) /\ Len(Upto(l, v)) = v
      BY <2>1, Part DEF l
    <2> QED
      BY <2>1, <2>2 DEF Oplog, l
  <1>6. Answer(n, s, f) /\ Less(LastFetched(n), Top(oplog[s]))
    BY <1>2 DEF Find
  <1>4. CASE Has(seen, LastFetched(n))
    <2>1. LastFetched(n).ts \in 1..Len(seen)
      BY <1>4 DEF Has
    <2>2. docs \in Oplog
      <3> DEFINE k == LastFetched(n).ts
      <3> HIDE DEF k, seen
      <3>1. seen \in Seq(Terms) /\ k \in Nat /\ k <= Len(seen)
        BY <1>3, <2>1 DEF Oplog, k
      <3>2. After(seen, k) \in Seq(Terms)
        BY <3>1, Part
      <3> QED
        BY <3>2 DEF Oplog, k
    <2>3. f = Checked(n, s, docs) /\ f \in Response
      <3> HIDE DEF seen, docs
      <3> QED
        BY <1>1, <1>4, <2>2, CheckedType
    <2> HIDE DEF f
    <2> QED
      BY <1>3, <1>4, <1>6, <2>3
  <1>5. CASE ~Has(seen, LastFetched(n))
    <2>1. f = Diverged(s) /\ f \in Response
      BY <1>5, Responses
    <2> HIDE DEF f
    <2> QED
      BY <1>3, <1>5, <1>6, <2>1
  <1> QED
    BY <1>4, <1>5

(* A member's own optimes move, and nothing else. *)
LEMMA MyOpTimesType ==
    ASSUME Shape, NEW n \in Member, NEW l \in Oplog,
           NEW d \in Nat, NEW v \in Nat, d <= v, v <= Len(l),
           oplog' = [oplog EXCEPT ![n] = l],
           durable' = [durable EXCEPT ![n] = d], visible' = [visible EXCEPT ![n] = v],
           position' \in [Member -> [Member -> OpTime]],
           commitPoint' \in [Member -> OpTime], candidates' \in [Member -> SUBSET OpTime],
           snapshot' \in [Member -> OpTime],
           role' \in [Member -> Roles], term' = term, pendingTerm' = pendingTerm, lastVote' = lastVote,
           producer' = producer, fetcher' = fetcher, reported' = reported,
           buffer' \in [Member -> Oplog]
    PROVE  TypeInv'
  <1>2. TypeInv
    BY DEF Shape
  <1>3. /\ oplog' \in [Member -> Oplog] /\ durable' \in [Member -> Nat] /\ visible' \in [Member -> Nat]
        /\ \A m \in Member : durable'[m] <= visible'[m] /\ visible'[m] <= Len(oplog'[m])
    BY <1>2, TypeParts
  <1> QED
    BY <1>2, <1>3, TypeParts, TypePartsSuffice

LEMMA AppendIs ==
    ASSUME Shape, NEW n \in DataMember, NEW r, LogOp(n, r)
    PROVE  \E l \in Oplog, d \in Nat, v \in Nat :
              /\ l = Append(oplog[n], term[n]) /\ Len(l) = Len(oplog[n]) + 1 /\ Len(l) <= MaxOplog
              /\ Begins(oplog[n], l) /\ l[Len(l)] = term[n]
              /\ d <= v /\ v <= Len(l) /\ durable[n] <= d /\ visible[n] <= v
              /\ ~JournalLags => d = Len(l)
              /\ SetMyOpTimes(n, r, l, d, v)
  <1> DEFINE l == Append(oplog[n], term[n])
  <1> HIDE DEF l
  <1>1. /\ l \in Oplog /\ Len(l) = Len(oplog[n]) + 1 /\ Len(l) <= MaxOplog /\ Len(l) \in Nat
        /\ \A i \in 1..Len(oplog[n]) : l[i] = oplog[n][i]
        /\ l[Len(l)] = term[n]
    BY LogOpIs DEF l
  <1>2. PICK d \in Nat, v \in Nat :
                                /\ d <= v /\ v <= Len(l) /\ durable[n] <= d /\ visible[n] <= v
                                /\ ~JournalLags => d = Len(l)
                                /\ SetMyOpTimes(n, r, l, d, v)
    BY LogOpIs DEF l
  <1>3. Begins(oplog[n], l)
    <2>1. Len(oplog[n]) \in Nat
      BY MemberShape, BoundTypes
    <2> QED
      BY <1>1, <2>1 DEF Begins
  <1>4. l = Append(oplog[n], term[n])
    BY DEF l
  <1> QED
    BY <1>1, <1>2, <1>3, <1>4

LEMMA JournalIs ==
    ASSUME Shape, NEW n \in DataMember, Journal(n)
    PROVE  /\ SetMyOpTimes(n, role[n], oplog[n], Len(oplog[n]), Len(oplog[n]))
           /\ Len(oplog[n]) \in Nat /\ durable[n] < Len(oplog[n]) /\ role[n] # "Aborted"
           /\ oplog[n] \in Oplog /\ Len(oplog[n]) <= MaxOplog
           /\ role' = role /\ term' = term /\ pendingTerm' = pendingTerm /\ lastVote' = lastVote
           /\ buffer' = buffer /\ producer' = producer /\ fetcher' = fetcher /\ reported' = reported
           /\ crashes' = crashes
  <1>1. n \in Member
    BY BoundTypes
  <1>2. Len(oplog[n]) \in Nat /\ oplog[n] \in Oplog /\ Len(oplog[n]) <= MaxOplog
    BY <1>1, MemberShape, ComingShape
  <1> QED
    BY <1>2 DEF Journal, Alive, electionVars, fetchVars, faultVars

(* The beginning of what is buffered moves to the oplog. *)
LEMMA TakeIs ==
    ASSUME NEW a \in Oplog, NEW b \in Oplog, NEW k \in 1..Len(b)
    PROVE  /\ a \o Upto(b, k) \in Oplog /\ After(b, k) \in Oplog
           /\ (a \o Upto(b, k)) \o After(b, k) = a \o b
           /\ Len(a \o Upto(b, k)) = Len(a) + k /\ Len(a \o Upto(b, k)) <= Len(a \o b)
           /\ Begins(a, a \o Upto(b, k))
  <1>1. Len(a) \in Nat /\ Len(b) \in Nat /\ k \in Nat /\ k <= Len(b)
    BY DEF Oplog
  <1> DEFINE u == Upto(b, k)  w == After(b, k)
  <1>2. /\ u \in Oplog /\ Len(u) = k /\ \A i \in 1..k : u[i] = b[i]
        /\ w \in Oplog /\ Len(w) = Len(b) - k /\ \A i \in 1..Len(b) - k : w[i] = b[k + i]
    BY <1>1, Part DEF Oplog
  <1> HIDE DEF u, w
  <1>3. u \o w = b
    <2>0. /\ u \o w \in Seq(Terms) /\ Len(u \o w) = Len(u) + Len(w)
          /\ \A i \in 1..Len(u) : (u \o w)[i] = u[i]
          /\ \A i \in Len(u)+1..Len(u)+Len(w) : (u \o w)[i] = w[i - Len(u)]
      <3>1. u \in Seq(Terms) /\ w \in Seq(Terms)
        BY <1>2 DEF Oplog
      <3> QED
        BY <3>1, Concat
    <2>1. /\ u \o w \in Seq(Terms) /\ Len(u \o w) = Len(b)
          /\ \A i \in 1..k : (u \o w)[i] = u[i]
          /\ \A i \in k+1..k+Len(w) : (u \o w)[i] = w[i - k]
      BY <1>1, <1>2, <2>0
    <2>2. ASSUME NEW i \in 1..Len(u \o w) PROVE (u \o w)[i] = b[i]
      <3>1. CASE i <= k
        BY <1>1, <1>2, <2>1, <3>1
      <3>2. CASE i > k
        <4>1. i - k \in 1..Len(b) - k /\ k + (i - k) = i /\ i \in k+1..k+Len(w)
          BY <1>1, <1>2, <2>1, <3>2
        <4> QED
          BY <1>2, <2>1, <4>1
      <3> QED
        BY <1>1, <3>1, <3>2
    <2> QED
      BY <2>1, <2>2, SameSequence DEF Oplog
  <1>4. (a \o u) \o w = a \o (u \o w)
    <2>1. a \in Seq(Terms) /\ u \in Seq(Terms) /\ w \in Seq(Terms)
      BY <1>2 DEF Oplog
    <2> QED
      BY <2>1, ConcatAssociative, SMTT(60)
  <1>5. /\ a \o u \in Oplog /\ Len(a \o u) = Len(a) + k /\ Begins(a, a \o u)
        /\ Len(a \o b) = Len(a) + Len(b)
    BY <1>2, OplogConcat
  <1> QED
    BY <1>1, <1>2, <1>3, <1>4, <1>5 DEF u, w

(* A member applies the beginning of what it has buffered. *)
LEMMA ApplyBatchIs ==
    ASSUME Shape, NEW n \in DataMember, ApplyBatch(n)
    PROVE  \E l \in Oplog, rest \in Oplog, d \in Nat :
           /\ SetMyOpTimes(n, role[n], l, d, Len(l))
           /\ d <= Len(l) /\ Len(l) \in Nat /\ durable[n] <= d
           /\ ~JournalLags => d = Len(l)
           /\ Len(l) <= MaxOplog /\ Begins(oplog[n], l)
           /\ l \o rest = Fetched(n) /\ buffer' = [buffer EXCEPT ![n] = rest]
           /\ role' = role /\ term' = term /\ pendingTerm' = pendingTerm /\ lastVote' = lastVote
           /\ producer' = producer /\ fetcher' = fetcher /\ reported' = reported
           /\ crashes' = crashes /\ buffer[n] # <<>>
  <1>1. n \in Member
    BY BoundTypes
  <1>2. /\ Fetched(n) = oplog[n] \o buffer[n] /\ Len(Fetched(n)) <= MaxOplog
        /\ oplog[n] \in Oplog /\ buffer[n] \in Oplog
        /\ Len(Fetched(n)) = Len(oplog[n]) + Len(buffer[n])
        /\ Len(oplog[n]) \in Nat /\ Len(buffer[n]) \in Nat
        /\ durable[n] \in Nat /\ visible[n] \in Nat
        /\ durable[n] <= visible[n] /\ visible[n] <= Len(oplog[n])
    BY <1>1, MemberShape, ComingShape DEF Fetched
  <1>3. PICK k \in 1..Len(buffer[n]) :
          LET l == oplog[n] \o Upto(buffer[n], k) IN
          /\ SetMyOpTimes(n, role[n], l, Journaled(n, l), Len(l))
          /\ buffer' = [buffer EXCEPT ![n] = After(@, k)]
          /\ UNCHANGED <<electionVars, producer, fetcher, reported, faultVars>>
    BY DEF ApplyBatch
  <1> DEFINE l == oplog[n] \o Upto(buffer[n], k)
             rest == After(buffer[n], k)
             d == Journaled(n, l)
  <1>4. /\ l \in Oplog /\ rest \in Oplog /\ l \o rest = Fetched(n) /\ Begins(oplog[n], l)
        /\ Len(l) = Len(oplog[n]) + k /\ Len(l) <= Len(Fetched(n))
    BY <1>2, TakeIs
  <1>5. SetMyOpTimes(n, role[n], l, d, Len(l)) /\ buffer' = [buffer EXCEPT ![n] = rest]
    BY <1>3
  <1>6. /\ role' = role /\ term' = term /\ pendingTerm' = pendingTerm /\ lastVote' = lastVote
        /\ producer' = producer /\ fetcher' = fetcher /\ reported' = reported /\ crashes' = crashes
    BY <1>3 DEF electionVars, faultVars
  <1>7. d = IF JournalLags THEN durable[n] ELSE Len(l)
    BY DEF Journaled
  <1> HIDE DEF l, rest, d
  <1>8. Len(l) \in Nat /\ Len(l) <= MaxOplog /\ durable[n] <= Len(l)
    <2> DEFINE a == Len(oplog[n])  f == Len(Fetched(n))  x == Len(l)  u == durable[n]  v == visible[n]
    <2>1. /\ a \in Nat /\ x = a + k /\ x <= f /\ f <= MaxOplog /\ f = a + Len(buffer[n]) /\ Len(buffer[n]) \in Nat
          /\ u \in Nat /\ v \in Nat /\ u <= v /\ v <= a /\ k \in Nat /\ MaxOplog \in Nat
      <3>1. k \in Nat
        BY <1>2
      <3>2. MaxOplog \in Nat
        BY BoundTypes
      <3> QED
        BY <1>2, <1>4, <3>1, <3>2
    <2> HIDE DEF a, f, x, u, v
    <2>2. x \in Nat /\ x <= MaxOplog /\ u <= x
      BY <2>1
    <2> QED
      BY <2>2 DEF x, u
  <1>9. d \in Nat /\ d <= Len(l) /\ durable[n] <= d /\ (~JournalLags => d = Len(l))
    BY <1>2, <1>7, <1>8
  <1>10. buffer[n] # <<>>
    <2>1. 1 <= Len(buffer[n])
      BY <1>2
    <2> QED
      BY <2>1
  <1> QED
    BY <1>4, <1>5, <1>6, <1>8, <1>9, <1>10

(* A member rolls back to where it and its source agree. *)
LEMMA RollbackIs ==
    ASSUME Shape, NEW n \in DataMember, Rollback(n)
    PROVE  /\ role[n] = "Follower" /\ producer[n] = "Running" /\ fetcher[n].stage = "Diverged"
           /\ buffer[n] = <<>> /\ fetcher[n].source \in DataMember
           /\ term' = term /\ pendingTerm' = pendingTerm /\ lastVote' = lastVote /\ buffer' = buffer
           /\ producer' = producer /\ position' = position /\ commitPoint' = commitPoint
           /\ committed' = committed /\ crashes' = crashes
           /\ \/ /\ role' = [role EXCEPT ![n] = "Aborted"]
                 /\ oplog' = oplog /\ durable' = durable /\ visible' = visible
                 /\ fetcher' = fetcher /\ reported' = reported
                 /\ candidates' = candidates /\ snapshot' = snapshot
              \/ \E i \in 1..Len(oplog[n]) :
                 /\ i <= Len(oplog[fetcher[n].source]) /\ oplog[n][i] = oplog[fetcher[n].source][i]
                 /\ \A j \in 1..Len(oplog[n]) :
                       j <= Len(oplog[fetcher[n].source])
                          /\ oplog[n][j] = oplog[fetcher[n].source][j] => j <= i
                 /\ Upto(oplog[n], i) \in Oplog /\ Len(Upto(oplog[n], i)) = i
                 /\ Begins(Upto(oplog[n], i), oplog[n])
                 /\ oplog' = [oplog EXCEPT ![n] = Upto(oplog[n], i)]
                 /\ durable' = [durable EXCEPT ![n] = i] /\ visible' = [visible EXCEPT ![n] = i]
                 /\ snapshot' = [snapshot EXCEPT ![n] = Null]
                 /\ candidates' = [candidates EXCEPT ![n] =
                       KeptCandidates(candidates[n] \cup {Top(Upto(oplog[n], i))},
                                      Top(Upto(oplog[n], i)), commitPoint[n])]
                 /\ fetcher' = [fetcher EXCEPT ![n] = NoFetch] /\ Leave({n}) /\ role' = role
                 /\ ~ Less(Top(Upto(oplog[n], i)), commitPoint[n]) /\ i >= commitPoint[n].ts
  <1>1. n \in Member
    BY BoundTypes
  <1>2. fetcher[n].stage = "Diverged" => fetcher[n].source \in DataMember
    BY <1>1, MemberShape, ResponseIs
  <1> DEFINE s == fetcher[n].source
             i == CommonPoint(oplog[n], oplog[s])
             l == Upto(oplog[n], i)
  <1>3. /\ role[n] = "Follower" /\ producer[n] = "Running" /\ fetcher[n].stage = "Diverged"
        /\ buffer[n] = <<>>
        /\ term' = term /\ pendingTerm' = pendingTerm /\ lastVote' = lastVote /\ buffer' = buffer
        /\ producer' = producer /\ position' = position /\ commitPoint' = commitPoint
        /\ committed' = committed /\ crashes' = crashes
        /\ \/ /\ role' = [role EXCEPT ![n] = "Aborted"]
              /\ oplog' = oplog /\ durable' = durable /\ visible' = visible
              /\ fetcher' = fetcher /\ reported' = reported
              /\ candidates' = candidates /\ snapshot' = snapshot
           \/ /\ oplog' = [oplog EXCEPT ![n] = l]
              /\ durable' = [durable EXCEPT ![n] = i] /\ visible' = [visible EXCEPT ![n] = i]
              /\ snapshot' = [snapshot EXCEPT ![n] = Null]
              /\ candidates' = [candidates EXCEPT ![n] =
                                  KeptCandidates(candidates[n] \cup {Top(l)}, Top(l), commitPoint[n])]
              /\ fetcher' = [fetcher EXCEPT ![n] = NoFetch] /\ Leave({n}) /\ role' = role
              /\ ~ Less(Top(l), commitPoint[n]) /\ i >= commitPoint[n].ts
    BY DEF Rollback, logVars, faultVars
  <1>4. s \in DataMember /\ s \in Member
    BY <1>2, <1>3, BoundTypes
  <1> HIDE DEF s
  <1> DEFINE same == {j \in 1..Len(oplog[n]) : j <= Len(oplog[s]) /\ oplog[n][j] = oplog[s][j]}
  <1>5. i = CHOOSE j \in same : \A k \in same : k <= j
    BY DEF CommonPoint
  <1>6. i \in same /\ \A j \in same : j <= i
    <2>1. /\ Len(oplog[n]) \in Nat /\ Len(oplog[s]) \in Nat
          /\ 1 <= Len(oplog[n]) /\ 1 <= Len(oplog[s]) /\ oplog[n][1] = 0 /\ oplog[s][1] = 0
      <3>1. /\ durable[n] >= 1 /\ oplog[n][1] = 0 /\ durable[s] >= 1 /\ oplog[s][1] = 0
        BY <1>4 DEF Shape, BeginInv
      <3>2. /\ durable[n] \in Nat /\ visible[n] \in Nat /\ Len(oplog[n]) \in Nat
            /\ durable[n] <= visible[n] /\ visible[n] <= Len(oplog[n])
            /\ durable[s] \in Nat /\ visible[s] \in Nat /\ Len(oplog[s]) \in Nat
            /\ durable[s] <= visible[s] /\ visible[s] <= Len(oplog[s])
        BY <1>1, <1>4, MemberShape
      <3> QED
        BY <3>1, <3>2
    <2>2. 1 \in same
      BY <2>1
    <2> DEFINE gaps == {Len(oplog[n]) - j : j \in same}
    <2>3. gaps \in SUBSET Nat /\ gaps # {}
      BY <2>1, <2>2
    <2>4. PICK g \in gaps : \A y \in gaps : g <= y
      <3> HIDE DEF gaps
      <3> QED
        BY <2>3, LeastNatural
    <2>5. PICK j \in same : g = Len(oplog[n]) - j
      BY <2>4
    <2>6. \A k \in same : k <= j
      <3> TAKE k \in same
      <3>1. g <= Len(oplog[n]) - k
        BY <2>4
      <3>2. k \in Int /\ j \in Int /\ Len(oplog[n]) \in Int
        BY <2>1
      <3> QED
        BY <2>5, <3>1, <3>2
    <2>7. \E x \in same : \A k \in same : k <= x
      BY <2>6
    <2> HIDE DEF same, i
    <2> QED
      BY <1>5, <2>7
  <1> HIDE DEF i
  <1>7. /\ i \in 1..Len(oplog[n]) /\ i <= Len(oplog[s]) /\ oplog[n][i] = oplog[s][i]
        /\ \A j \in 1..Len(oplog[n]) : j <= Len(oplog[s]) /\ oplog[n][j] = oplog[s][j] => j <= i
    BY <1>6
  <1>8. l \in Oplog /\ Len(l) = i /\ Begins(l, oplog[n])
    <2>1. oplog[n] \in Seq(Terms) /\ i \in Nat /\ i <= Len(oplog[n])
      BY <1>1, <1>7, MemberShape DEF Oplog
    <2> DEFINE o == oplog[n]
    <2> HIDE DEF o
    <2>2. Upto(o, i) \in Seq(Terms) /\ Len(Upto(o, i)) = i /\ Begins(Upto(o, i), o)
      BY <2>1, Part DEF o
    <2> QED
      BY <2>2 DEF o, Oplog
  <1>9. CASE role' = [role EXCEPT ![n] = "Aborted"] /\ fetcher' = fetcher /\ reported' = reported
             /\ oplog' = oplog /\ durable' = durable /\ visible' = visible
             /\ candidates' = candidates /\ snapshot' = snapshot
    BY <1>3, <1>4, <1>9 DEF s
  <1>10. CASE /\ oplog' = [oplog EXCEPT ![n] = l]
              /\ durable' = [durable EXCEPT ![n] = i] /\ visible' = [visible EXCEPT ![n] = i]
              /\ snapshot' = [snapshot EXCEPT ![n] = Null]
              /\ candidates' = [candidates EXCEPT ![n] =
                                  KeptCandidates(candidates[n] \cup {Top(l)}, Top(l), commitPoint[n])]
              /\ fetcher' = [fetcher EXCEPT ![n] = NoFetch] /\ Leave({n}) /\ role' = role
              /\ ~ Less(Top(l), commitPoint[n]) /\ i >= commitPoint[n].ts
    <2>1. /\ role[n] = "Follower" /\ producer[n] = "Running" /\ fetcher[n].stage = "Diverged"
          /\ buffer[n] = <<>> /\ fetcher[n].source \in DataMember
          /\ term' = term /\ pendingTerm' = pendingTerm /\ lastVote' = lastVote /\ buffer' = buffer
          /\ producer' = producer /\ position' = position /\ commitPoint' = commitPoint
          /\ committed' = committed /\ crashes' = crashes
      BY <1>3, <1>4 DEF s
    <2>2. \E x \in 1..Len(oplog[n]) :
                 /\ x <= Len(oplog[s]) /\ oplog[n][x] = oplog[s][x]
                 /\ \A j \in 1..Len(oplog[n]) :
                       j <= Len(oplog[s]) /\ oplog[n][j] = oplog[s][j] => j <= x
                 /\ Upto(oplog[n], x) \in Oplog /\ Len(Upto(oplog[n], x)) = x
                 /\ Begins(Upto(oplog[n], x), oplog[n])
                 /\ oplog' = [oplog EXCEPT ![n] = Upto(oplog[n], x)]
                 /\ durable' = [durable EXCEPT ![n] = x] /\ visible' = [visible EXCEPT ![n] = x]
                 /\ snapshot' = [snapshot EXCEPT ![n] = Null]
                 /\ candidates' = [candidates EXCEPT ![n] =
                       KeptCandidates(candidates[n] \cup {Top(Upto(oplog[n], x))},
                                      Top(Upto(oplog[n], x)), commitPoint[n])]
                 /\ fetcher' = [fetcher EXCEPT ![n] = NoFetch] /\ Leave({n}) /\ role' = role
                 /\ ~ Less(Top(Upto(oplog[n], x)), commitPoint[n]) /\ x >= commitPoint[n].ts
      <3> i \in 1..Len(oplog[n])
        BY <1>7
      <3> WITNESS i \in 1..Len(oplog[n])
      <3> QED
        BY <1>7, <1>8, <1>10
    <2> QED
      BY <2>1, <2>2 DEF s
  <1> QED
    BY <1>3, <1>9, <1>10

LEMMA KeptType ==
    ASSUME NEW cand \in SUBSET OpTime, NEW top \in OpTime, NEW c \in OpTime
    PROVE  KeptCandidates(cand, top, c) \in SUBSET OpTime /\ KeptCandidates(cand, top, c) \subseteq cand
  BY StableType DEF KeptCandidates

LEMMA ReportIs ==
    ASSUME Shape, NEW m \in Member, NEW r \in Reports(m)
    PROVE  /\ r.position \in OpTime
           /\ \/ r.position = Reached(m) /\ r.term = term[m]
              \/ r.position \in reported[m] /\ r.term = r.position.term
  <1>1. Reached(m) \in OpTime /\ reported[m] \in SUBSET OpTime
    BY ReachedIs, MemberShape
  <1> QED
    BY <1>1 DEF Reports

LEMMA ReceivePositionIs ==
    ASSUME Shape, NEW n \in DataMember, NEW m \in Member, NEW r \in Reports(m), ReceivePosition(n, m, r)
    PROVE  \E pos \in [Member -> OpTime], nr \in Roles :
           /\ pos = [position[n] EXCEPT ![m] = r.position]
           /\ nr = (IF r.term > term[n] THEN "SteppingDown" ELSE role[n])
           /\ IsPrimary(role[n]) /\ m # n /\ r.position.term = term[n] /\ r.term \in Terms
           /\ UpdateTerm(n, r.term)
           /\ position' = [position EXCEPT ![n] = pos]
           /\ SetCommitPoint(n, UpdateLastCommittedOpTime(n, nr, oplog[n], pos), candidates[n], FALSE)
           /\ UpdateLastCommittedOpTime(n, nr, oplog[n], pos) \in OpTime
           /\ Declare(n, oplog[n], UpdateLastCommittedOpTime(n, nr, oplog[n], pos))
           /\ lastVote' = lastVote /\ oplog' = oplog /\ durable' = durable /\ visible' = visible
           /\ buffer' = buffer /\ producer' = producer /\ fetcher' = fetcher /\ crashes' = crashes
  <1> DEFINE pos == [position[n] EXCEPT ![m] = r.position]
             nr == IF r.term > term[n] THEN "SteppingDown" ELSE role[n]
  <1>1. n \in Member
    BY BoundTypes
  <1>2. /\ IsPrimary(role[n]) /\ m # n /\ r.position.term = term[n]
        /\ UpdateTerm(n, r.term)
        /\ position' = [position EXCEPT ![n] = pos]
        /\ SetCommitPoint(n, UpdateLastCommittedOpTime(n, nr, oplog[n], pos), candidates[n], FALSE)
        /\ Declare(n, oplog[n], UpdateLastCommittedOpTime(n, nr, oplog[n], pos))
        /\ lastVote' = lastVote /\ oplog' = oplog /\ durable' = durable /\ visible' = visible
        /\ buffer' = buffer /\ producer' = producer /\ fetcher' = fetcher /\ crashes' = crashes
    BY DEF ReceivePosition, logVars, fetchVars, faultVars
  <1>3. r.position \in OpTime /\ r.term \in Terms
    BY <1>1, <1>2, ReportIs, MemberShape
  <1>4. pos \in [Member -> OpTime]
    BY <1>1, <1>3, MemberShape
  <1>5. pos = [position[n] EXCEPT ![m] = r.position] /\ nr = (IF r.term > term[n] THEN "SteppingDown" ELSE role[n])
    OBVIOUS
  <1>7. nr \in Roles
    BY <1>1, MemberShape DEF Roles
  <1> HIDE DEF pos, nr
  <1>6. UpdateLastCommittedOpTime(n, nr, oplog[n], pos) \in OpTime
    <2>1. oplog[n] \in Oplog /\ Len(oplog[n]) <= MaxOplog
      BY <1>1, ComingShape, MemberShape
    <2> DEFINE l == oplog[n]
    <2> HIDE DEF l
    <2>2. UpdateLastCommittedOpTime(n, nr, l, pos) \in OpTime
      BY <1>1, <1>4, <2>1, UpdateIs DEF l
    <2> QED
      BY <2>2 DEF l
  <1> QED
    BY <1>2, <1>3, <1>4, <1>5, <1>6, <1>7

LEMMA ElectIs ==
    ASSUME Shape, NEW n \in DataMember, NEW Q \in SUBSET Member, Elect(n, Q)
    PROVE  /\ n \in Q /\ role[n] = "Follower" /\ term[n] + 1 \in Terms
           /\ Cardinality(Q) >= VoteMajority
           /\ \A v \in Q : lastVote[v] < term[n] + 1 /\ term[v] <= term[n] + 1
           /\ \A v \in Q : role[v] \in {"Follower", "SteppingDown"}
           /\ \A v \in Q : v # n => AtMost(LastApplied(v), LastApplied(n))
           /\ role' \in [Member -> Roles] /\ role'[n] = "LeaderElect"
           /\ \A m \in Member \ {n} : role'[m] = role[m]
           /\ term' \in [Member -> Terms] /\ pendingTerm' \in [Member -> Terms]
           /\ term'[n] = term[n] + 1
           /\ \A m \in Member : m \in Q /\ role[m] = "Follower" => term'[m] = term[n] + 1
           /\ \A m \in Member : ~(m \in Q /\ role[m] = "Follower") => term'[m] = term[m]
           /\ \A m \in Member : pendingTerm'[m] >= pendingTerm[m]
           /\ \A m \in Q : role[m] = "SteppingDown" => term[m] >= term[n] + 1 \/ pendingTerm'[m] >= term[n] + 1
           /\ lastVote' \in [Member -> Terms]
           /\ \A m \in Q : lastVote'[m] = term[n] + 1
           /\ \A m \in Member \ Q : lastVote'[m] = lastVote[m]
           /\ position' \in [Member -> [Member -> OpTime]] /\ position'[n] = NoPositions
           /\ \A m \in Member \ {n} : position'[m] = position[m]
           /\ durable' \in [Member -> Nat] /\ visible' \in [Member -> Nat]
           /\ \A m \in Q : durable'[m] = Len(oplog[m]) /\ visible'[m] = Len(oplog[m])
           /\ \A m \in Member \ Q : durable'[m] = durable[m] /\ visible'[m] = visible[m]
           /\ reported' \in [Member -> SUBSET OpTime]
           /\ \A m \in Member : reported[m] \subseteq reported'[m]
           /\ \A m \in Member : \A o \in reported'[m] :
                 \/ o \in reported[m]
                 \/ /\ m \in Q /\ role[m] = "Follower" /\ term[m] < term[n] + 1
                    /\ o = Reached(m) /\ o.term = term[m]
           /\ oplog' = oplog /\ buffer' = buffer /\ producer' = producer /\ fetcher' = fetcher
           /\ commitPoint' = commitPoint /\ candidates' = candidates /\ snapshot' = snapshot
           /\ committed' = committed /\ crashes' = crashes
  <1> DEFINE t == term[n] + 1
             taking == {m \in Q : role[m] = "Follower"}
             pending == [m \in Member |->
                          IF m \in Q \ taking /\ t > term[m] /\ t > pendingTerm[m] THEN t ELSE pendingTerm[m]]
  <1>1. n \in Member
    BY BoundTypes
  <1>2. /\ n \in Q /\ role[n] = "Follower" /\ lastVote[n] < t /\ t <= MaxTerm
        /\ Cardinality(Q) >= VoteMajority
        /\ \A v \in Q \ {n} : WouldVote(v, n, t)
        /\ role' = [role EXCEPT ![n] = "LeaderElect"]
        /\ term' = [m \in Member |-> IF m \in taking THEN t ELSE term[m]]
        /\ lastVote' = [m \in Member |-> IF m \in Q THEN t ELSE lastVote[m]]
        /\ position' = [position EXCEPT ![n] = NoPositions]
        /\ durable' = [m \in Member |-> IF m \in Q THEN Len(oplog[m]) ELSE durable[m]]
        /\ visible' = [m \in Member |-> IF m \in Q THEN Len(oplog[m]) ELSE visible[m]]
        /\ pendingTerm' = pending
        /\ Leave({m \in taking : term[m] < t})
        /\ oplog' = oplog /\ buffer' = buffer /\ producer' = producer /\ fetcher' = fetcher
        /\ commitPoint' = commitPoint /\ candidates' = candidates /\ snapshot' = snapshot
        /\ committed' = committed /\ crashes' = crashes
    BY DEF Elect, fetchVars, commitVars, faultVars
  <1>3. \A m \in Member : /\ term[m] \in Terms /\ term[m] \in Int
                          /\ pendingTerm[m] \in Terms /\ pendingTerm[m] \in Int
    BY MemberShape, BoundTypes DEF Terms
  <1>4. t \in Terms /\ t \in Int /\ term[n] <= t
    BY <1>1, <1>2, <1>3, BoundTypes DEF Terms
  <1> HIDE DEF t
  <1>5. \A v \in Q : lastVote[v] < t /\ term[v] <= t /\ role[v] \in {"Follower", "SteppingDown"}
    BY <1>2, <1>4 DEF WouldVote
  <1>6. \A v \in Q : v # n => AtMost(LastApplied(v), LastApplied(n))
    BY <1>2 DEF WouldVote
  <1>7. /\ term' \in [Member -> Terms]
        /\ \A m \in Member : m \in Q /\ role[m] = "Follower" => term'[m] = t
        /\ \A m \in Member : ~(m \in Q /\ role[m] = "Follower") => term'[m] = term[m]
    BY <1>2, <1>3, <1>4
  <1>8. /\ pendingTerm' \in [Member -> Terms]
        /\ \A m \in Member : pendingTerm'[m] =
              IF m \in Q \ taking /\ t > term[m] /\ t > pendingTerm[m] THEN t ELSE pendingTerm[m]
    BY <1>2, <1>3, <1>4
  <1>9. \A m \in Member : pendingTerm'[m] >= pendingTerm[m]
    BY <1>3, <1>4, <1>8
  <1>10. \A m \in Q : role[m] = "SteppingDown" => term[m] >= t \/ pendingTerm'[m] >= t
    BY <1>3, <1>4, <1>8
  <1>12. /\ reported' \in [Member -> SUBSET OpTime]
         /\ \A m \in Member : reported[m] \subseteq reported'[m]
         /\ \A m \in Member : \A o \in reported'[m] :
                 \/ o \in reported[m]
                 \/ /\ m \in Q /\ role[m] = "Follower" /\ term[m] < t
                    /\ o = Reached(m) /\ o.term = term[m]
    <2> DEFINE S == {m \in taking : term[m] < t}
    <2>1. Leave(S)
      BY <1>2
    <2>2. \A m \in S : m \in Q /\ role[m] = "Follower" /\ term[m] < t
      OBVIOUS
    <2> HIDE DEF S
    <2>3. /\ reported' \in [Member -> SUBSET OpTime]
          /\ \A m \in Member : reported[m] \subseteq reported'[m]
          /\ \A m \in Member : \A o \in reported'[m] :
                 o \in reported[m] \/ (m \in S /\ o = Reached(m) /\ o.term = term[m])
      BY <2>1, LeaveIs
    <2> QED
      BY <2>2, <2>3
  <1>13. TypeInv
    BY DEF Shape
  <1>14. \A m \in Member : Len(oplog[m]) \in Nat
    BY MemberShape
  <1>15. /\ lastVote' \in [Member -> Terms]
         /\ \A m \in Q : lastVote'[m] = t
         /\ \A m \in Member \ Q : lastVote'[m] = lastVote[m]
    BY <1>2, <1>4, <1>13, TypeParts
  <1>16. /\ durable' \in [Member -> Nat] /\ visible' \in [Member -> Nat]
         /\ \A m \in Q : durable'[m] = Len(oplog[m]) /\ visible'[m] = Len(oplog[m])
         /\ \A m \in Member \ Q : durable'[m] = durable[m] /\ visible'[m] = visible[m]
    BY <1>2, <1>13, <1>14, TypeParts
  <1>17. /\ role' \in [Member -> Roles] /\ role'[n] = "LeaderElect"
         /\ \A m \in Member \ {n} : role'[m] = role[m]
    BY <1>1, <1>2, <1>13, TypeParts DEF Roles
  <1>18. /\ position' \in [Member -> [Member -> OpTime]] /\ position'[n] = NoPositions
         /\ \A m \in Member \ {n} : position'[m] = position[m]
    BY <1>1, <1>2, <1>13, TypeParts, NoPositionsType
  <1> HIDE DEF taking
  <1> QED
    BY <1>1, <1>2, <1>4, <1>5, <1>6, <1>7, <1>8, <1>9, <1>10, <1>12, <1>15, <1>16, <1>17, <1>18 DEF t

LEMMA ElectType ==
    ASSUME Shape, NEW n \in DataMember, NEW Q \in SUBSET Member, Elect(n, Q)
    PROVE  TypeInv'
  <1>1. TypeInv
    BY DEF Shape
  <1>2. /\ role' \in [Member -> Roles]
        /\ term' \in [Member -> Terms] /\ pendingTerm' \in [Member -> Terms]
        /\ lastVote' \in [Member -> Terms] /\ reported' \in [Member -> SUBSET OpTime]
        /\ durable' \in [Member -> Nat] /\ visible' \in [Member -> Nat]
        /\ \A m \in Q : durable'[m] = Len(oplog[m]) /\ visible'[m] = Len(oplog[m])
        /\ \A m \in Member \ Q : durable'[m] = durable[m] /\ visible'[m] = visible[m]
        /\ position' \in [Member -> [Member -> OpTime]]
        /\ oplog' = oplog /\ buffer' = buffer /\ producer' = producer /\ fetcher' = fetcher
        /\ commitPoint' = commitPoint /\ candidates' = candidates /\ snapshot' = snapshot
    BY ElectIs
  <1>3. \A m \in Member : Len(oplog[m]) \in Nat
    BY MemberShape
  <1>4. ASSUME NEW m \in Member PROVE durable'[m] <= visible'[m] /\ visible'[m] <= Len(oplog'[m])
    <2>1. durable[m] <= visible[m] /\ visible[m] <= Len(oplog[m]) /\ oplog'[m] = oplog[m]
      BY <1>1, <1>2, TypeParts
    <2>2. Len(oplog[m]) <= Len(oplog[m])
      BY <1>3
    <2>3. CASE m \in Q
      BY <1>2, <2>1, <2>2, <2>3
    <2>4. CASE m \notin Q
      BY <1>2, <2>1, <2>4
    <2> QED
      BY <2>3, <2>4
  <1> QED
    BY <1>1, <1>2, <1>4, TypeParts, TypePartsSuffice

LEMMA CrashIs ==
    ASSUME Shape, NEW n \in Member, Crash(n)
    PROVE  \E l \in Oplog :
           /\ l = Upto(oplog[n], durable[n]) /\ Len(l) = durable[n] /\ Begins(l, oplog[n])
           /\ Top(l) \in OpTime /\ Len(l) <= MaxOplog
           /\ crashes < MaxCrashes /\ role' = [role EXCEPT ![n] = "Follower"]
           /\ term' = [term EXCEPT ![n] = IF Top(l).term > lastVote[n] THEN Top(l).term ELSE lastVote[n]]
           /\ pendingTerm' = [pendingTerm EXCEPT ![n] = 0]
           /\ oplog' = [oplog EXCEPT ![n] = l] /\ visible' = [visible EXCEPT ![n] = Len(l)]
           /\ buffer' = [buffer EXCEPT ![n] = <<>>] /\ producer' = [producer EXCEPT ![n] = "Running"]
           /\ fetcher' = [fetcher EXCEPT ![n] = NoFetch]
           /\ position' = [position EXCEPT ![n] = NoPositions] /\ Leave({n})
           /\ commitPoint' = [commitPoint EXCEPT ![n] = Null]
           /\ candidates' = [candidates EXCEPT ![n] = StartCandidates(n, l)]
           /\ snapshot' = [snapshot EXCEPT ![n] = Null]
           /\ lastVote' = lastVote /\ durable' = durable /\ committed' = committed
  <1> DEFINE o == oplog[n]  d == durable[n]  l == Upto(o, d)
  <1>1. o \in Seq(Terms) /\ d \in Nat /\ d <= Len(o) /\ Len(o) <= MaxOplog /\ Len(o) \in Nat
    <2>1. /\ oplog[n] \in Oplog /\ durable[n] \in Nat /\ visible[n] \in Nat /\ Len(oplog[n]) \in Nat
          /\ durable[n] <= visible[n] /\ visible[n] <= Len(oplog[n]) /\ Len(oplog[n]) <= MaxOplog
      BY MemberShape, ComingShape
    <2> QED
      BY <2>1 DEF Oplog
  <1>2. /\ crashes < MaxCrashes /\ role' = [role EXCEPT ![n] = "Follower"]
        /\ term' = [term EXCEPT ![n] = IF Top(l).term > lastVote[n] THEN Top(l).term ELSE lastVote[n]]
        /\ pendingTerm' = [pendingTerm EXCEPT ![n] = 0]
        /\ oplog' = [oplog EXCEPT ![n] = l] /\ visible' = [visible EXCEPT ![n] = Len(l)]
        /\ buffer' = [buffer EXCEPT ![n] = <<>>] /\ producer' = [producer EXCEPT ![n] = "Running"]
        /\ fetcher' = [fetcher EXCEPT ![n] = NoFetch]
        /\ position' = [position EXCEPT ![n] = NoPositions] /\ Leave({n})
        /\ commitPoint' = [commitPoint EXCEPT ![n] = Null]
        /\ candidates' = [candidates EXCEPT ![n] = StartCandidates(n, l)]
        /\ snapshot' = [snapshot EXCEPT ![n] = Null]
        /\ lastVote' = lastVote /\ durable' = durable /\ committed' = committed
    BY DEF Crash
  <1>3. l \in Oplog /\ Len(l) = d /\ Begins(l, o)
    <2> HIDE DEF o, d
    <2> QED
      BY <1>1, Part DEF Oplog
  <1>4. Len(l) <= MaxOplog
    <2> HIDE DEF l, o, d
    <2> QED
      BY <1>1, <1>3, BoundTypes
  <1>5. l = Upto(oplog[n], durable[n])
    OBVIOUS
  <1> HIDE DEF l
  <1>6. Top(l) \in OpTime
    BY <1>3, <1>4, TopType
  <1> QED
    BY <1>2, <1>3, <1>4, <1>5, <1>6

LEMMA TopTerm ==
    ASSUME NEW l \in Oplog, Len(l) <= MaxOplog
    PROVE  Top(l).term \in Terms \cup {-1} /\ Top(l).term \in Int /\ (Top(l).term = -1 => l = <<>>)
  <1>1. CASE l = <<>>
    BY <1>1, TopType, NullType, BoundTypes DEF Terms
  <1>2. CASE l # <<>>
    <2>1. Top(l).term = l[Len(l)] /\ Len(l) \in 1..Len(l)
      BY <1>2, TopType DEF Oplog
    <2>2. l[Len(l)] \in Terms
      BY <2>1 DEF Oplog
    <2> QED
      BY <2>1, <2>2, BoundTypes DEF Terms
  <1> QED
    BY <1>1, <1>2

LEMMA CrashType ==
    ASSUME Shape, NEW n \in Member, Crash(n)
    PROVE  TypeInv'
  <1>1. TypeInv
    BY DEF Shape
  <1>2. PICK l \in Oplog :
           /\ Len(l) = durable[n] /\ Top(l) \in OpTime /\ Len(l) <= MaxOplog
           /\ role' = [role EXCEPT ![n] = "Follower"]
           /\ term' = [term EXCEPT ![n] = IF Top(l).term > lastVote[n] THEN Top(l).term ELSE lastVote[n]]
           /\ pendingTerm' = [pendingTerm EXCEPT ![n] = 0]
           /\ oplog' = [oplog EXCEPT ![n] = l] /\ visible' = [visible EXCEPT ![n] = Len(l)]
           /\ buffer' = [buffer EXCEPT ![n] = <<>>] /\ producer' = [producer EXCEPT ![n] = "Running"]
           /\ fetcher' = [fetcher EXCEPT ![n] = NoFetch]
           /\ position' = [position EXCEPT ![n] = NoPositions] /\ Leave({n})
           /\ commitPoint' = [commitPoint EXCEPT ![n] = Null]
           /\ candidates' = [candidates EXCEPT ![n] = StartCandidates(n, l)]
           /\ snapshot' = [snapshot EXCEPT ![n] = Null]
           /\ lastVote' = lastVote /\ durable' = durable
    BY CrashIs
  <1>3. reported' \in [Member -> SUBSET OpTime]
    BY <1>2, LeaveIs
  <1>4. (IF Top(l).term > lastVote[n] THEN Top(l).term ELSE lastVote[n]) \in Terms
    <2>1. lastVote[n] \in Terms /\ lastVote[n] \in Int /\ lastVote[n] >= 0
      BY MemberShape, BoundTypes DEF Terms
    <2>2. Top(l).term \in Terms \cup {-1} /\ Top(l).term \in Int
      BY <1>2, TopTerm
    <2> QED
      BY <2>1, <2>2
  <1>5. /\ role' \in [Member -> Roles] /\ term' \in [Member -> Terms] /\ pendingTerm' \in [Member -> Terms]
        /\ producer' \in [Member -> Producers]
    <2>1. 0 \in Terms
      BY BoundTypes DEF Terms
    <2> QED
      BY <1>1, <1>2, <1>4, <2>1, TypeParts DEF Roles, Producers
  <1>6. /\ oplog' \in [Member -> Oplog] /\ buffer' \in [Member -> Oplog] /\ visible' \in [Member -> Nat]
        /\ durable' \in [Member -> Nat]
        /\ \A m \in Member : durable'[m] <= visible'[m] /\ visible'[m] <= Len(oplog'[m])
    <2>1. <<>> \in Oplog /\ Len(l) \in Nat
      BY DEF Oplog
    <2> QED
      BY <1>1, <1>2, <2>1, TypeParts
  <1>7. /\ fetcher' \in [Member -> Response] /\ position' \in [Member -> [Member -> OpTime]]
        /\ commitPoint' \in [Member -> OpTime] /\ snapshot' \in [Member -> OpTime]
        /\ candidates' \in [Member -> SUBSET OpTime]
    BY <1>1, <1>2, TypeParts, Responses, NoPositionsType, NullType DEF StartCandidates
  <1> QED
    BY <1>1, <1>2, <1>3, <1>5, <1>6, <1>7, TypeParts, TypePartsSuffice

LEMMA TypeStep ==
    ASSUME Shape, Next
    PROVE  TypeInv'
  <1>0. TypeInv /\ \A n \in DataMember : n \in Member
    BY BoundTypes DEF Shape
  <1> DEFINE P == TypeInv'
  <1>1. ASSUME NEW n \in DataMember, NEW Q \in SUBSET Member, Elect(n, Q) PROVE P
    BY <1>1, ElectType
  <1>2. ASSUME NEW n \in DataMember, EnterDrainMode(n) PROVE P
    <2>1. producer' \in [Member -> Producers]
      BY <1>0, <1>2, TypeParts DEF EnterDrainMode, Producers
    <2> QED
      BY <1>0, <1>2, <2>1, TypeParts, TypePartsSuffice
         DEF EnterDrainMode, electionVars, logVars, positionVars, commitVars
  <1>3. ASSUME NEW n \in DataMember, SignalDrainComplete(n) PROVE P
    <2>1. /\ LogOp(n, "Master") /\ role' = [role EXCEPT ![n] = "Master"]
          /\ term' = term /\ pendingTerm' = pendingTerm /\ lastVote' = lastVote /\ buffer' = buffer
          /\ producer' = producer /\ fetcher' = fetcher /\ reported' = reported
      BY <1>3 DEF SignalDrainComplete, fetchVars
    <2> DEFINE r == "Master"
    <2>5. LogOp(n, r)
      BY <2>1
    <2> HIDE DEF r
    <2>2. PICK l \in Oplog, d \in Nat, v \in Nat :
             Len(l) <= MaxOplog /\ d <= v /\ v <= Len(l) /\ SetMyOpTimes(n, r, l, d, v)
      BY <2>5, AppendIs
    <2>3. role' \in [Member -> Roles] /\ buffer' \in [Member -> Oplog]
      BY <1>0, <2>1, TypeParts DEF Roles
    <2>4. /\ oplog' = [oplog EXCEPT ![n] = l]
          /\ durable' = [durable EXCEPT ![n] = d] /\ visible' = [visible EXCEPT ![n] = v]
          /\ position' \in [Member -> [Member -> OpTime]]
          /\ commitPoint' \in [Member -> OpTime] /\ candidates' \in [Member -> SUBSET OpTime]
          /\ snapshot' \in [Member -> OpTime]
      BY <1>0, <2>2, SetMyTypes
    <2> QED
      BY <1>0, <2>1, <2>2, <2>3, <2>4, MyOpTimesType
  <1>4. ASSUME NEW n \in DataMember, StepDownSelf(n) PROVE P
    <2>1. role' \in [Member -> Roles]
      BY <1>0, <1>4, TypeParts DEF StepDownSelf, Roles
    <2> QED
      BY <1>0, <1>4, <2>1, TypeParts, TypePartsSuffice
         DEF StepDownSelf, fetchVars, logVars, positionVars, commitVars
  <1>5. ASSUME NEW n \in DataMember, StepDownFinish(n) PROVE P
    <2>1. /\ role' = [role EXCEPT ![n] = "Follower"]
          /\ term' = [term EXCEPT ![n] = IF pendingTerm[n] > term[n] THEN pendingTerm[n] ELSE term[n]]
          /\ Leave({n}) /\ pendingTerm' = [pendingTerm EXCEPT ![n] = 0]
          /\ position' = [position EXCEPT ![n] = NoPositions]
          /\ producer' = [producer EXCEPT ![n] = "Starting"]
      BY <1>5 DEF StepDownFinish
    <2>2. reported' \in [Member -> SUBSET OpTime]
      BY <2>1, LeaveIs
    <2>3. 0 \in Terms
      BY BoundTypes DEF Terms
    <2>4. /\ role' \in [Member -> Roles] /\ term' \in [Member -> Terms] /\ pendingTerm' \in [Member -> Terms]
          /\ position' \in [Member -> [Member -> OpTime]] /\ producer' \in [Member -> Producers]
      BY <1>0, <2>1, <2>3, TypeParts, NoPositionsType DEF Roles, Producers
    <2> QED
      BY <1>0, <1>5, <2>2, <2>4, TypeParts, TypePartsSuffice
         DEF StepDownFinish, logVars, commitVars
  <1>6. ASSUME NEW n \in DataMember, StartProducer(n) PROVE P
    <2>1. producer' \in [Member -> Producers] /\ fetcher' \in [Member -> Response]
      BY <1>0, <1>6, TypeParts, Responses DEF StartProducer, Producers
    <2> QED
      BY <1>0, <1>6, <2>1, TypeParts, TypePartsSuffice
         DEF StartProducer, electionVars, logVars, positionVars, commitVars
  <1>7. ASSUME NEW n \in DataMember, AdvanceCommitPoint(n) PROVE P
    <2> DEFINE f == fetcher[n]
               c == AdvanceLastCommittedOpTime(n, role[n], oplog[n], f.committed)
    <2>1. /\ f.stage = "Checked" /\ SetCommitPoint(n, c, candidates[n], FALSE)
          /\ fetcher' = [fetcher EXCEPT ![n] =
                          IF f.docs = <<>> /\ f.term <= term[n] THEN NoFetch ELSE Advanced(f.docs, f.term)]
      BY <1>7 DEF AdvanceCommitPoint
    <2>2. f \in Response /\ candidates[n] \in SUBSET OpTime /\ oplog[n] \in Oplog /\ Len(oplog[n]) <= MaxOplog
          /\ commitPoint[n] \in OpTime /\ term[n] \in Terms
      BY <1>0, MemberShape, ComingShape
    <2>3. f.docs \in Oplog /\ f.term \in Terms /\ f.committed \in OpTime
      BY <2>1, <2>2, ResponseIs
    <2>4. c \in OpTime
      <3> DEFINE l == oplog[n]  o == f.committed  r == role[n]
      <3>1. l \in Oplog /\ o \in OpTime /\ Len(l) <= MaxOplog /\ c = AdvanceLastCommittedOpTime(n, r, l, o)
        BY <2>2, <2>3
      <3> HIDE DEF c, l, o, r
      <3> QED
        BY <1>0, <2>2, <3>1, AdvanceIs
    <2>5. fetcher' \in [Member -> Response]
      BY <1>0, <2>1, <2>3, TypeParts, Responses
    <2>6. /\ commitPoint' \in [Member -> OpTime] /\ candidates' \in [Member -> SUBSET OpTime]
          /\ snapshot' \in [Member -> OpTime]
      <3> HIDE DEF c
      <3> QED
        BY <1>0, <2>1, <2>2, <2>4, SetCommitPointIs
    <2> QED
      BY <1>0, <1>7, <2>5, <2>6, TypeParts, TypePartsSuffice
         DEF AdvanceCommitPoint, electionVars, logVars, positionVars
  <1>8. ASSUME NEW n \in DataMember, ProcessBatch(n) PROVE P
    <2> DEFINE f == fetcher[n]
               waits == f.term > term[n] /\ role[n] \in {"LeaderElect", "Master"}
               docs == IF waits THEN <<>> ELSE f.docs
    <2>1. /\ f.stage = "Advanced" /\ UpdateTerm(n, f.term) /\ EnqueueDocuments(n, docs)
          /\ fetcher' = [fetcher EXCEPT ![n] = IF waits THEN Waiting ELSE NoFetch]
      BY <1>8 DEF ProcessBatch
    <2>2. f \in Response /\ buffer[n] \in Oplog
      BY <1>0, MemberShape
    <2>3. f.docs \in Oplog /\ f.term \in Terms
      BY <2>1, <2>2, ResponseIs
    <2>4. /\ role' \in [Member -> Roles] /\ term' \in [Member -> Terms] /\ pendingTerm' \in [Member -> Terms]
          /\ reported' \in [Member -> SUBSET OpTime]
      BY <1>0, <2>1, <2>3, UpdateTermIs DEF Roles
    <2>5. docs \in Oplog
      BY <2>3 DEF Oplog
    <2>6. buffer' \in [Member -> Oplog]
      <3> DEFINE b == buffer[n]
      <3> HIDE DEF docs, b
      <3>1. b \o docs \in Oplog
        BY <2>2, <2>5, OplogConcat DEF b
      <3>2. buffer' = IF producer[n] = "Running" THEN [buffer EXCEPT ![n] = b \o docs] ELSE buffer
        BY <2>1 DEF EnqueueDocuments, b
      <3> QED
        BY <1>0, <3>1, <3>2, TypeParts
    <2>7. fetcher' \in [Member -> Response]
      BY <1>0, <2>1, TypeParts, Responses
    <2> QED
      BY <1>0, <1>8, <2>4, <2>6, <2>7, TypeParts, TypePartsSuffice
         DEF ProcessBatch, logVars, commitVars
  <1>9. ASSUME NEW n \in DataMember, Rollback(n) PROVE P
    <2>1. /\ term' = term /\ pendingTerm' = pendingTerm /\ lastVote' = lastVote /\ buffer' = buffer
          /\ producer' = producer /\ position' = position /\ commitPoint' = commitPoint
      BY <1>9, RollbackIs
    <2>5. \/ /\ role' = [role EXCEPT ![n] = "Aborted"]
             /\ oplog' = oplog /\ durable' = durable /\ visible' = visible
             /\ fetcher' = fetcher /\ reported' = reported
             /\ candidates' = candidates /\ snapshot' = snapshot
          \/ \E i \in 1..Len(oplog[n]) :
                 /\ Upto(oplog[n], i) \in Oplog /\ Len(Upto(oplog[n], i)) = i
                 /\ Begins(Upto(oplog[n], i), oplog[n])
                 /\ oplog' = [oplog EXCEPT ![n] = Upto(oplog[n], i)]
                 /\ durable' = [durable EXCEPT ![n] = i] /\ visible' = [visible EXCEPT ![n] = i]
                 /\ snapshot' = [snapshot EXCEPT ![n] = Null]
                 /\ candidates' = [candidates EXCEPT ![n] =
                       KeptCandidates(candidates[n] \cup {Top(Upto(oplog[n], i))},
                                      Top(Upto(oplog[n], i)), commitPoint[n])]
                 /\ fetcher' = [fetcher EXCEPT ![n] = NoFetch] /\ Leave({n}) /\ role' = role
      BY <1>9, RollbackIs
    <2>4. \/ /\ role' = [role EXCEPT ![n] = "Aborted"]
             /\ oplog' = oplog /\ durable' = durable /\ visible' = visible
             /\ fetcher' = fetcher /\ reported' = reported
             /\ candidates' = candidates /\ snapshot' = snapshot
          \/ \E i \in 1..Len(oplog[n]) : \E l \in Oplog :
                 /\ Len(l) = i /\ Begins(l, oplog[n])
                 /\ oplog' = [oplog EXCEPT ![n] = l]
                 /\ durable' = [durable EXCEPT ![n] = i] /\ visible' = [visible EXCEPT ![n] = i]
                 /\ snapshot' = [snapshot EXCEPT ![n] = Null]
                 /\ candidates' = [candidates EXCEPT ![n] =
                       KeptCandidates(candidates[n] \cup {Top(l)}, Top(l), commitPoint[n])]
                 /\ fetcher' = [fetcher EXCEPT ![n] = NoFetch] /\ Leave({n}) /\ role' = role
      BY <2>5, Zenon
    <2>2. CASE /\ role' = [role EXCEPT ![n] = "Aborted"]
               /\ oplog' = oplog /\ durable' = durable /\ visible' = visible
               /\ fetcher' = fetcher /\ reported' = reported
               /\ candidates' = candidates /\ snapshot' = snapshot
      <3>1. role' \in [Member -> Roles]
        BY <1>0, <2>2, TypeParts DEF Roles
      <3> QED
        BY <1>0, <2>1, <2>2, <3>1, TypeParts, TypePartsSuffice
    <2>3. ASSUME NEW i \in 1..Len(oplog[n]), NEW l \in Oplog,
                 /\ Len(l) = i /\ Begins(l, oplog[n])
                 /\ oplog' = [oplog EXCEPT ![n] = l]
                 /\ durable' = [durable EXCEPT ![n] = i] /\ visible' = [visible EXCEPT ![n] = i]
                 /\ snapshot' = [snapshot EXCEPT ![n] = Null]
                 /\ candidates' = [candidates EXCEPT ![n] =
                       KeptCandidates(candidates[n] \cup {Top(l)}, Top(l), commitPoint[n])]
                 /\ fetcher' = [fetcher EXCEPT ![n] = NoFetch] /\ Leave({n}) /\ role' = role
          PROVE P
      <3>1. reported' \in [Member -> SUBSET OpTime]
        BY <2>3, LeaveIs
      <3>2. i \in Nat /\ Len(l) <= MaxOplog
        <4>1. Len(oplog[n]) \in Nat /\ Len(oplog[n]) <= MaxOplog
          BY <1>0, ComingShape
        <4> QED
          BY <2>3, <4>1, BoundTypes
      <3>3. Top(l) \in OpTime
        BY <3>2, TopType
      <3>4. KeptCandidates(candidates[n] \cup {Top(l)}, Top(l), commitPoint[n]) \in SUBSET OpTime
        <4> DEFINE cand == candidates[n] \cup {Top(l)}
        <4>1. cand \in SUBSET OpTime /\ commitPoint[n] \in OpTime
          BY <1>0, <3>3, MemberShape
        <4> HIDE DEF cand
        <4>2. KeptCandidates(cand, Top(l), commitPoint[n]) \in SUBSET OpTime
          BY <3>3, <4>1, KeptType
        <4> QED
          BY <4>2 DEF cand
      <3>5. /\ oplog' \in [Member -> Oplog] /\ visible' \in [Member -> Nat] /\ durable' \in [Member -> Nat]
            /\ \A m \in Member : durable'[m] <= visible'[m] /\ visible'[m] <= Len(oplog'[m])
        BY <1>0, <2>3, <3>2, TypeParts
      <3>6. /\ fetcher' \in [Member -> Response] /\ snapshot' \in [Member -> OpTime]
            /\ candidates' \in [Member -> SUBSET OpTime]
        BY <1>0, <2>3, <3>4, TypeParts, NullType, Responses
      <3> QED
        BY <1>0, <2>1, <2>3, <3>1, <3>5, <3>6, TypeParts, TypePartsSuffice
    <2> QED
      BY <2>4, <2>2, <2>3
  <1>10. ASSUME NEW n \in DataMember, NEW s \in DataMember, Find(n, s) PROVE P
    <2>1. PICK f \in Response : Answer(n, s, f)
      BY <1>10, FindIs
    <2> QED
      BY <1>0, <2>1, AnswerIs
  <1>11. ASSUME NEW n \in DataMember, NEW s \in DataMember, GetMore(n, s) PROVE P
    <2>1. Answer(n, s, Checked(n, s, <<>>)) /\ Checked(n, s, <<>>) \in Response
      <3>1. <<>> \in Oplog
        BY DEF Oplog
      <3> QED
        BY <1>0, <1>11, <3>1, CheckedType DEF GetMore
    <2> QED
      BY <1>0, <2>1, AnswerIs
  <1>12. ASSUME NEW n \in DataMember, Write(n) PROVE P
    <2>1. /\ LogOp(n, role[n]) /\ role' = role
          /\ term' = term /\ pendingTerm' = pendingTerm /\ lastVote' = lastVote /\ buffer' = buffer
          /\ producer' = producer /\ fetcher' = fetcher /\ reported' = reported
      BY <1>12 DEF Write, fetchVars, electionVars
    <2> DEFINE r == role[n]
    <2>5. LogOp(n, r)
      BY <2>1
    <2> HIDE DEF r
    <2>2. PICK l \in Oplog, d \in Nat, v \in Nat :
             Len(l) <= MaxOplog /\ d <= v /\ v <= Len(l) /\ SetMyOpTimes(n, r, l, d, v)
      BY <2>5, AppendIs
    <2>3. role' \in [Member -> Roles] /\ buffer' \in [Member -> Oplog]
      BY <1>0, <2>1, TypeParts DEF Roles
    <2>4. /\ oplog' = [oplog EXCEPT ![n] = l]
          /\ durable' = [durable EXCEPT ![n] = d] /\ visible' = [visible EXCEPT ![n] = v]
          /\ position' \in [Member -> [Member -> OpTime]]
          /\ commitPoint' \in [Member -> OpTime] /\ candidates' \in [Member -> SUBSET OpTime]
          /\ snapshot' \in [Member -> OpTime]
      BY <1>0, <2>2, SetMyTypes
    <2> QED
      BY <1>0, <2>1, <2>2, <2>3, <2>4, MyOpTimesType
  <1>13. ASSUME NEW n \in DataMember, Journal(n) PROVE P
    <2> DEFINE l == oplog[n]  d == Len(oplog[n])  r == role[n]
    <2>1. /\ SetMyOpTimes(n, r, l, d, d) /\ d \in Nat /\ l \in Oplog /\ Len(l) <= MaxOplog
          /\ d <= d /\ d <= Len(l)
          /\ role' = role /\ term' = term /\ pendingTerm' = pendingTerm /\ lastVote' = lastVote
          /\ buffer' = buffer /\ producer' = producer /\ fetcher' = fetcher /\ reported' = reported
      BY <1>13, JournalIs
    <2>2. role' \in [Member -> Roles] /\ buffer' \in [Member -> Oplog]
      BY <1>0, <2>1, TypeParts
    <2> HIDE DEF l, d, r
    <2>3. /\ oplog' = [oplog EXCEPT ![n] = l]
          /\ durable' = [durable EXCEPT ![n] = d] /\ visible' = [visible EXCEPT ![n] = d]
          /\ position' \in [Member -> [Member -> OpTime]]
          /\ commitPoint' \in [Member -> OpTime] /\ candidates' \in [Member -> SUBSET OpTime]
          /\ snapshot' \in [Member -> OpTime]
      BY <1>0, <2>1, SetMyTypes
    <2> QED
      BY <1>0, <2>1, <2>2, <2>3, MyOpTimesType
  <1>14. ASSUME NEW n \in DataMember, ApplyBatch(n) PROVE P
    <2> DEFINE r == role[n]
    <2>1. PICK l \in Oplog, rest \in Oplog, d \in Nat :
          /\ SetMyOpTimes(n, r, l, d, Len(l)) /\ d <= Len(l) /\ Len(l) \in Nat /\ Len(l) <= MaxOplog
          /\ buffer' = [buffer EXCEPT ![n] = rest]
          /\ role' = role /\ term' = term /\ pendingTerm' = pendingTerm /\ lastVote' = lastVote
          /\ producer' = producer /\ fetcher' = fetcher /\ reported' = reported
      BY <1>14, ApplyBatchIs
    <2> DEFINE v == Len(l)
    <2>2. role' \in [Member -> Roles] /\ buffer' \in [Member -> Oplog] /\ v <= Len(l)
      BY <1>0, <2>1, TypeParts
    <2> HIDE DEF v, r
    <2>3. /\ oplog' = [oplog EXCEPT ![n] = l]
          /\ durable' = [durable EXCEPT ![n] = d] /\ visible' = [visible EXCEPT ![n] = v]
          /\ position' \in [Member -> [Member -> OpTime]]
          /\ commitPoint' \in [Member -> OpTime] /\ candidates' \in [Member -> SUBSET OpTime]
          /\ snapshot' \in [Member -> OpTime]
      BY <1>0, <2>1, <2>2, SetMyTypes DEF v
    <2> QED
      BY <1>0, <2>1, <2>2, <2>3, MyOpTimesType DEF v
  <1>15. ASSUME NEW n \in DataMember, NEW m \in Member, NEW r \in Reports(m), ReceivePosition(n, m, r) PROVE P
    <2>1. PICK pos \in [Member -> OpTime], nr \in Roles :
           /\ UpdateTerm(n, r.term) /\ r.term \in Terms
           /\ position' = [position EXCEPT ![n] = pos]
           /\ SetCommitPoint(n, UpdateLastCommittedOpTime(n, nr, oplog[n], pos), candidates[n], FALSE)
           /\ UpdateLastCommittedOpTime(n, nr, oplog[n], pos) \in OpTime
           /\ lastVote' = lastVote /\ oplog' = oplog /\ durable' = durable /\ visible' = visible
           /\ buffer' = buffer /\ producer' = producer /\ fetcher' = fetcher
      BY <1>15, ReceivePositionIs
    <2>2. /\ role' \in [Member -> Roles] /\ term' \in [Member -> Terms] /\ pendingTerm' \in [Member -> Terms]
          /\ reported' \in [Member -> SUBSET OpTime]
      BY <1>0, <2>1, UpdateTermIs DEF Roles
    <2>3. candidates[n] \in SUBSET OpTime
      BY <1>0, MemberShape
    <2>4. /\ commitPoint' \in [Member -> OpTime] /\ candidates' \in [Member -> SUBSET OpTime]
          /\ snapshot' \in [Member -> OpTime]
      BY <1>0, <2>1, <2>3, SetCommitPointIs
    <2>5. position' \in [Member -> [Member -> OpTime]]
      BY <1>0, <2>1, TypeParts
    <2> QED
      BY <1>0, <2>1, <2>2, <2>4, <2>5, TypeParts, TypePartsSuffice
  <1>16. ASSUME NEW n \in Member, Crash(n) PROVE P
    BY <1>16, CrashType
  <1>17. ASSUME NEW n \in Member, NEW m \in Member, LearnTerm(n, m) PROVE P
    <2>1. /\ UpdateTerm(n, term[m]) /\ term[m] \in Terms
      BY <1>17, MemberShape DEF LearnTerm
    <2>2. /\ role' \in [Member -> Roles] /\ term' \in [Member -> Terms] /\ pendingTerm' \in [Member -> Terms]
          /\ reported' \in [Member -> SUBSET OpTime]
      BY <1>0, <2>1, UpdateTermIs DEF Roles
    <2> QED
      BY <1>0, <1>17, <2>2, TypeParts, TypePartsSuffice
         DEF LearnTerm, logVars, fetchVars, commitVars
  <1>18. ASSUME NEW n \in Member, NEW m \in Member, ArbiterHeartbeat(n, m) PROVE P
    <2>1. /\ UpdateTerm(n, term[m]) /\ term[m] \in Terms
      BY <1>18, MemberShape DEF ArbiterHeartbeat
    <2>2. /\ role' \in [Member -> Roles] /\ term' \in [Member -> Terms] /\ pendingTerm' \in [Member -> Terms]
          /\ reported' \in [Member -> SUBSET OpTime]
      BY <1>0, <2>1, UpdateTermIs DEF Roles
    <2>3. AdvanceLastCommittedOpTime(n, role[n], <<>>, commitPoint[m]) \in OpTime
      <3>1. <<>> \in Oplog /\ Len(<<>>) <= MaxOplog
        BY BoundTypes DEF Oplog
      <3>2. commitPoint[n] \in OpTime /\ commitPoint[m] \in OpTime /\ term[n] \in Terms
        BY MemberShape
      <3> DEFINE c == AdvanceLastCommittedOpTime(n, role[n], <<>>, commitPoint[m])
                 l == <<>>
                 r == role[n]
                 o == commitPoint[m]
      <3>3. o \in OpTime /\ c = AdvanceLastCommittedOpTime(n, r, l, o) /\ l \in Oplog /\ Len(l) <= MaxOplog
        BY <3>1, <3>2
      <3> HIDE DEF c, l, r, o
      <3>4. c \in OpTime
        BY <3>2, <3>3, AdvanceIs
      <3> QED
        BY <3>4 DEF c
    <2>4. commitPoint' \in [Member -> OpTime]
      BY <1>0, <1>18, <2>3, TypeParts DEF ArbiterHeartbeat
    <2> QED
      BY <1>0, <1>18, <2>2, <2>4, TypeParts, TypePartsSuffice
         DEF ArbiterHeartbeat, logVars, fetchVars
  <1> QED
    BY <1>1, <1>2, <1>3, <1>4, <1>5, <1>6, <1>7, <1>8, <1>9, <1>10, <1>11, <1>12, <1>13, <1>14,
       <1>15, <1>16, <1>17, <1>18, Actions

----------------------------------------------------------------------------
(* What a step does to the oplogs and to those who are primary.             *)

\* The primary n writes an entry.
Writes(n) ==
    /\ IsPrimary(role[n]) /\ producer[n] = "Stopped" /\ buffer[n] = <<>> /\ Coming(n) = oplog[n]
    /\ oplog'[n] \in Oplog /\ Len(oplog'[n]) = Len(oplog[n]) + 1
    /\ Begins(oplog[n], oplog'[n]) /\ oplog'[n][Len(oplog'[n])] = term[n] /\ Coming(n)' = oplog'[n]
    /\ IsPrimary(role'[n]) /\ role'[n] # "LeaderElect" /\ term'[n] = term[n]
    /\ Len(oplog'[n]) <= MaxOplog
    /\ \A m \in DataMember \ {n} : Coming(m)' = Coming(m)

\* n is given what s has.
Fetches(n, s) ==
    /\ Begins(Coming(n)', oplog[s]) /\ oplog' = oplog
    /\ \A m \in DataMember \ {n} : Coming(m)' = Coming(m)

\* What happens to a member that is not elected.
Kept(p) ==
    /\ IsPrimary(role'[p]) => /\ IsPrimary(role[p]) /\ term'[p] = term[p] /\ Begins(oplog[p], oplog'[p])
                              /\ role'[p] = "LeaderElect" => role[p] = "LeaderElect"
    /\ role'[p] = "Master" => role[p] = "Master" \/ (producer'[p] = "Stopped" /\ buffer'[p] = <<>>)
    /\ IsPrimary(role'[p]) /\ producer[p] = "Stopped" /\ buffer[p] = <<>> =>
          producer'[p] = "Stopped" /\ buffer'[p] = <<>>
    /\ IsPrimary(role'[p]) =>
          \/ oplog'[p] = oplog[p]
          \/ Begins(oplog'[p], Fetched(p)) /\ buffer[p] # <<>>
          \/ Writes(p)
    /\ durable'[p] >= 1 /\ oplog'[p][1] = 0

Kinds ==
    \/ \A m \in DataMember : Begins(Coming(m)', Coming(m))
    \/ \E n \in DataMember : Writes(n)
    \/ \E n, s \in DataMember : Fetches(n, s)

ArbitersIdle ==
    \A a \in Arbiter : /\ oplog'[a] = oplog[a] /\ buffer'[a] = buffer[a] /\ durable'[a] = durable[a]
                       /\ role'[a] = role[a] /\ fetcher'[a] = fetcher[a]

LogStep == lastVote' = lastVote /\ Kinds /\ ArbitersIdle /\ \A p \in DataMember : Kept(p)

LEMMA BeginsItself ==
    ASSUME NEW s \in Oplog
    PROVE  Begins(s, s)
  <1>1. Len(s) \in Nat
    BY DEF Oplog
  <1> QED
    BY <1>1 DEF Begins

LEMMA SameComing ==
    ASSUME Shape, NEW m \in Member, oplog'[m] = oplog[m], buffer'[m] = buffer[m],
           fetcher'[m] = fetcher[m], producer'[m] = producer[m]
    PROVE  Coming(m)' = Coming(m) /\ Begins(Coming(m)', Coming(m))
  <1>1. Coming(m)' = Coming(m)
    BY DEF Coming, Fetched, InFlight, InCallback
  <1> QED
    BY <1>1, ComingShape, BeginsItself

LEMMA OplogBegins ==
    ASSUME Shape, NEW m \in DataMember
    PROVE  /\ m \in Member /\ durable[m] >= 1 /\ durable[m] \in Nat /\ Len(oplog[m]) \in Nat
           /\ durable[m] <= Len(oplog[m]) /\ 1 <= Len(oplog[m]) /\ oplog[m][1] = 0
           /\ oplog[m] \in Oplog /\ Begins(oplog[m], oplog[m])
  <1>1. m \in Member
    BY BoundTypes
  <1>2. /\ durable[m] \in Nat /\ visible[m] \in Nat /\ Len(oplog[m]) \in Nat
        /\ durable[m] <= visible[m] /\ visible[m] <= Len(oplog[m]) /\ oplog[m] \in Oplog
    BY <1>1, MemberShape
  <1>3. durable[m] >= 1 /\ oplog[m][1] = 0
    BY DEF Shape, BeginInv
  <1> QED
    BY <1>1, <1>2, <1>3, BeginsItself

LEMMA KeptSame ==
    ASSUME Shape, NEW m \in DataMember, oplog'[m] = oplog[m], buffer'[m] = buffer[m],
           producer'[m] = producer[m] \/ producer'[m] = "Stopped" \/ ~IsPrimary(role'[m])
              \/ producer[m] = "Starting",
           durable'[m] = durable[m],
           IsPrimary(role'[m]) => IsPrimary(role[m]) /\ term'[m] = term[m],
           role'[m] \in {role[m], "SteppingDown", "Follower", "Aborted"}
    PROVE  Kept(m)
  <1>1. durable[m] >= 1 /\ oplog[m][1] = 0 /\ Begins(oplog[m], oplog[m])
    BY OplogBegins
  <1>2. role'[m] = "Master" => role[m] = "Master"
    OBVIOUS
  <1>3. role'[m] = "LeaderElect" => role[m] = "LeaderElect"
    OBVIOUS
  <1> QED
    BY <1>1, <1>2, <1>3 DEF Kept

(* Nothing happens to the oplogs, except that a member may step down. *)
LEMMA QuietStep ==
    ASSUME Shape, lastVote' = lastVote, oplog' = oplog, buffer' = buffer, durable' = durable,
           fetcher' = fetcher, producer' = producer,
           \A m \in Member : IsPrimary(role'[m]) => IsPrimary(role[m]) /\ term'[m] = term[m],
           \A m \in Member : role'[m] \in {role[m], "SteppingDown", "Aborted"},
           \A a \in Arbiter : role'[a] = role[a]
    PROVE  LogStep
  <1>1. \A m \in DataMember : Begins(Coming(m)', Coming(m))
    BY SameComing, BoundTypes
  <1>2. ArbitersIdle
    BY DEF ArbitersIdle
  <1>3. \A m \in DataMember : Kept(m)
    BY KeptSame, BoundTypes
  <1> QED
    BY <1>1, <1>2, <1>3 DEF LogStep, Kinds

LEMMA UpdateTermKeeps ==
    ASSUME Shape, NEW n \in Member, NEW t \in Terms, UpdateTerm(n, t)
    PROVE  /\ \A m \in Member : IsPrimary(role'[m]) => IsPrimary(role[m]) /\ term'[m] = term[m]
           /\ \A m \in Member : role'[m] = role[m] \/ (m = n /\ role'[m] = "SteppingDown" /\ IsPrimary(role[m]))
           /\ \A a \in Arbiter : role'[a] = role[a]
  <1>1. /\ \A m \in Member \ {n} : role'[m] = role[m] /\ term'[m] = term[m]
        /\ IsPrimary(role[n]) /\ t > term[n] => role'[n] = "SteppingDown" /\ term' = term
        /\ ~(IsPrimary(role[n]) /\ t > term[n]) => role' = role
        /\ IsPrimary(role[n]) => term' = term
    BY UpdateTermIs
  <1>2. \A a \in Arbiter : a \in Member /\ role[a] = "Follower" /\ ~IsPrimary(role[a])
    BY BoundTypes DEF Shape, BeginInv, IsPrimary
  <1>3. /\ IsPrimary(role'[n]) => IsPrimary(role[n]) /\ term'[n] = term[n]
        /\ role'[n] = role[n] \/ (role'[n] = "SteppingDown" /\ IsPrimary(role[n]))
    BY <1>1
  <1> QED
    BY <1>1, <1>2, <1>3

LEMMA SetMyLog ==
    ASSUME NEW n, NEW r, NEW l, NEW d, NEW v, SetMyOpTimes(n, r, l, d, v)
    PROVE  oplog' = [oplog EXCEPT ![n] = l] /\ durable' = [durable EXCEPT ![n] = d]
  BY DEF SetMyOpTimes

LEMMA WriteStep ==
    ASSUME Shape, NEW n \in DataMember, NEW r, LogOp(n, r),
           IsPrimary(role[n]), producer[n] = "Stopped", buffer[n] = <<>>,
           \A m \in Member \ {n} : role'[m] = role[m],
           IsPrimary(role'[n]), role'[n] # "LeaderElect",
           lastVote' = lastVote, term' = term, buffer' = buffer, producer' = producer, fetcher' = fetcher
    PROVE  LogStep
  <1>1. n \in Member /\ n \notin Arbiter /\ \A a \in Arbiter : a \in Member
    BY BoundTypes DEF DataMember
  <1>2. PICK l \in Oplog, d \in Nat, v \in Nat :
              /\ l = Append(oplog[n], term[n]) /\ Len(l) = Len(oplog[n]) + 1 /\ Len(l) <= MaxOplog
              /\ Begins(oplog[n], l) /\ l[Len(l)] = term[n]
              /\ d <= v /\ v <= Len(l) /\ durable[n] <= d /\ visible[n] <= v
              /\ SetMyOpTimes(n, r, l, d, v)
    BY AppendIs
  <1>3. oplog' = [oplog EXCEPT ![n] = l] /\ durable' = [durable EXCEPT ![n] = d]
    <2>1. SetMyOpTimes(n, r, l, d, v)
      BY <1>2
    <2> QED
      BY <2>1, SetMyLog
  <1>4. /\ \A m \in Member : m # n => oplog'[m] = oplog[m] /\ durable'[m] = durable[m]
        /\ oplog'[n] = l /\ durable'[n] = d
    BY <1>1, <1>3 DEF Shape, TypeInv, LogType
  <1>5. InFlight(n) = <<>> /\ InFlight(n)' = <<>>
    BY DEF InFlight
  <1>6. Coming(n) = oplog[n]
    <2> DEFINE o == oplog[n]
    <2>1. o \in Seq(Terms)
      BY <1>1, MemberShape DEF Oplog
    <2>2. Coming(n) = (o \o <<>>) \o <<>>
      BY <1>5 DEF Coming, Fetched
    <2> HIDE DEF o
    <2>3. Coming(n) = o
      BY <2>1, <2>2, ConcatEmpty
    <2> QED
      BY <2>3 DEF o
  <1>7. Coming(n)' = l
    <2>1. Coming(n)' = (l \o <<>>) \o <<>>
      BY <1>4, <1>5 DEF Coming, Fetched
    <2> QED
      BY <2>1, ConcatEmpty DEF Oplog
  <1>8. \A m \in DataMember \ {n} : Coming(m)' = Coming(m)
    BY <1>4, SameComing, BoundTypes
  <1>9. Writes(n)
    BY <1>2, <1>4, <1>6, <1>7, <1>8 DEF Writes
  <1>10. ArbitersIdle
    BY <1>1, <1>4 DEF ArbitersIdle
  <1>11. ASSUME NEW m \in DataMember PROVE Kept(m)
    <2>1. CASE m = n
      <3>1. durable[n] >= 1 /\ durable[n] \in Nat /\ Len(oplog[n]) \in Nat /\ 1 <= Len(oplog[n]) /\ oplog[n][1] = 0
        BY OplogBegins
      <3>2. durable'[n] >= 1 /\ oplog'[n][1] = 0
        BY <1>2, <1>4, <3>1 DEF Begins
      <3> QED
        BY <1>2, <1>4, <1>9, <2>1, <3>2 DEF Kept
    <2>2. CASE m # n
      <3>1. /\ m \in Member /\ role'[m] = role[m] /\ term'[m] = term[m] /\ oplog'[m] = oplog[m]
            /\ durable'[m] = durable[m] /\ buffer'[m] = buffer[m] /\ producer'[m] = producer[m]
        BY <1>4, <2>2, BoundTypes
      <3> QED
        BY <3>1, KeptSame
    <2> QED
      BY <2>1, <2>2
  <1> QED
    BY <1>9, <1>10, <1>11 DEF LogStep, Kinds

LEMMA JournalStep ==
    ASSUME Shape, NEW n \in DataMember, Journal(n)
    PROVE  LogStep
  <1>1. n \in Member /\ n \notin Arbiter /\ \A a \in Arbiter : a \in Member
    BY BoundTypes DEF DataMember
  <1> DEFINE l == oplog[n]  d == Len(oplog[n])  r == role[n]
  <1>2. /\ SetMyOpTimes(n, r, l, d, d) /\ d \in Nat /\ l \in Oplog /\ Len(l) <= MaxOplog
        /\ d <= d /\ d <= Len(l)
        /\ role' = role /\ term' = term /\ lastVote' = lastVote
        /\ buffer' = buffer /\ producer' = producer /\ fetcher' = fetcher
    BY JournalIs
  <1>3. oplog' = [oplog EXCEPT ![n] = l] /\ durable' = [durable EXCEPT ![n] = d]
    <2> HIDE DEF l, d, r
    <2> QED
      BY <1>2, SetMyLog
  <1>4. oplog' = oplog /\ durable'[n] = Len(oplog[n]) /\ \A m \in Member \ {n} : durable'[m] = durable[m]
    BY <1>1, <1>3 DEF Shape, TypeInv, LogType
  <1>5. \A m \in DataMember : Begins(Coming(m)', Coming(m))
    BY <1>2, <1>4, SameComing, BoundTypes
  <1>6. ArbitersIdle
    BY <1>1, <1>2, <1>4 DEF ArbitersIdle
  <1>7. ASSUME NEW m \in DataMember PROVE Kept(m)
    <2>1. durable'[m] >= 1 /\ oplog'[m][1] = 0 /\ Begins(oplog[m], oplog'[m])
      BY <1>4, OplogBegins
    <2> QED
      BY <1>2, <1>4, <2>1 DEF Kept
  <1> QED
    BY <1>2, <1>5, <1>6, <1>7 DEF LogStep, Kinds

LEMMA ApplyStep ==
    ASSUME Shape, NEW n \in DataMember, ApplyBatch(n)
    PROVE  LogStep
  <1>1. n \in Member /\ n \notin Arbiter /\ \A a \in Arbiter : a \in Member
    BY BoundTypes DEF DataMember
  <1> DEFINE r == role[n]
  <1>2. PICK l \in Oplog, rest \in Oplog, d \in Nat :
          /\ SetMyOpTimes(n, r, l, d, Len(l)) /\ d <= Len(l) /\ Len(l) \in Nat /\ Len(l) <= MaxOplog
          /\ durable[n] <= d /\ Begins(oplog[n], l)
          /\ l \o rest = Fetched(n) /\ buffer' = [buffer EXCEPT ![n] = rest]
          /\ role' = role /\ term' = term /\ lastVote' = lastVote
          /\ producer' = producer /\ fetcher' = fetcher /\ buffer[n] # <<>>
    BY ApplyBatchIs
  <1>3. oplog' = [oplog EXCEPT ![n] = l] /\ durable' = [durable EXCEPT ![n] = d]
    <2> HIDE DEF r
    <2> QED
      BY <1>2, SetMyLog
  <1>4. /\ \A m \in Member \ {n} : oplog'[m] = oplog[m] /\ durable'[m] = durable[m] /\ buffer'[m] = buffer[m]
        /\ oplog'[n] = l /\ durable'[n] = d /\ buffer'[n] = rest
    BY <1>1, <1>2, <1>3 DEF Shape, TypeInv, LogType
  <1>5. Coming(n)' = Coming(n) /\ Begins(Coming(n)', Coming(n)) /\ Begins(oplog[n], oplog'[n])
    <2>1. InFlight(n)' = InFlight(n)
      BY <1>2 DEF InFlight, InCallback
    <2>2. Fetched(n)' = l \o rest
      BY <1>4 DEF Fetched
    <2>3. Coming(n)' = Coming(n)
      BY <1>2, <2>1, <2>2 DEF Coming
    <2> QED
      BY <1>1, <1>2, <1>4, <2>3, ComingShape, BeginsItself
  <1>6. \A m \in DataMember : Begins(Coming(m)', Coming(m))
    BY <1>2, <1>4, <1>5, SameComing, BoundTypes
  <1>7. ArbitersIdle
    BY <1>1, <1>2, <1>4 DEF ArbitersIdle
  <1>8. ASSUME NEW m \in DataMember PROVE Kept(m)
    <2>1. CASE m = n
      <3>1. durable[n] >= 1 /\ durable[n] \in Nat /\ Len(oplog[n]) \in Nat /\ 1 <= Len(oplog[n]) /\ oplog[n][1] = 0
        BY OplogBegins
      <3>2. durable'[n] >= 1 /\ oplog'[n][1] = 0
        BY <1>2, <1>4, <1>5, <3>1 DEF Begins
      <3>3. Begins(oplog'[n], Fetched(n)) /\ buffer[n] # <<>>
        <4>1. l \in Oplog /\ rest \in Oplog /\ l \o rest = Fetched(n) /\ buffer[n] # <<>> /\ oplog'[n] = l
          BY <1>2, <1>4
        <4>2. Begins(l, l \o rest)
          BY <4>1, OplogConcat
        <4> QED
          BY <4>1, <4>2
      <3>4. role'[n] = role[n] /\ term'[n] = term[n] /\ Begins(oplog[n], oplog'[n])
        BY <1>2, <1>5
      <3> QED
        BY <2>1, <3>2, <3>3, <3>4 DEF Kept
    <2>2. CASE m # n
      <3>1. /\ m \in Member /\ role'[m] = role[m] /\ term'[m] = term[m] /\ oplog'[m] = oplog[m]
            /\ durable'[m] = durable[m] /\ buffer'[m] = buffer[m] /\ producer'[m] = producer[m]
        BY <1>2, <1>4, <2>2, BoundTypes
      <3> QED
        BY <3>1, KeptSame
    <2> QED
      BY <2>1, <2>2
  <1> QED
    BY <1>2, <1>6, <1>7, <1>8 DEF LogStep, Kinds

(* The member n loses the end of its oplog and is no primary afterwards. *)
LEMMA ShortenStep ==
    ASSUME Shape, NEW n \in Member, NEW l \in Oplog, Begins(l, oplog[n]),
           n \in DataMember => Len(l) >= 1 /\ durable'[n] >= 1,
           n \in Arbiter => /\ durable'[n] = durable[n] /\ role'[n] = role[n]
                            /\ fetcher'[n] = fetcher[n] /\ buffer'[n] = buffer[n],
           oplog' = [oplog EXCEPT ![n] = l],
           buffer'[n] = <<>>, fetcher'[n] = NoFetch, ~IsPrimary(role'[n]),
           \A m \in Member \ {n} :
              /\ buffer'[m] = buffer[m] /\ fetcher'[m] = fetcher[m] /\ producer'[m] = producer[m]
              /\ durable'[m] = durable[m] /\ role'[m] = role[m] /\ term'[m] = term[m],
           lastVote' = lastVote
    PROVE  LogStep
  <1>1. /\ \A m \in Member \ {n} : oplog'[m] = oplog[m]
        /\ oplog'[n] = l
    BY DEF Shape, TypeInv, LogType
  <1>2. Begins(Coming(n)', Coming(n))
    <2>1. InFlight(n)' = <<>>
      BY DEF InFlight, InCallback, NoFetch
    <2>2. Coming(n)' = (l \o <<>>) \o <<>>
      BY <1>1, <2>1 DEF Coming, Fetched
    <2>3. Coming(n)' = l
      BY <2>2, ConcatEmpty DEF Oplog
    <2>4. oplog[n] \in Oplog /\ Coming(n) \in Oplog /\ Begins(oplog[n], Coming(n))
      BY ComingShape, MemberShape
    <2>5. Begins(l, Coming(n))
      BY <2>4, BeginsTransitive
    <2> QED
      BY <2>3, <2>5
  <1>3. \A m \in DataMember : Begins(Coming(m)', Coming(m))
    BY <1>1, <1>2, SameComing, BoundTypes
  <1>4. ArbitersIdle
    <2>1. n \in Arbiter => oplog'[n] = oplog[n]
      <3>1. n \in Arbiter => oplog[n] = <<>>
        BY DEF Shape, BeginInv
      <3>2. oplog[n] = <<>> => l = <<>>
        BY DEF Begins, Oplog
      <3> QED
        BY <1>1, <3>1, <3>2
    <2> QED
      BY <1>1, <2>1, BoundTypes DEF ArbitersIdle
  <1>5. ASSUME NEW m \in DataMember PROVE Kept(m)
    <2>1. CASE m = n
      <3>1. role'[n] # "Master"
        BY DEF IsPrimary
      <3>2. Len(l) \in Nat /\ Len(l) >= 1 /\ oplog[n][1] = 0 /\ durable'[n] >= 1
        BY <2>1, OplogBegins DEF Oplog
      <3>3. oplog'[n][1] = 0
        BY <1>1, <3>2 DEF Begins
      <3> QED
        BY <2>1, <3>1, <3>2, <3>3 DEF Kept
    <2>2. CASE m # n
      <3>1. /\ m \in Member /\ role'[m] = role[m] /\ term'[m] = term[m] /\ oplog'[m] = oplog[m]
            /\ durable'[m] = durable[m] /\ buffer'[m] = buffer[m] /\ producer'[m] = producer[m]
        BY <1>1, <2>2, BoundTypes
      <3> QED
        BY <3>1, KeptSame
    <2> QED
      BY <2>1, <2>2
  <1> QED
    BY <1>3, <1>4, <1>5 DEF LogStep, Kinds

(* Only what n has under way changes, and somebody may step down. *)
LEMMA FetcherStep ==
    ASSUME Shape, NEW n \in DataMember, lastVote' = lastVote, oplog' = oplog, buffer' = buffer,
           durable' = durable,
           \A m \in Member \ {n} : fetcher'[m] = fetcher[m] /\ producer'[m] = producer[m],
           producer'[n] = producer[n] \/ producer'[n] = "Stopped" \/ ~IsPrimary(role'[n])
              \/ producer[n] = "Starting",
           \A m \in Member : IsPrimary(role'[m]) => IsPrimary(role[m]) /\ term'[m] = term[m],
           \A m \in Member : role'[m] \in {role[m], "SteppingDown", "Follower", "Aborted"},
           \A a \in Arbiter : role'[a] = role[a],
           Begins(Coming(n)', Coming(n)) \/ \E s \in DataMember : Begins(Coming(n)', oplog[s])
    PROVE  LogStep
  <1>1. \A m \in DataMember \ {n} : Coming(m)' = Coming(m) /\ Begins(Coming(m)', Coming(m))
    BY SameComing, BoundTypes
  <1>2. Kinds
    BY <1>1 DEF Kinds, Fetches
  <1>3. ArbitersIdle
    BY BoundTypes DEF ArbitersIdle, DataMember
  <1>4. ASSUME NEW m \in DataMember PROVE Kept(m)
    <2>1. m \in Member
      BY BoundTypes
    <2>2. producer'[m] = producer[m] \/ producer'[m] = "Stopped" \/ ~IsPrimary(role'[m])
             \/ producer[m] = "Starting"
      BY <2>1
    <2> QED
      BY <2>1, <2>2, KeptSame
  <1> QED
    BY <1>2, <1>3, <1>4 DEF LogStep

LEMMA AnswerStep ==
    ASSUME Shape, NEW n \in DataMember, NEW s \in DataMember, NEW f \in Response, Answer(n, s, f),
           f.stage \in {"Checked", "Advanced"} =>
              f.docs = <<>> \/ Begins(Fetched(n) \o f.docs, oplog[s])
    PROVE  LogStep
  <1>1. n \in Member /\ s \in Member /\ \A a \in Arbiter : a \in Member
    BY BoundTypes
  <1>2. /\ producer[n] = "Running" /\ fetcher[n] = NoFetch /\ UpdateTerm(s, term[n])
        /\ fetcher' = [fetcher EXCEPT ![n] = IF term[n] > term[s] THEN NoFetch ELSE f]
        /\ lastVote' = lastVote /\ oplog' = oplog /\ durable' = durable
        /\ buffer' = buffer /\ producer' = producer
    BY <1>1, AnswerIs
  <1>3. /\ \A m \in Member \ {n} : fetcher'[m] = fetcher[m]
        /\ fetcher'[n] = NoFetch \/ fetcher'[n] = f
    BY <1>1, <1>2 DEF Shape, TypeInv, FetchType
  <1>4. Fetched(n)' = Fetched(n) /\ Fetched(n) \in Oplog
    BY <1>1, <1>2, ComingShape DEF Fetched
  <1> DEFINE g == Fetched(n)
  <1>5. Coming(n) = g
    <2>1. InFlight(n) = <<>>
      BY <1>2 DEF InFlight, InCallback, NoFetch
    <2> HIDE DEF g
    <2>2. Coming(n) = g \o <<>>
      BY <2>1 DEF Coming, g
    <2> QED
      BY <1>4, <2>2, ConcatEmpty DEF g, Oplog
  <1>6. \/ Coming(n)' = g \o <<>>
        \/ f.stage \in {"Checked", "Advanced"} /\ Coming(n)' = g \o f.docs
    <2>1. fetcher'[n] = NoFetch => InFlight(n)' = <<>>
      BY DEF InFlight, InCallback, NoFetch
    <2>2. CASE fetcher'[n] = f /\ f.stage \in {"Checked", "Advanced"}
      <3>1. InFlight(n)' = f.docs
        BY <1>2, <2>2 DEF InFlight, InCallback
      <3> QED
        BY <1>4, <2>2, <3>1 DEF Coming
    <2>3. CASE fetcher'[n] = f /\ f.stage \notin {"Checked", "Advanced"}
      <3>1. InFlight(n)' = <<>>
        BY <1>2, <2>3 DEF InFlight, InCallback
      <3> QED
        BY <1>4, <3>1 DEF Coming
    <2> QED
      BY <1>3, <1>4, <2>1, <2>2, <2>3 DEF Coming
  <1>7. Begins(Coming(n)', Coming(n)) \/ Begins(Coming(n)', oplog[s])
    <2>1. g \o <<>> = g /\ Begins(g, g)
      <3> HIDE DEF g
      <3> QED
        BY <1>4, ConcatEmpty, BeginsItself DEF g, Oplog
    <2> QED
      BY <1>5, <1>6, <2>1
  <1>8. /\ \A m \in Member : IsPrimary(role'[m]) => IsPrimary(role[m]) /\ term'[m] = term[m]
        /\ \A m \in Member : role'[m] \in {role[m], "SteppingDown", "Follower", "Aborted"}
        /\ \A a \in Arbiter : role'[a] = role[a]
    <2>1. term[n] \in Terms
      BY <1>1, MemberShape
    <2> QED
      BY <1>1, <1>2, <2>1, UpdateTermKeeps
  <1> QED
    BY <1>2, <1>3, <1>7, <1>8, FetcherStep

LEMMA FindStep ==
    ASSUME Shape, AgreeInv, NEW n \in DataMember, NEW s \in DataMember, Find(n, s)
    PROVE  LogStep
  <1>1. n \in Member /\ s \in Member
    BY BoundTypes
  <1>2. PICK f \in Response, v \in Nat :
              /\ Answer(n, s, f) /\ v <= visible[s]
              /\ \/ f = Diverged(s)
                 \/ /\ Has(Upto(oplog[s], v), LastFetched(n))
                    /\ f = Checked(n, s, After(Upto(oplog[s], v), LastFetched(n).ts))
    BY FindIs
  <1> DEFINE seen == Upto(oplog[s], v)
             g == Fetched(n)
             i == Len(g)
             docs == After(seen, i)
  <1>3. CASE f = Diverged(s)
    BY <1>2, <1>3, AnswerStep DEF Diverged
  <1>4. CASE Has(seen, LastFetched(n)) /\ f = Checked(n, s, After(seen, LastFetched(n).ts))
    <2>1. /\ g \in Oplog /\ i \in Nat /\ i <= MaxOplog /\ Begins(oplog[n], g)
      <3>1. g \in Oplog /\ i <= MaxOplog /\ Begins(oplog[n], g)
        BY <1>1, ComingShape
      <3>2. ASSUME NEW q \in Oplog PROVE Len(q) \in Nat
        BY DEF Oplog
      <3> QED
        BY <3>1, <3>2
    <2>2. LastFetched(n) = Top(g) /\ Top(g).ts = i
      <3>1. LastFetched(n) = Top(g)
        BY DEF LastFetched, Fetched
      <3> HIDE DEF g
      <3> QED
        BY <2>1, <3>1, TopType DEF i
    <2>3. /\ seen \in Oplog /\ Len(seen) = v /\ v \in Nat /\ Begins(seen, oplog[s])
          /\ v <= Len(oplog[s]) /\ Len(oplog[s]) \in Nat
      <3> DEFINE l == oplog[s]
      <3>0. visible[s] \in Nat /\ visible[s] <= Len(l) /\ l \in Seq(Terms) /\ Len(l) \in Nat
        BY <1>1, MemberShape DEF Oplog
      <3> HIDE DEF l
      <3>1. l \in Seq(Terms) /\ v \in Nat /\ v <= Len(l) /\ Len(l) \in Nat
        BY <1>2, <3>0
      <3>2. Upto(l, v) \in Seq(Terms) /\ Len(Upto(l, v)) = v /\ Begins(Upto(l, v), l)
        BY <3>1, Part
      <3> QED
        BY <3>1, <3>2 DEF l, Oplog
    <2>4. i \in 1..Len(seen) /\ seen[i] = Top(g).term /\ g # <<>> /\ Top(g).term = g[i]
      <3>1. i \in 1..Len(seen) /\ seen[i] = Top(g).term
        BY <1>4, <2>2 DEF Has
      <3>2. g # <<>>
        BY <3>1
      <3> HIDE DEF g
      <3>3. Top(g).term = g[i]
        BY <2>1, <3>2, TopType DEF i
      <3> QED
        BY <3>1, <3>2, <3>3
    <2>5. docs \in Oplog /\ Len(docs) = Len(seen) - i /\ \A k \in 1..Len(seen) - i : docs[k] = seen[i + k]
      <3>1. i <= Len(seen) /\ seen \in Seq(Terms)
        BY <2>3, <2>4 DEF Oplog
      <3> HIDE DEF seen, i
      <3>2. /\ After(seen, i) \in Seq(Terms) /\ Len(After(seen, i)) = Len(seen) - i
            /\ \A k \in 1..Len(seen) - i : After(seen, i)[k] = seen[i + k]
        BY <2>1, <3>1, Part
      <3> QED
        BY <3>2 DEF Oplog
    <2>6. f = Checked(n, s, docs) /\ f.docs = docs
      BY <1>1, <1>4, <2>2, <2>5, CheckedType
    <2>7. \A k \in 1..i : g[k] = seen[k]
      <3>1. Coming(n)[i] = g[i] /\ i \in 1..Len(Coming(n))
            /\ \A k \in 1..i : Coming(n)[k] = g[k]
        <4>1. Begins(g, Coming(n))
          BY <1>1, ComingShape
        <4>2. Len(Coming(n)) \in Nat
          BY <1>1, ComingShape
        <4> QED
          BY <2>1, <2>4, <4>1, <4>2 DEF Begins
      <3>2. i \in i..Len(Coming(s)) /\ Coming(s)[i] = seen[i]
            /\ \A k \in 1..i : Coming(s)[k] = seen[k]
        <4>1. Begins(oplog[s], Coming(s)) /\ Len(Coming(s)) \in Nat
          BY <1>1, ComingShape
        <4> QED
          BY <2>1, <2>3, <2>4, <4>1 DEF Begins
      <3>3. Coming(n)[i] = Coming(s)[i]
        BY <2>4, <3>1, <3>2
      <3>4. \A k \in 1..i : Coming(n)[k] = Coming(s)[k]
        BY <3>1, <3>2, <3>3 DEF AgreeInv
      <3> QED
        BY <3>1, <3>2, <3>4
    <2>8. Begins(g \o docs, oplog[s])
      <3> HIDE DEF g, docs, i, seen
      <3>1. /\ Len(g \o docs) = Len(g) + Len(docs)
            /\ \A k \in 1..Len(g) : (g \o docs)[k] = g[k]
            /\ \A k \in Len(g)+1..Len(g)+Len(docs) : (g \o docs)[k] = docs[k - Len(g)]
        BY <2>1, <2>5, Concat DEF Oplog
      <3>2. Len(g) = i /\ Len(seen) \in Nat /\ i <= Len(seen)
        BY <2>1, <2>3, <2>4 DEF i
      <3>3. Len(g \o docs) = Len(seen)
        BY <2>1, <2>5, <3>1, <3>2
      <3>4. ASSUME NEW k \in 1..Len(seen) PROVE (g \o docs)[k] = seen[k]
        <4>3. k <= i \/ k > i
          <5>1. i \in Int /\ k \in Int
            BY <2>1
          <5> QED
            BY <5>1
        <4>1. CASE k <= i
          BY <2>1, <2>7, <3>1, <3>2, <4>1
        <4>2. CASE k > i
          <5>1. k - i \in 1..Len(seen) - i /\ i + (k - i) = k
            BY <2>1, <3>2, <4>2
          <5>2. docs[k - i] = seen[k]
            BY <2>5, <5>1
          <5>3. (g \o docs)[k] = docs[k - i]
            BY <2>1, <2>5, <3>1, <3>2, <4>2
          <5> QED
            BY <5>2, <5>3
        <4> QED
          BY <4>1, <4>2, <4>3
      <3>5. Begins(seen, oplog[s])
        BY <2>3
      <3> QED
        BY <3>3, <3>4, <3>5 DEF Begins
    <2> QED
      BY <1>2, <2>6, <2>8, AnswerStep
  <1> QED
    BY <1>2, <1>3, <1>4

LEMMA GetMoreStep ==
    ASSUME Shape, NEW n \in DataMember, NEW s \in DataMember, GetMore(n, s)
    PROVE  LogStep
  <1>1. n \in Member /\ s \in Member /\ <<>> \in Oplog
    BY BoundTypes DEF Oplog
  <1> DEFINE f == Checked(n, s, <<>>)
  <1>2. f \in Response /\ f.docs = <<>>
    BY <1>1, CheckedType
  <1>3. Answer(n, s, f)
    BY DEF GetMore
  <1> HIDE DEF f
  <1> QED
    BY <1>2, <1>3, AnswerStep

LEMMA ProcessStep ==
    ASSUME Shape, NEW n \in DataMember, ProcessBatch(n)
    PROVE  LogStep
  <1>1. n \in Member /\ n \notin Arbiter /\ \A a \in Arbiter : a \in Member
    BY BoundTypes DEF DataMember
  <1> DEFINE f == fetcher[n]
             waits == f.term > term[n] /\ role[n] \in {"LeaderElect", "Master"}
             docs == IF waits THEN <<>> ELSE f.docs
             b == buffer[n]
             l == oplog[n]
  <1>2. /\ f.stage = "Advanced" /\ UpdateTerm(n, f.term) /\ EnqueueDocuments(n, docs)
        /\ fetcher' = [fetcher EXCEPT ![n] = IF waits THEN Waiting ELSE NoFetch]
        /\ lastVote' = lastVote /\ oplog' = oplog /\ durable' = durable /\ producer' = producer
    BY DEF ProcessBatch, logVars
  <1>3. f \in Response /\ b \in Oplog /\ l \in Oplog
    BY <1>1, MemberShape
  <1>4. f.docs \in Oplog /\ f.term \in Terms
    BY <1>2, <1>3, ResponseIs
  <1>5. docs \in Oplog /\ (docs = <<>> \/ docs = f.docs)
    BY <1>4 DEF Oplog
  <1>6. /\ \A m \in Member : IsPrimary(role'[m]) => IsPrimary(role[m]) /\ term'[m] = term[m]
        /\ \A m \in Member : role'[m] \in {role[m], "SteppingDown"}
        /\ \A a \in Arbiter : role'[a] = role[a]
    BY <1>1, <1>2, <1>4, UpdateTermKeeps
  <1>7. /\ \A m \in Member \ {n} : fetcher'[m] = fetcher[m]
        /\ fetcher'[n] = Waiting \/ fetcher'[n] = NoFetch
    BY <1>1, <1>2 DEF Shape, TypeInv, FetchType
  <1>8. /\ \A m \in Member \ {n} : buffer'[m] = buffer[m]
        /\ producer[n] = "Running" => buffer'[n] = b \o docs
        /\ producer[n] # "Running" => buffer'[n] = b
    <2> HIDE DEF docs
    <2> QED
      BY <1>1, <1>2 DEF EnqueueDocuments, Shape, TypeInv, LogType
  <1>9. InFlight(n)' = <<>> /\ InFlight(n) = IF producer[n] = "Running" THEN f.docs ELSE <<>>
    BY <1>2, <1>7 DEF InFlight, InCallback, Waiting, NoFetch
  <1>10. Begins(Coming(n)', Coming(n))
    <2>1. CASE producer[n] = "Running"
      <3>1. Coming(n) = (l \o b) \o f.docs /\ Coming(n)' = (l \o (b \o docs)) \o <<>>
        BY <1>2, <1>8, <1>9, <2>1 DEF Coming, Fetched
      <3> DEFINE e == f.docs
      <3>2. docs = <<>> \/ docs = e
        BY <1>5
      <3>3. docs \in Oplog /\ e \in Oplog
        BY <1>4, <1>5
      <3> HIDE DEF docs, e, b, l
      <3>4. /\ b \o docs \in Oplog /\ l \o (b \o docs) \in Oplog /\ l \o b \in Oplog /\ (l \o b) \o e \in Oplog
        BY <1>3, <3>3, OplogConcat
      <3>5. (l \o (b \o docs)) \o <<>> = l \o (b \o docs)
        BY <3>4, ConcatEmpty DEF Oplog
      <3>6. CASE docs = e
        <4>1. l \o (b \o e) = (l \o b) \o e
          BY <1>3, <3>3, ConcatAssociative DEF Oplog
        <4>2. Begins((l \o b) \o e, (l \o b) \o e)
          BY <3>4, BeginsItself
        <4> QED
          BY <3>1, <3>5, <3>6, <4>1, <4>2 DEF e
      <3>7. CASE docs = <<>>
        <4>1. b \o docs = b
          BY <1>3, <3>7, ConcatEmpty DEF Oplog
        <4>2. Begins(l \o b, (l \o b) \o e)
          BY <3>3, <3>4, OplogConcat
        <4> QED
          BY <3>1, <3>5, <4>1, <4>2 DEF e
      <3> QED
        BY <3>2, <3>6, <3>7
    <2>2. CASE producer[n] # "Running"
      <3>1. Coming(n)' = Coming(n)
        BY <1>2, <1>8, <1>9, <2>2 DEF Coming, Fetched
      <3> QED
        BY <1>1, <3>1, ComingShape, BeginsItself
    <2> QED
      BY <2>1, <2>2
  <1>11. \A m \in DataMember : Begins(Coming(m)', Coming(m))
    BY <1>2, <1>7, <1>8, <1>10, SameComing, BoundTypes
  <1>12. ArbitersIdle
    BY <1>1, <1>2, <1>6, <1>7, <1>8 DEF ArbitersIdle
  <1>13. ASSUME NEW m \in DataMember PROVE Kept(m)
    <2>1. m \in Member
      BY BoundTypes
    <2>2. /\ durable'[m] >= 1 /\ oplog'[m][1] = 0 /\ Begins(oplog[m], oplog'[m])
      BY <1>2, OplogBegins
    <2>3. producer[m] = "Stopped" => buffer'[m] = buffer[m]
      BY <1>8, <2>1
    <2>4. /\ role'[m] = "LeaderElect" => role[m] = "LeaderElect"
          /\ role'[m] = "Master" => role[m] = "Master"
      BY <1>6, <2>1
    <2> QED
      BY <1>2, <1>6, <2>1, <2>2, <2>3, <2>4 DEF Kept
  <1> QED
    BY <1>2, <1>11, <1>12, <1>13 DEF LogStep, Kinds

LEMMA NotInFlight ==
    ASSUME Shape, NEW n \in DataMember, oplog' = oplog, buffer' = buffer, InFlight(n)' = <<>>
    PROVE  Begins(Coming(n)', Coming(n))
  <1>1. n \in Member
    BY BoundTypes
  <1> DEFINE g == Fetched(n)
  <1>2. g \in Oplog /\ Begins(g, Coming(n))
    BY <1>1, ComingShape
  <1>3. Coming(n)' = g \o <<>>
    BY DEF Coming, Fetched
  <1> HIDE DEF g
  <1>4. g \o <<>> = g
    BY <1>2, ConcatEmpty DEF Oplog
  <1> QED
    BY <1>2, <1>3, <1>4

(* The steps that change what a member has under way, and nothing else. *)
LEMMA ControlSteps ==
    ASSUME Shape, NEW n \in DataMember,
           EnterDrainMode(n) \/ StepDownSelf(n) \/ StepDownFinish(n) \/ StartProducer(n) \/ AdvanceCommitPoint(n)
    PROVE  LogStep
  <1>1. n \in Member /\ n \notin Arbiter /\ \A a \in Arbiter : a \in Member
    BY BoundTypes DEF DataMember
  <1>0. role \in [Member -> Roles] /\ producer \in [Member -> Producers] /\ fetcher \in [Member -> Response]
    BY TypeParts DEF Shape
  <1>2. CASE EnterDrainMode(n)
    <2>1. /\ role' = role /\ term' = term /\ lastVote' = lastVote /\ oplog' = oplog /\ durable' = durable
          /\ buffer' = buffer /\ fetcher' = fetcher /\ producer' = [producer EXCEPT ![n] = "Stopped"]
      BY <1>2 DEF EnterDrainMode, electionVars, logVars
    <2>2. producer'[n] = "Stopped" /\ \A m \in Member \ {n} : producer'[m] = producer[m]
      BY <1>0, <1>1, <2>1
    <2>3. InFlight(n)' = <<>>
      BY <2>2 DEF InFlight
    <2>4. Begins(Coming(n)', Coming(n))
      BY <2>1, <2>3, NotInFlight
    <2> QED
      BY <2>1, <2>2, <2>4, FetcherStep
  <1>3. CASE StepDownSelf(n)
    <2>1. /\ role' = [role EXCEPT ![n] = "SteppingDown"] /\ term' = term /\ lastVote' = lastVote
          /\ oplog' = oplog /\ durable' = durable
          /\ buffer' = buffer /\ fetcher' = fetcher /\ producer' = producer /\ IsPrimary(role[n])
      BY <1>3 DEF StepDownSelf, fetchVars, logVars, IsPrimary
    <2>2. role'[n] = "SteppingDown" /\ \A m \in Member : m # n => role'[m] = role[m]
      BY <1>0, <1>1, <2>1
    <2> QED
      BY <1>1, <2>1, <2>2, QuietStep
  <1>4. CASE StepDownFinish(n)
    <2>1. /\ role' = [role EXCEPT ![n] = "Follower"] /\ lastVote' = lastVote
          /\ term' = [term EXCEPT ![n] = IF pendingTerm[n] > term[n] THEN pendingTerm[n] ELSE term[n]]
          /\ oplog' = oplog /\ durable' = durable
          /\ buffer' = buffer /\ fetcher' = fetcher /\ producer' = [producer EXCEPT ![n] = "Starting"]
      BY <1>4 DEF StepDownFinish, logVars
    <2>2. /\ role'[n] = "Follower" /\ producer'[n] = "Starting"
          /\ \A m \in Member : m # n => role'[m] = role[m] /\ producer'[m] = producer[m] /\ term'[m] = term[m]
      BY <1>0, <1>1, <2>1, TypeParts DEF Shape
    <2>3. InFlight(n)' = <<>>
      BY <2>2 DEF InFlight
    <2>4. Begins(Coming(n)', Coming(n))
      BY <2>1, <2>3, NotInFlight
    <2>5. ~IsPrimary(role'[n])
      BY <2>2 DEF IsPrimary
    <2> QED
      BY <1>1, <2>1, <2>2, <2>4, <2>5, FetcherStep
  <1>5. CASE StartProducer(n)
    <2>1. /\ role' = role /\ term' = term /\ lastVote' = lastVote /\ oplog' = oplog /\ durable' = durable
          /\ buffer' = buffer /\ fetcher' = [fetcher EXCEPT ![n] = NoFetch]
          /\ producer' = [producer EXCEPT ![n] = "Running"] /\ producer[n] = "Starting"
      BY <1>5 DEF StartProducer, electionVars, logVars
    <2>2. /\ fetcher'[n] = NoFetch
          /\ \A m \in Member \ {n} : producer'[m] = producer[m] /\ fetcher'[m] = fetcher[m]
      BY <1>0, <1>1, <2>1
    <2>3. InFlight(n)' = <<>>
      BY <2>2 DEF InFlight, InCallback, NoFetch
    <2>4. Begins(Coming(n)', Coming(n))
      BY <2>1, <2>3, NotInFlight
    <2> QED
      BY <2>1, <2>2, <2>4, FetcherStep
  <1>6. CASE AdvanceCommitPoint(n)
    <2>1. /\ role' = role /\ term' = term /\ lastVote' = lastVote /\ oplog' = oplog /\ durable' = durable
          /\ buffer' = buffer /\ producer' = producer /\ fetcher[n].stage = "Checked"
          /\ fetcher' = [fetcher EXCEPT ![n] =
                            IF fetcher[n].docs = <<>> /\ fetcher[n].term <= term[n]
                              THEN NoFetch ELSE Advanced(fetcher[n].docs, fetcher[n].term)]
      BY <1>6 DEF AdvanceCommitPoint, electionVars, logVars
    <2>2. /\ fetcher'[n] = NoFetch \/ (fetcher'[n].stage = "Advanced" /\ fetcher'[n].docs = fetcher[n].docs)
          /\ \A m \in Member \ {n} : fetcher'[m] = fetcher[m]
      BY <1>0, <1>1, <2>1 DEF Advanced
    <2>3. InFlight(n)' = <<>> \/ InFlight(n)' = InFlight(n)
      BY <2>1, <2>2 DEF InFlight, InCallback, NoFetch
    <2>4. Begins(Coming(n)', Coming(n))
      <3>1. CASE InFlight(n)' = <<>>
        BY <2>1, <3>1, NotInFlight
      <3>2. CASE InFlight(n)' = InFlight(n)
        <4>1. Coming(n)' = Coming(n)
          BY <2>1, <3>2 DEF Coming, Fetched
        <4> QED
          BY <1>1, <4>1, ComingShape, BeginsItself
      <3> QED
        BY <2>3, <3>1, <3>2
    <2> QED
      BY <2>1, <2>2, <2>4, FetcherStep
  <1> QED
    BY <1>2, <1>3, <1>4, <1>5, <1>6

LEMMA RollbackStep ==
    ASSUME Shape, NEW n \in DataMember, Rollback(n)
    PROVE  LogStep
  <1>1. n \in Member /\ n \notin Arbiter /\ \A a \in Arbiter : a \in Member
    BY BoundTypes DEF DataMember
  <1>2. /\ role[n] = "Follower" /\ buffer[n] = <<>>
        /\ term' = term /\ lastVote' = lastVote /\ buffer' = buffer /\ producer' = producer
    BY RollbackIs
  <1>3. \/ /\ role' = [role EXCEPT ![n] = "Aborted"]
           /\ oplog' = oplog /\ durable' = durable /\ fetcher' = fetcher
        \/ \E i \in 1..Len(oplog[n]) :
           /\ Upto(oplog[n], i) \in Oplog /\ Len(Upto(oplog[n], i)) = i
           /\ Begins(Upto(oplog[n], i), oplog[n])
           /\ oplog' = [oplog EXCEPT ![n] = Upto(oplog[n], i)]
           /\ durable' = [durable EXCEPT ![n] = i]
           /\ fetcher' = [fetcher EXCEPT ![n] = NoFetch] /\ role' = role
    BY RollbackIs
  <1>4. CASE /\ role' = [role EXCEPT ![n] = "Aborted"]
             /\ oplog' = oplog /\ durable' = durable /\ fetcher' = fetcher
    <2>1. role'[n] = "Aborted" /\ \A m \in Member : m # n => role'[m] = role[m]
      BY <1>1, <1>4, TypeParts DEF Shape
    <2>2. ~IsPrimary(role'[n])
      BY <2>1 DEF IsPrimary
    <2> QED
      BY <1>1, <1>2, <1>4, <2>1, <2>2, QuietStep
  <1>5. ASSUME NEW i \in 1..Len(oplog[n]), NEW l \in Oplog, Len(l) = i, Begins(l, oplog[n]),
               oplog' = [oplog EXCEPT ![n] = l],
               durable' = [durable EXCEPT ![n] = i],
               fetcher' = [fetcher EXCEPT ![n] = NoFetch], role' = role
        PROVE  LogStep
    <2>1. i \in Nat /\ i >= 1
      BY OplogBegins
    <2>2. /\ durable'[n] = i /\ fetcher'[n] = NoFetch
          /\ \A m \in Member \ {n} : durable'[m] = durable[m] /\ fetcher'[m] = fetcher[m]
      BY <1>1, <1>5, TypeParts DEF Shape
    <2>3. ~IsPrimary(role'[n])
      BY <1>2, <1>5 DEF IsPrimary
    <2> QED
      BY <1>1, <1>2, <1>5, <2>1, <2>2, <2>3, ShortenStep
  <1> QED
    BY <1>3, <1>4, <1>5

LEMMA CrashStep ==
    ASSUME Shape, NEW n \in Member, Crash(n)
    PROVE  LogStep
  <1>1. PICK l \in Oplog :
           /\ Len(l) = durable[n] /\ Begins(l, oplog[n])
           /\ role' = [role EXCEPT ![n] = "Follower"]
           /\ term' = [term EXCEPT ![n] = IF Top(l).term > lastVote[n] THEN Top(l).term ELSE lastVote[n]]
           /\ oplog' = [oplog EXCEPT ![n] = l]
           /\ buffer' = [buffer EXCEPT ![n] = <<>>] /\ producer' = [producer EXCEPT ![n] = "Running"]
           /\ fetcher' = [fetcher EXCEPT ![n] = NoFetch]
           /\ lastVote' = lastVote /\ durable' = durable
    BY CrashIs
  <1>2. /\ buffer'[n] = <<>> /\ fetcher'[n] = NoFetch /\ role'[n] = "Follower"
        /\ \A m \in Member \ {n} :
              /\ buffer'[m] = buffer[m] /\ fetcher'[m] = fetcher[m] /\ producer'[m] = producer[m]
              /\ durable'[m] = durable[m] /\ role'[m] = role[m] /\ term'[m] = term[m]
    BY <1>1, TypeParts DEF Shape
  <1>3. ~IsPrimary(role'[n])
    BY <1>2 DEF IsPrimary
  <1>4. n \in DataMember => Len(l) >= 1 /\ durable'[n] >= 1
    BY <1>1, OplogBegins
  <1>5. n \in Arbiter => /\ durable'[n] = durable[n] /\ role'[n] = role[n]
                         /\ fetcher'[n] = fetcher[n] /\ buffer'[n] = buffer[n]
    BY <1>1, <1>2 DEF Shape, BeginInv
  <1>6. Begins(l, oplog[n]) /\ oplog' = [oplog EXCEPT ![n] = l] /\ lastVote' = lastVote
    BY <1>1
  <1> QED
    BY <1>2, <1>3, <1>4, <1>5, <1>6, ShortenStep

(* Every step but an election is one of the kinds above. *)
LEMMA StepKinds ==
    ASSUME Shape, LogInv, Next
    PROVE  LogStep \/ \E n \in DataMember : \E Q \in SUBSET Member : Elect(n, Q)
  <1>0. \A n \in DataMember : n \in Member
    BY BoundTypes
  <1> DEFINE P == LogStep
  <1>1. ASSUME NEW n \in DataMember, SignalDrainComplete(n) PROVE P
    <2> DEFINE r == "Master"
    <2>1. /\ LogOp(n, r) /\ role' = [role EXCEPT ![n] = "Master"] /\ role[n] = "LeaderElect"
          /\ producer[n] = "Stopped" /\ buffer[n] = <<>>
          /\ term' = term /\ lastVote' = lastVote /\ buffer' = buffer
          /\ producer' = producer /\ fetcher' = fetcher
      BY <1>1 DEF SignalDrainComplete, fetchVars
    <2>2. role'[n] = "Master" /\ \A m \in Member \ {n} : role'[m] = role[m]
      BY <1>0, <2>1, TypeParts DEF Shape
    <2>3. IsPrimary(role[n]) /\ IsPrimary(role'[n])
      BY <2>1, <2>2 DEF IsPrimary
    <2> HIDE DEF r
    <2>4. LogOp(n, r)
      BY <2>1
    <2> QED
      BY <2>1, <2>2, <2>3, <2>4, WriteStep
  <1>2. ASSUME NEW n \in DataMember, Write(n) PROVE P
    <2> DEFINE r == role[n]  l == oplog[n]  t == term[n]
    <2>1. /\ LogOp(n, r) /\ role' = role /\ role[n] \in {"Master", "SteppingDown"}
          /\ FirstOpTimeOfMyTerm(l, t) # MaxOpTime
          /\ term' = term /\ lastVote' = lastVote /\ buffer' = buffer
          /\ producer' = producer /\ fetcher' = fetcher
      BY <1>2 DEF Write, fetchVars, electionVars
    <2>2. IsPrimary(role[n]) /\ IsPrimary(role'[n])
      BY <2>1 DEF IsPrimary
    <2>3. \E i \in 1..Len(l) : l[i] = t
      <3>1. l \in Oplog /\ Len(l) <= MaxOplog /\ t \in Terms
        BY <1>0, MemberShape, ComingShape
      <3> HIDE DEF l, t
      <3> QED
        BY <2>1, <3>1, FirstIs
    <2>4. producer[n] = "Stopped" /\ buffer[n] = <<>>
      BY <2>2, <2>3 DEF LogInv, DrainInv
    <2> HIDE DEF r
    <2>5. LogOp(n, r)
      BY <2>1
    <2> QED
      BY <2>1, <2>2, <2>4, <2>5, WriteStep
  <1>3. ASSUME NEW n \in DataMember, NEW m \in Member, NEW r \in Reports(m), ReceivePosition(n, m, r) PROVE P
    <2>1. /\ UpdateTerm(n, r.term) /\ r.term \in Terms
          /\ lastVote' = lastVote /\ oplog' = oplog /\ durable' = durable
          /\ buffer' = buffer /\ producer' = producer /\ fetcher' = fetcher
      BY <1>3, ReceivePositionIs
    <2>2. /\ \A q \in Member : IsPrimary(role'[q]) => IsPrimary(role[q]) /\ term'[q] = term[q]
          /\ \A q \in Member : role'[q] \in {role[q], "SteppingDown"}
          /\ \A a \in Arbiter : role'[a] = role[a]
      BY <1>0, <2>1, UpdateTermKeeps
    <2> QED
      BY <2>1, <2>2, QuietStep
  <1>4. ASSUME NEW n \in Member, NEW m \in Member, LearnTerm(n, m) \/ ArbiterHeartbeat(n, m) PROVE P
    <2>1. /\ UpdateTerm(n, term[m]) /\ term[m] \in Terms
          /\ lastVote' = lastVote /\ oplog' = oplog /\ durable' = durable
          /\ buffer' = buffer /\ producer' = producer /\ fetcher' = fetcher
      BY <1>4, MemberShape DEF LearnTerm, ArbiterHeartbeat, logVars, fetchVars
    <2>2. /\ \A q \in Member : IsPrimary(role'[q]) => IsPrimary(role[q]) /\ term'[q] = term[q]
          /\ \A q \in Member : role'[q] \in {role[q], "SteppingDown"}
          /\ \A a \in Arbiter : role'[a] = role[a]
      BY <2>1, UpdateTermKeeps
    <2> QED
      BY <2>1, <2>2, QuietStep
  <1>5. ASSUME NEW n \in DataMember, NEW s \in DataMember, Find(n, s) PROVE P
    BY <1>5, FindStep DEF LogInv
  <1> QED
    BY <1>1, <1>2, <1>3, <1>4, <1>5, Actions, ControlSteps, ProcessStep, RollbackStep, GetMoreStep,
       JournalStep, ApplyStep, CrashStep

----------------------------------------------------------------------------
(* The invariant is kept: the oplogs.                                       *)

LEMMA ComingNext ==
    ASSUME TypeInv', NEW n \in Member
    PROVE  /\ Coming(n)' \in Oplog /\ Len(Coming(n)') \in Nat /\ oplog'[n] \in Oplog
           /\ Len(oplog'[n]) \in Nat /\ Begins(oplog'[n], Coming(n)')
           /\ term'[n] \in Terms /\ Begins(oplog'[n], Fetched(n)')
  <1>1. oplog'[n] \in Oplog /\ buffer'[n] \in Oplog /\ fetcher'[n] \in Response /\ term'[n] \in Terms
    BY DEF TypeInv, LogType, FetchType, ControlType
  <1>2. InFlight(n)' \in Oplog
    <2>1. InFlight(n)' = <<>> \/ (fetcher'[n].stage \in {"Checked", "Advanced"} /\ InFlight(n)' = fetcher'[n].docs)
      BY DEF InFlight, InCallback
    <2>2. <<>> \in Oplog
      BY DEF Oplog
    <2> QED
      BY <1>1, <2>1, <2>2, ResponseIs
  <1> DEFINE o == oplog'[n]  b == buffer'[n]  f == InFlight(n)'
  <1>3. Coming(n)' = (o \o b) \o f /\ o \in Oplog /\ b \in Oplog /\ f \in Oplog /\ Fetched(n)' = o \o b
    BY <1>1, <1>2 DEF Coming, Fetched
  <1> HIDE DEF o, b, f
  <1>4. o \o b \in Oplog /\ Begins(o, o \o b) /\ Len(o) \in Nat
    BY <1>3, OplogConcat
  <1>5. (o \o b) \o f \in Oplog /\ Begins(o \o b, (o \o b) \o f) /\ Len((o \o b) \o f) \in Nat
    BY <1>3, <1>4, OplogConcat
  <1>6. Begins(o, (o \o b) \o f)
    BY <1>3, <1>4, <1>5, BeginsTransitive
  <1> QED
    BY <1>1, <1>3, <1>4, <1>5, <1>6 DEF o

\* The first i entries that m has after the step were there before it, or the
\* last of them is new.
Old(m, i) == \E q \in DataMember : i <= Len(Coming(q)) /\ \A k \in 1..i : Coming(m)'[k] = Coming(q)[k]
New(m, i) == Writes(m) /\ i = Len(oplog[m]) + 1

LEMMA Origin ==
    ASSUME Shape, TypeInv', LogStep, NEW m \in DataMember, NEW i \in 1..Len(Coming(m)')
    PROVE  Old(m, i) \/ New(m, i)
  <1>0. m \in Member /\ \A q \in DataMember : q \in Member
    BY BoundTypes
  <1>1. Len(Coming(m)') \in Nat /\ Len(Coming(m)) \in Nat /\ Len(oplog[m]) \in Nat
    BY <1>0, ComingNext, ComingShape
  <1>7. i \in Nat
    BY <1>1
  <1>2. CASE Begins(Coming(m)', Coming(m))
    BY <1>1, <1>7, <1>2 DEF Old, Begins
  <1>3. CASE Writes(m)
    <2>1. /\ Coming(m)' = oplog'[m] /\ Coming(m) = oplog[m] /\ Len(oplog'[m]) = Len(oplog[m]) + 1
          /\ \A k \in 1..Len(oplog[m]) : oplog'[m][k] = oplog[m][k]
      BY <1>3 DEF Writes, Begins
    <2>2. CASE i <= Len(oplog[m])
      BY <1>1, <1>7, <2>1, <2>2 DEF Old
    <2>3. CASE i > Len(oplog[m])
      <3>1. i = Len(oplog[m]) + 1
        BY <1>1, <1>7, <2>1, <2>3
      <3> QED
        BY <1>3, <3>1 DEF New
    <2> QED
      BY <1>1, <1>7, <2>2, <2>3
  <1>4. ASSUME NEW s \in DataMember, Begins(Coming(m)', oplog[s]) PROVE Old(m, i)
    <2>1. /\ Begins(oplog[s], Coming(s)) /\ Len(oplog[s]) \in Nat /\ Len(Coming(s)) \in Nat
      BY <1>0, ComingShape
    <2>2. i <= Len(Coming(s)) /\ \A k \in 1..i : Coming(m)'[k] = Coming(s)[k]
      BY <1>1, <1>7, <1>4, <2>1 DEF Begins
    <2> QED
      BY <2>2 DEF Old
  <1>5. CASE Coming(m)' = Coming(m)
    BY <1>1, <1>7, <1>5 DEF Old
  <1>6. \/ Begins(Coming(m)', Coming(m)) \/ Writes(m) \/ Coming(m)' = Coming(m)
        \/ \E s \in DataMember : Begins(Coming(m)', oplog[s])
    BY DEF LogStep, Kinds, Writes, Fetches
  <1> QED
    BY <1>2, <1>3, <1>4, <1>5, <1>6

LEMMA OldLength ==
    ASSUME Shape, NEW m \in DataMember, NEW i \in Nat, Old(m, i)
    PROVE  i <= MaxOplog
  <1>1. PICK q \in DataMember : i <= Len(Coming(q))
    BY DEF Old
  <1>2. Len(Coming(q)) <= MaxOplog /\ Len(Coming(q)) \in Nat
    BY <1>1, ComingShape, BoundTypes
  <1> QED
    BY <1>1, <1>2, BoundTypes

LEMMA LogStepBegin ==
    ASSUME Shape, TypeInv', LogStep
    PROVE  BeginInv'
  <1>1. \A n \in DataMember : durable'[n] >= 1 /\ oplog'[n][1] = 0
    BY DEF LogStep, Kept
  <1>2. ASSUME NEW a \in Arbiter
        PROVE  /\ oplog'[a] = <<>> /\ buffer'[a] = <<>> /\ durable'[a] = 0
               /\ role'[a] = "Follower" /\ fetcher'[a] = NoFetch
    BY DEF LogStep, ArbitersIdle, Shape, BeginInv
  <1>3. ASSUME NEW a \in Arbiter PROVE Len(Coming(a)') <= MaxOplog
    <2>1. InFlight(a)' = <<>>
      BY <1>2 DEF InFlight, InCallback, NoFetch
    <2>2. Coming(a)' = (<<>> \o <<>>) \o <<>>
      BY <1>2, <2>1 DEF Coming, Fetched
    <2>3. Coming(a)' = <<>>
      BY <2>2
    <2> QED
      BY <2>3, BoundTypes
  <1>4. ASSUME NEW m \in DataMember PROVE Len(Coming(m)') <= MaxOplog
    <2> DEFINE i == Len(Coming(m)')
    <2>1. i \in Nat
      BY ComingNext, BoundTypes
    <2>2. CASE i = 0
      BY <2>2, BoundTypes
    <2>3. CASE i # 0
      <3>1. Old(m, i) \/ New(m, i)
        BY <2>1, <2>3, Origin
      <3>2. New(m, i) => i <= MaxOplog
        BY DEF New, Writes
      <3>3. Old(m, i) => i <= MaxOplog
        <4> HIDE DEF i
        <4> QED
          BY <2>1, OldLength
      <3> QED
        BY <3>1, <3>2, <3>3
    <2> QED
      BY <2>2, <2>3
  <1> QED
    BY <1>1, <1>2, <1>3, <1>4 DEF BeginInv, DataMember

LEMMA LogStepElected ==
    ASSUME Shape, LogInv, TypeInv', LogStep
    PROVE  ElectedInv'
  <1>0. \A q \in DataMember : q \in Member
    BY BoundTypes
  <1>1. lastVote' = lastVote
    BY DEF LogStep
  <1>2. ASSUME NEW p \in DataMember, IsPrimary(role'[p]) PROVE Elected(term[p])'
    <2>1. IsPrimary(role[p]) /\ term'[p] = term[p]
      BY <1>2 DEF LogStep, Kept
    <2>2. Elected(term[p])
      BY <2>1 DEF LogInv, ElectedInv
    <2> QED
      BY <1>1, <2>1, <2>2 DEF Elected
  <1>3. ASSUME NEW n \in DataMember, NEW i \in 1..Len(Coming(n)') PROVE Elected(Coming(n)[i])'
    <2>0. i \in Nat /\ 1 <= i
      BY <1>0, ComingNext
    <2>1. CASE Old(n, i)
      <3>1. PICK q \in DataMember : i <= Len(Coming(q)) /\ \A k \in 1..i : Coming(n)'[k] = Coming(q)[k]
        BY <2>1 DEF Old
      <3>2. Len(Coming(q)) \in Nat
        BY <1>0, ComingShape
      <3>3. i \in 1..Len(Coming(q)) /\ Coming(n)'[i] = Coming(q)[i]
        BY <2>0, <3>1, <3>2
      <3>4. Elected(Coming(q)[i])
        BY <3>3 DEF LogInv, ElectedInv
      <3> QED
        BY <1>1, <3>3, <3>4 DEF Elected
    <2>2. CASE New(n, i)
      <3>1. IsPrimary(role[n]) /\ Coming(n)'[i] = term[n]
        BY <2>2 DEF New, Writes
      <3>2. Elected(term[n])
        BY <3>1 DEF LogInv, ElectedInv
      <3> QED
        BY <1>1, <3>1, <3>2 DEF Elected
    <2> QED
      BY <2>1, <2>2, Origin
  <1>4. \A n \in DataMember : \A i \in 1..Len(Coming(n)') : Elected(Coming(n)[i])'
    BY <1>3
  <1>5. \A p \in DataMember : IsPrimary(role'[p]) => Elected(term[p])'
    BY <1>2
  <1> QED
    BY <1>4, <1>5 DEF ElectedInv

LEMMA LogStepPrimary ==
    ASSUME LogInv, LogStep
    PROVE  PrimaryInv'
  <1>1. \A p \in DataMember : IsPrimary(role'[p]) => IsPrimary(role[p]) /\ term'[p] = term[p]
    BY DEF LogStep, Kept
  <1> QED
    BY <1>1 DEF LogInv, PrimaryInv

LEMMA LogStepOwn ==
    ASSUME Shape, LogInv, TypeInv', LogStep
    PROVE  OwnInv'
  <1>0. \A q \in DataMember : q \in Member
    BY BoundTypes
  <1>1. ASSUME NEW p \in DataMember, NEW n \in DataMember, NEW i \in 1..Len(Coming(n)'),
               IsPrimary(role'[p]), Coming(n)'[i] = term'[p]
        PROVE  i <= Len(oplog'[p]) /\ oplog'[p][i] = term'[p]
    <2>0. i \in Nat /\ 1 <= i /\ Len(oplog'[p]) \in Nat /\ Len(oplog[p]) \in Nat
      BY <1>0, ComingNext, ComingShape
    <2>1. IsPrimary(role[p]) /\ term'[p] = term[p] /\ Begins(oplog[p], oplog'[p])
      BY <1>1 DEF LogStep, Kept
    <2>2. CASE Old(n, i)
      <3>1. PICK q \in DataMember : i <= Len(Coming(q)) /\ \A k \in 1..i : Coming(n)'[k] = Coming(q)[k]
        BY <2>2 DEF Old
      <3>2. Len(Coming(q)) \in Nat
        BY <1>0, ComingShape
      <3>3. i \in 1..Len(Coming(q)) /\ Coming(n)'[i] = Coming(q)[i]
        BY <2>0, <3>1, <3>2
      <3>4. i <= Len(oplog[p]) /\ oplog[p][i] = term[p]
        BY <1>1, <2>1, <3>3 DEF LogInv, OwnInv
      <3> QED
        BY <2>0, <2>1, <3>4 DEF Begins
    <2>3. CASE New(n, i)
      <3>1. /\ IsPrimary(role[n]) /\ Coming(n)'[i] = term[n]
            /\ i = Len(oplog'[n]) /\ oplog'[n][i] = term[n]
        BY <2>3 DEF New, Writes
      <3>2. n = p
        BY <1>1, <2>1, <3>1 DEF LogInv, PrimaryInv
      <3> QED
        BY <2>0, <2>1, <3>1, <3>2
    <2> QED
      BY <2>2, <2>3, Origin
  <1> QED
    BY <1>1 DEF OwnInv

LEMMA LogStepDrain ==
    ASSUME Shape, LogInv, TypeInv', LogStep
    PROVE  DrainInv'
  <1>0. \A q \in DataMember : q \in Member
    BY BoundTypes
  <1>1. ASSUME NEW p \in DataMember, IsPrimary(role'[p])
        PROVE  /\ role'[p] = "Master" => producer'[p] = "Stopped" /\ buffer'[p] = <<>>
               /\ \A i \in 1..Len(oplog'[p]) : oplog'[p][i] = term'[p] =>
                    /\ role'[p] # "LeaderElect" /\ producer'[p] = "Stopped" /\ buffer'[p] = <<>>
                    /\ \A j \in i..Len(oplog'[p]) : oplog'[p][j] = term'[p]
    <2>0. Kept(p) /\ p \in Member
      BY <1>0 DEF LogStep
    <2>1. /\ IsPrimary(role[p]) /\ term'[p] = term[p] /\ Begins(oplog[p], oplog'[p])
          /\ role'[p] = "LeaderElect" => role[p] = "LeaderElect"
          /\ producer[p] = "Stopped" /\ buffer[p] = <<>> => producer'[p] = "Stopped" /\ buffer'[p] = <<>>
      BY <1>1, <2>0 DEF Kept
    <2>2. role'[p] = "Master" => producer'[p] = "Stopped" /\ buffer'[p] = <<>>
      <3>1. role[p] = "Master" => producer[p] = "Stopped" /\ buffer[p] = <<>>
        BY <2>1 DEF LogInv, DrainInv
      <3>2. role'[p] = "Master" => role[p] = "Master" \/ (producer'[p] = "Stopped" /\ buffer'[p] = <<>>)
        BY <2>0 DEF Kept
      <3> QED
        BY <2>1, <3>1, <3>2
    <2>3. ASSUME NEW i \in 1..Len(oplog'[p]), oplog'[p][i] = term'[p]
          PROVE  /\ role'[p] # "LeaderElect" /\ producer'[p] = "Stopped" /\ buffer'[p] = <<>>
                 /\ \A j \in i..Len(oplog'[p]) : oplog'[p][j] = term'[p]
      <3>0. Len(oplog'[p]) \in Nat /\ Len(oplog[p]) \in Nat /\ i \in Nat /\ 1 <= i
        BY <2>0, ComingNext, ComingShape
      <3>1. ASSUME i <= Len(oplog[p]), oplog[p][i] = term[p]
            PROVE  /\ role[p] # "LeaderElect" /\ producer[p] = "Stopped" /\ buffer[p] = <<>>
                   /\ \A j \in i..Len(oplog[p]) : oplog[p][j] = term[p]
        <4>1. i \in 1..Len(oplog[p])
          BY <3>0, <3>1
        <4> QED
          BY <2>1, <3>1, <4>1 DEF LogInv, DrainInv
      <3>2. CASE oplog'[p] = oplog[p]
        <4>1. i <= Len(oplog[p]) /\ oplog[p][i] = term[p]
          BY <2>1, <2>3, <3>0, <3>2
        <4> QED
          BY <2>1, <3>1, <3>2, <4>1
      <3>3. CASE Begins(oplog'[p], Fetched(p)) /\ buffer[p] # <<>>
        <4>0. Begins(Fetched(p), Coming(p)) /\ Len(Coming(p)) \in Nat /\ Fetched(p) \in Oplog
          BY <2>0, ComingShape
        <4>1. Begins(Fetched(p), Coming(p)) /\ Len(Coming(p)) \in Nat /\ Len(Fetched(p)) \in Nat
          BY <4>0 DEF Oplog
        <4>2. i \in 1..Len(Coming(p)) /\ Coming(p)[i] = term[p]
          BY <2>1, <2>3, <3>0, <3>3, <4>1 DEF Begins
        <4>3. i <= Len(oplog[p]) /\ oplog[p][i] = term[p]
          BY <2>1, <4>2 DEF LogInv, OwnInv
        <4> QED
          BY <3>1, <3>3, <4>3
      <3>4. CASE Writes(p)
        <4>1. /\ producer[p] = "Stopped" /\ buffer[p] = <<>> /\ role'[p] # "LeaderElect"
              /\ Len(oplog'[p]) = Len(oplog[p]) + 1 /\ oplog'[p][Len(oplog'[p])] = term[p]
              /\ \A k \in 1..Len(oplog[p]) : oplog'[p][k] = oplog[p][k]
          BY <3>4 DEF Writes, Begins
        <4>2. ASSUME NEW j \in i..Len(oplog'[p]) PROVE oplog'[p][j] = term'[p]
          <5>0. j \in Nat /\ i <= j /\ j <= Len(oplog'[p])
            BY <3>0
          <5>1. CASE j = Len(oplog'[p])
            BY <2>1, <4>1, <5>1
          <5>2. CASE j # Len(oplog'[p])
            <6>1. j <= Len(oplog[p]) /\ i <= Len(oplog[p])
              BY <3>0, <4>1, <5>0, <5>2
            <6>2. i \in 1..Len(oplog[p]) /\ j \in 1..Len(oplog[p]) /\ j \in i..Len(oplog[p])
              BY <3>0, <5>0, <6>1
            <6>3. oplog[p][i] = term[p]
              BY <2>1, <2>3, <4>1, <6>2
            <6>4. oplog[p][j] = term[p]
              BY <3>1, <6>1, <6>2, <6>3
            <6> QED
              BY <2>1, <4>1, <6>2, <6>4
          <5> QED
            BY <5>1, <5>2
        <4> QED
          BY <2>1, <4>1, <4>2
      <3> QED
        BY <1>1, <2>0, <3>2, <3>3, <3>4 DEF Kept
    <2> QED
      BY <2>2, <2>3
  <1> QED
    BY <1>1 DEF DrainInv

LEMMA LogStepAgree ==
    ASSUME Shape, LogInv, TypeInv', LogStep
    PROVE  AgreeInv'
  <1>0. \A q \in DataMember : q \in Member
    BY BoundTypes
  <1>1. ASSUME NEW n \in DataMember, NEW m \in DataMember, NEW i \in 1..Len(Coming(n)'),
               NEW j \in i..Len(Coming(m)'), Coming(n)'[i] = Coming(m)'[j],
               NEW k \in 1..i
        PROVE  Coming(n)'[k] = Coming(m)'[k]
    <2>0. /\ i \in Nat /\ 1 <= i /\ j \in Nat /\ i <= j /\ j \in 1..Len(Coming(m)')
          /\ k \in Nat /\ 1 <= k /\ k <= i /\ k <= j
      BY <1>0, ComingNext
    <2>1. (Old(n, i) \/ New(n, i)) /\ (Old(m, j) \/ New(m, j))
      BY <2>0, Origin
    <2>2. CASE Old(n, i) /\ Old(m, j)
      <3>1. PICK q \in DataMember : i <= Len(Coming(q)) /\ \A x \in 1..i : Coming(n)'[x] = Coming(q)[x]
        BY <2>2 DEF Old
      <3>2. PICK r \in DataMember : j <= Len(Coming(r)) /\ \A x \in 1..j : Coming(m)'[x] = Coming(r)[x]
        BY <2>2 DEF Old
      <3>3. Len(Coming(q)) \in Nat /\ Len(Coming(r)) \in Nat
        BY <1>0, ComingShape
      <3>4. /\ i \in 1..Len(Coming(q)) /\ j \in i..Len(Coming(r)) /\ Coming(q)[i] = Coming(r)[j]
            /\ Coming(n)'[k] = Coming(q)[k] /\ Coming(m)'[k] = Coming(r)[k]
        BY <1>1, <2>0, <3>1, <3>2, <3>3
      <3>5. Coming(q)[k] = Coming(r)[k]
        BY <3>4 DEF LogInv, AgreeInv
      <3> QED
        BY <3>4, <3>5
    <2>3. CASE New(n, i) /\ Old(m, j)
      <3>1. /\ IsPrimary(role[n]) /\ Coming(n)'[i] = term[n] /\ i = Len(oplog[n]) + 1
        BY <2>3 DEF New, Writes
      <3>2. PICK r \in DataMember : j <= Len(Coming(r)) /\ \A x \in 1..j : Coming(m)'[x] = Coming(r)[x]
        BY <2>3 DEF Old
      <3>3. Len(Coming(r)) \in Nat /\ Len(oplog[n]) \in Nat
        BY <1>0, ComingShape
      <3>4. j \in 1..Len(Coming(r)) /\ Coming(r)[j] = term[n]
        <4>1. 1 <= j /\ j \in 1..j
          BY <2>0
        <4>2. j \in 1..Len(Coming(r))
          BY <2>0, <3>2, <3>3, <4>1
        <4> QED
          BY <1>1, <3>1, <3>2, <4>1, <4>2
      <3>5. j <= Len(oplog[n])
        BY <3>1, <3>4 DEF LogInv, OwnInv
      <3> QED
        BY <2>0, <3>1, <3>3, <3>5
    <2>4. CASE Old(n, i) /\ New(m, j)
      <3>1. /\ IsPrimary(role[m]) /\ Coming(m)'[j] = term[m] /\ Coming(m) = oplog[m] /\ Coming(m)' = oplog'[m]
            /\ Begins(oplog[m], oplog'[m])
        BY <2>4 DEF New, Writes
      <3>2. PICK q \in DataMember : i <= Len(Coming(q)) /\ \A x \in 1..i : Coming(n)'[x] = Coming(q)[x]
        BY <2>4 DEF Old
      <3>3. Len(Coming(q)) \in Nat /\ Len(oplog[m]) \in Nat
        BY <1>0, ComingShape
      <3>4. i \in 1..Len(Coming(q)) /\ Coming(q)[i] = term[m] /\ Coming(n)'[k] = Coming(q)[k]
        BY <1>1, <2>0, <3>1, <3>2, <3>3
      <3>5. i <= Len(oplog[m]) /\ oplog[m][i] = term[m]
        BY <3>1, <3>4 DEF LogInv, OwnInv
      <3>6. i \in i..Len(Coming(m)) /\ Coming(q)[i] = Coming(m)[i]
        BY <2>0, <3>1, <3>3, <3>4, <3>5
      <3>7. Coming(q)[k] = Coming(m)[k]
        BY <3>4, <3>6 DEF LogInv, AgreeInv
      <3>8. oplog'[m][k] = oplog[m][k]
        BY <2>0, <3>1, <3>3, <3>5 DEF Begins
      <3> QED
        BY <3>1, <3>4, <3>7, <3>8
    <2>5. CASE New(n, i) /\ New(m, j)
      <3>1. n = m
        <4>1. SUFFICES ASSUME n # m PROVE FALSE
          OBVIOUS
        <4>2. Coming(m)' = Coming(m)
          BY <2>5, <4>1 DEF New, Writes
        <4>3. Coming(m) = oplog[m] /\ Coming(m)' = oplog'[m] /\ Len(oplog'[m]) = Len(oplog[m]) + 1
          BY <2>5 DEF New, Writes
        <4>4. Len(oplog[m]) \in Nat
          BY <1>0, ComingShape
        <4> QED
          BY <4>2, <4>3, <4>4
      <3> QED
        BY <3>1
    <2> QED
      BY <2>1, <2>2, <2>3, <2>4, <2>5
  <1> QED
    BY <1>1 DEF AgreeInv

LEMMA ElectedBelow ==
    ASSUME Shape, NEW n \in DataMember, NEW Q \in SUBSET Member, Elect(n, Q), NEW u \in Int, Elected(u)
    PROVE  u < term[n] + 1
  <1> DEFINE M == {v \in Member : lastVote[v] >= u}
             t == term[n] + 1
  <1>1. /\ Cardinality(Q) >= VoteMajority /\ t \in Terms
        /\ \A v \in Q : lastVote[v] < t
    BY ElectIs
  <1>2. Cardinality(M) >= VoteMajority
    BY DEF Elected
  <1>3. M \in SUBSET Member /\ IsFiniteSet(Member) /\ IsFiniteSet(Q) /\ IsFiniteSet(M)
    BY BoundTypes, FS_Subset
  <1>4. Cardinality(M) \in Nat /\ Cardinality(Q) \in Nat
    BY <1>3, FS_CardinalityType
  <1> HIDE DEF M
  <1>5. Cardinality(Q) + Cardinality(M) > Cardinality(Member)
    BY <1>1, <1>2, <1>4, MajorityTypes
  <1>6. Q \cap M # {}
    BY <1>3, <1>5, FS_MajoritiesIntersect
  <1>7. PICK v \in Q : v \in M
    BY <1>6
  <1>8. lastVote[v] >= u /\ lastVote[v] < t /\ lastVote[v] \in Int
    <2>1. v \in Member
      BY <1>7
    <2>2. lastVote[v] \in Terms
      BY <2>1, MemberShape
    <2> QED
      BY <1>1, <1>7, <2>2, BoundTypes DEF M, Terms
  <1>9. t \in Int
    BY <1>1, BoundTypes DEF Terms
  <1> HIDE DEF t
  <1>10. u < t
    BY <1>8, <1>9
  <1> QED
    BY <1>10 DEF t

LEMMA ElectedGrows ==
    ASSUME Shape, NEW n \in DataMember, NEW Q \in SUBSET Member, Elect(n, Q), NEW u \in Int
    PROVE  /\ Elected(u) => Cardinality({v \in Member : lastVote'[v] >= u}) >= VoteMajority
           /\ u = term[n] + 1 => Cardinality({v \in Member : lastVote'[v] >= u}) >= VoteMajority
  <1> DEFINE M == {v \in Member : lastVote[v] >= u}
             N == {v \in Member : lastVote'[v] >= u}
             t == term[n] + 1
  <1>1. /\ Cardinality(Q) >= VoteMajority /\ t \in Terms
        /\ \A v \in Q : lastVote[v] < t /\ lastVote'[v] = t
        /\ \A v \in Member \ Q : lastVote'[v] = lastVote[v]
    BY ElectIs
  <1>2. t \in Int /\ \A v \in Member : lastVote[v] \in Int
    BY <1>1, MemberShape, BoundTypes DEF Terms
  <1>3. M \subseteq N
    <2> HIDE DEF t
    <2> QED
      BY <1>1, <1>2
  <1>4. u = t => Q \subseteq N
    <2> HIDE DEF t
    <2> QED
      BY <1>1, <1>2
  <1>5. IsFiniteSet(N) /\ IsFiniteSet(Q) /\ IsFiniteSet(M)
    BY BoundTypes, FS_Subset
  <1>6. Cardinality(N) \in Nat /\ Cardinality(Q) \in Nat /\ Cardinality(M) \in Nat
    BY <1>5, FS_CardinalityType
  <1>7. Cardinality(M) <= Cardinality(N) /\ (u = t => Cardinality(Q) <= Cardinality(N))
    <2> HIDE DEF M, N, t
    <2> QED
      BY <1>3, <1>4, <1>5, FS_Subset
  <1>8. Elected(u) => Cardinality(M) >= VoteMajority
    BY DEF Elected
  <1> HIDE DEF M, N, t
  <1>9. /\ Elected(u) => Cardinality(N) >= VoteMajority
        /\ u = t => Cardinality(N) >= VoteMajority
    BY <1>1, <1>6, <1>7, <1>8, MajorityTypes
  <1> QED
    BY <1>9 DEF N, t

LEMMA ElectBegin ==
    ASSUME Shape, NEW n \in DataMember, NEW Q \in SUBSET Member, Elect(n, Q)
    PROVE  BeginInv' /\ \A m \in Member : Coming(m)' = Coming(m)
  <1>0. \A q \in DataMember : q \in Member /\ q \notin Arbiter
    BY BoundTypes DEF DataMember
  <1>1. /\ oplog' = oplog /\ buffer' = buffer /\ producer' = producer /\ fetcher' = fetcher
        /\ \A m \in Q : durable'[m] = Len(oplog[m])
        /\ \A m \in Member \ Q : durable'[m] = durable[m]
        /\ \A m \in Member \ {n} : role'[m] = role[m]
    BY ElectIs
  <1>2. \A m \in Member : Coming(m)' = Coming(m)
    BY <1>1, SameComing
  <1>3. ASSUME NEW m \in DataMember PROVE durable'[m] >= 1 /\ oplog'[m][1] = 0
    BY <1>0, <1>1, OplogBegins
  <1>4. ASSUME NEW a \in Arbiter
        PROVE  /\ oplog'[a] = <<>> /\ buffer'[a] = <<>> /\ durable'[a] = 0
               /\ role'[a] = "Follower" /\ fetcher'[a] = NoFetch
    <2>1. a \in Member \ {n}
      BY <1>0, BoundTypes
    <2>2. /\ oplog[a] = <<>> /\ buffer[a] = <<>> /\ durable[a] = 0
          /\ role[a] = "Follower" /\ fetcher[a] = NoFetch
      BY DEF Shape, BeginInv
    <2> QED
      BY <1>1, <2>1, <2>2
  <1>5. \A m \in Member : Len(Coming(m)') <= MaxOplog
    BY <1>2, ComingShape
  <1> QED
    BY <1>2, <1>3, <1>4, <1>5 DEF BeginInv

LEMMA ElectKeeps ==
    ASSUME Shape, LogInv, NEW n \in DataMember, NEW Q \in SUBSET Member, Elect(n, Q)
    PROVE  ElectedInv' /\ PrimaryInv' /\ OwnInv' /\ DrainInv' /\ AgreeInv'
  <1>0. \A q \in DataMember : q \in Member
    BY BoundTypes
  <1> DEFINE t == term[n] + 1
  <1>1. /\ oplog' = oplog /\ buffer' = buffer /\ producer' = producer /\ \A m \in Member : Coming(m)' = Coming(m)
    BY ElectIs, ElectBegin
  <1>2. /\ t \in Int /\ term'[n] = t /\ role'[n] = "LeaderElect" /\ IsPrimary(role'[n])
        /\ \A p \in DataMember : p # n => role'[p] = role[p]
        /\ \A p \in DataMember : p # n /\ IsPrimary(role[p]) => term'[p] = term[p]
    <2>1. /\ t \in Terms /\ term'[n] = t /\ role'[n] = "LeaderElect"
          /\ \A m \in Member \ {n} : role'[m] = role[m]
          /\ \A m \in Member : ~(m \in Q /\ role[m] = "Follower") => term'[m] = term[m]
      BY ElectIs
    <2> QED
      BY <1>0, <2>1, BoundTypes DEF IsPrimary, Terms
  <1> HIDE DEF t
  <1>3. ASSUME NEW p \in DataMember, p # n, IsPrimary(role'[p])
        PROVE  /\ IsPrimary(role[p]) /\ term'[p] = term[p] /\ role'[p] = role[p]
               /\ Elected(term[p]) /\ term[p] \in Int /\ term[p] < t
    <2>1. IsPrimary(role[p]) /\ term'[p] = term[p] /\ role'[p] = role[p]
      BY <1>2, <1>3
    <2>2. Elected(term[p]) /\ term[p] \in Int
      BY <1>0, <2>1, MemberShape, BoundTypes DEF LogInv, ElectedInv, Terms
    <2> QED
      BY <2>1, <2>2, ElectedBelow DEF t
  <1>4. ASSUME NEW m \in DataMember, NEW i \in 1..Len(Coming(m))
        PROVE  Elected(Coming(m)[i]) /\ Coming(m)[i] \in Int /\ Coming(m)[i] < t
    <2>1. Coming(m) \in Oplog
      BY <1>0, ComingShape
    <2>2. Coming(m)[i] \in Int
      BY <2>1, BoundTypes DEF Oplog, Terms
    <2>3. Elected(Coming(m)[i])
      BY DEF LogInv, ElectedInv
    <2> QED
      BY <2>2, <2>3, ElectedBelow DEF t
  <1>5. ElectedInv'
    <2>1. ASSUME NEW p \in DataMember, IsPrimary(role'[p]) PROVE Elected(term[p])'
      <3>1. Cardinality({v \in Member : lastVote'[v] >= term'[p]}) >= VoteMajority
        <4>1. CASE p = n
          BY <1>2, <4>1, ElectedGrows DEF t
        <4>2. CASE p # n
          BY <1>3, <2>1, <4>2, ElectedGrows
        <4> QED
          BY <4>1, <4>2
      <3> QED
        BY <3>1 DEF Elected
    <2>2. ASSUME NEW m \in DataMember, NEW i \in 1..Len(Coming(m)') PROVE Elected(Coming(m)[i])'
      <3>1. Coming(m)' = Coming(m) /\ i \in 1..Len(Coming(m))
        BY <1>0, <1>1
      <3>2. Cardinality({v \in Member : lastVote'[v] >= Coming(m)[i]}) >= VoteMajority
        BY <1>4, <3>1, ElectedGrows
      <3> QED
        BY <3>1, <3>2 DEF Elected
    <2>3. \A p \in DataMember : IsPrimary(role'[p]) => Elected(term[p])'
      BY <2>1
    <2>4. \A m \in DataMember : \A i \in 1..Len(Coming(m)') : Elected(Coming(m)[i])'
      BY <2>2
    <2> QED
      BY <2>3, <2>4 DEF ElectedInv
  <1>6. PrimaryInv'
    BY <1>2, <1>3 DEF LogInv, PrimaryInv
  <1>7. OwnInv'
    <2>1. ASSUME NEW p \in DataMember, NEW m \in DataMember, NEW i \in 1..Len(Coming(m)'),
                 IsPrimary(role'[p]), Coming(m)'[i] = term'[p]
          PROVE  i <= Len(oplog'[p]) /\ oplog'[p][i] = term'[p]
      <3>1. Coming(m)' = Coming(m) /\ i \in 1..Len(Coming(m)) /\ Coming(m)[i] < t /\ Coming(m)[i] \in Int
        BY <1>0, <1>1, <1>4
      <3>2. p # n
        BY <1>2, <2>1, <3>1
      <3> QED
        BY <1>1, <1>3, <2>1, <3>1, <3>2 DEF LogInv, OwnInv
    <2> QED
      BY <2>1 DEF OwnInv
  <1>8. DrainInv'
    <2>1. ASSUME NEW i \in 1..Len(oplog[n]) PROVE oplog[n][i] # t
      <3>1. Begins(oplog[n], Coming(n)) /\ Len(oplog[n]) \in Nat /\ Len(Coming(n)) \in Nat
        BY <1>0, ComingShape
      <3>2. i \in 1..Len(Coming(n)) /\ Coming(n)[i] = oplog[n][i]
        BY <3>1 DEF Begins
      <3> QED
        BY <1>2, <1>4, <3>2
    <2>2. ASSUME NEW p \in DataMember, IsPrimary(role'[p])
          PROVE  /\ role'[p] = "Master" => producer'[p] = "Stopped" /\ buffer'[p] = <<>>
                 /\ \A i \in 1..Len(oplog'[p]) : oplog'[p][i] = term'[p] =>
                      /\ role'[p] # "LeaderElect" /\ producer'[p] = "Stopped" /\ buffer'[p] = <<>>
                      /\ \A j \in i..Len(oplog'[p]) : oplog'[p][j] = term'[p]
      <3>1. CASE p = n
        BY <1>1, <1>2, <2>1, <3>1
      <3>2. CASE p # n
        BY <1>1, <1>3, <2>2, <3>2 DEF LogInv, DrainInv
      <3> QED
        BY <3>1, <3>2
    <2> QED
      BY <2>2 DEF DrainInv
  <1>9. AgreeInv'
    <2>1. \A m \in DataMember : Coming(m)' = Coming(m)
      BY <1>0, <1>1
    <2> QED
      BY <2>1 DEF LogInv, AgreeInv
  <1> QED
    BY <1>5, <1>6, <1>7, <1>8, <1>9

----------------------------------------------------------------------------
(* The invariant is kept: what has been heard.                              *)

\* OpTimeOK after the step, of an optime that is given before it.
OKAfter(o) ==
    o # Null =>
        /\ o.term \in Terms /\ o.ts \in 1..MaxOplog
        /\ Cardinality({v \in Member : lastVote'[v] >= o.term}) >= VoteMajority
        /\ \A p \in DataMember : IsPrimary(role'[p]) /\ term'[p] = o.term => Has(oplog'[p], o)

LEMMA EntryOK ==
    ASSUME Shape, LogInv, NEW m \in DataMember, NEW o \in OpTime, Has(oplog[m], o)
    PROVE  OpTimeOK(o)
  <1>1. /\ m \in Member /\ oplog[m] \in Oplog /\ Begins(oplog[m], Coming(m))
        /\ Len(oplog[m]) \in Nat /\ Len(Coming(m)) \in Nat /\ Len(oplog[m]) <= MaxOplog
    BY BoundTypes, ComingShape, MemberShape
  <1> DEFINE i == o.ts
  <1>2. i \in 1..Len(oplog[m]) /\ oplog[m][i] = o.term
    BY DEF Has
  <1>3. i \in 1..Len(Coming(m)) /\ Coming(m)[i] = o.term /\ o.term \in Terms /\ i \in 1..MaxOplog
    BY <1>1, <1>2, BoundTypes DEF Begins, Oplog
  <1>4. Elected(o.term)
    <2>1. Elected(Coming(m)[i])
      BY <1>3 DEF LogInv, ElectedInv
    <2> QED
      BY <1>3, <2>1
  <1>5. ASSUME NEW p \in DataMember, IsPrimary(role[p]), term[p] = o.term PROVE Has(oplog[p], o)
    <2>1. i <= Len(oplog[p]) /\ oplog[p][i] = term[p] /\ Len(oplog[p]) \in Nat
      BY <1>3, <1>5, ComingShape, BoundTypes DEF LogInv, OwnInv
    <2> QED
      BY <1>2, <1>5, <2>1 DEF Has
  <1> QED
    BY <1>3, <1>4, <1>5 DEF OpTimeOK

LEMMA EntryOKAfter ==
    ASSUME TypeInv', BeginInv', ElectedInv', OwnInv', NEW m \in DataMember, NEW o \in OpTime, Has(oplog'[m], o)
    PROVE  OKAfter(o)
  <1>0. \A q \in DataMember : q \in Member
    BY BoundTypes
  <1>1. /\ m \in Member /\ oplog'[m] \in Oplog /\ Begins(oplog'[m], Coming(m)')
        /\ Len(oplog'[m]) \in Nat /\ Len(Coming(m)') \in Nat /\ Len(Coming(m)') <= MaxOplog
    BY <1>0, ComingNext DEF BeginInv
  <1> DEFINE i == o.ts
  <1>2. i \in 1..Len(oplog'[m]) /\ oplog'[m][i] = o.term
    BY DEF Has
  <1>3. i \in 1..Len(Coming(m)') /\ Coming(m)'[i] = o.term /\ o.term \in Terms /\ i \in 1..MaxOplog
    <2>1. i \in 1..Len(Coming(m)') /\ Coming(m)'[i] = o.term /\ i \in 1..MaxOplog
      BY <1>1, <1>2, BoundTypes DEF Begins
    <2>2. o.term \in Terms
      BY <1>1, <1>2 DEF Oplog
    <2> QED
      BY <2>1, <2>2
  <1>4. Cardinality({v \in Member : lastVote'[v] >= o.term}) >= VoteMajority
    <2>1. (Elected(Coming(m)[i]))'
      BY <1>3 DEF ElectedInv
    <2> QED
      BY <1>3, <2>1 DEF Elected
  <1>5. ASSUME NEW p \in DataMember, IsPrimary(role'[p]), term'[p] = o.term PROVE Has(oplog'[p], o)
    <2>1. i <= Len(oplog'[p]) /\ oplog'[p][i] = term'[p] /\ Len(oplog'[p]) \in Nat
      BY <1>0, <1>3, <1>5, ComingNext DEF OwnInv
    <2> QED
      BY <1>2, <1>5, <2>1 DEF Has
  <1> QED
    BY <1>3, <1>4, <1>5 DEF OKAfter

LEMMA HasKept ==
    ASSUME NEW s \in Oplog, NEW t \in Oplog, NEW o \in OpTime, Begins(s, t), Has(s, o)
    PROVE  Has(t, o)
  <1>1. Len(s) \in Nat /\ Len(t) \in Nat
    BY DEF Oplog
  <1> QED
    BY <1>1 DEF Has, Begins

LEMMA OKKept ==
    ASSUME Shape, TypeInv', NEW o \in OpTime, OpTimeOK(o),
           LogStep \/ \E n \in DataMember : \E Q \in SUBSET Member : Elect(n, Q)
    PROVE  OKAfter(o)
  <1>0. \A q \in DataMember : q \in Member
    BY BoundTypes
  <1>1. SUFFICES ASSUME o # Null
                 PROVE  /\ o.term \in Terms /\ o.ts \in 1..MaxOplog
                        /\ Cardinality({v \in Member : lastVote'[v] >= o.term}) >= VoteMajority
                        /\ \A p \in DataMember : IsPrimary(role'[p]) /\ term'[p] = o.term => Has(oplog'[p], o)
    BY DEF OKAfter
  <1>2. /\ o.term \in Terms /\ o.ts \in 1..MaxOplog /\ Elected(o.term) /\ o.term \in Int
        /\ \A p \in DataMember : IsPrimary(role[p]) /\ term[p] = o.term => Has(oplog[p], o)
    BY <1>1, BoundTypes DEF OpTimeOK, Terms
  <1>3. CASE LogStep
    <2>1. Cardinality({v \in Member : lastVote'[v] >= o.term}) >= VoteMajority
      BY <1>2, <1>3 DEF LogStep, Elected
    <2>2. ASSUME NEW p \in DataMember, IsPrimary(role'[p]), term'[p] = o.term PROVE Has(oplog'[p], o)
      <3>1. IsPrimary(role[p]) /\ term'[p] = term[p] /\ Begins(oplog[p], oplog'[p])
        BY <1>3, <2>2 DEF LogStep, Kept
      <3>2. oplog[p] \in Oplog /\ oplog'[p] \in Oplog
        BY <1>0, MemberShape, ComingNext
      <3>3. Has(oplog[p], o)
        BY <1>2, <2>2, <3>1
      <3> QED
        BY <3>1, <3>2, <3>3, HasKept
    <2> QED
      BY <1>2, <2>1, <2>2
  <1>4. ASSUME NEW n \in DataMember, NEW Q \in SUBSET Member, Elect(n, Q)
        PROVE  /\ Cardinality({v \in Member : lastVote'[v] >= o.term}) >= VoteMajority
               /\ \A p \in DataMember : IsPrimary(role'[p]) /\ term'[p] = o.term => Has(oplog'[p], o)
    <2>1. Cardinality({v \in Member : lastVote'[v] >= o.term}) >= VoteMajority
      BY <1>2, <1>4, ElectedGrows
    <2>2. o.term < term[n] + 1
      BY <1>2, <1>4, ElectedBelow
    <2>3. /\ oplog' = oplog /\ term'[n] = term[n] + 1
          /\ \A m \in Member \ {n} : role'[m] = role[m]
          /\ \A m \in Member : ~(m \in Q /\ role[m] = "Follower") => term'[m] = term[m]
      BY <1>4, ElectIs
    <2>4. ASSUME NEW p \in DataMember, IsPrimary(role'[p]), term'[p] = o.term PROVE Has(oplog'[p], o)
      <3>1. p # n
        BY <1>2, <2>2, <2>3, <2>4
      <3>2. p \in Member /\ role'[p] = role[p] /\ role[p] # "Follower"
        BY <1>0, <2>3, <2>4, <3>1 DEF IsPrimary
      <3> QED
        BY <1>2, <2>3, <2>4, <3>2
    <2> QED
      BY <2>1, <2>4
  <1> QED
    BY <1>2, <1>3, <1>4

\* What is known after the step: what was heard of before, and entries.
Known(o) == o \in OpTime /\ (OpTimeOK(o) \/ \E m \in DataMember : Has(oplog'[m], o))

(* What _setMyLastAppliedOpTime_inlock and _setMyLastDurableOpTime_inlock leave behind. *)
LEMMA SetMyPick ==
    ASSUME Shape, NEW n \in Member, NEW r, NEW l \in Oplog, Len(l) <= MaxOplog,
           NEW d \in Nat, NEW v \in Nat, d <= v, v <= Len(l), SetMyOpTimes(n, r, l, d, v)
    PROVE  \E pos \in [Member -> OpTime], c \in OpTime, o \in OpTime :
           /\ o = Counts(l, d) /\ (o = Null \/ Has(l, o))
           /\ c = UpdateLastCommittedOpTime(n, r, l, pos)
           /\ pos[n] = o /\ \A q \in Member : q # n => pos[q] = position[n][q]
           /\ \A m \in Member : m # n => position'[m] = position[m] /\ commitPoint'[m] = commitPoint[m]
           /\ IsPrimary(r) => position'[n] = pos
           /\ ~IsPrimary(r) => position'[n] = position[n]
           /\ commitPoint'[n] = c /\ Declare(n, l, c)
  <1> DEFINE pos == [position[n] EXCEPT ![n] = Counts(l, d)]
             c == UpdateLastCommittedOpTime(n, r, l, pos)
             cand == candidates[n] \cup (IF Top(l) # Top(oplog[n]) THEN {Top(l)} ELSE {})
             refresh == Top(l) # Top(oplog[n]) /\ AtMost(Top(l), c)
             o == Counts(l, d)
  <1>1. /\ position' = IF IsPrimary(r) THEN [position EXCEPT ![n] = pos] ELSE position
        /\ SetCommitPoint(n, c, cand, refresh)
        /\ Declare(n, l, c)
    BY DEF SetMyOpTimes
  <1>2. o \in OpTime /\ (o = Null \/ Has(l, o))
    <2>1. d \in 0..Len(l)
      BY DEF Oplog
    <2> QED
      BY <2>1, CountsType
  <1>3. /\ position \in [Member -> [Member -> OpTime]] /\ candidates[n] \in SUBSET OpTime
    BY MemberShape DEF Shape, TypeInv, OpTimeType
  <1>4. pos \in [Member -> OpTime] /\ pos[n] = o /\ \A q \in Member : q # n => pos[q] = position[n][q]
    BY <1>2, <1>3
  <1>5. /\ \A m \in Member : m # n => position'[m] = position[m]
        /\ IsPrimary(r) => position'[n] = pos
        /\ ~IsPrimary(r) => position'[n] = position[n]
    BY <1>1, <1>3, <1>4
  <1>6. c \in OpTime
    <2> HIDE DEF pos
    <2> QED
      BY <1>4, UpdateIs
  <1>7. cand \in SUBSET OpTime
    BY <1>3, TopType
  <1>8. /\ commitPoint'[n] = c /\ \A m \in Member \ {n} : commitPoint'[m] = commitPoint[m]
    <2> HIDE DEF c, cand, refresh
    <2> QED
      BY <1>1, <1>6, <1>7, SetCommitPointIs
  <1>9. c = UpdateLastCommittedOpTime(n, r, l, pos)
    OBVIOUS
  <1>10. \A m \in Member : m # n => position'[m] = position[m] /\ commitPoint'[m] = commitPoint[m]
    BY <1>5, <1>8
  <1>11. Declare(n, l, c) /\ commitPoint'[n] = c /\ o = Counts(l, d)
    BY <1>1, <1>8
  <1> HIDE DEF pos, c, o
  <1> QED
    BY <1>2, <1>4, <1>5, <1>6, <1>9, <1>10, <1>11

\* From the first entry of term t on, l has no other.
OwnSuffix(l, t) == \A i \in 1..Len(l) : l[i] = t => \A j \in i..Len(l) : l[j] = t

(* A primary moves the commit point only to an entry of its own term. *)
LEMMA CommitIs ==
    ASSUME Shape, LogInv, NEW n \in DataMember, NEW r, r \in {"LeaderElect", "Master"} => IsPrimary(role[n]),
           NEW l \in Oplog, Len(l) <= MaxOplog, Begins(oplog[n], l),
           r \in {"LeaderElect", "Master"} => OwnSuffix(l, term[n]),
           NEW pos \in [Member -> OpTime], \A m \in Member : OpTimeOK(pos[m]) \/ Has(l, pos[m]),
           NEW c, c = UpdateLastCommittedOpTime(n, r, l, pos), c # commitPoint[n]
    PROVE  /\ Has(l, c) /\ c.term = term[n] /\ IsPrimary(role[n]) /\ AtMost(c, MajorityOpTime(pos))
           /\ Less(commitPoint[n], c) /\ c \in OpTime /\ r \in {"LeaderElect", "Master"}
           /\ l # <<>> /\ l[Len(l)] = term[n]
  <1> DEFINE o == MajorityOpTime(pos)
             t == term[n]
  <1>1. n \in Member /\ n \notin Arbiter
    BY BoundTypes DEF DataMember
  <1>2. /\ c \in OpTime /\ r \in {"LeaderElect", "Master"} /\ Less(commitPoint[n], c)
        /\ ~Less(o, FirstOpTimeOfMyTerm(l, t))
        /\ c = o \/ (c = Top(l) /\ Less(c, o))
        /\ \/ c = o /\ Top(l).term = o.term
           \/ AtMost(c, o) /\ AtMost(c, Top(l))
    BY <1>1, UpdateIs
  <1>3. o \in OpTime /\ \E m \in Member : o = pos[m]
    BY MajorityIs
  <1>4. IsPrimary(role[n]) /\ OwnSuffix(l, t)
    BY <1>2
  <1>5. OpTimeOK(o) \/ Has(l, o)
    BY <1>3
  <1>6. t \in Terms /\ oplog[n] \in Oplog
    BY <1>1, MemberShape
  <1> HIDE DEF o, t
  <1>7. o = Null \/ (o.term \in Terms /\ o.ts \in 1..MaxOplog)
    <2>1. CASE Has(l, o)
      <3>1. o.ts \in 1..Len(l) /\ l[o.ts] = o.term
        BY <2>1 DEF Has
      <3>2. Len(l) \in Nat
        BY DEF Oplog
      <3>3. o.term \in Terms
        BY <3>1 DEF Oplog
      <3> QED
        BY <3>1, <3>2, <3>3, BoundTypes
    <2>2. CASE OpTimeOK(o)
      BY <2>2 DEF OpTimeOK
    <2> QED
      BY <1>5, <2>1, <2>2
  <1>8. PICK i \in 1..Len(l) : l[i] = t
    <2>1. SUFFICES ASSUME \A i \in 1..Len(l) : l[i] # t PROVE FALSE
      OBVIOUS
    <2>2. FirstOpTimeOfMyTerm(l, t) = MaxOpTime
      BY <1>6, <2>1, FirstIs
    <2>3. MaxOpTime.term = MaxTerm + 1 /\ o.term < MaxTerm + 1 /\ o.term \in Int
      BY <1>7, BoundTypes, NullType DEF MaxOpTime, Terms
    <2> QED
      BY <1>2, <2>2, <2>3, BoundTypes DEF Less
  <1>9. /\ FirstOpTimeOfMyTerm(l, t).term = t /\ FirstOpTimeOfMyTerm(l, t) \in OpTime
    BY <1>6, <1>8, FirstIs
  <1>10. Len(l) \in Nat /\ l # <<>> /\ Len(l) \in i..Len(l) /\ Len(l) \in 1..Len(l)
    <2>1. Len(l) \in Nat
      BY DEF Oplog
    <2> QED
      BY <1>8, <2>1
  <1>11. l[Len(l)] = t /\ Top(l).term = t /\ Has(l, Top(l)) /\ Top(l) \in OpTime
    <2>1. l[Len(l)] = t
      BY <1>4, <1>8, <1>10 DEF OwnSuffix
    <2> QED
      BY <1>10, <2>1, TopType
  <1>12. o.term >= t /\ o.term \in Int /\ t \in Int
    <2>1. o.term \in Int /\ t \in Int
      BY <1>3, <1>6, OrderOfOpTimes, BoundTypes DEF Terms
    <2> QED
      BY <1>2, <1>9, <2>1 DEF Less
  <1>13. CASE c = Top(l)
    <2>1. AtMost(c, o)
      BY <1>2 DEF AtMost
    <2> QED
      BY <1>2, <1>4, <1>10, <1>11, <1>13, <2>1 DEF t, o
  <1>14. CASE c = o
    <2>1. c.term = t
      <3>1. CASE Top(l).term = o.term
        BY <1>11, <1>14, <3>1
      <3>2. CASE AtMost(c, Top(l))
        <4>1. c.term <= Top(l).term
          BY <1>2, <1>11, <3>2, OrderOfOpTimes
        <4> QED
          BY <1>11, <1>12, <1>14, <4>1
      <3> QED
        BY <1>2, <3>1, <3>2
    <2>2. Has(l, c)
      <3>1. CASE OpTimeOK(o)
        <4>1. o # Null
          BY <1>6, <1>14, <2>1, NullType, BoundTypes DEF Terms
        <4>2. Has(oplog[n], o)
          BY <1>4, <1>14, <2>1, <3>1, <4>1 DEF OpTimeOK, t
        <4> QED
          BY <1>3, <1>6, <1>14, <4>2, HasKept
      <3> QED
        BY <1>5, <1>14, <3>1
    <2>3. AtMost(c, o)
      BY <1>14 DEF AtMost
    <2> QED
      BY <1>2, <1>4, <1>10, <1>11, <2>1, <2>2, <2>3 DEF t, o
  <1> QED
    BY <1>2, <1>13, <1>14

(* What is counted on a majority is an oplog. *)
LEMMA DeclareType ==
    ASSUME IsOplog(committed), NEW n, NEW l \in Oplog, Len(l) <= MaxOplog, NEW c \in OpTime,
           c # commitPoint[n] => Has(l, c), Declare(n, l, c)
    PROVE  IsOplog(committed')
  <1>1. CASE c # commitPoint[n]
    <2>1. c.ts \in 1..Len(l) /\ Len(l) \in Nat
      BY <1>1 DEF Has, Oplog
    <2>2. l \in Seq(Terms) /\ c.ts \in Nat /\ c.ts <= Len(l)
      BY <2>1 DEF Oplog
    <2> DEFINE i == c.ts
    <2> HIDE DEF i
    <2>3. Upto(l, i) \in Seq(Terms) /\ Len(Upto(l, i)) = i
      BY <2>2, Part DEF i
    <2>4. Upto(l, i) \in Seq(Terms) /\ Len(Upto(l, i)) <= MaxOplog
      BY <2>1, <2>2, <2>3, BoundTypes DEF i
    <2> QED
      BY <2>4 DEF Declare, IsOplog, i, Terms
  <1>2. CASE c = commitPoint[n]
    BY <1>2 DEF Declare
  <1> QED
    BY <1>1, <1>2

LEMMA SetMyKnown ==
    ASSUME Shape, LogInv, IsOplog(committed), NEW n \in DataMember, NEW r,
           r \in {"LeaderElect", "Master"} => IsPrimary(role[n]),
           NEW l \in Oplog, Len(l) <= MaxOplog, Begins(oplog[n], l),
           r \in {"LeaderElect", "Master"} => OwnSuffix(l, term[n]),
           NEW d \in Nat, NEW v \in Nat, d <= v, v <= Len(l), SetMyOpTimes(n, r, l, d, v)
    PROVE  /\ \A m \in Member : Known(commitPoint'[m])
           /\ \A m, q \in Member : Known(position'[m][q])
           /\ IsOplog(committed')
  <1>0. n \in Member
    BY BoundTypes
  <1>1. PICK pos \in [Member -> OpTime], c \in OpTime, o \in OpTime :
           /\ o = Counts(l, d) /\ (o = Null \/ Has(l, o))
           /\ c = UpdateLastCommittedOpTime(n, r, l, pos)
           /\ pos[n] = o /\ \A q \in Member : q # n => pos[q] = position[n][q]
           /\ \A m \in Member : m # n => position'[m] = position[m] /\ commitPoint'[m] = commitPoint[m]
           /\ IsPrimary(r) => position'[n] = pos
           /\ ~IsPrimary(r) => position'[n] = position[n]
           /\ commitPoint'[n] = c /\ Declare(n, l, c)
    BY <1>0, SetMyPick
  <1>2. oplog'[n] = l
    <2>1. oplog' = [oplog EXCEPT ![n] = l]
      BY SetMyLog
    <2> QED
      BY <1>0, <2>1, TypeParts DEF Shape
  <1>3. \A m \in Member : OpTimeOK(pos[m]) \/ Has(l, pos[m])
    <2>1. OpTimeOK(Null)
      BY DEF OpTimeOK
    <2>2. \A q \in Member : OpTimeOK(position[n][q])
      BY <1>0 DEF LogInv, HeardInv
    <2> QED
      BY <1>1, <2>1, <2>2
  <1>4. c # commitPoint[n] => Has(l, c)
    BY <1>1, <1>3, CommitIs
  <1>5. \A m \in Member : commitPoint[m] \in OpTime /\ OpTimeOK(commitPoint[m])
    BY MemberShape DEF LogInv, HeardInv
  <1>6. \A m, q \in Member : position[m][q] \in OpTime /\ OpTimeOK(position[m][q])
    BY MemberShape DEF LogInv, HeardInv
  <1>7. \A m \in Member : Known(commitPoint'[m])
    BY <1>0, <1>1, <1>2, <1>4, <1>5 DEF Known
  <1>8. \A m \in Member : Known(pos[m])
    BY <1>2, <1>3 DEF Known
  <1>9. \A m, q \in Member : Known(position'[m][q])
    <2>1. \A m, q \in Member : Known(position[m][q])
      BY <1>6 DEF Known
    <2> QED
      BY <1>1, <1>8, <2>1
  <1>10. IsOplog(committed')
    BY <1>1, <1>4, DeclareType
  <1> QED
    BY <1>7, <1>9, <1>10

LEMMA HeardKnown ==
    ASSUME Shape, LogInv
    PROVE  /\ \A m \in Member : Known(commitPoint[m]) /\ \A o \in reported[m] : Known(o)
           /\ \A m, q \in Member : Known(position[m][q])
           /\ \A m \in Member : fetcher[m].stage = "Checked" => Known(fetcher[m].committed)
           /\ \A m \in Member : Known(Reached(m)) /\ OpTimeOK(Reached(m))
           /\ \A m \in DataMember : Known(Top(oplog[m])) /\ OpTimeOK(Top(oplog[m]))
           /\ Known(Null)
  <1>0. \A m \in DataMember : m \in Member
    BY BoundTypes
  <1>1. \A m \in Member : Known(commitPoint[m]) /\ \A o \in reported[m] : Known(o)
    BY MemberShape DEF LogInv, HeardInv, Known
  <1>2. \A m, q \in Member : Known(position[m][q])
    BY MemberShape DEF LogInv, HeardInv, Known
  <1>3. \A m \in Member : fetcher[m].stage = "Checked" => Known(fetcher[m].committed)
    BY MemberShape, ResponseIs DEF LogInv, HeardInv, Known
  <1>4. OpTimeOK(Null) /\ Known(Null)
    BY NullType DEF OpTimeOK, Known
  <1>5. ASSUME NEW m \in Member PROVE OpTimeOK(Reached(m)) /\ Reached(m) \in OpTime
    <2>1. /\ Reached(m) \in OpTime
          /\ \/ Reached(m) = Null \/ Reached(m) = commitPoint[m] \/ Has(oplog[m], Reached(m))
      BY ReachedIs
    <2>2. CASE Has(oplog[m], Reached(m))
      <3>1. m \in DataMember
        <4>1. m \in Arbiter => oplog[m] = <<>>
          BY DEF Shape, BeginInv
        <4> QED
          BY <2>2, <4>1 DEF Has, DataMember
      <3> QED
        BY <2>1, <2>2, <3>1, EntryOK
    <2> QED
      BY <1>4, <2>1, <2>2 DEF LogInv, HeardInv
  <1>6. ASSUME NEW m \in DataMember PROVE OpTimeOK(Top(oplog[m])) /\ Top(oplog[m]) \in OpTime
    <2> DEFINE l == oplog[m]
    <2>1. l \in Oplog /\ Len(l) <= MaxOplog /\ Len(l) >= 1 /\ Len(l) \in Nat
      BY <1>0, ComingShape, OplogBegins
    <2>2. Has(l, Top(l)) /\ Top(l) \in OpTime
      <3> HIDE DEF l
      <3>1. l # <<>>
        BY <2>1
      <3> QED
        BY <2>1, <3>1, TopType
    <2> QED
      BY <2>2, EntryOK
  <1> QED
    BY <1>1, <1>2, <1>3, <1>4, <1>5, <1>6 DEF Known

\* What somebody has heard of is known, and what is committed is an oplog.
AllKnown ==
    /\ \A m \in Member : Known(commitPoint'[m]) /\ \A o \in reported'[m] : Known(o)
    /\ \A m, q \in Member : Known(position'[m][q])
    /\ \A m \in Member : fetcher'[m].stage = "Checked" => Known(fetcher'[m].committed)
    /\ IsOplog(committed')

LEMMA AllKnownSame ==
    ASSUME Shape, LogInv, IsOplog(committed), commitPoint' = commitPoint, committed' = committed,
           \A m \in Member : position'[m] = position[m] \/ position'[m] = NoPositions,
           \A m \in Member : \A o \in reported'[m] : o \in reported[m] \/ o = Reached(m),
           \A m \in Member : \/ fetcher'[m] = fetcher[m] \/ fetcher'[m].stage # "Checked"
                             \/ \E s \in Member : fetcher'[m].committed = commitPoint[s]
    PROVE  AllKnown
  <1>1. ASSUME NEW m \in Member, NEW q \in Member PROVE Known(position'[m][q])
    <2>1. NoPositions[q] = Null
      BY DEF NoPositions
    <2> QED
      BY <2>1, HeardKnown
  <1>2. ASSUME NEW m \in Member, fetcher'[m].stage = "Checked" PROVE Known(fetcher'[m].committed)
    BY <1>2, HeardKnown
  <1>3. ASSUME NEW m \in Member PROVE Known(commitPoint'[m]) /\ \A o \in reported'[m] : Known(o)
    BY HeardKnown
  <1> QED
    BY <1>1, <1>2, <1>3 DEF AllKnown

LEMMA SetMyAllKnown ==
    ASSUME Shape, LogInv, IsOplog(committed), DrainInv', NEW n \in DataMember, NEW r,
           r \in {"LeaderElect", "Master"} => /\ IsPrimary(role[n]) /\ IsPrimary(role'[n])
                                              /\ term'[n] = term[n],
           NEW l \in Oplog, Len(l) <= MaxOplog, Begins(oplog[n], l),
           NEW d \in Nat, NEW v \in Nat, d <= v, v <= Len(l), SetMyOpTimes(n, r, l, d, v),
           reported' = reported, fetcher' = fetcher
    PROVE  AllKnown
  <1>1. oplog'[n] = l
    <2>1. oplog' = [oplog EXCEPT ![n] = l]
      BY SetMyLog
    <2> QED
      BY <2>1, TypeParts, BoundTypes DEF Shape
  <1>2. r \in {"LeaderElect", "Master"} => IsPrimary(role[n]) /\ OwnSuffix(l, term[n])
    BY <1>1 DEF DrainInv, OwnSuffix
  <1>3. /\ \A m \in Member : Known(commitPoint'[m])
        /\ \A m, q \in Member : Known(position'[m][q])
        /\ IsOplog(committed')
    BY <1>2, SetMyKnown
  <1>4. /\ \A m \in Member : \A o \in reported[m] : Known(o)
        /\ \A m \in Member : fetcher[m].stage = "Checked" => Known(fetcher[m].committed)
    BY HeardKnown
  <1> QED
    BY <1>3, <1>4 DEF AllKnown

LEMMA AdvanceKnown ==
    ASSUME Shape, LogInv, NEW n \in Member, NEW l \in Oplog, Len(l) <= MaxOplog, NEW r,
           NEW o, Known(o), Known(Top(l)), NEW c, c = AdvanceLastCommittedOpTime(n, r, l, o)
    PROVE  Known(c)
  <1>1. o \in OpTime /\ commitPoint[n] \in OpTime /\ term[n] \in Terms
    BY MemberShape DEF Known
  <1>2. c \in {commitPoint[n], o, Top(l)}
    BY <1>1, AdvanceIs
  <1>3. Known(commitPoint[n])
    BY HeardKnown
  <1> QED
    BY <1>2, <1>3

LEMMA FetchKnown ==
    ASSUME Shape, LogInv, IsOplog(committed), NEW n \in DataMember, NEW s \in DataMember,
           Find(n, s) \/ GetMore(n, s)
    PROVE  AllKnown
  <1>0. n \in Member /\ s \in Member /\ <<>> \in Oplog
    BY BoundTypes DEF Oplog
  <1>1. \E f \in Response : /\ Answer(n, s, f)
                            /\ f.stage = "Checked" => f.committed = commitPoint[s]
    <2>1. CASE GetMore(n, s)
      BY <1>0, <2>1, CheckedType DEF GetMore
    <2>2. CASE Find(n, s)
      <3>1. PICK f \in Response, v \in Nat :
              /\ Answer(n, s, f)
              /\ f = Diverged(s) \/ f = Checked(n, s, After(Upto(oplog[s], v), LastFetched(n).ts))
        BY <2>2, FindIs
      <3> DEFINE docs == After(Upto(oplog[s], v), LastFetched(n).ts)
      <3>3. f = Diverged(s) \/ f = Checked(n, s, docs)
        BY <3>1
      <3>2. f.stage = "Checked" => f.committed = commitPoint[s]
        <4>1. Diverged(s).stage # "Checked"
          BY DEF Diverged
        <4> HIDE DEF docs
        <4>2. Checked(n, s, docs).stage = "Checked" => Checked(n, s, docs).committed = commitPoint[s]
          BY DEF Checked, Advanced
        <4> QED
          BY <3>3, <4>1, <4>2
      <3> QED
        BY <3>1, <3>2
    <2> QED
      BY <2>1, <2>2
  <1>2. PICK f \in Response : /\ Answer(n, s, f)
                              /\ f.stage = "Checked" => f.committed = commitPoint[s]
    BY <1>1
  <1>3. /\ UpdateTerm(s, term[n]) /\ fetcher' = [fetcher EXCEPT ![n] = IF term[n] > term[s] THEN NoFetch ELSE f]
        /\ position' = position /\ commitPoint' = commitPoint /\ committed' = committed
    BY <1>0, <1>2, AnswerIs
  <1>4. \A m \in Member : \A o \in reported'[m] : o \in reported[m] \/ o = Reached(m)
    <2>1. term[n] \in Terms
      BY <1>0, MemberShape
    <2> QED
      BY <1>0, <1>3, <2>1, UpdateTermIs
  <1>5. ASSUME NEW m \in Member
        PROVE  \/ fetcher'[m] = fetcher[m] \/ fetcher'[m].stage # "Checked"
               \/ \E q \in Member : fetcher'[m].committed = commitPoint[q]
    <2>1. fetcher'[m] \in {fetcher[m], NoFetch, f} /\ (fetcher'[m] = f => f.stage # "Checked" \/ f.committed = commitPoint[s])
      BY <1>0, <1>2, <1>3, TypeParts DEF Shape
    <2>2. NoFetch.stage # "Checked"
      BY DEF NoFetch
    <2> QED
      BY <1>0, <2>1, <2>2
  <1> QED
    BY <1>3, <1>4, <1>5, AllKnownSame

LEMMA AdvanceCommitKnown ==
    ASSUME Shape, LogInv, IsOplog(committed), NEW n \in DataMember, AdvanceCommitPoint(n)
    PROVE  AllKnown
  <1>0. n \in Member
    BY BoundTypes
  <1> DEFINE f == fetcher[n]  l == oplog[n]  r == role[n]  o == f.committed
             c == AdvanceLastCommittedOpTime(n, r, l, o)
             cand == candidates[n]
  <1>1. /\ f.stage = "Checked" /\ SetCommitPoint(n, c, cand, FALSE)
        /\ fetcher' = [fetcher EXCEPT ![n] =
                        IF f.docs = <<>> /\ f.term <= term[n] THEN NoFetch ELSE Advanced(f.docs, f.term)]
        /\ position' = position /\ reported' = reported /\ committed' = committed
    BY DEF AdvanceCommitPoint, positionVars
  <1>2. Known(o) /\ Known(Top(l)) /\ l \in Oplog /\ Len(l) <= MaxOplog /\ cand \in SUBSET OpTime
    BY <1>0, <1>1, HeardKnown, MemberShape, ComingShape
  <1>3. Known(c) /\ c \in OpTime
    <2>1. c = AdvanceLastCommittedOpTime(n, r, l, o)
      OBVIOUS
    <2> HIDE DEF c, l, r, o
    <2>2. Known(c)
      BY <1>0, <1>2, <2>1, AdvanceKnown
    <2> QED
      BY <2>2 DEF Known
  <1>4. \A m \in Member : Known(commitPoint'[m])
    <2> HIDE DEF c, cand
    <2>1. commitPoint'[n] = c /\ \A m \in Member \ {n} : commitPoint'[m] = commitPoint[m]
      BY <1>0, <1>1, <1>2, <1>3, SetCommitPointIs
    <2> QED
      BY <1>3, <2>1, HeardKnown
  <1>5. ASSUME NEW m \in Member, fetcher'[m].stage = "Checked" PROVE Known(fetcher'[m].committed)
    <2>1. fetcher'[n].stage # "Checked" /\ \A q \in Member : q # n => fetcher'[q] = fetcher[q]
      BY <1>0, <1>1, TypeParts DEF Shape, NoFetch, Advanced
    <2> QED
      BY <1>5, <2>1, HeardKnown
  <1>6. /\ \A m \in Member : \A x \in reported'[m] : Known(x)
        /\ \A m, q \in Member : Known(position'[m][q])
    BY <1>1, HeardKnown
  <1> QED
    BY <1>1, <1>4, <1>5, <1>6 DEF AllKnown

LEMMA HeartbeatKnown ==
    ASSUME Shape, LogInv, IsOplog(committed), NEW n \in Member, NEW s \in Member, ArbiterHeartbeat(n, s)
    PROVE  AllKnown
  <1> DEFINE l == <<>>  r == role[n]  o == commitPoint[s]
             c == AdvanceLastCommittedOpTime(n, r, l, o)
  <1>1. /\ commitPoint' = [commitPoint EXCEPT ![n] = c] /\ UpdateTerm(n, term[s]) /\ term[s] \in Terms
        /\ position' = position /\ fetcher' = fetcher /\ committed' = committed
    BY MemberShape DEF ArbiterHeartbeat, fetchVars
  <1>2. Known(c)
    <2>1. l \in Oplog /\ Len(l) <= MaxOplog
      BY BoundTypes DEF Oplog
    <2>2. Top(l) = Null
      BY <2>1, TopType
    <2>3. Known(o) /\ Known(Top(l)) /\ c = AdvanceLastCommittedOpTime(n, r, l, o)
      BY <2>2, HeardKnown
    <2> HIDE DEF c, l, r, o
    <2> QED
      BY <2>1, <2>3, AdvanceKnown
  <1>3. \A m \in Member : Known(commitPoint'[m])
    <2> HIDE DEF c
    <2>1. commitPoint'[n] = c /\ \A m \in Member : m # n => commitPoint'[m] = commitPoint[m]
      BY <1>1, TypeParts DEF Shape
    <2> QED
      BY <1>2, <2>1, HeardKnown
  <1>4. \A m \in Member : \A x \in reported'[m] : x \in reported[m] \/ x = Reached(m)
    BY <1>1, UpdateTermIs
  <1> QED
    BY <1>1, <1>3, <1>4, HeardKnown DEF AllKnown

LEMMA ReceiveKnown ==
    ASSUME Shape, LogInv, IsOplog(committed), NEW n \in DataMember, NEW m \in Member, NEW rp \in Reports(m),
           ReceivePosition(n, m, rp)
    PROVE  AllKnown
  <1>0. n \in Member
    BY BoundTypes
  <1>1. PICK pos \in [Member -> OpTime], nr \in Roles :
           /\ pos = [position[n] EXCEPT ![m] = rp.position]
           /\ nr = (IF rp.term > term[n] THEN "SteppingDown" ELSE role[n])
           /\ IsPrimary(role[n]) /\ m # n /\ rp.position.term = term[n] /\ rp.term \in Terms
           /\ UpdateTerm(n, rp.term)
           /\ position' = [position EXCEPT ![n] = pos]
           /\ SetCommitPoint(n, UpdateLastCommittedOpTime(n, nr, oplog[n], pos), candidates[n], FALSE)
           /\ UpdateLastCommittedOpTime(n, nr, oplog[n], pos) \in OpTime
           /\ Declare(n, oplog[n], UpdateLastCommittedOpTime(n, nr, oplog[n], pos))
           /\ lastVote' = lastVote /\ oplog' = oplog /\ durable' = durable /\ visible' = visible
           /\ buffer' = buffer /\ producer' = producer /\ fetcher' = fetcher /\ crashes' = crashes
    BY ReceivePositionIs
  <1> DEFINE c == UpdateLastCommittedOpTime(n, nr, oplog[n], pos)
             l == oplog[n]
             cand == candidates[n]
  <1>2. OpTimeOK(rp.position) /\ Known(rp.position)
    <2>1. /\ rp.position \in OpTime
          /\ rp.position = Reached(m) \/ rp.position \in reported[m]
      BY ReportIs
    <2> QED
      BY <2>1, HeardKnown DEF LogInv, HeardInv, Known
  <1>3. \A q \in Member : OpTimeOK(pos[q]) /\ Known(pos[q])
    <2>1. \A q \in Member : pos[q] = rp.position \/ pos[q] = position[n][q]
      BY <1>0, <1>1, MemberShape
    <2>2. \A q \in Member : OpTimeOK(position[n][q])
      BY <1>0 DEF LogInv, HeardInv
    <2> QED
      BY <1>1, <1>2, <2>1, <2>2 DEF Known
  <1>4. /\ l \in Oplog /\ Len(l) <= MaxOplog /\ cand \in SUBSET OpTime /\ Begins(oplog[n], l)
        /\ OwnSuffix(l, term[n]) /\ \A q \in Member : OpTimeOK(pos[q]) \/ Has(l, pos[q])
        /\ IsPrimary(role[n])
    <2>1. l \in Oplog /\ Len(l) <= MaxOplog /\ cand \in SUBSET OpTime /\ Begins(oplog[n], l)
      BY <1>0, MemberShape, ComingShape, OplogBegins
    <2>2. OwnSuffix(l, term[n])
      BY <1>1 DEF LogInv, DrainInv, OwnSuffix
    <2> QED
      BY <1>1, <1>3, <2>1, <2>2
  <1>5. /\ SetCommitPoint(n, c, cand, FALSE) /\ c \in OpTime /\ Declare(n, l, c)
        /\ c = UpdateLastCommittedOpTime(n, nr, l, pos)
    BY <1>1
  <1>6. c # commitPoint[n] => Has(l, c)
    <2> HIDE DEF c
    <2>1. c # commitPoint[n] => Has(oplog[n], c)
      BY <1>4, <1>5, CommitIs
    <2> QED
      BY <2>1
  <1>7. \A q \in Member : Known(commitPoint'[q])
    <2> HIDE DEF c, cand
    <2>1. commitPoint'[n] = c /\ \A q \in Member \ {n} : commitPoint'[q] = commitPoint[q]
      <3>1. SetCommitPoint(n, c, cand, FALSE) /\ c \in OpTime /\ cand \in SUBSET OpTime
        BY <1>4, <1>5
      <3> QED
        BY <1>0, <3>1, SetCommitPointIs
    <2>2. c # commitPoint[n] => OpTimeOK(c)
      BY <1>5, <1>6, EntryOK
    <2> QED
      BY <1>5, <2>1, <2>2, HeardKnown DEF Known
  <1>8. \A p, q \in Member : Known(position'[p][q])
    <2>1. position'[n] = pos /\ \A p \in Member : p # n => position'[p] = position[p]
      BY <1>0, <1>1, TypeParts DEF Shape
    <2> QED
      BY <1>3, <2>1, HeardKnown
  <1>9. \A p \in Member : \A x \in reported'[p] : x \in reported[p] \/ x = Reached(p)
    BY <1>0, <1>1, UpdateTermIs
  <1>10. IsOplog(committed')
    <2> HIDE DEF c, l
    <2> QED
      BY <1>4, <1>5, <1>6, DeclareType
  <1>11. \A p \in Member : \A x \in reported'[p] : Known(x)
    BY <1>9, HeardKnown
  <1>12. \A p \in Member : fetcher'[p].stage = "Checked" => Known(fetcher'[p].committed)
    BY <1>1, HeardKnown
  <1> QED
    BY <1>7, <1>8, <1>10, <1>11, <1>12 DEF AllKnown

LEMMA CrashKnown ==
    ASSUME Shape, LogInv, IsOplog(committed), NEW n \in Member, Crash(n)
    PROVE  AllKnown
  <1>1. /\ fetcher' = [fetcher EXCEPT ![n] = NoFetch]
        /\ position' = [position EXCEPT ![n] = NoPositions] /\ Leave({n})
        /\ commitPoint' = [commitPoint EXCEPT ![n] = Null] /\ committed' = committed
    BY CrashIs
  <1>2. /\ fetcher'[n] = NoFetch /\ position'[n] = NoPositions /\ commitPoint'[n] = Null
        /\ \A m \in Member : m # n => /\ fetcher'[m] = fetcher[m] /\ position'[m] = position[m]
                                      /\ commitPoint'[m] = commitPoint[m]
    BY <1>1, TypeParts DEF Shape
  <1>3. \A m \in Member : \A x \in reported'[m] : x \in reported[m] \/ x = Reached(m)
    BY <1>1, LeaveIs
  <1>4. \A m \in Member : Known(commitPoint'[m])
    BY <1>2, HeardKnown
  <1>5. \A m, q \in Member : Known(position'[m][q])
    <2>1. \A q \in Member : NoPositions[q] = Null
      BY DEF NoPositions
    <2> QED
      BY <1>2, <2>1, HeardKnown
  <1>6. \A m \in Member : fetcher'[m].stage = "Checked" => Known(fetcher'[m].committed)
    <2>1. NoFetch.stage # "Checked"
      BY DEF NoFetch
    <2> QED
      BY <1>2, <2>1, HeardKnown
  <1>7. \A m \in Member : \A x \in reported'[m] : Known(x)
    BY <1>3, HeardKnown
  <1> QED
    BY <1>1, <1>4, <1>5, <1>6, <1>7 DEF AllKnown

LEMMA KnownStep ==
    ASSUME Shape, LogInv, IsOplog(committed), Next, DrainInv'
    PROVE  AllKnown
  <1>0. /\ \A n \in DataMember : n \in Member /\ n \notin Arbiter
        /\ fetcher \in [Member -> Response] /\ position \in [Member -> [Member -> OpTime]]
        /\ role \in [Member -> Roles]
    BY BoundTypes, TypeParts DEF DataMember, Shape
  <1> DEFINE P == AllKnown
  <1>1. ASSUME NEW n \in DataMember, NEW Q \in SUBSET Member, Elect(n, Q) PROVE P
    <2>1. /\ position'[n] = NoPositions /\ \A m \in Member \ {n} : position'[m] = position[m]
          /\ \A m \in Member : \A o \in reported'[m] : o \in reported[m] \/ o = Reached(m)
          /\ fetcher' = fetcher /\ commitPoint' = commitPoint /\ committed' = committed
      BY <1>1, ElectIs
    <2> QED
      BY <2>1, AllKnownSame
  <1>2. ASSUME NEW n \in DataMember,
               EnterDrainMode(n) \/ StepDownSelf(n) \/ StartProducer(n)
        PROVE P
    <2>1. /\ position' = position /\ reported' = reported /\ commitPoint' = commitPoint /\ committed' = committed
      BY <1>2 DEF EnterDrainMode, StepDownSelf, StartProducer, positionVars, commitVars
    <2>2. \A m \in Member : fetcher'[m] = fetcher[m] \/ fetcher'[m].stage # "Checked"
      BY <1>0, <1>2 DEF EnterDrainMode, StepDownSelf, StartProducer, fetchVars, NoFetch
    <2> QED
      BY <2>1, <2>2, AllKnownSame
  <1>3. ASSUME NEW n \in DataMember, StepDownFinish(n) PROVE P
    <2>1. /\ position' = [position EXCEPT ![n] = NoPositions] /\ Leave({n})
          /\ commitPoint' = commitPoint /\ committed' = committed /\ fetcher' = fetcher
      BY <1>3 DEF StepDownFinish, commitVars
    <2>2. \A m \in Member : \A o \in reported'[m] : o \in reported[m] \/ o = Reached(m)
      BY <2>1, LeaveIs
    <2>3. \A m \in Member : position'[m] = position[m] \/ position'[m] = NoPositions
      BY <1>0, <2>1
    <2> QED
      BY <2>1, <2>2, <2>3, AllKnownSame
  <1>4. ASSUME NEW n \in DataMember, ProcessBatch(n) PROVE P
    <2>1. /\ fetcher[n].stage = "Advanced" /\ UpdateTerm(n, fetcher[n].term)
          /\ fetcher' = [fetcher EXCEPT ![n] =
                IF fetcher[n].term > term[n] /\ role[n] \in {"LeaderElect", "Master"} THEN Waiting ELSE NoFetch]
          /\ position' = position /\ commitPoint' = commitPoint /\ committed' = committed
      BY <1>4 DEF ProcessBatch, commitVars
    <2>2. fetcher[n].term \in Terms
      BY <1>0, <2>1, MemberShape, ResponseIs
    <2>3. \A m \in Member : \A o \in reported'[m] : o \in reported[m] \/ o = Reached(m)
      BY <1>0, <2>1, <2>2, UpdateTermIs
    <2>4. \A m \in Member : fetcher'[m] = fetcher[m] \/ fetcher'[m].stage # "Checked"
      BY <1>0, <2>1 DEF NoFetch, Waiting
    <2> QED
      BY <2>1, <2>3, <2>4, AllKnownSame
  <1>5. ASSUME NEW n \in DataMember, Rollback(n) PROVE P
    <2>1. /\ position' = position /\ commitPoint' = commitPoint /\ committed' = committed
      BY <1>5, RollbackIs
    <2>2. /\ fetcher' = fetcher \/ fetcher' = [fetcher EXCEPT ![n] = NoFetch]
          /\ reported' = reported \/ Leave({n})
      BY <1>5, RollbackIs
    <2>3. \A m \in Member : \A o \in reported'[m] : o \in reported[m] \/ o = Reached(m)
      BY <2>2, LeaveIs
    <2>4. \A m \in Member : fetcher'[m] = fetcher[m] \/ fetcher'[m].stage # "Checked"
      BY <1>0, <2>2 DEF NoFetch
    <2> QED
      BY <2>1, <2>3, <2>4, AllKnownSame
  <1>6. ASSUME NEW n \in Member, NEW m \in Member, LearnTerm(n, m) PROVE P
    <2>1. /\ UpdateTerm(n, term[m]) /\ term[m] \in Terms
          /\ fetcher' = fetcher /\ position' = position /\ commitPoint' = commitPoint /\ committed' = committed
      BY <1>6, MemberShape DEF LearnTerm, fetchVars, commitVars
    <2>2. \A q \in Member : \A o \in reported'[q] : o \in reported[q] \/ o = Reached(q)
      BY <2>1, UpdateTermIs
    <2> QED
      BY <2>1, <2>2, AllKnownSame
  <1>7. ASSUME NEW n \in DataMember, NEW r, LogOp(n, r), fetcher' = fetcher, reported' = reported,
               r \in {"LeaderElect", "Master"} =>
                  IsPrimary(role[n]) /\ IsPrimary(role'[n]) /\ term'[n] = term[n]
        PROVE P
    <2>1. PICK l \in Oplog, d \in Nat, v \in Nat :
                 /\ Len(l) <= MaxOplog /\ Begins(oplog[n], l)
                 /\ d <= v /\ v <= Len(l) /\ SetMyOpTimes(n, r, l, d, v)
      BY <1>7, AppendIs
    <2> QED
      BY <1>7, <2>1, SetMyAllKnown
  <1>8. ASSUME NEW n \in DataMember, SignalDrainComplete(n) PROVE P
    <2> DEFINE r == "Master"
    <2>1. /\ LogOp(n, r) /\ role' = [role EXCEPT ![n] = "Master"] /\ role[n] = "LeaderElect"
          /\ term' = term /\ fetcher' = fetcher /\ reported' = reported
      BY <1>8 DEF SignalDrainComplete, fetchVars
    <2>2. IsPrimary(role[n]) /\ IsPrimary(role'[n]) /\ term'[n] = term[n]
      BY <1>0, <2>1 DEF IsPrimary
    <2> HIDE DEF r
    <2>3. LogOp(n, r) /\ fetcher' = fetcher /\ reported' = reported
      BY <2>1
    <2> QED
      BY <1>7, <2>2, <2>3
  <1>9. ASSUME NEW n \in DataMember, Write(n) PROVE P
    <2> DEFINE r == role[n]
    <2>1. /\ LogOp(n, r) /\ role' = role /\ role[n] \in {"Master", "SteppingDown"}
          /\ term' = term /\ fetcher' = fetcher /\ reported' = reported
      BY <1>9 DEF Write, fetchVars, electionVars
    <2>2. IsPrimary(role[n]) /\ IsPrimary(role'[n]) /\ term'[n] = term[n]
      BY <2>1 DEF IsPrimary
    <2> HIDE DEF r
    <2>3. LogOp(n, r) /\ fetcher' = fetcher /\ reported' = reported
      BY <2>1
    <2> QED
      BY <1>7, <2>2, <2>3
  <1>10. ASSUME NEW n \in DataMember, Journal(n) PROVE P
    <2> DEFINE l == oplog[n]  d == Len(oplog[n])  r == role[n]
    <2>1. /\ SetMyOpTimes(n, r, l, d, d) /\ d \in Nat /\ l \in Oplog /\ Len(l) <= MaxOplog
          /\ d <= d /\ d <= Len(l)
          /\ role' = role /\ term' = term /\ fetcher' = fetcher /\ reported' = reported
      BY <1>10, JournalIs
    <2>2. /\ Begins(oplog[n], l)
          /\ r \in {"LeaderElect", "Master"} => IsPrimary(role[n]) /\ IsPrimary(role'[n]) /\ term'[n] = term[n]
      BY <2>1, OplogBegins DEF IsPrimary
    <2> HIDE DEF l, d, r
    <2> QED
      BY <2>1, <2>2, SetMyAllKnown
  <1>11. ASSUME NEW n \in DataMember, ApplyBatch(n) PROVE P
    <2> DEFINE r == role[n]
    <2>1. PICK l \in Oplog, rest \in Oplog, d \in Nat :
          /\ SetMyOpTimes(n, r, l, d, Len(l)) /\ d <= Len(l) /\ Len(l) \in Nat /\ Len(l) <= MaxOplog
          /\ Begins(oplog[n], l)
          /\ role' = role /\ term' = term /\ fetcher' = fetcher /\ reported' = reported
      BY <1>11, ApplyBatchIs
    <2> DEFINE v == Len(l)
    <2>2. /\ Begins(oplog[n], l) /\ v <= Len(l) /\ v \in Nat /\ d <= v /\ SetMyOpTimes(n, r, l, d, v)
          /\ r \in {"LeaderElect", "Master"} => IsPrimary(role[n]) /\ IsPrimary(role'[n]) /\ term'[n] = term[n]
      BY <2>1 DEF IsPrimary
    <2> HIDE DEF v, r
    <2> QED
      BY <2>1, <2>2, SetMyAllKnown
  <1> QED
    BY <1>1, <1>2, <1>3, <1>4, <1>5, <1>6, <1>8, <1>9, <1>10, <1>11, Actions, FetchKnown,
       AdvanceCommitKnown, HeartbeatKnown, ReceiveKnown, CrashKnown

----------------------------------------------------------------------------
(* The theorems.                                                            *)

OplogInv == TypeInv /\ BeginInv /\ LogInv /\ IsOplog(committed)

LEMMA OplogInvStep ==
    ASSUME OplogInv, Next
    PROVE  OplogInv' /\ AllKnown
  <1>0. Shape /\ LogInv /\ IsOplog(committed)
    BY DEF OplogInv, Shape
  <1>1. TypeInv'
    BY <1>0, TypeStep
  <1>2. LogStep \/ \E n \in DataMember : \E Q \in SUBSET Member : Elect(n, Q)
    BY <1>0, StepKinds
  <1>3. BeginInv'
    BY <1>0, <1>1, <1>2, LogStepBegin, ElectBegin
  <1>4. ElectedInv' /\ PrimaryInv' /\ OwnInv' /\ DrainInv' /\ AgreeInv'
    <2>1. CASE LogStep
      BY <1>0, <1>1, <2>1, LogStepElected, LogStepPrimary, LogStepOwn, LogStepDrain, LogStepAgree
    <2> QED
      BY <1>0, <1>2, <2>1, ElectKeeps
  <1>5. AllKnown
    BY <1>0, <1>4, KnownStep
  <1>6. ASSUME NEW o, Known(o) PROVE OKAfter(o)
    BY <1>0, <1>1, <1>2, <1>3, <1>4, <1>6, OKKept, EntryOKAfter DEF Known
  <1>7. HeardInv'
    <2>1. /\ \A m \in Member : OKAfter(commitPoint'[m]) /\ \A o \in reported'[m] : OKAfter(o)
          /\ \A m, q \in Member : OKAfter(position'[m][q])
          /\ \A m \in Member : fetcher'[m].stage = "Checked" => OKAfter(fetcher'[m].committed)
      BY <1>5, <1>6 DEF AllKnown
    <2> QED
      BY <2>1 DEF HeardInv, OpTimeOK, OKAfter, Elected
  <1>8. LogInv'
    BY <1>4, <1>7 DEF LogInv
  <1>9. IsOplog(committed)'
    BY <1>5 DEF AllKnown, IsOplog
  <1> QED
    BY <1>1, <1>3, <1>5, <1>8, <1>9 DEF OplogInv

LEMMA InitInv ==
    ASSUME Init
    PROVE  OplogInv
  <1>0. /\ \A n \in DataMember : n \in Member /\ n \notin Arbiter
        /\ \A n \in Member : n \in DataMember \/ n \in Arbiter
        /\ \A n \in Arbiter : n \in Member /\ n \notin DataMember
        /\ 0 \in Terms /\ <<>> \in Oplog /\ << 0 >> \in Oplog
    BY BoundTypes DEF DataMember, Terms, Oplog
  <1>1. \A n \in DataMember : FirstOplog(n) = << 0 >>
    BY DEF FirstOplog
  <1>2. \A n \in Arbiter : FirstOplog(n) = <<>>
    BY <1>0 DEF FirstOplog
  <1>3. \A n \in Member : FirstOplog(n) \in Oplog /\ Len(FirstOplog(n)) \in Nat /\ Len(FirstOplog(n)) <= MaxOplog
    <2>1. Len(<< 0 >>) = 1 /\ Len(<<>>) = 0
      OBVIOUS
    <2>2. 1 <= MaxOplog /\ 0 <= MaxOplog
      BY BoundTypes
    <2>3. \A n \in Member : FirstOplog(n) = << 0 >> \/ FirstOplog(n) = <<>>
      BY <1>0, <1>1, <1>2
    <2>4. ASSUME NEW l, l = << 0 >> \/ l = <<>> PROVE l \in Oplog /\ Len(l) \in Nat /\ Len(l) <= MaxOplog
      <3>1. CASE l = << 0 >>
        BY <1>0, <2>1, <2>2, <3>1
      <3>2. CASE l = <<>>
        BY <1>0, <2>1, <2>2, <3>2
      <3> QED
        BY <2>4, <3>1, <3>2
    <2> QED
      BY <2>3, <2>4
  <1>4. TypeInv
    <2>1. role \in [Member -> Roles] /\ producer \in [Member -> Producers]
      BY DEF Init, Roles, Producers
    <2>2. /\ term \in [Member -> Terms] /\ pendingTerm \in [Member -> Terms] /\ lastVote \in [Member -> Terms]
      BY <1>0 DEF Init
    <2>3. /\ oplog \in [Member -> Oplog] /\ buffer \in [Member -> Oplog]
      BY <1>0, <1>3 DEF Init
    <2>4. /\ durable \in [Member -> Nat] /\ visible \in [Member -> Nat]
          /\ \A n \in Member : durable[n] <= visible[n] /\ visible[n] <= Len(oplog[n])
      BY <1>3 DEF Init
    <2>5. fetcher \in [Member -> Response]
      BY Responses DEF Init
    <2>6. /\ position \in [Member -> [Member -> OpTime]] /\ reported \in [Member -> SUBSET OpTime]
          /\ commitPoint \in [Member -> OpTime] /\ snapshot \in [Member -> OpTime]
      BY NoPositionsType, NullType DEF Init
    <2>7. candidates \in [Member -> SUBSET OpTime]
      <3>1. ASSUME NEW n \in Member PROVE StartCandidates(n, FirstOplog(n)) \in SUBSET OpTime
        BY <1>3, TopType DEF StartCandidates
      <3> QED
        BY <3>1 DEF Init
    <2> QED
      BY <2>1, <2>2, <2>3, <2>4, <2>5, <2>6, <2>7
         DEF TypeInv, ControlType, LogType, FetchType, OpTimeType, Roles, Producers
  <1>5. ASSUME NEW n \in Member PROVE Coming(n) = FirstOplog(n) /\ oplog[n] = FirstOplog(n)
    <2>1. oplog[n] = FirstOplog(n) /\ buffer[n] = <<>> /\ fetcher[n] = NoFetch
      BY DEF Init
    <2>2. InFlight(n) = <<>>
      BY <2>1 DEF InFlight, InCallback, NoFetch
    <2> DEFINE l == FirstOplog(n)
    <2>3. Coming(n) = (l \o <<>>) \o <<>> /\ l \in Oplog
      BY <1>3, <2>1, <2>2 DEF Coming, Fetched
    <2> HIDE DEF l
    <2>4. Coming(n) = l
      BY <2>3, ConcatEmpty DEF Oplog
    <2> QED
      BY <2>1, <2>4 DEF l
  <1>6. BeginInv
    <2>1. \A n \in DataMember : durable[n] >= 1 /\ oplog[n][1] = 0
      BY <1>0, <1>1, <1>5 DEF Init
    <2>2. \A n \in Member : Len(Coming(n)) <= MaxOplog
      BY <1>3, <1>5
    <2>3. \A n \in Arbiter : /\ oplog[n] = <<>> /\ buffer[n] = <<>> /\ durable[n] = 0
                             /\ role[n] = "Follower" /\ fetcher[n] = NoFetch
      BY <1>0, <1>2 DEF Init
    <2> QED
      BY <2>1, <2>2, <2>3 DEF BeginInv
  <1>7. \A n \in DataMember : Coming(n) = << 0 >> /\ ~IsPrimary(role[n])
    BY <1>0, <1>1, <1>5 DEF Init, IsPrimary
  <1>8. Elected(0)
    <2>1. {v \in Member : lastVote[v] >= 0} = Member
      BY DEF Init
    <2> QED
      BY <2>1, MajorityTypes DEF Elected
  <1>9. ElectedInv
    <2>1. ASSUME NEW n \in DataMember, NEW i \in 1..Len(Coming(n)) PROVE Coming(n)[i] = 0
      BY <1>7
    <2> QED
      BY <1>7, <1>8, <2>1 DEF ElectedInv
  <1>10. PrimaryInv /\ OwnInv /\ DrainInv
    BY <1>7 DEF PrimaryInv, OwnInv, DrainInv
  <1>11. AgreeInv
    <2>1. ASSUME NEW n \in DataMember, NEW m \in DataMember, NEW i \in 1..Len(Coming(n)),
                 NEW k \in 1..i
          PROVE  Coming(n)[k] = Coming(m)[k]
      BY <1>7
    <2> QED
      BY <2>1 DEF AgreeInv
  <1>12. HeardInv
    <2>1. OpTimeOK(Null)
      BY DEF OpTimeOK
    <2>2. ASSUME NEW n \in Member
          PROVE  /\ commitPoint[n] = Null /\ reported[n] = {} /\ fetcher[n].stage # "Checked"
                 /\ \A m \in Member : position[n][m] = Null
      BY DEF Init, NoFetch, NoPositions
    <2> QED
      BY <2>1, <2>2 DEF HeardInv
  <1>13. IsOplog(committed)
    BY BoundTypes DEF Init, IsOplog
  <1> QED
    BY <1>4, <1>6, <1>9, <1>10, <1>11, <1>12, <1>13 DEF OplogInv, LogInv

LEMMA OplogInvStutters ==
    ASSUME OplogInv, UNCHANGED vars
    PROVE  OplogInv'
  <1>1. /\ role' = role /\ term' = term /\ pendingTerm' = pendingTerm /\ lastVote' = lastVote
        /\ oplog' = oplog /\ durable' = durable /\ visible' = visible
        /\ buffer' = buffer /\ producer' = producer /\ fetcher' = fetcher
        /\ position' = position /\ reported' = reported /\ commitPoint' = commitPoint
        /\ candidates' = candidates /\ snapshot' = snapshot /\ committed' = committed
    BY DEF vars, electionVars, logVars, fetchVars, positionVars, commitVars
  <1>2. \A n \in Member : Coming(n)' = Coming(n)
    BY <1>1 DEF Coming, Fetched, InFlight, InCallback
  <1>3. TypeInv'
    BY <1>1 DEF OplogInv, TypeInv, ControlType, LogType, FetchType, OpTimeType
  <1>4. BeginInv'
    BY <1>1, <1>2 DEF OplogInv, BeginInv
  <1>5. LogInv'
    <2>1. \A n \in DataMember : Coming(n)' = Coming(n)
      BY <1>2, BoundTypes
    <2>2. PrimaryInv' /\ OwnInv' /\ DrainInv' /\ AgreeInv'
      BY <1>1, <2>1 DEF OplogInv, LogInv, PrimaryInv, OwnInv, DrainInv, AgreeInv
    <2>3. ElectedInv'
      BY <1>1, <2>1 DEF OplogInv, LogInv, ElectedInv, Elected
    <2>4. HeardInv'
      BY <1>1 DEF OplogInv, LogInv, HeardInv, OpTimeOK, Elected
    <2> QED
      BY <2>2, <2>3, <2>4 DEF LogInv
  <1>6. IsOplog(committed)'
    BY <1>1 DEF OplogInv, IsOplog
  <1> QED
    BY <1>3, <1>4, <1>5, <1>6 DEF OplogInv

(* The invariant of the oplogs holds in every reachable state. *)
THEOREM OplogInvariant == Spec => []OplogInv
  <1>1. Init => OplogInv
    BY InitInv
  <1>2. OplogInv /\ [Next]_vars => OplogInv'
    BY OplogInvStep, OplogInvStutters
  <1> QED
    BY <1>1, <1>2, PTL DEF Spec

(* Every field of the coordinators, every oplog and every fetcher keeps to its *)
(* type, and a commit point is only ever declared at an entry that exists.     *)
THEOREM TypeCorrect == Spec => []TypeOK
  <1>1. OplogInv => TypeOK
    <2> SUFFICES ASSUME OplogInv PROVE TypeOK
      OBVIOUS
    <2>1. Shape /\ IsOplog(committed)
      BY DEF OplogInv, Shape
    <2>2. /\ role \in [Member -> {"Follower", "LeaderElect", "Master", "SteppingDown", "Aborted"}]
          /\ term \in [Member -> 0..MaxTerm] /\ pendingTerm \in [Member -> 0..MaxTerm]
          /\ lastVote \in [Member -> 0..MaxTerm] /\ DOMAIN oplog = Member
          /\ producer \in [Member -> {"Starting", "Running", "Stopped"}]
      BY <2>1, TypeParts DEF Shape, Roles, Producers, Terms
    <2>3. ASSUME NEW n \in Member PROVE durable[n] \in 0..visible[n] /\ visible[n] \in 0..Len(oplog[n])
      <3>1. /\ durable[n] \in Nat /\ visible[n] \in Nat /\ Len(oplog[n]) \in Nat
            /\ durable[n] <= visible[n] /\ visible[n] <= Len(oplog[n])
        BY <2>1, MemberShape
      <3> QED
        BY <3>1
    <2>4. ASSUME NEW n \in Member PROVE IsOplog(oplog[n] \o buffer[n])
      <3>1. Fetched(n) \in Oplog /\ Len(Fetched(n)) <= MaxOplog
        BY <2>1, ComingShape
      <3> QED
        BY <3>1 DEF Fetched, IsOplog, Oplog, Terms
    <2>5. ASSUME NEW n \in Member
          PROVE  fetcher[n].stage \in {"None", "Diverged", "Checked", "Advanced", "Waiting"}
      BY <2>1, MemberShape, ResponseIs
    <2>6. /\ position \in [Member -> [Member -> OpTime]]
          /\ commitPoint \in [Member -> OpTime] /\ snapshot \in [Member -> OpTime]
          /\ \A n \in Member : candidates[n] \subseteq OpTime /\ reported[n] \subseteq OpTime
      BY <2>1, TypeParts DEF Shape
    <2> QED
      BY <2>1, <2>2, <2>3, <2>4, <2>5, <2>6 DEF TypeOK
  <1> QED
    BY <1>1, OplogInvariant, PTL

(* Two oplogs that agree on an entry agree on everything before it: whatever a *)
(* member had under way when it was elected, wrote or stepped down, nothing is *)
(* put behind an entry that it does not follow at its primary.                 *)
THEOREM LogsMatch == Spec => []LogMatching
  <1>1. OplogInv => LogMatching
    <2> SUFFICES ASSUME OplogInv, NEW n \in DataMember, NEW m \in DataMember,
                        NEW i \in 1..Len(oplog[n]), i <= Len(oplog[m]), oplog[n][i] = oplog[m][i]
                 PROVE  Upto(oplog[n], i) = Upto(oplog[m], i)
      BY DEF LogMatching
    <2>1. /\ Shape /\ n \in Member /\ m \in Member
      BY BoundTypes DEF OplogInv, Shape
    <2>2. /\ oplog[n] \in Seq(Terms) /\ oplog[m] \in Seq(Terms)
          /\ Begins(oplog[n], Coming(n)) /\ Begins(oplog[m], Coming(m))
          /\ Len(oplog[n]) \in Nat /\ Len(oplog[m]) \in Nat /\ Len(Coming(n)) \in Nat /\ Len(Coming(m)) \in Nat
      BY <2>1, MemberShape, ComingShape DEF Oplog
    <2>3. i \in Nat /\ i \in 1..Len(Coming(n)) /\ i \in i..Len(Coming(m)) /\ Coming(n)[i] = Coming(m)[i]
      BY <2>2 DEF Begins
    <2>4. \A k \in 1..i : Coming(n)[k] = Coming(m)[k]
      BY <2>3 DEF OplogInv, LogInv, AgreeInv
    <2>5. \A k \in 1..i : oplog[n][k] = oplog[m][k]
      BY <2>2, <2>3, <2>4 DEF Begins
    <2> DEFINE s == oplog[n]  t == oplog[m]
    <2>6. s \in Seq(Terms) /\ t \in Seq(Terms) /\ i <= Len(s) /\ i <= Len(t) /\ \A k \in 1..i : s[k] = t[k]
      BY <2>2, <2>3, <2>5
    <2> HIDE DEF s, t
    <2>7. /\ Upto(s, i) \in Seq(Terms) /\ Len(Upto(s, i)) = i /\ \A k \in 1..i : Upto(s, i)[k] = s[k]
          /\ Upto(t, i) \in Seq(Terms) /\ Len(Upto(t, i)) = i /\ \A k \in 1..i : Upto(t, i)[k] = t[k]
      BY <2>3, <2>6, Part
    <2>8. Upto(s, i) = Upto(t, i)
      BY <2>6, <2>7, SameSequence
    <2> QED
      BY <2>8 DEF s, t
  <1> QED
    BY <1>1, OplogInvariant, PTL
=============================================================================
