----------------------- MODULE LockManagerInvariant ------------------------
(****************************************************************************)
(* The inductive invariant of the lock manager, the lemmas about its lists, *)
(* and the parts of the invariant that say what the variables are and where *)
(* each thread stands: TypeInv, HolderInv, LockerInv.                       *)
(****************************************************************************)
EXTENDS LockManager, FiniteSetTheorems, SequenceTheorems, TLAPS

----------------------------------------------------------------------------
(* The hypotheses of the theorems.                                          *)

\* No wait for a conversion ends at a deadline or an interrupt.  Otherwise a
\* conversion granted while its locker gives up is forgotten, and the run
\* lock_convert_timeout finds two lockers with conflicting modes.
NoCancelledConversion == "convert" \notin Cancels

\* The global lock is not converted to a full mode, as no caller does.  Such
\* a conversion makes a granted request compatible-first without counting it.
NoPriorityConversion == Global => ConvertModes \intersect {"S", "X"} = {}

----------------------------------------------------------------------------
(* The inductive invariant.                                                 *)

Distinct(s) == \A i, j \in 1..Len(s) : s[i] = s[j] => i = j

ScanStates == {"ScanGranted", "ScanConflicts"}
MutexStates == ScanStates \union {"LockMigrate", "ConvertMigrate"}

Queued(l) == l \in Members(lock.conflictList)

\* The request is off its list, and its locker still in unlock.
GivenUp(l) == pc[l] \in ScanStates /\ request[l].recursiveCount = 0

Request == [status : {"New", "Granted", "Waiting", "Converting"},
            mode : ModesAll \union {"NONE"}, convertMode : ModesAll \union {"NONE"},
            recursiveCount : 0..MaxRecursion, partitioned : BOOLEAN,
            compatibleFirst : BOOLEAN]

LockHead == [grantedList : Seq(Lockers), grantedCounts : [ModesAll -> Int],
             conflictList : Seq(Lockers), conflictCounts : [ModesAll -> Int],
             partitions : Seq(Partitions), conversionsCount : Int,
             compatibleFirstCount : Int]

\* The types, in which counts may be negative.
RequestType == request \in [Lockers -> Request]
LockType == lock \in LockHead
HeadsType == DOMAIN heads \subseteq Partitions /\ heads \in [DOMAIN heads -> Seq(Lockers)]
ControlType ==
    /\ pc \in [Lockers -> {"Idle", "LockBucket", "LockMigrate", "ConvertBucket",
                           "ConvertMigrate", "Waiting", "TimedOut", "UnlockPartition",
                           "UnlockBucket", "ScanGranted", "ScanConflicts"}]
    /\ newMode \in [Lockers -> ModesAll \union {"NONE"}]
    /\ holder \in Lockers \union {NoLocker, Cleaner}
    /\ scan \in [at : Nat \ {0}, check : BOOLEAN, newly : BOOLEAN]

TypeInv == RequestType /\ LockType /\ HeadsType /\ ControlType

\* The threads that keep the bucket's mutex.
HolderInv == \A l \in Lockers : holder = l <=> pc[l] \in MutexStates

\* What a thread knows of its request r where it stands.
ThreadOK(r, at, new) ==
    /\ at = "Idle" => r = InitNew \/ (r.status = "Granted" /\ r.recursiveCount > 0)
    /\ at \in {"LockBucket", "LockMigrate"} =>
          /\ r.status = "New" /\ r.recursiveCount = 1
          /\ r.partitioned => r.mode \in IntentModes
    /\ at \in {"ConvertBucket", "ConvertMigrate"} =>
          /\ r.status = "Granted" /\ r.recursiveCount > 0
          /\ new \in ModesAll /\ new # r.mode /\ IsModeCovered(r.mode, new)
    /\ at = "Waiting" =>
          /\ r.status # "New" /\ r.recursiveCount > 0
          /\ r.status = "Waiting" => r.recursiveCount = 1
    /\ at = "TimedOut" =>
          r.status \in {"Granted", "Waiting"} /\ r.recursiveCount = 1 /\ ~r.partitioned
    /\ at = "UnlockPartition" =>
          r.status = "Granted" /\ r.recursiveCount = 0 /\ r.partitioned
    /\ at = "UnlockBucket" =>
          r.status \in {"Granted", "Waiting"} /\ r.recursiveCount = 0
    /\ at \in ScanStates =>
          r.status = "Granted" \/ (r.status = "Waiting" /\ r.recursiveCount = 0)

\* What the fields of a request say of each other.
RequestOK(r, at) ==
    /\ r.mode = "NONE" => r.status = "New" /\ at = "Idle"
    /\ r.status = "New" => at \in {"Idle", "LockBucket", "LockMigrate"}
    /\ r.convertMode # "NONE" <=> r.status = "Converting"
    /\ r.status = "Converting" =>
          at = "Waiting" /\ r.convertMode # r.mode /\ IsModeCovered(r.mode, r.convertMode)
    /\ r.status = "Waiting" => ~r.partitioned

LockerOK(l) == ThreadOK(request[l], pc[l], newMode[l]) /\ RequestOK(request[l], pc[l])
LockerInv == \A l \in Lockers : LockerOK(l)

\* The lists hold each request once, and exactly the ones they ought to.
ListedOK(l) ==
    /\ InPartition(l) \/ OnGrantedList(l) <=>
          request[l].status \in {"Granted", "Converting"} /\ ~GivenUp(l)
    /\ Queued(l) <=> request[l].status = "Waiting" /\ ~GivenUp(l)
    /\ ~(InPartition(l) /\ OnGrantedList(l))

DistinctInv == Distinct(lock.grantedList) /\ Distinct(lock.conflictList)
ListInv == \A l \in Lockers : ListedOK(l)

\* The requests in partitions, which migration will find.
HeadsInv ==
    \A p \in DOMAIN heads :
        /\ Distinct(heads[p]) /\ p \in Members(lock.partitions)
        /\ \A l \in Members(heads[p]) : PartitionOf[l] = p

PartitionedOK(l) ==
    /\ request[l].partitioned /\ request[l].mode \in IntentModes
    /\ request[l].status = "Granted"
    /\ pc[l] \in {"Idle", "ConvertBucket", "ConvertMigrate", "UnlockPartition"}
PartitionInv == \A l \in Lockers : InPartition(l) => PartitionedOK(l)

WithMode(list, m) == {l \in Members(list) : request[l].mode = m}
ToConvert(m) ==
    {l \in Members(lock.grantedList) :
        request[l].status = "Converting" /\ request[l].convertMode = m}
Conversions == {l \in Members(lock.grantedList) : request[l].status = "Converting"}
Firsts == {l \in Members(lock.grantedList) : request[l].compatibleFirst}

CountInv ==
    /\ \A m \in ModesAll :
          /\ lock.grantedCounts[m] =
                Cardinality(WithMode(lock.grantedList, m)) + Cardinality(ToConvert(m))
          /\ lock.conflictCounts[m] = Cardinality(WithMode(lock.conflictList, m))
    /\ lock.conversionsCount = Cardinality(Conversions)

\* The modes a request on the granted list accounts for.
Taken(k) == {request[k].mode, request[k].convertMode}

\* No two requests on the granted list conflict.
CompatibleInv ==
    \A l, k \in Members(lock.grantedList) :
        l # k => ~Conflicts(request[l].mode, {request[k].mode})

----------------------------------------------------------------------------
(* What a scan has still to do.                                             *)

Scanning(states) == \E k \in Lockers : pc[k] \in states

BlockedBy(m, K) == \E k \in K : Conflicts(m, Taken(k))

\* A conversion the scan has passed is blocked by another request.
ConversionInv ==
    \A i \in 1..Len(lock.grantedList) :
        LET l == lock.grantedList[i] IN
        request[l].status = "Converting" /\ (Scanning({"ScanGranted"}) => i < scan.at)
            => BlockedBy(request[l].convertMode, Members(lock.grantedList) \ {l})

FrontBlocked ==
    LET front == request[lock.conflictList[1]] IN
    \/ BlockedBy(front.mode, Members(lock.grantedList))
    \/ /\ front.compatibleFirst
       /\ \E i \in 2..Len(lock.conflictList) :
             Conflicts(front.mode, {request[lock.conflictList[i]].mode})

\* The front of the queue is blocked, unless a scan has still to look at it.
FrontWaits ==
    lock.conflictList # <<>> /\ (Scanning(ScanStates) => ~scan.check) => FrontBlocked

\* So are the waiters that the scan has passed.
PassedWait ==
    Scanning({"ScanConflicts"}) /\ scan.check =>
        \A i \in 1..Len(lock.conflictList) :
            i < scan.at => BlockedBy(request[lock.conflictList[i]].mode,
                                     Members(lock.grantedList))

\* When nothing is granted, a scan is about to look at the front.
FreeIsScanned ==
    lock.conflictList # <<>> /\ lock.grantedList = <<>> =>
        /\ Scanning(ScanStates) /\ scan.check
        /\ Scanning({"ScanConflicts"}) => scan.at = 1

FrontInv == FrontWaits /\ PassedWait /\ FreeIsScanned

FirstInv == lock.compatibleFirstCount = Cardinality(Firsts)

LockInv ==
    /\ TypeInv /\ HolderInv /\ LockerInv /\ DistinctInv /\ ListInv
    /\ HeadsInv /\ PartitionInv /\ CountInv
    /\ PartitionedHasNoConflicts /\ CompatibleInv /\ ConversionInv /\ FrontInv
    /\ NoPriorityConversion => FirstInv

(* The members of a sequence are what it has at its indices.                *)
LEMMA MembersDef ==
    ASSUME NEW S, NEW s \in Seq(S)
    PROVE  /\ \A x : x \in Members(s) <=> \E i \in 1..Len(s) : s[i] = x
           /\ Members(s) \subseteq S
           /\ Members(s) = {} <=> s = <<>>
  <1>1. \A x : x \in Members(s) <=> \E i \in 1..Len(s) : s[i] = x
    BY DEF Members
  <1>2. Members(s) \subseteq S
    BY <1>1
  <1>3. ASSUME s # <<>> PROVE Members(s) # {}
    <2>1. Len(s) \in Nat /\ Len(s) # 0
      BY <1>3, EmptySeq
    <2>2. s[1] \in Members(s)
      BY <1>1, <2>1
    <2> QED
      BY <2>2
  <1>4. ASSUME s = <<>> PROVE Members(s) = {}
    BY <1>1, <1>4
  <1> QED
    BY <1>1, <1>2, <1>3, <1>4

(* What Append does to the members.                                         *)
LEMMA MembersOfAppend ==
    ASSUME NEW S, NEW s \in Seq(S), NEW x \in S
    PROVE  /\ Append(s, x) \in Seq(S)
           /\ Members(Append(s, x)) = Members(s) \union {x}
           /\ x \notin Members(s) /\ Distinct(s) => Distinct(Append(s, x))
  <1> DEFINE t == Append(s, x)
  <1>1. /\ t \in Seq(S) /\ Len(t) = Len(s) + 1 /\ Len(s) \in Nat
        /\ \A i \in 1..Len(s) : t[i] = s[i]
        /\ t[Len(s) + 1] = x
    BY AppendProperties
  <1> HIDE DEF t
  <1>2. ASSUME NEW y PROVE y \in Members(t) <=> y \in Members(s) \/ y = x
    <2>1. ASSUME y \in Members(t) PROVE y \in Members(s) \/ y = x
      BY <1>1, <2>1, MembersDef
    <2>2. ASSUME y \in Members(s) \/ y = x PROVE y \in Members(t)
      BY <1>1, <2>2, MembersDef
    <2> QED
      BY <2>1, <2>2
  <1>3. ASSUME x \notin Members(s), Distinct(s) PROVE Distinct(t)
    BY <1>1, <1>3, MembersDef DEF Distinct
  <1> QED
    BY <1>1, <1>2, <1>3 DEF t

(* What concatenation does to the members.                                  *)
LEMMA MembersOfConcat ==
    ASSUME NEW S, NEW s \in Seq(S), NEW t \in Seq(S)
    PROVE  /\ s \o t \in Seq(S)
           /\ Members(s \o t) = Members(s) \union Members(t)
           /\ Distinct(s) /\ Distinct(t) /\ Members(s) \intersect Members(t) = {}
                 => Distinct(s \o t)
  <1> DEFINE u == s \o t
  <1>1. /\ u \in Seq(S) /\ Len(u) = Len(s) + Len(t)
        /\ Len(s) \in Nat /\ Len(t) \in Nat
        /\ \A i \in 1..(Len(s) + Len(t)) :
              u[i] = IF i <= Len(s) THEN s[i] ELSE t[i - Len(s)]
    BY ConcatProperties
  <1> HIDE DEF u
  <1>2. ASSUME NEW y PROVE y \in Members(u) <=> y \in Members(s) \/ y \in Members(t)
    <2>1. ASSUME y \in Members(u) PROVE y \in Members(s) \/ y \in Members(t)
      <3>1. PICK i \in 1..Len(u) : u[i] = y
        BY <1>1, <2>1, MembersDef
      <3>2. CASE i <= Len(s)
        BY <1>1, <3>1, <3>2, MembersDef
      <3>3. CASE i > Len(s)
        <4>1. i - Len(s) \in 1..Len(t) /\ t[i - Len(s)] = y
          BY <1>1, <3>1, <3>3
        <4> QED
          BY <4>1, MembersDef
      <3> QED
        BY <1>1, <3>2, <3>3
    <2>2. ASSUME y \in Members(s) PROVE y \in Members(u)
      BY <1>1, <2>2, MembersDef
    <2>3. ASSUME y \in Members(t) PROVE y \in Members(u)
      <3>1. PICK i \in 1..Len(t) : t[i] = y
        BY <2>3, MembersDef
      <3>2. /\ Len(s) + i \in 1..(Len(s) + Len(t)) /\ ~(Len(s) + i <= Len(s))
            /\ (Len(s) + i) - Len(s) = i
        BY <1>1
      <3>3. Len(s) + i \in 1..Len(u) /\ u[Len(s) + i] = y
        BY <1>1, <3>1, <3>2
      <3> QED
        BY <1>1, <3>3, MembersDef
    <2> QED
      BY <2>1, <2>2, <2>3
  <1>3. ASSUME Distinct(s), Distinct(t), Members(s) \intersect Members(t) = {}
        PROVE  Distinct(u)
    <2>1. SUFFICES ASSUME NEW i \in 1..Len(u), NEW j \in 1..Len(u), u[i] = u[j]
                   PROVE  i = j
      BY DEF Distinct
    <2>2. CASE i <= Len(s) /\ j <= Len(s)
      BY <1>1, <1>3, <2>1, <2>2 DEF Distinct
    <2>3. CASE i > Len(s) /\ j > Len(s)
      <3>1. i - Len(s) \in 1..Len(t) /\ j - Len(s) \in 1..Len(t)
            /\ t[i - Len(s)] = t[j - Len(s)]
        BY <1>1, <2>1, <2>3
      <3> QED
        BY <1>1, <1>3, <3>1 DEF Distinct
    <2>4. CASE i <= Len(s) /\ j > Len(s)
      <3>1. i \in 1..Len(s) /\ j - Len(s) \in 1..Len(t) /\ s[i] = t[j - Len(s)]
        BY <1>1, <2>1, <2>4
      <3>2. s[i] \in Members(s) /\ s[i] \in Members(t)
        BY <3>1, MembersDef
      <3> QED
        BY <1>3, <3>2
    <2>5. CASE j <= Len(s) /\ i > Len(s)
      <3>1. j \in 1..Len(s) /\ i - Len(s) \in 1..Len(t) /\ s[j] = t[i - Len(s)]
        BY <1>1, <2>1, <2>5
      <3>2. s[j] \in Members(s) /\ s[j] \in Members(t)
        BY <3>1, MembersDef
      <3> QED
        BY <1>3, <3>2
    <2> QED
      BY <1>1, <2>2, <2>3, <2>4, <2>5
  <1> QED
    BY <1>1, <1>2, <1>3 DEF u

(* ListRemove returns a sequence of the same requests.                      *)
LEMMA RemoveType ==
    ASSUME NEW S, NEW s \in Seq(S), NEW x
    PROVE  ListRemove(s, x) \in Seq(S)
  <1>1. CASE x \notin Members(s)
    BY <1>1 DEF ListRemove
  <1>2. CASE x \in Members(s)
    <2> DEFINE i == CHOOSE j \in DOMAIN s : s[j] = x
    <2>1. i \in 1..Len(s)
      BY <1>2 DEF Members
    <2>2. ListRemove(s, x) = SubSeq(s, 1, i - 1) \o SubSeq(s, i + 1, Len(s))
      BY <1>2 DEF ListRemove
    <2> HIDE DEF i
    <2>3. SubSeq(s, 1, i - 1) \in Seq(S) /\ SubSeq(s, i + 1, Len(s)) \in Seq(S)
      BY <2>1, SubSeqProperties
    <2> QED
      BY <2>2, <2>3, ConcatProperties
  <1> QED
    BY <1>1, <1>2

(* ListRemove takes one request out and closes the gap.                     *)
LEMMA MembersOfRemove ==
    ASSUME NEW S, NEW s \in Seq(S), Distinct(s), NEW x \in Members(s)
    PROVE  /\ ListRemove(s, x) \in Seq(S)
           /\ Members(ListRemove(s, x)) = Members(s) \ {x}
           /\ Distinct(ListRemove(s, x))
           /\ \A k \in 1..Len(s) : s[k] = x =>
                 /\ Len(ListRemove(s, x)) = Len(s) - 1
                 /\ \A i \in 1..(Len(s) - 1) :
                       ListRemove(s, x)[i] = IF i < k THEN s[i] ELSE s[i + 1]
  <1> DEFINE i == CHOOSE j \in DOMAIN s : s[j] = x
             a == SubSeq(s, 1, i - 1)
             b == SubSeq(s, i + 1, Len(s))
  <1>1. i \in 1..Len(s) /\ s[i] = x
    BY DEF Members
  <1>2. ListRemove(s, x) = a \o b
    BY DEF ListRemove
  <1> HIDE DEF i
  <1>3. /\ a \in Seq(S) /\ Len(a) = i - 1
        /\ \A j \in 1..(i - 1) : a[j] = s[j]
    BY <1>1, SubSeqProperties
  <1>4. /\ b \in Seq(S) /\ Len(b) = Len(s) - i
        /\ \A j \in 1..(Len(s) - i) : b[j] = s[i + j]
    BY <1>1, SubSeqProperties
  <1> HIDE DEF a, b
  <1> DEFINE c == a \o b
  <1>9. /\ c \in Seq(S) /\ Len(c) = Len(a) + Len(b)
        /\ \A j \in 1..(Len(a) + Len(b)) : c[j] = IF j <= Len(a) THEN a[j] ELSE b[j - Len(a)]
    BY <1>3, <1>4, ConcatProperties
  <1>10. c = a \o b
    OBVIOUS
  <1> HIDE DEF c
  <1>5. /\ c \in Seq(S) /\ Len(c) = Len(s) - 1
        /\ \A j \in 1..(Len(s) - 1) : c[j] = IF j < i THEN s[j] ELSE s[j + 1]
    <2>1. Len(c) = Len(s) - 1
      BY <1>1, <1>3, <1>4, <1>9
    <2>2. ASSUME NEW j \in 1..(Len(s) - 1), j < i PROVE c[j] = s[j]
      <3>1. j \in 1..(Len(a) + Len(b)) /\ j <= Len(a) /\ j \in 1..(i - 1)
        BY <1>1, <1>3, <1>4, <2>2
      <3> QED
        BY <1>3, <1>9, <3>1
    <2>3. ASSUME NEW j \in 1..(Len(s) - 1), ~(j < i) PROVE c[j] = s[j + 1]
      <3>1. /\ j \in 1..(Len(a) + Len(b)) /\ ~(j <= Len(a))
            /\ j - Len(a) \in 1..(Len(s) - i) /\ i + (j - Len(a)) = j + 1
        BY <1>1, <1>3, <1>4, <2>3
      <3> QED
        BY <1>4, <1>9, <3>1
    <2> QED
      BY <1>9, <2>1, <2>2, <2>3
  <1>6. Distinct(c)
    BY <1>1, <1>5 DEF Distinct
  <1>7. Members(c) = Members(s) \ {x}
    <2>1. ASSUME NEW y \in Members(c) PROVE y \in Members(s) \ {x}
      <3>1. PICK j \in 1..Len(c) : c[j] = y
        BY <1>5, <2>1, MembersDef
      <3>2. CASE j < i
        <4>1. j \in 1..Len(s) /\ s[j] = y /\ j # i
          BY <1>1, <1>5, <3>1, <3>2
        <4> QED
          BY <1>1, <4>1, MembersDef DEF Distinct
      <3>3. CASE ~(j < i)
        <4>1. j + 1 \in 1..Len(s) /\ s[j + 1] = y /\ j + 1 # i
          BY <1>1, <1>5, <3>1, <3>3
        <4> QED
          BY <1>1, <4>1, MembersDef DEF Distinct
      <3> QED
        BY <3>2, <3>3
    <2>2. ASSUME NEW y \in Members(s) \ {x} PROVE y \in Members(c)
      <3>1. PICK k \in 1..Len(s) : s[k] = y
        BY MembersDef
      <3>2. k # i
        BY <1>1, <3>1
      <3>3. CASE k < i
        <4>1. k \in 1..Len(c) /\ c[k] = y
          BY <1>1, <1>5, <3>1, <3>3
        <4> QED
          BY <1>5, <4>1, MembersDef
      <3>4. CASE k > i
        <4>1. /\ k - 1 \in 1..(Len(s) - 1) /\ ~(k - 1 < i) /\ (k - 1) + 1 = k
          BY <1>1, <3>4
        <4>2. k - 1 \in 1..Len(c) /\ c[k - 1] = y
          BY <1>5, <3>1, <4>1
        <4> QED
          BY <1>5, <4>2, MembersDef
      <3> QED
        BY <1>1, <3>2, <3>3, <3>4
    <2> QED
      BY <2>1, <2>2
  <1>8. \A k \in 1..Len(s) : s[k] = x => k = i
    BY <1>1 DEF Distinct
  <1> QED
    BY <1>2, <1>10, <1>5, <1>6, <1>7, <1>8

----------------------------------------------------------------------------
(* Types.                                                                   *)

(* Assigning to a field of a request gives a request.                       *)
LEMMA RequestFields ==
    ASSUME NEW r \in Request
    PROVE  /\ \A x \in {"New", "Granted", "Waiting", "Converting"} :
                 [r EXCEPT !.status = x] \in Request
           /\ \A x \in ModesAll \union {"NONE"} :
                 [r EXCEPT !.mode = x] \in Request /\ [r EXCEPT !.convertMode = x] \in Request
           /\ \A x \in 0..MaxRecursion : [r EXCEPT !.recursiveCount = x] \in Request
           /\ \A x \in BOOLEAN :
                 /\ [r EXCEPT !.partitioned = x] \in Request
                 /\ [r EXCEPT !.compatibleFirst = x] \in Request
  BY DEF Request

(* A request that has not been made is one.                                 *)
LEMMA InitNewType == InitNew \in Request
  BY ConstantAssumption DEF InitNew, Request

(* So does assigning a whole request.                                       *)
LEMMA UpdateRequest ==
    ASSUME RequestType, NEW l \in Lockers, NEW r \in Request,
           request' = [request EXCEPT ![l] = r]
    PROVE  RequestType'
  BY DEF RequestType

(* The locals of _onLockModeChanged.                                        *)
LEMMA ScanTypes ==
    ASSUME NEW a \in Nat \ {0}, NEW c \in BOOLEAN, NEW n \in BOOLEAN
    PROVE  [at |-> a, check |-> c, newly |-> n] \in
              [at : Nat \ {0}, check : BOOLEAN, newly : BOOLEAN]
  OBVIOUS

(* The counts stay integers.                                                *)
LEMMA CountTypes ==
    ASSUME NEW c \in [ModesAll -> Int], NEW m
    PROVE  Inc(c, m) \in [ModesAll -> Int] /\ Dec(c, m) \in [ModesAll -> Int]
  <1>1. CASE m \in ModesAll
    BY <1>1 DEF Inc, Dec
  <1>2. CASE m \notin ModesAll
    BY <1>2 DEF Inc, Dec
  <1> QED
    BY <1>1, <1>2

(* What unlock does before it takes a mutex, its assertions left aside.     *)
LEMMA UnlockEffect ==
    ASSUME NEW l \in Lockers, Unlock(l)
    PROVE  /\ (pc[l] = "Idle" /\ request[l].status = "Granted") \/ pc[l] = "TimedOut"
           /\ request' = [request EXCEPT ![l].recursiveCount = request[l].recursiveCount - 1]
           /\ pc' = [pc EXCEPT ![l] =
                 IF request[l].status = "Granted" /\ request[l].recursiveCount - 1 > 0 THEN "Idle"
                 ELSE IF request[l].partitioned THEN "UnlockPartition" ELSE "UnlockBucket"]
           /\ UNCHANGED <<lock, heads, newMode, holder, scan>>
  BY DEF Unlock

(* Every step keeps the types of the requests.                              *)
LEMMA RequestTypeStep ==
    ASSUME TypeInv, LockerInv, Next
    PROVE  RequestType'
<1> USE DEF TypeInv
<1>1. ASSUME NEW l \in Lockers, NEW m \in LockModes, Lock(l, m) PROVE RequestType'
  <2>1. m \in ModesAll /\ (m \in IntentModes) \in BOOLEAN /\ Priority(m) \in BOOLEAN
    BY ConstantAssumption DEF Priority
  <2> DEFINE r == [InitNew EXCEPT !.mode = m, !.recursiveCount = 1,
                                  !.partitioned = m \in IntentModes,
                                  !.compatibleFirst = Priority(m)]
  <2>2. 1 \in 0..MaxRecursion
    BY ConstantAssumption
  <2>3. r \in Request
    BY <2>1, <2>2, InitNewType, RequestFields
  <2>4. [r EXCEPT !.status = "Granted"] \in Request
    BY <2>3, RequestFields
  <2>5. \/ request' = [request EXCEPT ![l] = r]
        \/ request' = [request EXCEPT ![l] = [r EXCEPT !.status = "Granted"]]
    BY <1>1 DEF Lock
  <2> QED
    BY <2>3, <2>4, <2>5, UpdateRequest
<1>2. ASSUME NEW l \in Lockers, NEW m \in ConvertModes, Convert(l, m) PROVE RequestType'
  <2>1. /\ request[l].recursiveCount + 1 \in 0..MaxRecursion
        /\ (request[l].compatibleFirst \/ Priority(m)) \in BOOLEAN
    BY <1>2, ConstantAssumption DEF Convert, RequestType, Request
  <2> DEFINE r == [request[l] EXCEPT !.recursiveCount = @ + 1,
                                     !.compatibleFirst = @ \/ Priority(m)]
  <2>2. r \in Request
    BY <2>1, RequestFields DEF RequestType
  <2>3. request' = [request EXCEPT ![l] = r]
    BY <1>2 DEF Convert
  <2> QED
    BY <2>2, <2>3, UpdateRequest
<1>3. ASSUME NEW l \in Lockers, NEW m \in {"IX", "S"}, Downgrade(l, m) PROVE RequestType'
  <2>1. [request[l] EXCEPT !.mode = m] \in Request
    BY <1>3, RequestFields DEF RequestType, ModesAll
  <2> QED
    BY <1>3, <2>1, UpdateRequest DEF Downgrade
<1>4. ASSUME NEW l \in Lockers, LockTimeout(l) PROVE RequestType'
  BY <1>4 DEF LockTimeout, RequestType
<1>5. ASSUME NEW l \in Lockers, Unlock(l) PROVE RequestType'
  <2>1. request[l].recursiveCount - 1 \in 0..MaxRecursion
    BY <1>5, UnlockEffect, ConstantAssumption
      DEF LockerInv, LockerOK, ThreadOK, RequestType, Request, InitNew
  <2>2. [request[l] EXCEPT !.recursiveCount = request[l].recursiveCount - 1] \in Request
    BY <2>1, RequestFields DEF RequestType
  <2> QED
    BY <1>5, <2>2, UnlockEffect, UpdateRequest
<1>6. ASSUME NEW l \in Lockers, StartPartitioned(l) PROVE RequestType'
  <2>1. [request[l] EXCEPT !.status = "Granted"] \in Request
    BY RequestFields DEF RequestType
  <2> QED
    BY <1>6, <2>1, UpdateRequest DEF StartPartitioned
<1>7. ASSUME NEW l \in Lockers, StartMigration(l) PROVE RequestType'
  BY <1>7 DEF StartMigration, RequestType
<1>8. ASSUME NEW l \in Lockers \union {Cleaner}, MigratePartition(l) PROVE RequestType'
  BY <1>8 DEF MigratePartition, RequestType
<1>9. ASSUME NEW l \in Lockers, NewRequest(l) PROVE RequestType'
  <2> DEFINE r(x) == [request[l] EXCEPT !.status = x, !.partitioned = FALSE]
  <2>1. r("Granted") \in Request /\ r("Waiting") \in Request
    BY RequestFields DEF RequestType
  <2>2. \/ request' = [request EXCEPT ![l] = r("Granted")]
        \/ request' = [request EXCEPT ![l] = r("Waiting")]
    BY <1>9 DEF NewRequest, RequestType
  <2> QED
    BY <2>1, <2>2, UpdateRequest
<1>10. ASSUME NEW l \in Lockers, ConvertRequest(l) PROVE RequestType'
  <2>1. newMode[l] \in ModesAll \union {"NONE"} /\ request[l] \in Request
    BY DEF ControlType, RequestType
  <2>2. [request[l] EXCEPT !.status = "Converting", !.convertMode = newMode[l]] \in Request
    BY <2>1, RequestFields
  <2>3. [request[l] EXCEPT !.mode = newMode[l]] \in Request
    BY <2>1, RequestFields
  <2>4. \/ request' = [request EXCEPT ![l] = [request[l] EXCEPT !.status = "Converting",
                                                              !.convertMode = newMode[l]]]
        \/ request' = [request EXCEPT ![l] = [request[l] EXCEPT !.mode = newMode[l]]]
    BY <1>10 DEF ConvertRequest, RequestType
  <2> QED
    BY <2>2, <2>3, <2>4, UpdateRequest
<1>11. ASSUME NEW l \in Lockers, LockComplete(l) PROVE RequestType'
  BY <1>11 DEF LockComplete, RequestType
<1>12. ASSUME NEW l \in Lockers, UnlockPartition(l) PROVE RequestType'
  BY <1>12, InitNewType, UpdateRequest DEF UnlockPartition, RequestType
<1>13. ASSUME NEW l \in Lockers, UnlockGranted(l) PROVE RequestType'
  BY <1>13 DEF UnlockGranted, StartScan, RequestType
<1>14. ASSUME NEW l \in Lockers, UnlockWaiting(l) PROVE RequestType'
  BY <1>14 DEF UnlockWaiting, StartScan, RequestType
<1>15. ASSUME NEW l \in Lockers, UnlockConverting(l) PROVE RequestType'
  <2>1. [request[l] EXCEPT !.status = "Granted", !.convertMode = "NONE"] \in Request
    BY RequestFields DEF RequestType
  <2> QED
    BY <1>15, <2>1, UpdateRequest DEF UnlockConverting
<1>16. ASSUME NEW l \in Lockers, ScanGranted(l) PROVE RequestType'
  <2> DEFINE it == lock.grantedList[scan.at]
  <2>1. CASE UNCHANGED request
    BY <2>1 DEF RequestType
  <2>2. CASE request' # request
    <3>1. /\ it \in Lockers
          /\ request' = [request EXCEPT ![it].status = "Granted",
                                        ![it].mode = request[it].convertMode,
                                        ![it].convertMode = "NONE"]
      BY <1>16, <2>2 DEF ScanGranted, LockType, LockHead, ControlType
    <3>2. request[it] \in Request /\ request[it].convertMode \in ModesAll \union {"NONE"}
      BY <3>1 DEF RequestType, Request
    <3>3. [request[it] EXCEPT !.status = "Granted", !.mode = request[it].convertMode,
                              !.convertMode = "NONE"] \in Request
      BY <3>2, RequestFields
    <3>4. request' = [request EXCEPT ![it] =
              [request[it] EXCEPT !.status = "Granted", !.mode = request[it].convertMode,
                                  !.convertMode = "NONE"]]
      BY <3>1 DEF RequestType
    <3> QED
      BY <3>1, <3>3, <3>4, UpdateRequest
  <2> QED
    BY <2>1, <2>2
<1>17. ASSUME NEW l \in Lockers, ScanConflicts(l) PROVE RequestType'
  <2> DEFINE it == lock.conflictList[scan.at]
  <2>0. scan.at <= Len(lock.conflictList)
    BY <1>17 DEF ScanConflicts, ScanGoesOn
  <2>1. it \in Lockers
    BY <2>0 DEF LockType, LockHead, ControlType
  <2>2. [request[it] EXCEPT !.status = "Granted"] \in Request
    BY <2>1, RequestFields DEF RequestType
  <2>3. \/ request' = [request EXCEPT ![it].status = "Granted"]
        \/ request' = request
    BY <1>17 DEF ScanConflicts
  <2> QED
    BY <2>1, <2>2, <2>3, UpdateRequest DEF RequestType
<1>18. ASSUME NEW l \in Lockers, ScanFinish(l) PROVE RequestType'
  <2> DEFINE r == IF request[l].recursiveCount = 0 THEN InitNew ELSE request[l]
  <2>1. r \in Request
    BY InitNewType DEF RequestType
  <2>2. request' = [request EXCEPT ![l] = r]
    BY <1>18 DEF ScanFinish
  <2> QED
    BY <2>1, <2>2, UpdateRequest
<1>19. CASE CleanupStart
  BY <1>19 DEF CleanupStart, RequestType
<1>20. CASE CleanupFinish
  BY <1>20 DEF CleanupFinish, RequestType
<1> HIDE DEF TypeInv
<1> QED
  BY <1>1, <1>2, <1>3, <1>4, <1>5, <1>6, <1>7, <1>8, <1>9, <1>10, <1>11, <1>12, <1>13,
      <1>14, <1>15, <1>16, <1>17, <1>18, <1>19, <1>20 DEF Next, Continue, Cleanup

(* Every step keeps the types of the threads' state.                        *)
LEMMA ControlTypeStep ==
    ASSUME TypeInv, Next
    PROVE  ControlType'
<1> USE DEF TypeInv
<1>1. ASSUME NEW l \in Lockers, NEW m \in LockModes, Lock(l, m) PROVE ControlType'
  BY <1>1 DEF Lock, ControlType
<1>2. ASSUME NEW l \in Lockers, NEW m \in ConvertModes, Convert(l, m) PROVE ControlType'
  BY <1>2, ConstantAssumption DEF Convert, ControlType
<1>3. ASSUME NEW l \in Lockers, NEW m \in {"IX", "S"}, Downgrade(l, m) PROVE ControlType'
  <2>2. scan' = [at |-> 1, check |-> TRUE, newly |-> FALSE]
    BY <1>3 DEF Downgrade, StartScan
  <2>1. scan' \in [at : Nat \ {0}, check : BOOLEAN, newly : BOOLEAN]
    BY <2>2, ScanTypes
  <2> QED
    BY <1>3, <2>1 DEF Downgrade, StartScan, ControlType
<1>4. ASSUME NEW l \in Lockers, LockTimeout(l) PROVE ControlType'
  BY <1>4 DEF LockTimeout, ControlType
<1>5. ASSUME NEW l \in Lockers, Unlock(l) PROVE ControlType'
  BY <1>5 DEF Unlock, ControlType
<1>6. ASSUME NEW l \in Lockers, StartPartitioned(l) PROVE ControlType'
  BY <1>6 DEF StartPartitioned, AddPartition, ControlType
<1>7. ASSUME NEW l \in Lockers, StartMigration(l) PROVE ControlType'
  BY <1>7 DEF StartMigration, ControlType
<1>8. ASSUME NEW l \in Lockers \union {Cleaner}, MigratePartition(l) PROVE ControlType'
  BY <1>8 DEF MigratePartition, ControlType
<1>9. ASSUME NEW l \in Lockers, NewRequest(l) PROVE ControlType'
  BY <1>9 DEF NewRequest, AtLockHead, ControlType
<1>10. ASSUME NEW l \in Lockers, ConvertRequest(l) PROVE ControlType'
  BY <1>10 DEF ConvertRequest, AtLockHead, ControlType
<1>11. ASSUME NEW l \in Lockers, LockComplete(l) PROVE ControlType'
  BY <1>11 DEF LockComplete, ControlType
<1>12. ASSUME NEW l \in Lockers, UnlockPartition(l) PROVE ControlType'
  BY <1>12 DEF UnlockPartition, ControlType
<1>13. ASSUME NEW l \in Lockers, UnlockGranted(l) PROVE ControlType'
  <2> DEFINE c == Dec(lock.grantedCounts, request[l].mode)[request[l].mode] = 0
  <2>1. c \in BOOLEAN
    OBVIOUS
  <2>3. scan' = [at |-> 1, check |-> c, newly |-> FALSE]
    BY <1>13 DEF UnlockGranted, StartScan
  <2> HIDE DEF c
  <2>2. scan' \in [at : Nat \ {0}, check : BOOLEAN, newly : BOOLEAN]
    BY <2>1, <2>3, ScanTypes
  <2> QED
    BY <1>13, <2>2 DEF UnlockGranted, StartScan, ControlType
<1>14. ASSUME NEW l \in Lockers, UnlockWaiting(l) PROVE ControlType'
  <2>2. scan' = [at |-> 1, check |-> TRUE, newly |-> FALSE]
    BY <1>14 DEF UnlockWaiting, StartScan
  <2>1. scan' \in [at : Nat \ {0}, check : BOOLEAN, newly : BOOLEAN]
    BY <2>2, ScanTypes
  <2> QED
    BY <1>14, <2>1 DEF UnlockWaiting, StartScan, ControlType
<1>15. ASSUME NEW l \in Lockers, UnlockConverting(l) PROVE ControlType'
  <2>2. scan' = [at |-> 1, check |-> TRUE, newly |-> FALSE]
    BY <1>15 DEF UnlockConverting, StartScan
  <2>1. scan' \in [at : Nat \ {0}, check : BOOLEAN, newly : BOOLEAN]
    BY <2>2, ScanTypes
  <2> QED
    BY <1>15, <2>1 DEF UnlockConverting, StartScan, ControlType
<1>16. ASSUME NEW l \in Lockers, ScanGranted(l) PROVE ControlType'
  <2>1. /\ scan.at + 1 \in Nat \ {0} /\ scan.at \in Nat \ {0}
        /\ scan.check \in BOOLEAN /\ scan.newly \in BOOLEAN
    BY DEF ControlType
  <2>2. \/ scan' = [scan EXCEPT !.at = scan.at + 1]
        \/ scan' = [scan EXCEPT !.at = 1]
    BY <1>16 DEF ScanGranted
  <2>3. scan' \in [at : Nat \ {0}, check : BOOLEAN, newly : BOOLEAN]
    BY <2>1, <2>2 DEF ControlType
  <2>4. /\ pc' = pc \/ pc' = [pc EXCEPT ![l] = "ScanConflicts"]
        /\ UNCHANGED <<newMode, holder>>
    BY <1>16 DEF ScanGranted
  <2> QED
    BY <2>3, <2>4 DEF ControlType
<1>17. ASSUME NEW l \in Lockers, ScanConflicts(l) PROVE ControlType'
  <2> DEFINE r == request[lock.conflictList[scan.at]]
             opens == r.compatibleFirst /\ lock.compatibleFirstCount = 0
  <2>1. /\ scan.at + 1 \in Nat \ {0} /\ scan.at \in Nat \ {0}
        /\ scan.check \in BOOLEAN /\ scan.newly \in BOOLEAN
        /\ (scan.newly \/ opens) \in BOOLEAN /\ (r.mode # "X") \in BOOLEAN
    BY DEF ControlType
  <2>2. \/ scan' = [scan EXCEPT !.at = scan.at + 1]
        \/ scan' = [scan EXCEPT !.newly = (scan.newly \/ opens), !.check = (r.mode # "X")]
    BY <1>17 DEF ScanConflicts
  <2> HIDE DEF r, opens
  <2>3. scan' \in [at : Nat \ {0}, check : BOOLEAN, newly : BOOLEAN]
    BY <2>1, <2>2 DEF ControlType
  <2>4. UNCHANGED <<pc, newMode, holder>>
    BY <1>17 DEF ScanConflicts
  <2> QED
    BY <2>3, <2>4 DEF ControlType
<1>18. ASSUME NEW l \in Lockers, ScanFinish(l) PROVE ControlType'
  <2>2. scan' = [at |-> 1, check |-> FALSE, newly |-> FALSE]
    BY <1>18 DEF ScanFinish
  <2>1. scan' \in [at : Nat \ {0}, check : BOOLEAN, newly : BOOLEAN]
    BY <2>2, ScanTypes
  <2> QED
    BY <1>18, <2>1 DEF ScanFinish, ControlType
<1>19. CASE CleanupStart
  BY <1>19 DEF CleanupStart, ControlType
<1>20. CASE CleanupFinish
  BY <1>20 DEF CleanupFinish, ControlType
<1> HIDE DEF TypeInv
<1> QED
  BY <1>1, <1>2, <1>3, <1>4, <1>5, <1>6, <1>7, <1>8, <1>9, <1>10, <1>11, <1>12, <1>13,
      <1>14, <1>15, <1>16, <1>17, <1>18, <1>19, <1>20 DEF Next, Continue, Cleanup

(* Every step keeps the types of the partitions.                            *)
LEMMA HeadsTypeStep ==
    ASSUME TypeInv, Next
    PROVE  HeadsType'
<1> USE DEF TypeInv
<1>1. ASSUME NEW l \in Lockers, NEW m \in LockModes, Lock(l, m) PROVE HeadsType'
  <2> DEFINE p == PartitionOf[l]
  <2>1. CASE p \in DOMAIN heads /\ heads' = [heads EXCEPT ![p] = Append(@, l)]
    <3>1. Append(heads[p], l) \in Seq(Lockers)
      BY <2>1, AppendProperties DEF HeadsType
    <3> QED
      BY <2>1, <3>1 DEF HeadsType
  <2>2. CASE UNCHANGED heads
    BY <2>2 DEF HeadsType
  <2> QED
    BY <1>1, <2>1, <2>2 DEF Lock
<1>2. ASSUME NEW l \in Lockers, NEW m \in ConvertModes, Convert(l, m) PROVE HeadsType'
  BY <1>2, ConstantAssumption DEF Convert, HeadsType
<1>3. ASSUME NEW l \in Lockers, NEW m \in {"IX", "S"}, Downgrade(l, m) PROVE HeadsType'
  BY <1>3, ConstantAssumption DEF Downgrade, StartScan, HeadsType
<1>4. ASSUME NEW l \in Lockers, LockTimeout(l) PROVE HeadsType'
  BY <1>4, ConstantAssumption DEF LockTimeout, HeadsType
<1>5. ASSUME NEW l \in Lockers, Unlock(l) PROVE HeadsType'
  BY <1>5, ConstantAssumption DEF Unlock, HeadsType
<1>6. ASSUME NEW l \in Lockers, StartPartitioned(l) PROVE HeadsType'
  BY <1>6, ConstantAssumption DEF StartPartitioned, AddPartition, HeadsType
<1>7. ASSUME NEW l \in Lockers, StartMigration(l) PROVE HeadsType'
  BY <1>7, ConstantAssumption DEF StartMigration, HeadsType
<1>8. ASSUME NEW l \in Lockers \union {Cleaner}, MigratePartition(l) PROVE HeadsType'
  BY <1>8, ConstantAssumption DEF MigratePartition, HeadsType
<1>9. ASSUME NEW l \in Lockers, NewRequest(l) PROVE HeadsType'
  BY <1>9, ConstantAssumption DEF NewRequest, AtLockHead, HeadsType
<1>10. ASSUME NEW l \in Lockers, ConvertRequest(l) PROVE HeadsType'
  BY <1>10, ConstantAssumption DEF ConvertRequest, AtLockHead, HeadsType
<1>11. ASSUME NEW l \in Lockers, LockComplete(l) PROVE HeadsType'
  BY <1>11, ConstantAssumption DEF LockComplete, HeadsType
<1>12. ASSUME NEW l \in Lockers, UnlockPartition(l) PROVE HeadsType'
  <2> DEFINE p == PartitionOf[l]
  <2>1. CASE p \in DOMAIN heads /\ heads' = [heads EXCEPT ![p] = ListRemove(@, l)]
    <3>1. ListRemove(heads[p], l) \in Seq(Lockers)
      BY <2>1, RemoveType DEF HeadsType
    <3> QED
      BY <2>1, <3>1 DEF HeadsType
  <2>2. CASE UNCHANGED heads
    BY <2>2 DEF HeadsType
  <2> QED
    BY <1>12, <2>1, <2>2 DEF UnlockPartition
<1>13. ASSUME NEW l \in Lockers, UnlockGranted(l) PROVE HeadsType'
  BY <1>13, ConstantAssumption DEF UnlockGranted, StartScan, HeadsType
<1>14. ASSUME NEW l \in Lockers, UnlockWaiting(l) PROVE HeadsType'
  BY <1>14, ConstantAssumption DEF UnlockWaiting, StartScan, HeadsType
<1>15. ASSUME NEW l \in Lockers, UnlockConverting(l) PROVE HeadsType'
  BY <1>15, ConstantAssumption DEF UnlockConverting, StartScan, HeadsType
<1>16. ASSUME NEW l \in Lockers, ScanGranted(l) PROVE HeadsType'
  BY <1>16, ConstantAssumption DEF ScanGranted, HeadsType
<1>17. ASSUME NEW l \in Lockers, ScanConflicts(l) PROVE HeadsType'
  BY <1>17, ConstantAssumption DEF ScanConflicts, HeadsType
<1>18. ASSUME NEW l \in Lockers, ScanFinish(l) PROVE HeadsType'
  BY <1>18, ConstantAssumption DEF ScanFinish, HeadsType
<1>19. CASE CleanupStart
  BY <1>19, ConstantAssumption DEF CleanupStart, HeadsType
<1>20. CASE CleanupFinish
  BY <1>20, ConstantAssumption DEF CleanupFinish, HeadsType
<1> HIDE DEF TypeInv
<1> QED
  BY <1>1, <1>2, <1>3, <1>4, <1>5, <1>6, <1>7, <1>8, <1>9, <1>10, <1>11, <1>12, <1>13,
      <1>14, <1>15, <1>16, <1>17, <1>18, <1>19, <1>20 DEF Next, Continue, Cleanup

(* Every step keeps the types of the lock head.                             *)
LEMMA LockTypeStep ==
    ASSUME TypeInv, Next
    PROVE  LockType'
<1> USE DEF TypeInv
<1>1. ASSUME NEW l \in Lockers, NEW m \in LockModes, Lock(l, m) PROVE LockType'
  BY <1>1 DEF Lock, LockType
<1>2. ASSUME NEW l \in Lockers, NEW m \in ConvertModes, Convert(l, m) PROVE LockType'
  BY <1>2 DEF Convert, LockType
<1>3. ASSUME NEW l \in Lockers, NEW m \in {"IX", "S"}, Downgrade(l, m) PROVE LockType'
  BY <1>3, CountTypes DEF Downgrade, LockType, LockHead, ModesAll
<1>4. ASSUME NEW l \in Lockers, LockTimeout(l) PROVE LockType'
  BY <1>4 DEF LockTimeout, LockType
<1>5. ASSUME NEW l \in Lockers, Unlock(l) PROVE LockType'
  BY <1>5 DEF Unlock, LockType
<1>6. ASSUME NEW l \in Lockers, StartPartitioned(l) PROVE LockType'
  BY <1>6, ConstantAssumption, AppendProperties
    DEF StartPartitioned, AddPartition, LockType, LockHead
<1>7. ASSUME NEW l \in Lockers, StartMigration(l) PROVE LockType'
  BY <1>7 DEF StartMigration, LockType
<1>8. ASSUME NEW l \in Lockers \union {Cleaner}, MigratePartition(l) PROVE LockType'
  <2> DEFINE p == lock.partitions[Len(lock.partitions)]
             list == IF p \in DOMAIN heads THEN heads[p] ELSE <<>>
             moved == Members(list)
             counts == [m \in ModesAll |->
                 lock.grantedCounts[m] + Cardinality({r \in moved : request[r].mode = m})]
             firsts == lock.compatibleFirstCount
                         + Cardinality({r \in moved : request[r].compatibleFirst})
  <2>1. list \in Seq(Lockers)
    BY DEF HeadsType
  <2>2. IsFiniteSet(moved)
    <3> HIDE DEF list
    <3>1. moved \subseteq Lockers
      BY <2>1, MembersDef
    <3> HIDE DEF moved
    <3> QED
      BY <3>1, FS_Subset, ConstantAssumption
  <2>3. /\ \A m \in ModesAll : Cardinality({r \in moved : request[r].mode = m}) \in Int
        /\ Cardinality({r \in moved : request[r].compatibleFirst}) \in Int
    BY <2>2, FS_Subset, FS_CardinalityType
  <2>4. counts \in [ModesAll -> Int] /\ firsts \in Int
    BY <2>3 DEF LockType, LockHead
  <2>5. lock.grantedList \o list \in Seq(Lockers)
    BY <2>1, ConcatProperties DEF LockType, LockHead
  <2>6. SubSeq(lock.partitions, 1, Len(lock.partitions) - 1) \in Seq(Partitions)
    BY SubSeqProperties DEF LockType, LockHead
  <2>7. lock' = [lock EXCEPT
              !.partitions = SubSeq(lock.partitions, 1, Len(lock.partitions) - 1),
              !.grantedList = lock.grantedList \o list,
              !.grantedCounts = counts,
              !.compatibleFirstCount = firsts]
    BY <1>8 DEF MigratePartition
  <2> HIDE DEF list, counts, firsts
  <2> QED
    BY <2>4, <2>5, <2>6, <2>7 DEF LockType, LockHead
<1>9. ASSUME NEW l \in Lockers, NewRequest(l) PROVE LockType'
  <2>1. request[l].mode \in ModesAll \union {"NONE"} /\ <<l>> \in Seq(Lockers)
    BY DEF RequestType, Request
  <2>2. CASE lock' = [lock EXCEPT
                    !.conflictList = IF request[l].compatibleFirst THEN <<l>> \o @ ELSE Append(@, l),
                    !.conflictCounts = Inc(@, request[l].mode)]
    BY <2>1, <2>2, CountTypes, AppendProperties, ConcatProperties DEF LockType, LockHead
  <2>3. CASE lock' = [lock EXCEPT
                    !.grantedList = Append(@, l),
                    !.grantedCounts = Inc(@, request[l].mode),
                    !.compatibleFirstCount = IF request[l].compatibleFirst THEN @ + 1 ELSE @]
    <3> DEFINE firsts == IF request[l].compatibleFirst THEN lock.compatibleFirstCount + 1
                                                       ELSE lock.compatibleFirstCount
               granted == Append(lock.grantedList, l)
               counts == Inc(lock.grantedCounts, request[l].mode)
    <3>1. granted \in Seq(Lockers) /\ counts \in [ModesAll -> Int] /\ firsts \in Int
      <4>1. granted \in Seq(Lockers)
        BY AppendProperties DEF LockType, LockHead
      <4>2. counts \in [ModesAll -> Int]
        BY CountTypes DEF LockType, LockHead
      <4>3. firsts \in Int
        BY DEF LockType, LockHead
      <4> QED
        BY <4>1, <4>2, <4>3
    <3>2. lock' = [lock EXCEPT !.grantedList = granted, !.grantedCounts = counts,
                               !.compatibleFirstCount = firsts]
      BY <2>3
    <3> HIDE DEF firsts, granted, counts
    <3> QED
      BY <3>1, <3>2 DEF LockType, LockHead
  <2> QED
    BY <1>9, <2>2, <2>3 DEF NewRequest
<1>10. ASSUME NEW l \in Lockers, ConvertRequest(l) PROVE LockType'
  <2> DEFINE c == Inc(lock.grantedCounts, newMode[l])
  <2>1. c \in [ModesAll -> Int] /\ Dec(c, request[l].mode) \in [ModesAll -> Int]
    BY CountTypes DEF LockType, LockHead
  <2>2. \/ lock' = [lock EXCEPT !.conversionsCount = @ + 1, !.grantedCounts = c]
        \/ lock' = [lock EXCEPT !.grantedCounts = Dec(c, request[l].mode)]
    BY <1>10 DEF ConvertRequest
  <2> HIDE DEF c
  <2>3. lock.conversionsCount + 1 \in Int
    BY DEF LockType, LockHead
  <2> QED
    BY <2>1, <2>2, <2>3 DEF LockType, LockHead
<1>11. ASSUME NEW l \in Lockers, LockComplete(l) PROVE LockType'
  BY <1>11 DEF LockComplete, LockType
<1>12. ASSUME NEW l \in Lockers, UnlockPartition(l) PROVE LockType'
  BY <1>12 DEF UnlockPartition, LockType
<1>13. ASSUME NEW l \in Lockers, UnlockGranted(l) PROVE LockType'
  <2> DEFINE granted == ListRemove(lock.grantedList, l)
             counts == Dec(lock.grantedCounts, request[l].mode)
             firsts == IF request[l].compatibleFirst THEN lock.compatibleFirstCount - 1
                                                     ELSE lock.compatibleFirstCount
  <2>1. granted \in Seq(Lockers) /\ counts \in [ModesAll -> Int] /\ firsts \in Int
    <3>1. granted \in Seq(Lockers)
      BY RemoveType DEF LockType, LockHead
    <3>2. counts \in [ModesAll -> Int]
      BY CountTypes DEF LockType, LockHead
    <3>3. firsts \in Int
      BY DEF LockType, LockHead
    <3> QED
      BY <3>1, <3>2, <3>3
  <2>2. lock' = [lock EXCEPT !.grantedList = granted, !.grantedCounts = counts,
                             !.compatibleFirstCount = firsts]
    BY <1>13 DEF UnlockGranted
  <2> HIDE DEF granted, counts, firsts
  <2> QED
    BY <2>1, <2>2 DEF LockType, LockHead
<1>14. ASSUME NEW l \in Lockers, UnlockWaiting(l) PROVE LockType'
  BY <1>14, RemoveType, CountTypes DEF UnlockWaiting, LockType, LockHead
<1>15. ASSUME NEW l \in Lockers, UnlockConverting(l) PROVE LockType'
  <2> DEFINE counts == Dec(lock.grantedCounts, request[l].convertMode)
  <2>1. counts \in [ModesAll -> Int]
    BY CountTypes DEF LockType, LockHead
  <2>2. lock' = [lock EXCEPT !.conversionsCount = @ - 1, !.grantedCounts = counts]
    BY <1>15 DEF UnlockConverting
  <2> HIDE DEF counts
  <2>3. lock.conversionsCount - 1 \in Int
    BY DEF LockType, LockHead
  <2> QED
    BY <2>1, <2>2, <2>3 DEF LockType, LockHead
<1>16. ASSUME NEW l \in Lockers, ScanGranted(l) PROVE LockType'
  <2> DEFINE counts == Dec(lock.grantedCounts, request[lock.grantedList[scan.at]].mode)
  <2>1. counts \in [ModesAll -> Int]
    BY CountTypes DEF LockType, LockHead
  <2>2. \/ lock' = lock
        \/ lock' = [lock EXCEPT !.conversionsCount = @ - 1, !.grantedCounts = counts]
    BY <1>16 DEF ScanGranted
  <2> HIDE DEF counts
  <2>3. lock.conversionsCount - 1 \in Int
    BY DEF LockType, LockHead
  <2> QED
    BY <2>1, <2>2, <2>3 DEF LockType, LockHead
<1>17. ASSUME NEW l \in Lockers, ScanConflicts(l) PROVE LockType'
  <2> DEFINE it == lock.conflictList[scan.at]
             queue == ListRemove(lock.conflictList, it)
             granted == Append(lock.grantedList, it)
             queued == Dec(lock.conflictCounts, request[it].mode)
             counts == Inc(lock.grantedCounts, request[it].mode)
             firsts == IF request[it].compatibleFirst THEN lock.compatibleFirstCount + 1
                                                      ELSE lock.compatibleFirstCount
  <2>0. scan.at <= Len(lock.conflictList)
    BY <1>17 DEF ScanConflicts, ScanGoesOn
  <2>1. it \in Lockers
    BY <2>0 DEF LockType, LockHead, ControlType
  <2>2. /\ queue \in Seq(Lockers) /\ granted \in Seq(Lockers)
        /\ queued \in [ModesAll -> Int] /\ counts \in [ModesAll -> Int]
        /\ firsts \in Int
    <3>1. queue \in Seq(Lockers)
      BY RemoveType DEF LockType, LockHead
    <3>2. granted \in Seq(Lockers)
      BY <2>1, AppendProperties DEF LockType, LockHead
    <3>3. queued \in [ModesAll -> Int] /\ counts \in [ModesAll -> Int]
      BY CountTypes DEF LockType, LockHead
    <3>4. firsts \in Int
      BY DEF LockType, LockHead
    <3> QED
      BY <3>1, <3>2, <3>3, <3>4
  <2>3. \/ lock' = lock
        \/ lock' = [lock EXCEPT
              !.conflictList = queue, !.conflictCounts = queued, !.grantedList = granted,
              !.grantedCounts = counts, !.compatibleFirstCount = firsts]
    BY <1>17 DEF ScanConflicts
  <2> HIDE DEF queue, granted, queued, counts, firsts
  <2> QED
    BY <2>2, <2>3 DEF LockType, LockHead
<1>18. ASSUME NEW l \in Lockers, ScanFinish(l) PROVE LockType'
  BY <1>18 DEF ScanFinish, LockType
<1>19. CASE CleanupStart
  BY <1>19 DEF CleanupStart, LockType
<1>20. CASE CleanupFinish
  <2>1. EmptyLockHead \in LockHead
    BY DEF EmptyLockHead, LockHead
  <2> QED
    BY <1>20, <2>1 DEF CleanupFinish, LockType
<1> HIDE DEF TypeInv
<1> QED
  BY <1>1, <1>2, <1>3, <1>4, <1>5, <1>6, <1>7, <1>8, <1>9, <1>10, <1>11, <1>12, <1>13,
      <1>14, <1>15, <1>16, <1>17, <1>18, <1>19, <1>20 DEF Next, Continue, Cleanup

----------------------------------------------------------------------------
(* The requests that the walks of _onLockModeChanged look at.               *)

(* The walk of the granted list looks at a request on it.                   *)
LEMMA ScannedGranted ==
    ASSUME TypeInv, scan.at <= Len(lock.grantedList)
    PROVE  /\ lock.grantedList[scan.at] \in Members(lock.grantedList)
           /\ lock.grantedList[scan.at] \in Lockers
  BY MembersDef DEF TypeInv, LockType, LockHead, ControlType

(* So does the walk of the queue.                                           *)
LEMMA ScannedWaiter ==
    ASSUME TypeInv, ScanGoesOn
    PROVE  /\ lock.conflictList[scan.at] \in Members(lock.conflictList)
           /\ lock.conflictList[scan.at] \in Lockers
           /\ scan.at \in 1..Len(lock.conflictList)
  BY MembersDef DEF TypeInv, LockType, LockHead, ControlType, ScanGoesOn

\* What the two walks do to the request they look at.
GrantsConversion(it) ==
    /\ it \in Members(lock.grantedList) /\ it \in Lockers
    /\ request[it].status = "Converting"
    /\ ~Conflicts(request[it].convertMode,
                  GrantedWithout({request[it].mode, request[it].convertMode}))
    /\ request' = [request EXCEPT ![it].status = "Granted",
                                  ![it].mode = request[it].convertMode,
                                  ![it].convertMode = "NONE"]
    /\ lock' = [lock EXCEPT !.conversionsCount = @ - 1,
                            !.grantedCounts = Dec(@, request[it].mode)]

GrantsWaiter(it) ==
    /\ it \in Members(lock.conflictList) /\ it \in Lockers
    /\ ~Conflicts(request[it].mode, Mask(lock.grantedCounts))
    /\ request' = [request EXCEPT ![it].status = "Granted"]
    /\ lock' = [lock EXCEPT
          !.conflictList = ListRemove(@, it),
          !.conflictCounts = Dec(@, request[it].mode),
          !.grantedList = Append(@, it),
          !.grantedCounts = Inc(@, request[it].mode),
          !.compatibleFirstCount = IF request[it].compatibleFirst THEN @ + 1 ELSE @]

(* A turn of the first walk grants a conversion or changes nothing.         *)
LEMMA ScanGrantedEffect ==
    ASSUME TypeInv, NEW l \in Lockers, ScanGranted(l)
    PROVE  /\ \/ UNCHANGED <<request, lock>>
              \/ /\ scan.at <= Len(lock.grantedList)
                 /\ GrantsConversion(lock.grantedList[scan.at])
                 /\ UNCHANGED pc
           /\ \/ UNCHANGED pc
              \/ pc' = [pc EXCEPT ![l] = "ScanConflicts"]
           /\ holder = l /\ pc[l] = "ScanGranted"
           /\ UNCHANGED <<heads, newMode, holder>>
  BY ScannedGranted DEF ScanGranted, GrantsConversion

(* A turn of the second grants a waiter or changes nothing.                 *)
LEMMA ScanConflictsEffect ==
    ASSUME TypeInv, NEW l \in Lockers, ScanConflicts(l)
    PROVE  /\ \/ UNCHANGED <<request, lock>>
              \/ GrantsWaiter(lock.conflictList[scan.at])
           /\ holder = l /\ pc[l] = "ScanConflicts"
           /\ UNCHANGED <<heads, pc, newMode, holder>>
  BY ScannedWaiter DEF ScanConflicts, GrantsWaiter

----------------------------------------------------------------------------
(* The threads and their requests.                                          *)

OthersSame(l) ==
    \A k \in Lockers \ {l} :
        request'[k] = request[k] /\ pc'[k] = pc[k] /\ newMode'[k] = newMode[k]

(* A step that changes one thread and its request only.                     *)
LEMMA LockerFrame ==
    ASSUME LockerInv, NEW l \in Lockers, OthersSame(l), LockerOK(l)'
    PROVE  LockerInv'
  BY DEF LockerInv, OthersSame, LockerOK

(* A new request, granted in its partition or on its way to the bucket.     *)
LEMMA LockEffect ==
    ASSUME TypeInv, NEW l \in Lockers, NEW m \in LockModes, Lock(l, m)
    PROVE  /\ pc[l] = "Idle" /\ request[l].status = "New" /\ m \in ModesAll
           /\ request'[l].mode = m /\ request'[l].recursiveCount = 1
           /\ request'[l].convertMode = "NONE"
           /\ request'[l].partitioned <=> m \in IntentModes
           /\ \/ /\ request'[l].status = "Granted" /\ pc' = pc
                 /\ m \in IntentModes /\ PartitionOf[l] \in DOMAIN heads
                 /\ heads' = [heads EXCEPT ![PartitionOf[l]] = Append(@, l)]
              \/ /\ request'[l].status = "New" /\ pc'[l] = "LockBucket"
                 /\ UNCHANGED heads
           /\ UNCHANGED <<lock, newMode, holder, scan, failed>>
  <1> DEFINE r == [InitNew EXCEPT !.mode = m, !.recursiveCount = 1,
                                  !.partitioned = m \in IntentModes,
                                  !.compatibleFirst = Priority(m)]
             g == [r EXCEPT !.status = "Granted"]
  <1>1. /\ r.mode = m /\ r.recursiveCount = 1 /\ r.convertMode = "NONE" /\ r.status = "New"
        /\ r.partitioned <=> m \in IntentModes
    BY DEF InitNew
  <1>2. /\ g.mode = r.mode /\ g.recursiveCount = r.recursiveCount
        /\ g.convertMode = r.convertMode /\ g.status = "Granted"
        /\ g.partitioned = r.partitioned
    BY DEF InitNew
  <1>3. \/ /\ request' = [request EXCEPT ![l] = g] /\ pc' = pc
           /\ m \in IntentModes /\ PartitionOf[l] \in DOMAIN heads
           /\ heads' = [heads EXCEPT ![PartitionOf[l]] = Append(@, l)]
        \/ /\ request' = [request EXCEPT ![l] = r]
           /\ pc' = [pc EXCEPT ![l] = "LockBucket"] /\ UNCHANGED heads
    BY DEF Lock
  <1>4. /\ pc[l] = "Idle" /\ request[l].status = "New" /\ m \in ModesAll
        /\ UNCHANGED <<lock, newMode, holder, scan, failed>>
    BY ConstantAssumption DEF Lock
  <1> HIDE DEF r, g
  <1> QED
    BY <1>1, <1>2, <1>3, <1>4 DEF TypeInv, RequestType, ControlType

(* A conversion that must wait, or is granted at once.                      *)
LEMMA ConvertEffect ==
    ASSUME TypeInv, NEW l \in Lockers, ConvertRequest(l)
    PROVE  /\ pc[l] \in {"ConvertBucket", "ConvertMigrate"} /\ lock.partitions = <<>>
           /\ request'[l].partitioned = request[l].partitioned
           /\ request'[l].compatibleFirst = request[l].compatibleFirst
           /\ request'[l].recursiveCount = request[l].recursiveCount
           /\ \/ /\ request'[l].status = "Converting" /\ pc'[l] = "Waiting"
                 /\ request'[l].mode = request[l].mode
                 /\ request'[l].convertMode = newMode[l]
                 /\ lock' = [lock EXCEPT !.conversionsCount = @ + 1,
                                         !.grantedCounts = Inc(@, newMode[l])]
                 /\ Conflicts(newMode[l], GrantedWithout({request[l].mode}))
              \/ /\ request'[l].status = request[l].status /\ pc'[l] = "Idle"
                 /\ request'[l].mode = newMode[l]
                 /\ request'[l].convertMode = request[l].convertMode
                 /\ lock' = [lock EXCEPT !.grantedCounts =
                                Dec(Inc(lock.grantedCounts, newMode[l]), request[l].mode)]
                 /\ ~Conflicts(newMode[l], GrantedWithout({request[l].mode}))
           /\ UNCHANGED <<heads, scan>>
  <1> DEFINE old == request[l].mode
             counted == Inc(lock.grantedCounts, newMode[l])
  <1>1. /\ pc[l] \in {"ConvertBucket", "ConvertMigrate"} /\ lock.partitions = <<>>
        /\ UNCHANGED <<heads, scan>>
    BY DEF ConvertRequest, AtLockHead
  <1>2. \/ /\ request' = [request EXCEPT ![l].status = "Converting",
                                         ![l].convertMode = newMode[l]]
           /\ pc' = [pc EXCEPT ![l] = "Waiting"]
           /\ lock' = [lock EXCEPT !.conversionsCount = @ + 1, !.grantedCounts = counted]
           /\ Conflicts(newMode[l], GrantedWithout({old}))
        \/ /\ request' = [request EXCEPT ![l].mode = newMode[l]]
           /\ pc' = [pc EXCEPT ![l] = "Idle"]
           /\ lock' = [lock EXCEPT !.grantedCounts = Dec(counted, old)]
           /\ ~Conflicts(newMode[l], GrantedWithout({old}))
    BY DEF ConvertRequest
  <1>3. ASSUME request' = [request EXCEPT ![l].status = "Converting",
                                          ![l].convertMode = newMode[l]]
        PROVE  /\ request'[l].status = "Converting" /\ request'[l].convertMode = newMode[l]
               /\ request'[l].mode = old
               /\ request'[l].partitioned = request[l].partitioned
               /\ request'[l].compatibleFirst = request[l].compatibleFirst
               /\ request'[l].recursiveCount = request[l].recursiveCount
    BY <1>3 DEF TypeInv, RequestType, Request
  <1>4. ASSUME request' = [request EXCEPT ![l].mode = newMode[l]]
        PROVE  /\ request'[l].status = request[l].status
               /\ request'[l].convertMode = request[l].convertMode
               /\ request'[l].mode = newMode[l]
               /\ request'[l].partitioned = request[l].partitioned
               /\ request'[l].compatibleFirst = request[l].compatibleFirst
               /\ request'[l].recursiveCount = request[l].recursiveCount
    BY <1>4 DEF TypeInv, RequestType, Request
  <1>5. \A x : pc' = [pc EXCEPT ![l] = x] => pc'[l] = x
    BY DEF TypeInv, ControlType
  <1> QED
    BY <1>1, <1>2, <1>3, <1>4, <1>5

(* The end of a scan.                                                       *)
LEMMA FinishEffect ==
    ASSUME TypeInv, NEW l \in Lockers, ScanFinish(l)
    PROVE  /\ pc'[l] = "Idle" /\ pc[l] = "ScanConflicts" /\ holder = l /\ holder' = NoLocker
           /\ \/ request[l].recursiveCount = 0 /\ request'[l] = InitNew
              \/ request[l].recursiveCount > 0 /\ request'[l] = request[l]
           /\ UNCHANGED <<lock, heads, newMode>>
  <1>1. request[l].recursiveCount \in Nat
    BY DEF TypeInv, RequestType, Request
  <1>2. request'[l] = IF request[l].recursiveCount = 0 THEN InitNew ELSE request[l]
    BY DEF ScanFinish, TypeInv, RequestType
  <1>3. /\ pc'[l] = "Idle" /\ pc[l] = "ScanConflicts" /\ holder = l /\ holder' = NoLocker
        /\ UNCHANGED <<lock, heads, newMode>>
    BY DEF ScanFinish, TypeInv, ControlType
  <1> QED
    BY <1>1, <1>2, <1>3

(* Every step keeps the mutex with its thread.                              *)
LEMMA HolderStep ==
    ASSUME TypeInv, HolderInv, Next
    PROVE  HolderInv'
<1> USE DEF TypeInv, ControlType, HolderInv, MutexStates, ScanStates
<1>1. ASSUME NEW l \in Lockers, NEW m \in LockModes, Lock(l, m) PROVE HolderInv'
  BY <1>1, ConstantAssumption DEF Lock
<1>2. ASSUME NEW l \in Lockers, NEW m \in ConvertModes, Convert(l, m) PROVE HolderInv'
  BY <1>2, ConstantAssumption DEF Convert
<1>3. ASSUME NEW l \in Lockers, NEW m \in {"IX", "S"}, Downgrade(l, m) PROVE HolderInv'
  BY <1>3, ConstantAssumption DEF Downgrade, StartScan
<1>4. ASSUME NEW l \in Lockers, LockTimeout(l) PROVE HolderInv'
  BY <1>4, ConstantAssumption DEF LockTimeout
<1>5. ASSUME NEW l \in Lockers, Unlock(l) PROVE HolderInv'
  BY <1>5, ConstantAssumption DEF Unlock
<1>6. ASSUME NEW l \in Lockers, StartPartitioned(l) PROVE HolderInv'
  BY <1>6, ConstantAssumption DEF StartPartitioned, AddPartition
<1>7. ASSUME NEW l \in Lockers, StartMigration(l) PROVE HolderInv'
  <2>1. /\ holder = NoLocker /\ holder' = l
        /\ pc' = [pc EXCEPT ![l] = "LockMigrate"] \/ pc' = [pc EXCEPT ![l] = "ConvertMigrate"]
    BY <1>7 DEF StartMigration
  <2> QED
    BY <2>1, ConstantAssumption
<1>8. ASSUME NEW l \in Lockers \union {Cleaner}, MigratePartition(l) PROVE HolderInv'
  BY <1>8, ConstantAssumption DEF MigratePartition
<1>9. ASSUME NEW l \in Lockers, NewRequest(l) PROVE HolderInv'
  BY <1>9, ConstantAssumption DEF NewRequest, AtLockHead
<1>10. ASSUME NEW l \in Lockers, ConvertRequest(l) PROVE HolderInv'
  <2>1. /\ holder' = NoLocker /\ holder \in {NoLocker, l}
        /\ pc' = [pc EXCEPT ![l] = "Waiting"] \/ pc' = [pc EXCEPT ![l] = "Idle"]
    BY <1>10 DEF ConvertRequest, AtLockHead
  <2> QED
    BY <2>1, ConstantAssumption
<1>11. ASSUME NEW l \in Lockers, LockComplete(l) PROVE HolderInv'
  BY <1>11, ConstantAssumption DEF LockComplete
<1>12. ASSUME NEW l \in Lockers, UnlockPartition(l) PROVE HolderInv'
  BY <1>12, ConstantAssumption DEF UnlockPartition
<1>13. ASSUME NEW l \in Lockers, UnlockGranted(l) PROVE HolderInv'
  BY <1>13, ConstantAssumption DEF UnlockGranted, StartScan
<1>14. ASSUME NEW l \in Lockers, UnlockWaiting(l) PROVE HolderInv'
  BY <1>14, ConstantAssumption DEF UnlockWaiting, StartScan
<1>15. ASSUME NEW l \in Lockers, UnlockConverting(l) PROVE HolderInv'
  BY <1>15, ConstantAssumption DEF UnlockConverting, StartScan
<1>16. ASSUME NEW l \in Lockers, ScanGranted(l) PROVE HolderInv'
  BY <1>16, ConstantAssumption, ScanGrantedEffect DEF ScanGranted
<1>17. ASSUME NEW l \in Lockers, ScanConflicts(l) PROVE HolderInv'
  BY <1>17, ConstantAssumption, ScanConflictsEffect DEF ScanConflicts
<1>18. ASSUME NEW l \in Lockers, ScanFinish(l) PROVE HolderInv'
  BY <1>18, ConstantAssumption DEF ScanFinish
<1>19. CASE CleanupStart
  BY <1>19, ConstantAssumption DEF CleanupStart
<1>20. CASE CleanupFinish
  BY <1>20, ConstantAssumption DEF CleanupFinish
<1> HIDE DEF TypeInv, ControlType, HolderInv, MutexStates, ScanStates
<1> QED
  BY <1>1, <1>2, <1>3, <1>4, <1>5, <1>6, <1>7, <1>8, <1>9, <1>10, <1>11, <1>12, <1>13,
      <1>14, <1>15, <1>16, <1>17, <1>18, <1>19, <1>20 DEF Next, Continue, Cleanup

(* Every step keeps what the threads know.                                  *)
LEMMA LockerStep ==
    ASSUME NoCancelledConversion, TypeInv, LockerInv, ListInv, Next
    PROVE  LockerInv'
<1>1. ASSUME NEW l \in Lockers, NEW m \in LockModes, Lock(l, m) PROVE LockerInv'
  <2>1. OthersSame(l)
    BY <1>1 DEF Lock, OthersSame, TypeInv, RequestType, ControlType
  <2>2. LockerOK(l)
    BY DEF LockerInv
  <2>3. LockerOK(l)'
    BY <1>1, LockEffect DEF LockerOK, ThreadOK, RequestOK, ScanStates, ModesAll
  <2> QED
    BY <2>1, <2>3, LockerFrame
<1>2. ASSUME NEW l \in Lockers, NEW m \in ConvertModes, Convert(l, m) PROVE LockerInv'
  <2>1. OthersSame(l)
    BY <1>2 DEF Convert, OthersSame, TypeInv, RequestType, ControlType
  <2>2. LockerOK(l)
    BY DEF LockerInv
  <2>3. LockerOK(l)'
    BY <1>2, <2>2, ConstantAssumption DEF Convert, LockerOK, ThreadOK, RequestOK, TypeInv,
        RequestType, Request, ControlType, InitNew, ScanStates, ModesAll,
        NoCancelledConversion
  <2> QED
    BY <2>1, <2>3, LockerFrame
<1>3. ASSUME NEW l \in Lockers, NEW m \in {"IX", "S"}, Downgrade(l, m) PROVE LockerInv'
  <2>1. OthersSame(l)
    BY <1>3 DEF Downgrade, StartScan, OthersSame, TypeInv, RequestType, ControlType
  <2>2. LockerOK(l)
    BY DEF LockerInv
  <2>3. LockerOK(l)'
    <3>1. /\ request'[l].mode = m /\ request'[l].status = "Granted"
          /\ request'[l].convertMode = request[l].convertMode
          /\ request[l].status = "Granted" /\ pc'[l] = "ScanGranted"
      BY <1>3 DEF Downgrade, StartScan, TypeInv, RequestType, Request, ControlType
    <3> QED
      BY <2>2, <3>1 DEF LockerOK, ThreadOK, RequestOK, ScanStates
  <2> QED
    BY <2>1, <2>3, LockerFrame
<1>4. ASSUME NEW l \in Lockers, LockTimeout(l) PROVE LockerInv'
  <2>1. OthersSame(l)
    BY <1>4 DEF LockTimeout, OthersSame, TypeInv, RequestType, ControlType
  <2>2. LockerOK(l)
    BY DEF LockerInv
  <2>3. LockerOK(l)'
    BY <1>4, <2>2, ConstantAssumption DEF LockTimeout, LockerOK, ThreadOK, RequestOK,
        TypeInv, RequestType, Request, ControlType, InitNew, ScanStates, ModesAll,
        NoCancelledConversion
  <2> QED
    BY <2>1, <2>3, LockerFrame
<1>5. ASSUME NEW l \in Lockers, Unlock(l) PROVE LockerInv'
  <2>1. OthersSame(l)
    BY <1>5 DEF Unlock, OthersSame, TypeInv, RequestType, ControlType
  <2>2. LockerOK(l)
    BY DEF LockerInv
  <2>3. LockerOK(l)'
    BY <1>5, <2>2, UnlockEffect, ConstantAssumption DEF LockerOK, ThreadOK, RequestOK, TypeInv,
        RequestType, Request, ControlType, InitNew, ScanStates, ModesAll
  <2> QED
    BY <2>1, <2>3, LockerFrame
<1>6. ASSUME NEW l \in Lockers, StartPartitioned(l) PROVE LockerInv'
  <2>1. OthersSame(l)
    BY <1>6 DEF StartPartitioned, AddPartition, OthersSame, TypeInv, RequestType,
        ControlType
  <2>2. LockerOK(l)
    BY DEF LockerInv
  <2>3. LockerOK(l)'
    BY <1>6, <2>2, ConstantAssumption DEF StartPartitioned, AddPartition, LockerOK,
        ThreadOK, RequestOK, TypeInv, RequestType, Request, ControlType, InitNew,
        ScanStates, ModesAll
  <2> QED
    BY <2>1, <2>3, LockerFrame
<1>7. ASSUME NEW l \in Lockers, StartMigration(l) PROVE LockerInv'
  <2>1. OthersSame(l)
    BY <1>7 DEF StartMigration, OthersSame, TypeInv, RequestType, ControlType
  <2>2. LockerOK(l)
    BY DEF LockerInv
  <2>3. LockerOK(l)'
    BY <1>7, <2>2, ConstantAssumption DEF StartMigration, LockerOK, ThreadOK, RequestOK,
        TypeInv, RequestType, Request, ControlType, InitNew, ScanStates, ModesAll
  <2> QED
    BY <2>1, <2>3, LockerFrame
<1>8. ASSUME NEW l \in Lockers \union {Cleaner}, MigratePartition(l) PROVE LockerInv'
  BY <1>8 DEF MigratePartition, LockerInv, LockerOK
<1>9. ASSUME NEW l \in Lockers, NewRequest(l) PROVE LockerInv'
  <2>1. OthersSame(l)
    BY <1>9 DEF NewRequest, AtLockHead, OthersSame, TypeInv, RequestType, ControlType
  <2>2. LockerOK(l)
    BY DEF LockerInv
  <2>3. LockerOK(l)'
    <3>1. /\ request'[l].mode = request[l].mode /\ ~request'[l].partitioned
          /\ request'[l].convertMode = request[l].convertMode
          /\ request'[l].recursiveCount = request[l].recursiveCount
          /\ pc[l] \in {"LockBucket", "LockMigrate"}
      BY <1>9 DEF NewRequest, AtLockHead, TypeInv, RequestType, Request
    <3>2. \/ request'[l].status = "Granted" /\ pc'[l] = "Idle"
          \/ request'[l].status = "Waiting" /\ pc'[l] = "Waiting"
      BY <1>9 DEF NewRequest, TypeInv, RequestType, Request, ControlType
    <3> QED
      BY <2>2, <3>1, <3>2 DEF LockerOK, ThreadOK, RequestOK, ScanStates
  <2> QED
    BY <2>1, <2>3, LockerFrame
<1>10. ASSUME NEW l \in Lockers, ConvertRequest(l) PROVE LockerInv'
  <2>1. OthersSame(l)
    BY <1>10 DEF ConvertRequest, AtLockHead, OthersSame, TypeInv, RequestType, ControlType
  <2>2. LockerOK(l)
    BY DEF LockerInv
  <2>3. LockerOK(l)'
    BY <1>10, <2>2, ConvertEffect DEF LockerOK, ThreadOK, RequestOK, ScanStates, ModesAll
  <2> QED
    BY <2>1, <2>3, LockerFrame
<1>11. ASSUME NEW l \in Lockers, LockComplete(l) PROVE LockerInv'
  <2>1. OthersSame(l)
    BY <1>11 DEF LockComplete, OthersSame, TypeInv, RequestType, ControlType
  <2>2. LockerOK(l)
    BY DEF LockerInv
  <2>3. LockerOK(l)'
    BY <1>11, <2>2, ConstantAssumption DEF LockComplete, LockerOK, ThreadOK, RequestOK,
        TypeInv, RequestType, Request, ControlType, InitNew, ScanStates, ModesAll
  <2> QED
    BY <2>1, <2>3, LockerFrame
<1>12. ASSUME NEW l \in Lockers, UnlockPartition(l) PROVE LockerInv'
  <2>1. OthersSame(l)
    BY <1>12 DEF UnlockPartition, OthersSame, TypeInv, RequestType, ControlType
  <2>2. LockerOK(l)
    BY DEF LockerInv
  <2>3. LockerOK(l)'
    <3>1. \/ request'[l] = InitNew /\ pc'[l] = "Idle"
          \/ request'[l] = request[l] /\ pc'[l] = "UnlockBucket"
      BY <1>12 DEF UnlockPartition, TypeInv, RequestType, ControlType
    <3>2. pc[l] = "UnlockPartition"
      BY <1>12 DEF UnlockPartition
    <3>3. CASE request'[l] = InitNew /\ pc'[l] = "Idle"
      BY <3>3 DEF LockerOK, ThreadOK, RequestOK, InitNew, ScanStates
    <3>4. CASE request'[l] = request[l] /\ pc'[l] = "UnlockBucket"
      BY <2>2, <3>2, <3>4 DEF LockerOK, ThreadOK, RequestOK, ScanStates
    <3> QED
      BY <3>1, <3>3, <3>4
  <2> QED
    BY <2>1, <2>3, LockerFrame
<1>13. ASSUME NEW l \in Lockers, UnlockGranted(l) PROVE LockerInv'
  <2>1. OthersSame(l)
    BY <1>13 DEF UnlockGranted, StartScan, OthersSame, TypeInv, RequestType, ControlType
  <2>2. LockerOK(l)
    BY DEF LockerInv
  <2>3. LockerOK(l)'
    BY <1>13, <2>2, ConstantAssumption DEF UnlockGranted, StartScan, LockerOK, ThreadOK,
        RequestOK, TypeInv, RequestType, Request, ControlType, InitNew, ScanStates, ModesAll
  <2> QED
    BY <2>1, <2>3, LockerFrame
<1>14. ASSUME NEW l \in Lockers, UnlockWaiting(l) PROVE LockerInv'
  <2>1. OthersSame(l)
    BY <1>14 DEF UnlockWaiting, StartScan, OthersSame, TypeInv, RequestType, ControlType
  <2>2. LockerOK(l)
    BY DEF LockerInv
  <2>3. LockerOK(l)'
    BY <1>14, <2>2, ConstantAssumption DEF UnlockWaiting, StartScan, LockerOK, ThreadOK,
        RequestOK, TypeInv, RequestType, Request, ControlType, InitNew, ScanStates, ModesAll
  <2> QED
    BY <2>1, <2>3, LockerFrame
<1>15. ASSUME NEW l \in Lockers, UnlockConverting(l) PROVE LockerInv'
  <2>1. OthersSame(l)
    BY <1>15 DEF UnlockConverting, StartScan, OthersSame, TypeInv, RequestType, ControlType
  <2>2. LockerOK(l)
    BY DEF LockerInv
  <2>3. LockerOK(l)'
    BY <1>15, <2>2, ConstantAssumption DEF UnlockConverting, StartScan, LockerOK, ThreadOK,
        RequestOK, TypeInv, RequestType, Request, ControlType, InitNew, ScanStates,
        ModesAll, NoCancelledConversion
  <2> QED
    BY <2>1, <2>3, LockerFrame
<1>16. ASSUME NEW l \in Lockers, ScanGranted(l) PROVE LockerInv'
  <2>1. CASE UNCHANGED <<request, lock>>
    <3>1. OthersSame(l) /\ LockerOK(l)
      BY <1>16, <2>1, ScanGrantedEffect DEF OthersSame, LockerInv, TypeInv, ControlType
    <3>2. LockerOK(l)'
      BY <1>16, <2>1, <3>1, ScanGrantedEffect
        DEF LockerOK, ThreadOK, RequestOK, TypeInv, ControlType, ScanStates
    <3> QED
      BY <3>1, <3>2, LockerFrame
  <2>2. ASSUME NEW it, GrantsConversion(it), UNCHANGED <<pc, newMode>> PROVE LockerInv'
    <3>1. it \in Lockers /\ OthersSame(it) /\ LockerOK(it)
      BY <2>2 DEF GrantsConversion, OthersSame, LockerInv, TypeInv, RequestType
    <3>2. LockerOK(it)'
      BY <2>2, <3>1
        DEF GrantsConversion, LockerOK, ThreadOK, RequestOK, TypeInv, RequestType, Request,
            ScanStates
    <3> QED
      BY <3>1, <3>2, LockerFrame
  <2> QED
    BY <1>16, <2>1, <2>2, ScanGrantedEffect
<1>17. ASSUME NEW l \in Lockers, ScanConflicts(l) PROVE LockerInv'
  <2>1. CASE UNCHANGED <<request, lock>>
    BY <1>17, <2>1, ScanConflictsEffect DEF LockerInv, LockerOK
  <2>2. ASSUME NEW it, GrantsWaiter(it), UNCHANGED <<pc, newMode>> PROVE LockerInv'
    <3>1. it \in Lockers /\ OthersSame(it) /\ LockerOK(it)
      BY <2>2 DEF GrantsWaiter, OthersSame, LockerInv, TypeInv, RequestType
    <3>2. request[it].status = "Waiting" /\ ~GivenUp(it)
      BY <2>2 DEF GrantsWaiter, ListInv, ListedOK, Queued
    <3>4. /\ request'[it].status = "Granted" /\ request'[it].mode = request[it].mode
          /\ request'[it].convertMode = request[it].convertMode
          /\ request'[it].recursiveCount = request[it].recursiveCount
          /\ request'[it].partitioned = request[it].partitioned
      BY <2>2 DEF GrantsWaiter, TypeInv, RequestType, Request
    <3>5. /\ pc'[it] = pc[it] /\ pc[it] \notin ScanStates
          /\ pc[it] \notin {"Idle", "LockBucket", "LockMigrate", "ConvertBucket",
                            "ConvertMigrate", "UnlockPartition"}
      BY <2>2, <3>1, <3>2 DEF GivenUp, LockerOK, ThreadOK, RequestOK, ScanStates, InitNew
    <3>3. LockerOK(it)'
      BY <3>1, <3>2, <3>4, <3>5 DEF LockerOK, ThreadOK, RequestOK
    <3> QED
      BY <3>1, <3>3, LockerFrame
  <2> QED
    BY <1>17, <2>1, <2>2, ScanConflictsEffect
<1>18. ASSUME NEW l \in Lockers, ScanFinish(l) PROVE LockerInv'
  <2>1. OthersSame(l)
    BY <1>18 DEF ScanFinish, OthersSame, TypeInv, RequestType, ControlType
  <2>2. LockerOK(l)
    BY DEF LockerInv
  <2>3. LockerOK(l)'
    BY <1>18, <2>2, FinishEffect DEF LockerOK, ThreadOK, RequestOK, InitNew, ScanStates
  <2> QED
    BY <2>1, <2>3, LockerFrame
<1>19. CASE CleanupStart
  BY <1>19 DEF CleanupStart, LockerInv, LockerOK
<1>20. CASE CleanupFinish
  BY <1>20 DEF CleanupFinish, LockerInv, LockerOK
<1> QED
  BY <1>1, <1>2, <1>3, <1>4, <1>5, <1>6, <1>7, <1>8, <1>9, <1>10, <1>11, <1>12, <1>13,
      <1>14, <1>15, <1>16, <1>17, <1>18, <1>19, <1>20 DEF Next, Continue, Cleanup

=============================================================================
