------------------------- MODULE LockManagerCounts -------------------------
(****************************************************************************)
(* The steps of the lock manager by what they do to the two lists of the    *)
(* LockHead: one request joins or leaves a list, or changes its mode, or    *)
(* the lists stay.  From that, the counts and masks agree with the lists.   *)
(****************************************************************************)
EXTENDS LockManagerInvariant

----------------------------------------------------------------------------
(* Modes.                                                                   *)

(* The table, written out.                                                  *)
LEMMA ConflictTable ==
    /\ LockConflictsTable["NONE"] = {}
    /\ LockConflictsTable["IS"] = {"X"}
    /\ LockConflictsTable["IX"] = {"S", "X"}
    /\ LockConflictsTable["S"] = {"IX", "X"}
    /\ LockConflictsTable["X"] = {"S", "X", "IS", "IX"}
  BY DEF LockConflictsTable, ModesAll

(* Conflicts go both ways, X conflicts with every mode, and intent modes do *)
(* not conflict.                                                            *)
LEMMA ConflictRules ==
    ASSUME NEW m \in ModesAll, NEW k \in ModesAll
    PROVE  /\ LockConflictsTable[m] \subseteq ModesAll
           /\ Conflicts(m, {k}) <=> Conflicts(k, {m})
           /\ m = "X" => Conflicts(m, {k})
           /\ m \in IntentModes /\ k \in IntentModes => ~Conflicts(m, {k})
  BY ConflictTable DEF ModesAll, Conflicts, IntentModes

(* Who conflicts with a mode conflicts with the modes that cover it.        *)
LEMMA CoverRules ==
    ASSUME NEW m \in ModesAll, NEW k \in ModesAll, NEW c \in ModesAll,
           IsModeCovered(k, c), Conflicts(m, {k})
    PROVE  Conflicts(m, {c})
  BY ConflictTable DEF ModesAll, Conflicts, IsModeCovered

(* A mode conflicts with a set if it does with a mode in it.                *)
LEMMA ConflictsOf ==
    ASSUME NEW m \in ModesAll, NEW K
    PROVE  Conflicts(m, K) <=> \E k \in K \intersect ModesAll : Conflicts(m, {k})
  BY ConflictTable DEF ModesAll, Conflicts

----------------------------------------------------------------------------
(* What the counts say of the lists.                                        *)

\* The modes are those of requests that have been made.
LEMMA ListedModes ==
    ASSUME TypeInv, LockerInv, ListInv, NEW k \in Lockers
    PROVE  /\ k \in Members(lock.grantedList) \/ k \in Members(lock.conflictList) =>
                 request[k].mode \in ModesAll
           /\ request[k].status = "Converting" => request[k].convertMode \in ModesAll
           /\ request[k].status # "Converting" => request[k].convertMode = "NONE"
           /\ k \in Members(lock.conflictList) => request[k].convertMode = "NONE"
  BY
    DEF TypeInv, RequestType, Request, LockerInv, LockerOK, RequestOK, ListInv, ListedOK,
        OnGrantedList, Queued

(* The lists hold lockers' requests.                                        *)
LEMMA ListsInLockers ==
    ASSUME TypeInv
    PROVE  /\ Members(lock.grantedList) \subseteq Lockers
           /\ Members(lock.conflictList) \subseteq Lockers
           /\ Members(lock.grantedList) = {} <=> lock.grantedList = <<>>
           /\ Members(lock.conflictList) = {} <=> lock.conflictList = <<>>
  <1>1. lock.grantedList \in Seq(Lockers) /\ lock.conflictList \in Seq(Lockers)
    BY DEF TypeInv, LockType, LockHead
  <1>2. /\ Members(lock.grantedList) \subseteq Lockers
        /\ Members(lock.grantedList) = {} <=> lock.grantedList = <<>>
    BY <1>1, MembersDef
  <1>3. /\ Members(lock.conflictList) \subseteq Lockers
        /\ Members(lock.conflictList) = {} <=> lock.conflictList = <<>>
    BY <1>1, MembersDef
  <1> QED
    BY <1>2, <1>3

(* The sets that the counts count are finite.                               *)
LEMMA FiniteLists ==
    ASSUME TypeInv
    PROVE  /\ \A m : /\ IsFiniteSet(ToConvert(m)) /\ Cardinality(ToConvert(m)) \in Nat
                     /\ IsFiniteSet(WithMode(lock.grantedList, m))
                     /\ Cardinality(WithMode(lock.grantedList, m)) \in Nat
                     /\ IsFiniteSet(WithMode(lock.conflictList, m))
                     /\ Cardinality(WithMode(lock.conflictList, m)) \in Nat
           /\ IsFiniteSet(Conversions) /\ Cardinality(Conversions) \in Nat
           /\ IsFiniteSet(Firsts) /\ Cardinality(Firsts) \in Nat
  <1>1. \A S : S \subseteq Lockers => IsFiniteSet(S) /\ Cardinality(S) \in Nat
    BY ConstantAssumption, FS_Subset, FS_CardinalityType
  <1>2. Conversions \subseteq Lockers /\ Firsts \subseteq Lockers
    BY ListsInLockers DEF Conversions, Firsts
  <1>3. \A m : /\ ToConvert(m) \subseteq Lockers
               /\ WithMode(lock.grantedList, m) \subseteq Lockers
               /\ WithMode(lock.conflictList, m) \subseteq Lockers
    BY ListsInLockers DEF ToConvert, WithMode
  <1> QED
    BY <1>1, <1>2, <1>3

(* A mode is in the granted mask if a request has it or waits to convert to *)
(* it.                                                                      *)
LEMMA GrantedMask ==
    ASSUME TypeInv, CountInv, NEW m \in ModesAll
    PROVE  m \in Mask(lock.grantedCounts) <=>
              WithMode(lock.grantedList, m) # {} \/ ToConvert(m) # {}
  <1>1. lock.grantedCounts[m] =
            Cardinality(WithMode(lock.grantedList, m)) + Cardinality(ToConvert(m))
    BY DEF CountInv
  <1>2. \A S : IsFiniteSet(S) => (Cardinality(S) = 0 <=> S = {})
    BY FS_EmptySet
  <1> QED
    BY <1>1, <1>2, FiniteLists DEF Mask

(* The same for the mask of the queue.                                      *)
LEMMA ConflictMask ==
    ASSUME TypeInv, CountInv, NEW m \in ModesAll
    PROVE  m \in Mask(lock.conflictCounts) <=> WithMode(lock.conflictList, m) # {}
  <1>1. lock.conflictCounts[m] = Cardinality(WithMode(lock.conflictList, m))
    BY DEF CountInv
  <1>2. \A S : IsFiniteSet(S) => (Cardinality(S) = 0 <=> S = {})
    BY FS_EmptySet
  <1> QED
    BY <1>1, <1>2, FiniteLists DEF Mask

(* A mode conflicts with the mask of the granted counts if a request on the *)
(* granted list blocks it.                                                  *)
LEMMA ConflictsGranted ==
    ASSUME TypeInv, LockerInv, ListInv, CountInv, NEW m \in ModesAll
    PROVE  Conflicts(m, Mask(lock.grantedCounts)) <=> BlockedBy(m, Members(lock.grantedList))
  <1>1. ASSUME Conflicts(m, Mask(lock.grantedCounts))
        PROVE  BlockedBy(m, Members(lock.grantedList))
    <2>1. PICK c \in ModesAll : c \in Mask(lock.grantedCounts) /\ Conflicts(m, {c})
      BY <1>1, ConflictsOf
    <2>2. PICK k \in Members(lock.grantedList) : c \in Taken(k)
      BY <2>1, GrantedMask DEF WithMode, ToConvert, Taken
    <2>3. Conflicts(m, Taken(k))
      BY <2>1, <2>2, ConflictsOf
    <2> QED
      BY <2>2, <2>3 DEF BlockedBy
  <1>2. ASSUME BlockedBy(m, Members(lock.grantedList))
        PROVE  Conflicts(m, Mask(lock.grantedCounts))
    <2>1. PICK k \in Members(lock.grantedList) : Conflicts(m, Taken(k))
      BY <1>2 DEF BlockedBy
    <2>2. PICK c \in ModesAll : c \in Taken(k) /\ Conflicts(m, {c})
      BY <2>1, ConflictsOf
    <2>3. k \in WithMode(lock.grantedList, c) \/ k \in ToConvert(c)
      BY <2>1, <2>2, ListedModes, ListsInLockers DEF WithMode, ToConvert, Taken, ModesAll
    <2>4. c \in Mask(lock.grantedCounts)
      BY <2>3, GrantedMask
    <2> QED
      BY <2>2, <2>4, ConflictsOf
  <1> QED
    BY <1>1, <1>2

(* The same for the waiters.                                                *)
LEMMA ConflictsQueued ==
    ASSUME TypeInv, LockerInv, ListInv, CountInv, NEW m \in ModesAll
    PROVE  Conflicts(m, Mask(lock.conflictCounts)) <=>
              \E k \in Members(lock.conflictList) : Conflicts(m, {request[k].mode})
  <1>1. ASSUME Conflicts(m, Mask(lock.conflictCounts))
        PROVE  \E k \in Members(lock.conflictList) : Conflicts(m, {request[k].mode})
    <2>1. PICK c \in ModesAll : c \in Mask(lock.conflictCounts) /\ Conflicts(m, {c})
      BY <1>1, ConflictsOf
    <2>2. PICK k \in Members(lock.conflictList) : c = request[k].mode
      BY <2>1, ConflictMask DEF WithMode
    <2> QED
      BY <2>1, <2>2
  <1>2. ASSUME NEW k \in Members(lock.conflictList), Conflicts(m, {request[k].mode})
        PROVE  Conflicts(m, Mask(lock.conflictCounts))
    <2>1. request[k].mode \in ModesAll
      BY ListedModes, ListsInLockers
    <2>2. request[k].mode \in Mask(lock.conflictCounts)
      BY <2>1, ConflictMask DEF WithMode
    <2> QED
      BY <1>2, <2>1, <2>2, ConflictsOf
  <1> QED
    BY <1>1, <1>2

(* Empty masks mean empty lists.                                            *)
LEMMA EmptyMasks ==
    ASSUME TypeInv, LockerInv, ListInv, CountInv
    PROVE  /\ Mask(lock.grantedCounts) = {} <=> lock.grantedList = <<>>
           /\ Mask(lock.conflictCounts) = {} <=> lock.conflictList = <<>>
  <1>1. ASSUME Mask(lock.grantedCounts) = {} PROVE Members(lock.grantedList) = {}
    <2>1. SUFFICES ASSUME NEW k \in Members(lock.grantedList) PROVE FALSE
      OBVIOUS
    <2>2. request[k].mode \in ModesAll /\ k \in WithMode(lock.grantedList, request[k].mode)
      BY ListedModes, ListsInLockers DEF WithMode
    <2> QED
      BY <1>1, <2>2, GrantedMask
  <1>2. ASSUME Members(lock.grantedList) = {} PROVE Mask(lock.grantedCounts) = {}
    BY <1>2, GrantedMask DEF WithMode, ToConvert, Mask
  <1>3. ASSUME Mask(lock.conflictCounts) = {} PROVE Members(lock.conflictList) = {}
    <2>1. SUFFICES ASSUME NEW k \in Members(lock.conflictList) PROVE FALSE
      OBVIOUS
    <2>2. request[k].mode \in ModesAll /\ k \in WithMode(lock.conflictList, request[k].mode)
      BY ListedModes, ListsInLockers DEF WithMode
    <2> QED
      BY <1>3, <2>2, ConflictMask
  <1>4. ASSUME Members(lock.conflictList) = {} PROVE Mask(lock.conflictCounts) = {}
    BY <1>4, ConflictMask DEF WithMode, Mask
  <1> QED
    BY <1>1, <1>2, <1>3, <1>4, ListsInLockers

(* GrantedWithout is what the other requests on the list account for.       *)
LEMMA OthersTake ==
    ASSUME TypeInv, LockerInv, ListInv, CountInv, NEW c \in ModesAll,
           NEW l \in Members(lock.grantedList), NEW own,
           own \intersect ModesAll = Taken(l) \intersect ModesAll
    PROVE  c \in GrantedWithout(own) <=>
              \E k \in Members(lock.grantedList) \ {l} : c \in Taken(k)
  <1> DEFINE W == WithMode(lock.grantedList, c)
             T == ToConvert(c)
  <1>1. /\ lock.grantedCounts[c] = Cardinality(W) + Cardinality(T)
        /\ IsFiniteSet(W) /\ IsFiniteSet(T)
        /\ Cardinality(W) \in Nat /\ Cardinality(T) \in Nat
    BY FiniteLists DEF CountInv
  <1>2. /\ \A k : k \in W <=> k \in Members(lock.grantedList) /\ request[k].mode = c
        /\ \A k : k \in T <=> k \in Members(lock.grantedList) /\ request[k].convertMode = c
    BY ListedModes, ListsInLockers DEF WithMode, ToConvert, ModesAll
  <1>3. l \in W \/ l \in T <=> c \in own
    BY <1>2 DEF Taken
  <1>4. ~(l \in W /\ l \in T)
    BY <1>2, ListsInLockers DEF LockerInv, LockerOK, RequestOK, ModesAll
  <1>5. /\ IsFiniteSet(W \ {l}) /\ IsFiniteSet(T \ {l})
        /\ Cardinality(W \ {l}) = IF l \in W THEN Cardinality(W) - 1 ELSE Cardinality(W)
        /\ Cardinality(T \ {l}) = IF l \in T THEN Cardinality(T) - 1 ELSE Cardinality(T)
    BY <1>1, FS_RemoveElement
  <1>6. /\ Cardinality(W \ {l}) \in Nat /\ Cardinality(T \ {l}) \in Nat
        /\ Cardinality(W \ {l}) = 0 <=> W \ {l} = {}
        /\ Cardinality(T \ {l}) = 0 <=> T \ {l} = {}
    BY <1>5, FS_CardinalityType, FS_EmptySet
  <1>7. (\E k \in Members(lock.grantedList) \ {l} : c \in Taken(k)) <=>
            W \ {l} # {} \/ T \ {l} # {}
    BY <1>2 DEF Taken
  <1> HIDE DEF W, T
  <1>8. c \in GrantedWithout(own) <=> Cardinality(W) + Cardinality(T) > (IF c \in own THEN 1 ELSE 0)
    BY <1>1 DEF GrantedWithout
  <1> QED
    BY <1>1, <1>3, <1>4, <1>5, <1>6, <1>7, <1>8

(* So a conflict with it is one with another request.                       *)
LEMMA ConflictsWithout ==
    ASSUME TypeInv, LockerInv, ListInv, CountInv, NEW m \in ModesAll,
           NEW l \in Members(lock.grantedList), NEW own,
           own \intersect ModesAll = Taken(l) \intersect ModesAll
    PROVE  Conflicts(m, GrantedWithout(own)) <=>
              BlockedBy(m, Members(lock.grantedList) \ {l})
  <1>1. ASSUME NEW c \in ModesAll
        PROVE  c \in GrantedWithout(own) <=>
                  \E k \in Members(lock.grantedList) \ {l} : c \in Taken(k)
    BY OthersTake
  <1>2. ASSUME Conflicts(m, GrantedWithout(own))
        PROVE  BlockedBy(m, Members(lock.grantedList) \ {l})
    <2>1. PICK c \in ModesAll : c \in GrantedWithout(own) /\ Conflicts(m, {c})
      BY <1>2, ConflictsOf
    <2>2. PICK k \in Members(lock.grantedList) \ {l} : c \in Taken(k)
      BY <1>1, <2>1
    <2>3. Conflicts(m, Taken(k))
      BY <2>1, <2>2, ConflictsOf
    <2> QED
      BY <2>2, <2>3 DEF BlockedBy
  <1>3. ASSUME BlockedBy(m, Members(lock.grantedList) \ {l})
        PROVE  Conflicts(m, GrantedWithout(own))
    <2>1. PICK k \in Members(lock.grantedList) \ {l} : Conflicts(m, Taken(k))
      BY <1>3 DEF BlockedBy
    <2>2. PICK c \in ModesAll : c \in Taken(k) /\ Conflicts(m, {c})
      BY <2>1, ConflictsOf
    <2>3. c \in GrantedWithout(own)
      BY <1>1, <2>1, <2>2
    <2> QED
      BY <2>2, <2>3, ConflictsOf
  <1> QED
    BY <1>2, <1>3

----------------------------------------------------------------------------
(* The requests in partitions.                                              *)

(* The requests in the partitions, and where to find them.                  *)
LEMMA HeadsDef ==
    ASSUME TypeInv, HeadsInv
    PROVE  /\ \A p \in DOMAIN heads : heads[p] \in Seq(Lockers)
           /\ \A k \in Lockers : \A p \in DOMAIN heads :
                 k \in Members(heads[p]) <=> InPartition(k) /\ PartitionOf[k] = p
           /\ \A p \in DOMAIN heads : Members(heads[p]) \subseteq Lockers
           /\ lock.partitions = <<>> => DOMAIN heads = {} /\ \A k \in Lockers : ~InPartition(k)
  <1>1. \A p \in DOMAIN heads : heads[p] \in Seq(Lockers)
    BY DEF TypeInv, HeadsType
  <1>2. \A p \in DOMAIN heads : Members(heads[p]) \subseteq Lockers
    BY <1>1, MembersDef
  <1>3. \A k \in Lockers : \A p \in DOMAIN heads :
            k \in Members(heads[p]) <=> InPartition(k) /\ PartitionOf[k] = p
    BY DEF HeadsInv, InPartition
  <1>4. lock.partitions = <<>> => Members(lock.partitions) = {}
    BY MembersDef DEF TypeInv, LockType, LockHead
  <1>5. lock.partitions = <<>> => DOMAIN heads = {} /\ \A k \in Lockers : ~InPartition(k)
    BY <1>4 DEF HeadsInv, InPartition
  <1> QED
    BY <1>1, <1>2, <1>3, <1>5

\* The partitions are well formed, whether or not they are in the vector.
HeadsShape ==
    \A p \in DOMAIN heads :
        Distinct(heads[p]) /\ \A l \in Members(heads[p]) : PartitionOf[l] = p

(* An intent request joins its partition.                                   *)
LEMMA JoinPartition ==
    ASSUME TypeInv, HeadsInv, NEW l \in Lockers, ~InPartition(l), NEW p, p = PartitionOf[l],
           heads' = [q \in DOMAIN heads \union {p} |->
                        IF q # p THEN heads[q]
                        ELSE IF p \in DOMAIN heads THEN Append(heads[p], l) ELSE <<l>>]
    PROVE  /\ \A k \in Lockers : InPartition(k)' <=> InPartition(k) \/ k = l
           /\ HeadsShape'
           /\ DOMAIN heads' = DOMAIN heads \union {p}
  <1>1. DOMAIN heads' = DOMAIN heads \union {p}
    OBVIOUS
  <1>2. \A q \in DOMAIN heads \ {p} : heads'[q] = heads[q]
    OBVIOUS
  <1>3. /\ Distinct(heads'[p]) /\ l \in Members(heads'[p])
        /\ p \in DOMAIN heads => Members(heads'[p]) = Members(heads[p]) \union {l}
        /\ p \notin DOMAIN heads => Members(heads'[p]) = {l}
    <2>1. CASE p \in DOMAIN heads
      <3>1. /\ heads'[p] = Append(heads[p], l) /\ heads[p] \in Seq(Lockers)
            /\ Distinct(heads[p]) /\ l \notin Members(heads[p])
        BY <2>1, HeadsDef DEF HeadsInv
      <3> QED
        BY <2>1, <3>1, MembersOfAppend
    <2>2. CASE p \notin DOMAIN heads
      <3>1. heads'[p] = <<l>>
        BY <2>2
      <3>2. Members(<<l>>) = {l} /\ Distinct(<<l>>)
        BY DEF Members, Distinct
      <3> QED
        BY <2>2, <3>1, <3>2
    <2> QED
      BY <2>1, <2>2
  <1>4. HeadsShape'
    <2>1. ASSUME NEW q \in DOMAIN heads \ {p}
          PROVE  Distinct(heads'[q]) /\ \A k \in Members(heads'[q]) : PartitionOf[k] = q
      BY <1>2, <2>1 DEF HeadsInv
    <2>2. Distinct(heads'[p]) /\ \A k \in Members(heads'[p]) : PartitionOf[k] = p
      BY <1>3 DEF HeadsInv
    <2> QED
      BY <1>1, <2>1, <2>2 DEF HeadsShape
  <1>5. ASSUME NEW k \in Lockers PROVE InPartition(k)' <=> InPartition(k) \/ k = l
    <2>1. InPartition(k)' <=> PartitionOf[k] \in DOMAIN heads' /\ k \in Members(heads'[PartitionOf[k]])
      BY DEF InPartition
    <2>2. CASE PartitionOf[k] = p
      BY <1>1, <1>3, <2>1, <2>2 DEF InPartition
    <2>3. CASE PartitionOf[k] # p
      BY <1>1, <1>2, <2>1, <2>3 DEF InPartition
    <2> QED
      BY <2>2, <2>3
  <1> QED
    BY <1>1, <1>4, <1>5

(* A request leaves its partition.                                          *)
LEMMA LeavePartition ==
    ASSUME TypeInv, HeadsInv, NEW l \in Lockers, InPartition(l),
           heads' = [heads EXCEPT ![PartitionOf[l]] = ListRemove(@, l)]
    PROVE  /\ \A k \in Lockers : InPartition(k)' <=> InPartition(k) /\ k # l
           /\ HeadsShape'
           /\ DOMAIN heads' = DOMAIN heads
  <1> DEFINE p == PartitionOf[l]
  <1>1. /\ p \in DOMAIN heads /\ l \in Members(heads[p])
        /\ heads[p] \in Seq(Lockers) /\ Distinct(heads[p])
    BY HeadsDef DEF InPartition, HeadsInv
  <1>2. /\ DOMAIN heads' = DOMAIN heads
        /\ heads'[p] = ListRemove(heads[p], l)
        /\ \A q \in DOMAIN heads \ {p} : heads'[q] = heads[q]
    BY <1>1 DEF TypeInv, HeadsType
  <1>3. Members(heads'[p]) = Members(heads[p]) \ {l} /\ Distinct(heads'[p])
    BY <1>1, <1>2, MembersOfRemove
  <1> HIDE DEF p
  <1>4. HeadsShape'
    <2>1. ASSUME NEW q \in DOMAIN heads \ {p}
          PROVE  Distinct(heads'[q]) /\ \A k \in Members(heads'[q]) : PartitionOf[k] = q
      BY <1>2, <2>1 DEF HeadsInv
    <2>2. Distinct(heads'[p]) /\ \A k \in Members(heads'[p]) : PartitionOf[k] = p
      BY <1>1, <1>3 DEF HeadsInv
    <2> QED
      BY <1>2, <2>1, <2>2 DEF HeadsShape
  <1>5. ASSUME NEW k \in Lockers PROVE InPartition(k)' <=> InPartition(k) /\ k # l
    <2>1. InPartition(k)' <=> PartitionOf[k] \in DOMAIN heads' /\ k \in Members(heads'[PartitionOf[k]])
      BY DEF InPartition
    <2>2. CASE PartitionOf[k] = p
      BY <1>1, <1>2, <1>3, <2>1, <2>2 DEF InPartition
    <2>3. CASE PartitionOf[k] # p
      BY <1>1, <1>2, <2>1, <2>3 DEF InPartition, p
    <2> QED
      BY <2>2, <2>3
  <1> QED
    BY <1>2, <1>4, <1>5

Moved == {r \in Lockers : InPartition(r) /\ PartitionOf[r] = lock.partitions[Len(lock.partitions)]}

(* The requests that the next turn of the migration finds.                  *)
LEMMA MovedMembers ==
    ASSUME TypeInv, HeadsInv
    PROVE  LET p == lock.partitions[Len(lock.partitions)]
               list == IF p \in DOMAIN heads THEN heads[p] ELSE <<>>
           IN  list \in Seq(Lockers) /\ Distinct(list) /\ Members(list) = Moved
  <1> DEFINE p == lock.partitions[Len(lock.partitions)]
             list == IF p \in DOMAIN heads THEN heads[p] ELSE <<>>
  <1>1. list \in Seq(Lockers) /\ Distinct(list)
    BY HeadsDef DEF HeadsInv, Distinct
  <1>2. Members(list) = Moved
    <2>1. Members(list) \subseteq Lockers
      <3> HIDE DEF list
      <3> QED
        BY <1>1, MembersDef
    <2>2. \A k \in Lockers : k \in Members(list) <=> InPartition(k) /\ PartitionOf[k] = p
      <3>1. CASE p \in DOMAIN heads
        BY <3>1, HeadsDef
      <3>2. CASE p \notin DOMAIN heads
        BY <3>2 DEF Members, InPartition
      <3> QED
        BY <3>1, <3>2
    <2> QED
      BY <2>1, <2>2 DEF Moved
  <1> QED
    BY <1>1, <1>2

(* One turn of the migration moves the requests of a partition.             *)
LEMMA MigrateEffect ==
    ASSUME TypeInv, DistinctInv, ListInv, HeadsInv, NEW l, MigratePartition(l)
    PROVE  LET p == lock.partitions[Len(lock.partitions)] IN
           /\ lock.partitions # <<>>
           /\ \A k \in Lockers : InPartition(k)' <=> InPartition(k) /\ k \notin Moved
           /\ HeadsShape' /\ DOMAIN heads' = DOMAIN heads \ {p}
           /\ Members(lock'.grantedList) = Members(lock.grantedList) \union Moved
           /\ Distinct(lock'.grantedList)
           /\ \A i \in 1..Len(lock.grantedList) :
                 i \in 1..Len(lock'.grantedList) /\ lock'.grantedList[i] = lock.grantedList[i]
           /\ lock'.conflictList = lock.conflictList
           /\ lock'.grantedCounts = [m \in ModesAll |->
                 lock.grantedCounts[m] + Cardinality({r \in Moved : request[r].mode = m})]
           /\ lock'.conflictCounts = lock.conflictCounts
           /\ lock'.conversionsCount = lock.conversionsCount
           /\ lock'.compatibleFirstCount =
                 lock.compatibleFirstCount + Cardinality({r \in Moved : request[r].compatibleFirst})
           /\ \A q \in Members(lock.partitions) \ {p} : q \in Members(lock'.partitions)
           /\ UNCHANGED <<request, pc, newMode, holder, scan>>
  <1> DEFINE p == lock.partitions[Len(lock.partitions)]
             list == IF p \in DOMAIN heads THEN heads[p] ELSE <<>>
  <1>1. list \in Seq(Lockers) /\ Distinct(list)
    BY MovedMembers
  <1>2. Members(list) = Moved
    BY MovedMembers
  <1>3. lock.grantedList \in Seq(Lockers) /\ Distinct(lock.grantedList)
    BY DEF TypeInv, LockType, LockHead, DistinctInv
  <1>4. Members(lock.grantedList) \intersect Moved = {}
    BY DEF Moved, ListInv, ListedOK, OnGrantedList
  <1>5. /\ lock.partitions # <<>>
        /\ lock'.grantedList = lock.grantedList \o list
        /\ lock'.partitions = SubSeq(lock.partitions, 1, Len(lock.partitions) - 1)
        /\ lock'.conflictList = lock.conflictList
        /\ lock'.conflictCounts = lock.conflictCounts
        /\ lock'.conversionsCount = lock.conversionsCount
        /\ heads' = [q \in DOMAIN heads \ {p} |-> heads[q]]
        /\ UNCHANGED <<request, pc, newMode, holder, scan>>
    BY DEF MigratePartition, TypeInv, LockType, LockHead
  <1>6. /\ lock'.grantedCounts = [m \in ModesAll |->
              lock.grantedCounts[m] + Cardinality({r \in Members(list) : request[r].mode = m})]
        /\ lock'.compatibleFirstCount = lock.compatibleFirstCount
              + Cardinality({r \in Members(list) : request[r].compatibleFirst})
    BY DEF MigratePartition, TypeInv, LockType, LockHead
  <1> HIDE DEF list
  <1>7. /\ Members(lock'.grantedList) = Members(lock.grantedList) \union Moved
        /\ Distinct(lock'.grantedList)
    BY <1>1, <1>2, <1>3, <1>4, <1>5, MembersOfConcat
  <1>8. \A i \in 1..Len(lock.grantedList) :
            i \in 1..Len(lock'.grantedList) /\ lock'.grantedList[i] = lock.grantedList[i]
    <2>1. /\ Len(lock'.grantedList) = Len(lock.grantedList) + Len(list)
          /\ \A i \in 1..(Len(lock.grantedList) + Len(list)) :
                i <= Len(lock.grantedList) => lock'.grantedList[i] = lock.grantedList[i]
      BY <1>1, <1>3, <1>5, ConcatProperties
    <2>2. Len(lock.grantedList) \in Nat /\ Len(list) \in Nat
      BY <1>1, <1>3
    <2> QED
      BY <2>1, <2>2
  <1>9. /\ \A k \in Lockers : InPartition(k)' <=> InPartition(k) /\ k \notin Moved
        /\ HeadsShape' /\ DOMAIN heads' = DOMAIN heads \ {p}
    <2>1. DOMAIN heads' = DOMAIN heads \ {p} /\ \A q \in DOMAIN heads \ {p} : heads'[q] = heads[q]
      BY <1>5
    <2>2. HeadsShape'
      BY <2>1 DEF HeadsShape, HeadsInv
    <2>3. ASSUME NEW k \in Lockers PROVE InPartition(k)' <=> InPartition(k) /\ k \notin Moved
      <3>1. InPartition(k)' <=> PartitionOf[k] \in DOMAIN heads' /\ k \in Members(heads'[PartitionOf[k]])
        BY DEF InPartition
      <3>2. k \in Moved <=> InPartition(k) /\ PartitionOf[k] = p
        BY DEF Moved
      <3> HIDE DEF p
      <3> QED
        BY <2>1, <3>1, <3>2 DEF InPartition
    <2> QED
      BY <2>1, <2>2, <2>3
  <1>10. \A q \in Members(lock.partitions) \ {p} : q \in Members(lock'.partitions)
    <2>1. /\ lock.partitions \in Seq(Partitions)
          /\ Len(lock.partitions) \in Nat
      BY DEF TypeInv, LockType, LockHead
    <2>2. ASSUME NEW q \in Members(lock.partitions) \ {p} PROVE q \in Members(lock'.partitions)
      <3>1. PICK i \in 1..Len(lock.partitions) : lock.partitions[i] = q
        BY <2>1, <2>2, MembersDef
      <3>2. i \in 1..(Len(lock.partitions) - 1)
        BY <2>1, <2>2, <3>1
      <3>3. /\ lock'.partitions \in Seq(Partitions)
            /\ Len(lock'.partitions) = Len(lock.partitions) - 1
            /\ lock'.partitions[i] = q
        BY <1>5, <2>1, <3>1, <3>2, SubSeqProperties
      <3> QED
        BY <3>2, <3>3, MembersDef
    <2> QED
      BY <2>2
  <1> QED
    BY <1>2, <1>5, <1>6, <1>7, <1>8, <1>9, <1>10

----------------------------------------------------------------------------
(* The steps that leave the two lists as they are, and the others.          *)

(* Every step keeps the types.                                              *)
LEMMA TypeStep ==
    ASSUME TypeInv, LockerInv, Next
    PROVE  TypeInv'
  BY RequestTypeStep, ControlTypeStep, HeadsTypeStep, LockTypeStep DEF TypeInv

SameLists ==
    /\ lock'.grantedList = lock.grantedList /\ lock'.grantedCounts = lock.grantedCounts
    /\ lock'.conflictList = lock.conflictList /\ lock'.conflictCounts = lock.conflictCounts
    /\ lock'.conversionsCount = lock.conversionsCount

\* The modes of the requests on them.
SameModes ==
    /\ \A k \in Members(lock.grantedList) \union Members(lock.conflictList) :
          /\ request'[k].mode = request[k].mode
          /\ request'[k].convertMode = request[k].convertMode
          /\ request'[k].status = request[k].status
    /\ \A k \in Members(lock.conflictList) :
          request'[k].compatibleFirst = request[k].compatibleFirst

SameFirsts ==
    /\ lock'.compatibleFirstCount = lock.compatibleFirstCount
    /\ \A k \in Members(lock.grantedList) :
          request'[k].compatibleFirst = request[k].compatibleFirst

Quiet == SameLists /\ SameModes /\ (NoPriorityConversion /\ FirstInv => SameFirsts)

ChangesList(l) ==
    \/ \E m \in {"IX", "S"} : Downgrade(l, m)
    \/ NewRequest(l) \/ ConvertRequest(l) \/ UnlockGranted(l) \/ UnlockWaiting(l)
    \/ ScanGranted(l) /\ GrantsConversion(lock.grantedList[scan.at])
    \/ ScanConflicts(l) /\ GrantsWaiter(lock.conflictList[scan.at])

StepKind ==
    \/ Quiet
    \/ \E l \in Lockers : ChangesList(l)
    \/ \E l \in Lockers \union {Cleaner} : MigratePartition(l)

(* A locker whose request is on neither list.                               *)
LEMMA NotListed ==
    ASSUME TypeInv, LockerInv, ListInv, NEW l \in Lockers,
           request[l].status = "New" \/ InPartition(l) \/ GivenUp(l)
    PROVE  /\ l \notin Members(lock.grantedList) /\ l \notin Members(lock.conflictList)
           /\ request[l].status = "New" \/ GivenUp(l) => ~InPartition(l)
  BY DEF ListInv, ListedOK, OnGrantedList, Queued

(* A step that writes the request of one such locker only.                  *)
LEMMA QuietLocker ==
    ASSUME TypeInv, NEW l \in Lockers, SameLists,
           lock'.compatibleFirstCount = lock.compatibleFirstCount,
           \A k \in Lockers \ {l} : request'[k] = request[k],
           \/ l \notin Members(lock.grantedList) /\ l \notin Members(lock.conflictList)
           \/ /\ request'[l].mode = request[l].mode
              /\ request'[l].convertMode = request[l].convertMode
              /\ request'[l].status = request[l].status
              /\ request'[l].compatibleFirst = request[l].compatibleFirst
    PROVE  Quiet
  BY ListsInLockers DEF Quiet, SameModes, SameFirsts

(* An unused LockHead is empty already.                                     *)
LEMMA CleanupEffect ==
    ASSUME TypeInv, HolderInv, LockerInv, ListInv, CountInv, FrontInv, CleanupFinish
    PROVE  /\ SameLists /\ lock'.partitions = lock.partitions
           /\ FirstInv => lock' = lock
           /\ UNCHANGED <<request, heads, pc, newMode, scan>>
  <1>1. /\ holder = Cleaner /\ lock.partitions = <<>>
        /\ lock' = IF Mask(lock.grantedCounts) = {} THEN EmptyLockHead ELSE lock
        /\ UNCHANGED <<request, heads, pc, newMode, scan>>
    BY DEF CleanupFinish
  <1>2. CASE Mask(lock.grantedCounts) # {}
    BY <1>1, <1>2 DEF SameLists
  <1>3. CASE Mask(lock.grantedCounts) = {}
    <2>1. lock.grantedList = <<>>
      BY <1>3, EmptyMasks
    <2>2. ~Scanning(ScanStates)
      BY <1>1, ConstantAssumption DEF HolderInv, Scanning, MutexStates
    <2>3. lock.conflictList = <<>>
      BY <2>1, <2>2 DEF FrontInv, FreeIsScanned
    <2>4. Members(lock.grantedList) = {} /\ Members(lock.conflictList) = {}
      BY <2>1, <2>3, ListsInLockers
    <2>5. Cardinality({}) = 0
      BY FS_EmptySet
    <2>6. \A m \in ModesAll : lock.grantedCounts[m] = 0 /\ lock.conflictCounts[m] = 0
      <3>1. \A m \in ModesAll : /\ WithMode(lock.grantedList, m) = {} /\ ToConvert(m) = {}
                                /\ WithMode(lock.conflictList, m) = {}
        BY <2>4 DEF WithMode, ToConvert
      <3> QED
        BY <2>5, <3>1 DEF CountInv
    <2>7. /\ lock.grantedCounts = [m \in ModesAll |-> 0]
          /\ lock.conflictCounts = [m \in ModesAll |-> 0]
      BY <2>6 DEF TypeInv, LockType, LockHead
    <2>8. lock.conversionsCount = 0
      <3>1. Conversions = {}
        BY <2>4 DEF Conversions
      <3> QED
        BY <2>5, <3>1 DEF CountInv
    <2>9. FirstInv => lock.compatibleFirstCount = 0
      <3>1. Firsts = {}
        BY <2>4 DEF Firsts
      <3> QED
        BY <2>5, <3>1 DEF FirstInv
    <2>10. lock' = EmptyLockHead
      BY <1>1, <1>3
    <2>11. SameLists /\ lock'.partitions = lock.partitions
      BY <1>1, <2>1, <2>3, <2>7, <2>8, <2>10 DEF SameLists, EmptyLockHead
    <2>12. FirstInv => lock' = lock
      BY <1>1, <2>1, <2>3, <2>7, <2>8, <2>9, <2>10
        DEF EmptyLockHead, TypeInv, LockType, LockHead
    <2> QED
      BY <1>1, <2>11, <2>12
  <1> QED
    BY <1>2, <1>3

(* Every step leaves the lists alone or is one of the eight that do not.    *)
LEMMA StepKinds ==
    ASSUME NoCancelledConversion, TypeInv, HolderInv, LockerInv, ListInv, CountInv,
           FrontInv, Next
    PROVE  StepKind
<1>1. ASSUME NEW l \in Lockers, NEW m \in LockModes, Lock(l, m) PROVE StepKind
  <2>1. /\ SameLists /\ lock'.compatibleFirstCount = lock.compatibleFirstCount
        /\ \A k \in Lockers \ {l} : request'[k] = request[k]
    BY <1>1 DEF Lock, SameLists, TypeInv, RequestType, LockType, LockHead
  <2>2. l \notin Members(lock.grantedList) /\ l \notin Members(lock.conflictList)
    BY <1>1, NotListed DEF Lock
  <2> QED
    BY <2>1, <2>2, QuietLocker DEF StepKind
<1>2. ASSUME NEW l \in Lockers, NEW m \in ConvertModes, Convert(l, m) PROVE StepKind
  <2>1. /\ SameLists /\ lock'.compatibleFirstCount = lock.compatibleFirstCount
        /\ \A k \in Lockers \ {l} : request'[k] = request[k]
    BY <1>2 DEF Convert, SameLists, TypeInv, RequestType, LockType, LockHead
  <2>2. l \notin Members(lock.conflictList)
    BY <1>2 DEF Convert, ListInv, ListedOK, Queued
  <2>3. /\ request'[l].mode = request[l].mode
        /\ request'[l].convertMode = request[l].convertMode
        /\ request'[l].status = request[l].status
    BY <1>2 DEF Convert, TypeInv, RequestType, Request
  <2>4. NoPriorityConversion => request'[l].compatibleFirst = request[l].compatibleFirst
    <3>1. NoPriorityConversion => ~Priority(m)
      BY <1>2 DEF NoPriorityConversion, Priority
    <3>2. request'[l].compatibleFirst = (request[l].compatibleFirst \/ Priority(m))
      BY <1>2 DEF Convert, TypeInv, RequestType, Request
    <3>3. request[l].compatibleFirst \in BOOLEAN
      BY DEF TypeInv, RequestType, Request
    <3> QED
      BY <3>1, <3>2, <3>3
  <2> QED
    BY <2>1, <2>2, <2>3, <2>4, ListsInLockers DEF StepKind, Quiet, SameModes, SameFirsts
<1>3. ASSUME NEW l \in Lockers, NEW m \in {"IX", "S"}, Downgrade(l, m) PROVE StepKind
  BY <1>3 DEF ChangesList, StepKind
<1>4. ASSUME NEW l \in Lockers, LockTimeout(l) PROVE StepKind
  <2>1. /\ SameLists /\ lock'.compatibleFirstCount = lock.compatibleFirstCount
        /\ \A k \in Lockers \ {l} : request'[k] = request[k]
    BY <1>4 DEF LockTimeout, SameLists, TypeInv, RequestType, LockType, LockHead
  <2>2. /\ request'[l].mode = request[l].mode
        /\ request'[l].convertMode = request[l].convertMode
        /\ request'[l].status = request[l].status
        /\ request'[l].compatibleFirst = request[l].compatibleFirst
    BY <1>4 DEF LockTimeout, TypeInv, RequestType, Request
  <2> QED
    BY <2>1, <2>2, QuietLocker DEF StepKind
<1>5. ASSUME NEW l \in Lockers, Unlock(l) PROVE StepKind
  <2>1. /\ SameLists /\ lock'.compatibleFirstCount = lock.compatibleFirstCount
        /\ \A k \in Lockers \ {l} : request'[k] = request[k]
    BY <1>5 DEF Unlock, SameLists, TypeInv, RequestType, LockType, LockHead
  <2>2. /\ request'[l].mode = request[l].mode
        /\ request'[l].convertMode = request[l].convertMode
        /\ request'[l].status = request[l].status
        /\ request'[l].compatibleFirst = request[l].compatibleFirst
    BY <1>5 DEF Unlock, TypeInv, RequestType, Request
  <2> QED
    BY <2>1, <2>2, QuietLocker DEF StepKind
<1>6. ASSUME NEW l \in Lockers, StartPartitioned(l) PROVE StepKind
  <2>1. /\ SameLists /\ lock'.compatibleFirstCount = lock.compatibleFirstCount
        /\ \A k \in Lockers \ {l} : request'[k] = request[k]
    BY <1>6 DEF StartPartitioned, AddPartition, SameLists, TypeInv, RequestType, LockType,
        LockHead
  <2>2. l \notin Members(lock.grantedList) /\ l \notin Members(lock.conflictList)
    BY <1>6, NotListed DEF StartPartitioned, LockerInv, LockerOK, ThreadOK
  <2> QED
    BY <2>1, <2>2, QuietLocker DEF StepKind
<1>7. ASSUME NEW l \in Lockers, StartMigration(l) PROVE StepKind
  <2>1. /\ SameLists /\ lock'.compatibleFirstCount = lock.compatibleFirstCount
        /\ \A k \in Lockers \ {l} : request'[k] = request[k]
    BY <1>7 DEF StartMigration, SameLists, TypeInv, RequestType, LockType, LockHead
  <2>2. /\ request'[l].mode = request[l].mode
        /\ request'[l].convertMode = request[l].convertMode
        /\ request'[l].status = request[l].status
        /\ request'[l].compatibleFirst = request[l].compatibleFirst
    BY <1>7 DEF StartMigration, TypeInv, RequestType, Request
  <2> QED
    BY <2>1, <2>2, QuietLocker DEF StepKind
<1>8. ASSUME NEW l \in Lockers \union {Cleaner}, MigratePartition(l) PROVE StepKind
  BY <1>8 DEF StepKind
<1>9. ASSUME NEW l \in Lockers, NewRequest(l) PROVE StepKind
  BY <1>9 DEF ChangesList, StepKind
<1>10. ASSUME NEW l \in Lockers, ConvertRequest(l) PROVE StepKind
  BY <1>10 DEF ChangesList, StepKind
<1>11. ASSUME NEW l \in Lockers, LockComplete(l) PROVE StepKind
  <2>1. /\ SameLists /\ lock'.compatibleFirstCount = lock.compatibleFirstCount
        /\ \A k \in Lockers \ {l} : request'[k] = request[k]
    BY <1>11 DEF LockComplete, SameLists, TypeInv, RequestType, LockType, LockHead
  <2>2. /\ request'[l].mode = request[l].mode
        /\ request'[l].convertMode = request[l].convertMode
        /\ request'[l].status = request[l].status
        /\ request'[l].compatibleFirst = request[l].compatibleFirst
    BY <1>11 DEF LockComplete, TypeInv, RequestType, Request
  <2> QED
    BY <2>1, <2>2, QuietLocker DEF StepKind
<1>12. ASSUME NEW l \in Lockers, UnlockPartition(l) PROVE StepKind
  <2>1. /\ SameLists /\ lock'.compatibleFirstCount = lock.compatibleFirstCount
        /\ \A k \in Lockers \ {l} : request'[k] = request[k]
    BY <1>12 DEF UnlockPartition, SameLists, TypeInv, RequestType, LockType, LockHead
  <2>2. \/ l \notin Members(lock.grantedList) /\ l \notin Members(lock.conflictList)
        \/ request' = request
    BY <1>12, NotListed DEF UnlockPartition, InPartition
  <2> QED
    BY <2>1, <2>2, QuietLocker DEF StepKind
<1>13. ASSUME NEW l \in Lockers, UnlockGranted(l) PROVE StepKind
  BY <1>13 DEF ChangesList, StepKind
<1>14. ASSUME NEW l \in Lockers, UnlockWaiting(l) PROVE StepKind
  BY <1>14 DEF ChangesList, StepKind
<1>15. ASSUME NEW l \in Lockers, UnlockConverting(l) PROVE StepKind
  BY <1>15 DEF UnlockConverting, LockerInv, LockerOK, RequestOK
<1>16. ASSUME NEW l \in Lockers, ScanGranted(l) PROVE StepKind
  <2>1. CASE UNCHANGED <<request, lock>>
    BY <2>1 DEF StepKind, Quiet, SameLists, SameModes, SameFirsts
  <2> QED
    BY <1>16, <2>1, ScanGrantedEffect DEF ChangesList, StepKind
<1>17. ASSUME NEW l \in Lockers, ScanConflicts(l) PROVE StepKind
  <2>1. CASE UNCHANGED <<request, lock>>
    BY <2>1 DEF StepKind, Quiet, SameLists, SameModes, SameFirsts
  <2> QED
    BY <1>17, <2>1, ScanConflictsEffect DEF ChangesList, StepKind
<1>18. ASSUME NEW l \in Lockers, ScanFinish(l) PROVE StepKind
  <2>1. /\ SameLists /\ lock'.compatibleFirstCount = lock.compatibleFirstCount
        /\ \A k \in Lockers \ {l} : request'[k] = request[k]
    BY <1>18 DEF ScanFinish, SameLists, TypeInv, RequestType, LockType, LockHead
  <2>2. \/ l \notin Members(lock.grantedList) /\ l \notin Members(lock.conflictList)
        \/ request'[l] = request[l]
    BY <1>18, FinishEffect, NotListed DEF GivenUp, ScanStates
  <2> QED
    BY <2>1, <2>2, QuietLocker DEF StepKind
<1>19. CASE CleanupStart
  BY <1>19 DEF CleanupStart, StepKind, Quiet, SameLists, SameModes, SameFirsts
<1>20. CASE CleanupFinish
  <2>1. SameLists /\ SameModes
    BY <1>20, CleanupEffect DEF SameModes
  <2>2. FirstInv => SameFirsts
    BY <1>20, CleanupEffect DEF SameFirsts
  <2> QED
    BY <2>1, <2>2 DEF StepKind, Quiet
<1> QED
  BY <1>1, <1>2, <1>3, <1>4, <1>5, <1>6, <1>7, <1>8, <1>9, <1>10, <1>11, <1>12, <1>13,
      <1>14, <1>15, <1>16, <1>17, <1>18, <1>19, <1>20 DEF Next, Continue, Cleanup

----------------------------------------------------------------------------
(* The steps that change a list, each by the request of one locker.         *)

OthersKeep(x) ==
    \A k \in Lockers \ {x} :
        /\ request'[k] = request[k]
        /\ k \in Members(lock'.grantedList) <=> k \in Members(lock.grantedList)
        /\ k \in Members(lock'.conflictList) <=> k \in Members(lock.conflictList)

\* The fields of the LockHead that do not belong to one of the lists.
SameGranted ==
    /\ lock'.grantedList = lock.grantedList /\ lock'.conversionsCount = lock.conversionsCount
    /\ lock'.grantedCounts = lock.grantedCounts
    /\ lock'.compatibleFirstCount = lock.compatibleFirstCount
SameQueue ==
    lock'.conflictList = lock.conflictList /\ lock'.conflictCounts = lock.conflictCounts

\* The fields of x's request that only some of them write.
SameFields(x) ==
    /\ request'[x].mode = request[x].mode
    /\ request'[x].convertMode = request[x].convertMode
    /\ request'[x].compatibleFirst = request[x].compatibleFirst

\* x joins the end of the granted list.
JoinsGranted(x) ==
    /\ x \notin Members(lock.grantedList)
    /\ x \in Members(lock'.grantedList) /\ x \notin Members(lock'.conflictList)
    /\ request[x].mode \in ModesAll /\ request[x].convertMode = "NONE"
    /\ ~BlockedBy(request[x].mode, Members(lock.grantedList))
    /\ request'[x].status = "Granted" /\ SameFields(x)
    /\ lock'.grantedList = Append(lock.grantedList, x) /\ Distinct(lock'.grantedList)
    /\ lock'.grantedCounts = Inc(lock.grantedCounts, request[x].mode)
    /\ lock'.conversionsCount = lock.conversionsCount
    /\ lock'.compatibleFirstCount = lock.compatibleFirstCount
                                       + (IF request[x].compatibleFirst THEN 1 ELSE 0)

\* x joins the queue, at its front if it is compatible-first.
JoinsQueue(x) ==
    /\ x \notin Members(lock.grantedList) /\ x \notin Members(lock.conflictList)
    /\ x \notin Members(lock'.grantedList) /\ x \in Members(lock'.conflictList)
    /\ request[x].mode \in ModesAll /\ request[x].convertMode = "NONE"
    /\ request'[x].status = "Waiting" /\ SameFields(x)
    /\ lock'.conflictList = (IF request[x].compatibleFirst THEN <<x>> \o lock.conflictList
                             ELSE Append(lock.conflictList, x))
    /\ Distinct(lock'.conflictList)
    /\ lock'.conflictCounts = Inc(lock.conflictCounts, request[x].mode)
    /\ SameGranted

\* x leaves the queue.
LeavesQueue(x) ==
    /\ x \in Members(lock.conflictList) /\ x \notin Members(lock'.conflictList)
    /\ request[x].mode \in ModesAll /\ request[x].convertMode = "NONE"
    /\ request[x].status = "Waiting"
    /\ lock'.conflictList = ListRemove(lock.conflictList, x) /\ Distinct(lock'.conflictList)
    /\ lock'.conflictCounts = Dec(lock.conflictCounts, request[x].mode)

\* x leaves the granted list.
LeavesGranted(x) ==
    /\ x \in Members(lock.grantedList) /\ x \notin Members(lock'.grantedList)
    /\ x \notin Members(lock.conflictList)
    /\ request[x].mode \in ModesAll /\ request[x].convertMode = "NONE"
    /\ request[x].status = "Granted" /\ request'[x] = request[x]
    /\ lock'.grantedList = ListRemove(lock.grantedList, x) /\ Distinct(lock'.grantedList)
    /\ lock'.grantedCounts = Dec(lock.grantedCounts, request[x].mode)
    /\ lock'.conversionsCount = lock.conversionsCount
    /\ lock'.compatibleFirstCount = lock.compatibleFirstCount
                                       - (IF request[x].compatibleFirst THEN 1 ELSE 0)

\* x, on the granted list, has the mode m instead of its own.
ChangesMode(x, m) ==
    /\ x \in Members(lock.grantedList) /\ x \notin Members(lock.conflictList)
    /\ request[x].mode \in ModesAll /\ request[x].convertMode = "NONE"
    /\ m \in ModesAll /\ m # request[x].mode
    /\ request[x].status = "Granted" /\ request'[x].status = "Granted"
    /\ request'[x].mode = m /\ request'[x].convertMode = "NONE"
    /\ request'[x].compatibleFirst = request[x].compatibleFirst
    /\ lock'.grantedList = lock.grantedList
    /\ lock'.grantedCounts = Dec(Inc(lock.grantedCounts, m), request[x].mode)
    /\ lock'.conversionsCount = lock.conversionsCount
    /\ lock'.compatibleFirstCount = lock.compatibleFirstCount
    /\ SameQueue

\* x waits to convert to m.
WaitsToConvert(x, m) ==
    /\ x \in Members(lock.grantedList) /\ x \notin Members(lock.conflictList)
    /\ request[x].mode \in ModesAll /\ request[x].convertMode = "NONE"
    /\ m \in ModesAll /\ m # request[x].mode
    /\ request[x].status = "Granted" /\ request'[x].status = "Converting"
    /\ request'[x].mode = request[x].mode /\ request'[x].convertMode = m
    /\ request'[x].compatibleFirst = request[x].compatibleFirst
    /\ BlockedBy(m, Members(lock.grantedList) \ {x})
    /\ lock'.grantedList = lock.grantedList
    /\ lock'.grantedCounts = Inc(lock.grantedCounts, m)
    /\ lock'.conversionsCount = lock.conversionsCount + 1
    /\ lock'.compatibleFirstCount = lock.compatibleFirstCount
    /\ SameQueue

\* x's conversion is granted.
Converts(x) ==
    /\ x \in Members(lock.grantedList) /\ x \notin Members(lock.conflictList)
    /\ request[x].mode \in ModesAll /\ request[x].convertMode \in ModesAll
    /\ request[x].mode # request[x].convertMode
    /\ IsModeCovered(request[x].mode, request[x].convertMode)
    /\ request[x].status = "Converting" /\ request'[x].status = "Granted"
    /\ request'[x].mode = request[x].convertMode /\ request'[x].convertMode = "NONE"
    /\ request'[x].compatibleFirst = request[x].compatibleFirst
    /\ ~BlockedBy(request[x].convertMode, Members(lock.grantedList) \ {x})
    /\ lock'.grantedList = lock.grantedList
    /\ lock'.grantedCounts = Dec(lock.grantedCounts, request[x].mode)
    /\ lock'.conversionsCount = lock.conversionsCount - 1
    /\ lock'.compatibleFirstCount = lock.compatibleFirstCount
    /\ SameQueue

\* The mutex is free, or its thread migrates: nobody scans.
NobodyScans == ~Scanning(ScanStates)

StartsScan(check) ==
    /\ NobodyScans /\ Scanning({"ScanGranted"})' /\ ~Scanning({"ScanConflicts"})'
    /\ scan'.at = 1 /\ scan'.check = check

(* The thread that has the mutex, and is not scanning, is the only one.     *)
LEMMA FreeMutex ==
    ASSUME TypeInv, HolderInv
    PROVE  /\ holder \in {NoLocker, Cleaner} => NobodyScans
           /\ \A l \in Lockers : holder = l /\ pc[l] \notin ScanStates => NobodyScans
           /\ \A l \in Lockers : pc[l] \in MutexStates =>
                 /\ holder = l
                 /\ \A k \in Lockers \ {l} : pc[k] \notin MutexStates
  BY ConstantAssumption DEF HolderInv, NobodyScans, Scanning, MutexStates

(* The pc's of the threads after a scan has begun.                          *)
LEMMA BeginScan ==
    ASSUME TypeInv, HolderInv, NEW l \in Lockers, NEW check, holder = NoLocker,
           StartScan(l, check)
    PROVE  StartsScan(check)
  <1>1. NobodyScans
    BY FreeMutex
  <1>2. pc'[l] = "ScanGranted" /\ \A k \in Lockers \ {l} : pc'[k] = pc[k]
    BY DEF StartScan, TypeInv, ControlType
  <1>3. scan'.at = 1 /\ scan'.check = check
    BY DEF StartScan
  <1> QED
    BY <1>1, <1>2, <1>3 DEF StartsScan, NobodyScans, Scanning, ScanStates

(* Downgrade changes the mode of a granted request and starts a scan.       *)
LEMMA DowngradeEffect ==
    ASSUME TypeInv, HolderInv, LockerInv, ListInv, PartitionInv,
           NEW l \in Lockers, NEW m \in {"IX", "S"}, Downgrade(l, m)
    PROVE  /\ OthersKeep(l) /\ ChangesMode(l, m) /\ request[l].mode = "X"
           /\ StartsScan(TRUE) /\ lock'.partitions = lock.partitions /\ UNCHANGED heads
  <1>1. /\ pc[l] = "Idle" /\ holder = NoLocker /\ request[l].status = "Granted"
        /\ request[l].mode = "X" /\ StartScan(l, TRUE) /\ UNCHANGED heads
    BY DEF Downgrade
  <1>2. /\ request'[l].mode = m /\ request'[l].status = "Granted"
        /\ request'[l].convertMode = request[l].convertMode
        /\ request'[l].compatibleFirst = request[l].compatibleFirst
        /\ \A k \in Lockers \ {l} : request'[k] = request[k]
    BY <1>1 DEF Downgrade, TypeInv, RequestType, Request
  <1>3. /\ lock'.grantedList = lock.grantedList
        /\ lock'.grantedCounts = Dec(Inc(lock.grantedCounts, m), "X")
        /\ lock'.conversionsCount = lock.conversionsCount
        /\ lock'.compatibleFirstCount = lock.compatibleFirstCount
        /\ lock'.partitions = lock.partitions
        /\ SameQueue
    BY DEF Downgrade, TypeInv, LockType, LockHead, SameQueue
  <1>4. l \in Members(lock.grantedList) /\ l \notin Members(lock.conflictList)
    BY <1>1
      DEF ListInv, ListedOK, OnGrantedList, Queued, GivenUp, ScanStates, PartitionInv,
          PartitionedOK, IntentModes
  <1>5. request[l].convertMode = "NONE"
    BY <1>1, ListedModes
  <1>6. OthersKeep(l)
    BY <1>2, <1>3 DEF OthersKeep, SameQueue
  <1>7. ChangesMode(l, m)
    BY <1>1, <1>2, <1>3, <1>4, <1>5 DEF ChangesMode, ModesAll
  <1> QED
    BY <1>1, <1>3, <1>6, <1>7, BeginScan

(* A new request at the LockHead.                                           *)
LEMMA NewRequestEffect ==
    ASSUME TypeInv, HolderInv, LockerInv, ListInv, DistinctInv, CountInv,
           NEW l \in Lockers, NewRequest(l)
    PROVE  /\ OthersKeep(l) /\ NobodyScans /\ NobodyScans'
           /\ \/ JoinsQueue(l) /\ MustWait(request[l].mode)
              \/ JoinsGranted(l) /\ SameQueue /\ l \notin Members(lock.conflictList)
           /\ lock.partitions = <<>> /\ lock'.partitions = <<>> /\ UNCHANGED <<heads, scan>>
  <1> DEFINE x == request[l]
             Q == lock.conflictList
             R == lock.grantedList
  <1>1. /\ lock.partitions = <<>> /\ UNCHANGED <<heads, scan>>
        /\ \/ pc[l] = "LockBucket" /\ holder = NoLocker
           \/ pc[l] = "LockMigrate" /\ holder = l
        /\ \A k \in Lockers \ {l} : request'[k] = request[k] /\ pc'[k] = pc[k]
        /\ pc'[l] \in {"Idle", "Waiting"}
    BY DEF NewRequest, AtLockHead, TypeInv, RequestType, ControlType
  <1>2. NobodyScans /\ NobodyScans'
    <2>1. NobodyScans
      BY <1>1, FreeMutex DEF ScanStates
    <2> QED
      BY <1>1, <2>1 DEF NobodyScans, Scanning, ScanStates
  <1>3. x.status = "New" /\ x.mode \in ModesAll /\ x.convertMode = "NONE"
    BY <1>1, ListedModes
      DEF LockerInv, LockerOK, ThreadOK, RequestOK, TypeInv, RequestType, Request
  <1>4. l \notin Members(R) /\ l \notin Members(Q)
    BY <1>3, NotListed
  <1>5. R \in Seq(Lockers) /\ Q \in Seq(Lockers) /\ Distinct(R) /\ Distinct(Q)
    BY DEF TypeInv, LockType, LockHead, DistinctInv
  <1>6. SameFields(l)
    BY DEF NewRequest, SameFields, TypeInv, RequestType, Request
  <1>7. CASE MustWait(x.mode)
    <2>1. /\ lock'.conflictList = (IF x.compatibleFirst THEN <<l>> \o Q ELSE Append(Q, l))
          /\ lock'.conflictCounts = Inc(lock.conflictCounts, x.mode)
          /\ SameGranted /\ lock'.partitions = lock.partitions
      BY <1>7 DEF NewRequest, TypeInv, LockType, LockHead, SameGranted
    <2>2. request'[l].status = "Waiting"
      BY <1>7 DEF NewRequest, TypeInv, RequestType, Request
    <2>3. Members(Append(Q, l)) = Members(Q) \union {l} /\ Distinct(Append(Q, l))
      BY <1>4, <1>5, MembersOfAppend
    <2>4. <<l>> \in Seq(Lockers) /\ Members(<<l>>) = {l} /\ Distinct(<<l>>)
      BY DEF Members, Distinct
    <2>5. Members(<<l>> \o Q) = Members(Q) \union {l} /\ Distinct(<<l>> \o Q)
      <3> DEFINE one == <<l>>
      <3>1. /\ one \in Seq(Lockers) /\ Members(one) = {l} /\ Distinct(one)
            /\ Members(one) \intersect Members(Q) = {}
        BY <1>4, <2>4
      <3> HIDE DEF one
      <3>2. Members(one \o Q) = Members(one) \union Members(Q) /\ Distinct(one \o Q)
        BY <1>5, <3>1, MembersOfConcat
      <3>3. Members(one \o Q) = Members(Q) \union {l} /\ Distinct(one \o Q)
        BY <3>1, <3>2
      <3> QED
        BY <3>3 DEF one
    <2>6. Members(lock'.conflictList) = Members(Q) \union {l} /\ Distinct(lock'.conflictList)
      BY <2>1, <2>3, <2>5
    <2>7. OthersKeep(l)
      BY <1>1, <2>1, <2>6 DEF OthersKeep, SameGranted
    <2>8. JoinsQueue(l)
      BY <1>3, <1>4, <1>6, <2>1, <2>2, <2>6 DEF JoinsQueue, SameGranted
    <2> QED
      BY <1>1, <1>2, <1>7, <2>1, <2>7, <2>8
  <1>8. CASE ~MustWait(x.mode)
    <2>1. /\ lock'.grantedList = Append(R, l)
          /\ lock'.grantedCounts = Inc(lock.grantedCounts, x.mode)
          /\ lock'.conversionsCount = lock.conversionsCount
          /\ SameQueue /\ lock'.partitions = lock.partitions
      BY <1>8 DEF NewRequest, TypeInv, LockType, LockHead, SameQueue
    <2>2. lock'.compatibleFirstCount =
              lock.compatibleFirstCount + (IF x.compatibleFirst THEN 1 ELSE 0)
      <3>1. lock'.compatibleFirstCount = IF x.compatibleFirst THEN lock.compatibleFirstCount + 1
                                         ELSE lock.compatibleFirstCount
        BY <1>8 DEF NewRequest, TypeInv, LockType, LockHead
      <3>2. lock.compatibleFirstCount \in Int
        BY DEF TypeInv, LockType, LockHead
      <3> QED
        BY <3>1, <3>2
    <2>3. request'[l].status = "Granted"
      BY <1>8 DEF NewRequest, TypeInv, RequestType, Request
    <2>4. Members(lock'.grantedList) = Members(R) \union {l} /\ Distinct(lock'.grantedList)
      BY <1>4, <1>5, <2>1, MembersOfAppend
    <2>5. ~BlockedBy(x.mode, Members(R))
      BY <1>3, <1>8, ConflictsGranted DEF MustWait
    <2>6. OthersKeep(l)
      BY <1>1, <2>1, <2>4 DEF OthersKeep, SameQueue
    <2>7. JoinsGranted(l)
      BY <1>3, <1>4, <1>6, <2>1, <2>2, <2>3, <2>4, <2>5 DEF JoinsGranted, SameQueue
    <2> QED
      BY <1>1, <1>2, <1>4, <2>1, <2>6, <2>7
  <1> QED
    BY <1>7, <1>8

(* A conversion at the LockHead.                                            *)
LEMMA ConvertRequestEffect ==
    ASSUME TypeInv, HolderInv, LockerInv, ListInv, HeadsInv, CountInv,
           NEW l \in Lockers, ConvertRequest(l)
    PROVE  /\ OthersKeep(l) /\ NobodyScans /\ NobodyScans'
           /\ IsModeCovered(request[l].mode, newMode[l])
           /\ \/ WaitsToConvert(l, newMode[l])
              \/ /\ ChangesMode(l, newMode[l])
                 /\ ~BlockedBy(newMode[l], Members(lock.grantedList) \ {l})
           /\ lock.partitions = <<>> /\ lock'.partitions = <<>> /\ UNCHANGED <<heads, scan>>
  <1> DEFINE m == newMode[l]
  <1>1. /\ lock.partitions = <<>> /\ UNCHANGED <<heads, scan>>
        /\ \/ pc[l] = "ConvertBucket" /\ holder = NoLocker
           \/ pc[l] = "ConvertMigrate" /\ holder = l
        /\ \A k \in Lockers \ {l} : request'[k] = request[k] /\ pc'[k] = pc[k]
        /\ pc'[l] \in {"Idle", "Waiting"}
    BY DEF ConvertRequest, AtLockHead, TypeInv, RequestType, ControlType
  <1>2. NobodyScans /\ NobodyScans'
    <2>1. NobodyScans
      BY <1>1, FreeMutex DEF ScanStates
    <2> QED
      BY <1>1, <2>1 DEF NobodyScans, Scanning, ScanStates
  <1>3. /\ request[l].status = "Granted" /\ m \in ModesAll /\ m # request[l].mode
        /\ IsModeCovered(request[l].mode, m)
    BY <1>1 DEF LockerInv, LockerOK, ThreadOK
  <1>4. l \in Members(lock.grantedList) /\ l \notin Members(lock.conflictList)
    BY <1>1, <1>3, HeadsDef DEF ListInv, ListedOK, OnGrantedList, Queued, GivenUp, ScanStates
  <1>5. request[l].mode \in ModesAll /\ request[l].convertMode = "NONE"
    BY <1>3, <1>4, ListedModes
  <1>6. Conflicts(m, GrantedWithout({request[l].mode})) <=>
            BlockedBy(m, Members(lock.grantedList) \ {l})
    <2>1. {request[l].mode} \intersect ModesAll = Taken(l) \intersect ModesAll
      BY <1>5 DEF Taken, ModesAll
    <2> QED
      BY <1>3, <1>4, <2>1, ConflictsWithout
  <1>7. CASE Conflicts(m, GrantedWithout({request[l].mode}))
    <2>1. /\ request'[l].status = "Converting" /\ request'[l].mode = request[l].mode
          /\ request'[l].convertMode = m
          /\ request'[l].compatibleFirst = request[l].compatibleFirst
          /\ lock' = [lock EXCEPT !.conversionsCount = @ + 1,
                                  !.grantedCounts = Inc(@, m)]
      BY <1>7, ConvertEffect
    <2>2. /\ lock'.grantedList = lock.grantedList
          /\ lock'.grantedCounts = Inc(lock.grantedCounts, m)
          /\ lock'.conversionsCount = lock.conversionsCount + 1
          /\ lock'.compatibleFirstCount = lock.compatibleFirstCount
          /\ lock'.partitions = lock.partitions /\ SameQueue
      BY <2>1 DEF TypeInv, LockType, LockHead, SameQueue
    <2>3. OthersKeep(l) /\ WaitsToConvert(l, m)
      BY <1>1, <1>3, <1>4, <1>5, <1>6, <1>7, <2>1, <2>2
        DEF OthersKeep, WaitsToConvert, SameQueue
    <2> QED
      BY <1>1, <1>2, <1>3, <2>2, <2>3
  <1>8. CASE ~Conflicts(m, GrantedWithout({request[l].mode}))
    <2>1. /\ request'[l].status = "Granted" /\ request'[l].mode = m
          /\ request'[l].convertMode = request[l].convertMode
          /\ request'[l].compatibleFirst = request[l].compatibleFirst
          /\ lock' = [lock EXCEPT !.grantedCounts =
                                Dec(Inc(lock.grantedCounts, m), request[l].mode)]
      BY <1>3, <1>8, ConvertEffect
    <2>2. /\ lock'.grantedList = lock.grantedList
          /\ lock'.grantedCounts = Dec(Inc(lock.grantedCounts, m), request[l].mode)
          /\ lock'.conversionsCount = lock.conversionsCount
          /\ lock'.compatibleFirstCount = lock.compatibleFirstCount
          /\ lock'.partitions = lock.partitions /\ SameQueue
      BY <2>1 DEF TypeInv, LockType, LockHead, SameQueue
    <2>3. OthersKeep(l) /\ ChangesMode(l, m)
      BY <1>1, <1>3, <1>4, <1>5, <2>1, <2>2 DEF OthersKeep, ChangesMode, SameQueue
    <2> QED
      BY <1>1, <1>2, <1>3, <1>6, <1>8, <2>2, <2>3
  <1> QED
    BY <1>7, <1>8

(* A granted request leaves its list.                                       *)
LEMMA UnlockGrantedEffect ==
    ASSUME TypeInv, HolderInv, LockerInv, ListInv, DistinctInv, PartitionInv,
           NEW l \in Lockers, UnlockGranted(l)
    PROVE  /\ OthersKeep(l) /\ LeavesGranted(l) /\ SameQueue
           /\ StartsScan(lock'.grantedCounts[request[l].mode] = 0)
           /\ pc[l] = "UnlockBucket" /\ pc'[l] = "ScanGranted" /\ request' = request
           /\ lock'.partitions = lock.partitions /\ UNCHANGED heads
  <1>1. /\ pc[l] = "UnlockBucket" /\ holder = NoLocker /\ request[l].status = "Granted"
        /\ UNCHANGED <<request, heads>>
        /\ StartScan(l, Dec(lock.grantedCounts, request[l].mode)[request[l].mode] = 0)
    BY DEF UnlockGranted
  <1>2. l \in Members(lock.grantedList) /\ l \notin Members(lock.conflictList)
    BY <1>1
      DEF ListInv, ListedOK, OnGrantedList, Queued, GivenUp, ScanStates, PartitionInv,
          PartitionedOK
  <1>3. request[l].mode \in ModesAll /\ request[l].convertMode = "NONE"
    BY <1>1, <1>2, ListedModes
  <1>4. /\ lock'.grantedList = ListRemove(lock.grantedList, l)
        /\ lock'.grantedCounts = Dec(lock.grantedCounts, request[l].mode)
        /\ lock'.conversionsCount = lock.conversionsCount
        /\ SameQueue /\ lock'.partitions = lock.partitions
    BY DEF UnlockGranted, TypeInv, LockType, LockHead, SameQueue
  <1>5. lock'.compatibleFirstCount =
            lock.compatibleFirstCount - (IF request[l].compatibleFirst THEN 1 ELSE 0)
    <2>1. lock'.compatibleFirstCount =
              IF request[l].compatibleFirst THEN lock.compatibleFirstCount - 1
              ELSE lock.compatibleFirstCount
      BY DEF UnlockGranted, TypeInv, LockType, LockHead
    <2>2. lock.compatibleFirstCount \in Int
      BY DEF TypeInv, LockType, LockHead
    <2> QED
      BY <2>1, <2>2
  <1>6. lock.grantedList \in Seq(Lockers) /\ Distinct(lock.grantedList)
    BY DEF TypeInv, LockType, LockHead, DistinctInv
  <1>7. /\ Members(lock'.grantedList) = Members(lock.grantedList) \ {l}
        /\ Distinct(lock'.grantedList)
    BY <1>2, <1>4, <1>6, MembersOfRemove
  <1>8. OthersKeep(l) /\ LeavesGranted(l)
    BY <1>1, <1>2, <1>3, <1>4, <1>5, <1>7 DEF OthersKeep, LeavesGranted, SameQueue
  <1>9. pc'[l] = "ScanGranted"
    BY <1>1 DEF StartScan, TypeInv, ControlType
  <1> QED
    BY <1>1, <1>4, <1>8, <1>9, BeginScan

(* A waiter that has given up leaves the queue.                             *)
LEMMA UnlockWaitingEffect ==
    ASSUME TypeInv, HolderInv, LockerInv, ListInv, DistinctInv,
           NEW l \in Lockers, UnlockWaiting(l)
    PROVE  /\ OthersKeep(l) /\ LeavesQueue(l) /\ SameGranted
           /\ l \notin Members(lock.grantedList) /\ StartsScan(TRUE)
           /\ pc[l] = "UnlockBucket" /\ pc'[l] = "ScanGranted" /\ request' = request
           /\ lock'.partitions = lock.partitions /\ UNCHANGED heads
  <1>1. /\ pc[l] = "UnlockBucket" /\ holder = NoLocker /\ request[l].status = "Waiting"
        /\ UNCHANGED <<request, heads>> /\ StartScan(l, TRUE)
    BY DEF UnlockWaiting
  <1>2. l \notin Members(lock.grantedList) /\ l \in Members(lock.conflictList)
    BY <1>1 DEF ListInv, ListedOK, OnGrantedList, Queued, GivenUp, ScanStates
  <1>3. request[l].mode \in ModesAll /\ request[l].convertMode = "NONE"
    BY <1>1, <1>2, ListedModes
  <1>4. /\ lock'.conflictList = ListRemove(lock.conflictList, l)
        /\ lock'.conflictCounts = Dec(lock.conflictCounts, request[l].mode)
        /\ SameGranted /\ lock'.partitions = lock.partitions
    BY DEF UnlockWaiting, TypeInv, LockType, LockHead, SameGranted
  <1>5. lock.conflictList \in Seq(Lockers) /\ Distinct(lock.conflictList)
    BY DEF TypeInv, LockType, LockHead, DistinctInv
  <1>6. /\ Members(lock'.conflictList) = Members(lock.conflictList) \ {l}
        /\ Distinct(lock'.conflictList)
    BY <1>2, <1>4, <1>5, MembersOfRemove
  <1>7. OthersKeep(l) /\ LeavesQueue(l)
    BY <1>1, <1>2, <1>3, <1>4, <1>6 DEF OthersKeep, LeavesQueue, SameGranted
  <1>8. pc'[l] = "ScanGranted"
    BY <1>1 DEF StartScan, TypeInv, ControlType
  <1> QED
    BY <1>1, <1>2, <1>4, <1>7, <1>8, BeginScan

(* A scan grants a conversion.                                              *)
LEMMA ScanGrantedGrants ==
    ASSUME TypeInv, HolderInv, LockerInv, ListInv, CountInv,
           NEW l \in Lockers, ScanGranted(l), NEW it, GrantsConversion(it)
    PROVE  /\ it \in Lockers /\ OthersKeep(it) /\ Converts(it)
           /\ lock'.partitions = lock.partitions /\ UNCHANGED heads
  <1>1. /\ it \in Members(lock.grantedList) /\ it \in Lockers
        /\ request[it].status = "Converting"
        /\ ~Conflicts(request[it].convertMode,
                      GrantedWithout({request[it].mode, request[it].convertMode}))
    BY DEF GrantsConversion
  <1>2. /\ request'[it].status = "Granted" /\ request'[it].mode = request[it].convertMode
        /\ request'[it].convertMode = "NONE"
        /\ request'[it].compatibleFirst = request[it].compatibleFirst
        /\ \A k \in Lockers \ {it} : request'[k] = request[k]
    BY <1>1 DEF GrantsConversion, TypeInv, RequestType, Request
  <1>3. /\ lock'.grantedList = lock.grantedList
        /\ lock'.grantedCounts = Dec(lock.grantedCounts, request[it].mode)
        /\ lock'.conversionsCount = lock.conversionsCount - 1
        /\ lock'.compatibleFirstCount = lock.compatibleFirstCount
        /\ SameQueue /\ lock'.partitions = lock.partitions
    BY DEF GrantsConversion, TypeInv, LockType, LockHead, SameQueue
  <1>4. /\ request[it].mode \in ModesAll /\ request[it].convertMode \in ModesAll
        /\ it \notin Members(lock.conflictList)
    BY <1>1, ListedModes DEF ListInv, ListedOK, Queued
  <1>5. /\ request[it].mode # request[it].convertMode
        /\ IsModeCovered(request[it].mode, request[it].convertMode)
    BY <1>1 DEF LockerInv, LockerOK, RequestOK
  <1>6. ~BlockedBy(request[it].convertMode, Members(lock.grantedList) \ {it})
    BY <1>1, <1>4, ConflictsWithout DEF Taken
  <1>7. OthersKeep(it) /\ Converts(it)
    BY <1>1, <1>2, <1>3, <1>4, <1>5, <1>6 DEF OthersKeep, Converts, SameQueue
  <1> QED
    BY <1>1, <1>3, <1>7 DEF ScanGranted

(* A scan grants a waiter.                                                  *)
LEMMA ScanConflictsGrants ==
    ASSUME TypeInv, HolderInv, LockerInv, ListInv, DistinctInv, CountInv,
           NEW l \in Lockers, ScanConflicts(l), NEW it, GrantsWaiter(it)
    PROVE  /\ it \in Lockers /\ OthersKeep(it) /\ LeavesQueue(it) /\ JoinsGranted(it)
           /\ pc[it] \notin ScanStates
           /\ lock'.partitions = lock.partitions /\ UNCHANGED heads
  <1>1. /\ it \in Members(lock.conflictList) /\ it \in Lockers
        /\ ~Conflicts(request[it].mode, Mask(lock.grantedCounts))
    BY DEF GrantsWaiter
  <1>2. /\ request'[it].status = "Granted" /\ SameFields(it)
        /\ \A k \in Lockers \ {it} : request'[k] = request[k]
    BY <1>1 DEF GrantsWaiter, SameFields, TypeInv, RequestType, Request
  <1>3. /\ lock'.conflictList = ListRemove(lock.conflictList, it)
        /\ lock'.conflictCounts = Dec(lock.conflictCounts, request[it].mode)
        /\ lock'.grantedList = Append(lock.grantedList, it)
        /\ lock'.grantedCounts = Inc(lock.grantedCounts, request[it].mode)
        /\ lock'.conversionsCount = lock.conversionsCount
        /\ lock'.partitions = lock.partitions
    BY DEF GrantsWaiter, TypeInv, LockType, LockHead
  <1>4. lock'.compatibleFirstCount =
            lock.compatibleFirstCount + (IF request[it].compatibleFirst THEN 1 ELSE 0)
    BY DEF GrantsWaiter, TypeInv, LockType, LockHead
  <1>5. /\ request[it].status = "Waiting" /\ ~GivenUp(it) /\ it \notin Members(lock.grantedList)
        /\ request[it].mode \in ModesAll /\ request[it].convertMode = "NONE"
    BY <1>1, ListedModes DEF ListInv, ListedOK, Queued, OnGrantedList
  <1>6. pc[it] \notin ScanStates
    BY <1>1, <1>5 DEF GivenUp, LockerInv, LockerOK, ThreadOK
  <1>7. /\ lock.grantedList \in Seq(Lockers) /\ lock.conflictList \in Seq(Lockers)
        /\ Distinct(lock.grantedList) /\ Distinct(lock.conflictList)
    BY DEF TypeInv, LockType, LockHead, DistinctInv
  <1>8. /\ Members(lock'.conflictList) = Members(lock.conflictList) \ {it}
        /\ Distinct(lock'.conflictList)
    BY <1>1, <1>3, <1>7, MembersOfRemove
  <1>9. /\ Members(lock'.grantedList) = Members(lock.grantedList) \union {it}
        /\ Distinct(lock'.grantedList)
    BY <1>1, <1>3, <1>5, <1>7, MembersOfAppend
  <1>10. ~BlockedBy(request[it].mode, Members(lock.grantedList))
    BY <1>1, <1>5, ConflictsGranted
  <1>11. OthersKeep(it) /\ LeavesQueue(it)
    BY <1>1, <1>2, <1>3, <1>5, <1>8, <1>9 DEF OthersKeep, LeavesQueue
  <1>12. JoinsGranted(it)
    BY <1>2, <1>3, <1>4, <1>5, <1>8, <1>9, <1>10 DEF JoinsGranted
  <1> QED
    BY <1>1, <1>3, <1>6, <1>11, <1>12 DEF ScanConflicts

----------------------------------------------------------------------------
(* The counts.                                                              *)

One(x, S) == IF x \in S THEN 1 ELSE 0

(* Sets that differ in one element only.                                    *)
LEMMA CardinalityBut ==
    ASSUME NEW A, NEW B, IsFiniteSet(A), IsFiniteSet(B), NEW x, A \ {x} = B \ {x}
    PROVE  Cardinality(B) = Cardinality(A) - One(x, A) + One(x, B)
  <1>1. /\ Cardinality(A \ {x}) = IF x \in A THEN Cardinality(A) - 1 ELSE Cardinality(A)
        /\ Cardinality(B \ {x}) = IF x \in B THEN Cardinality(B) - 1 ELSE Cardinality(B)
    BY FS_RemoveElement
  <1>2. Cardinality(A) \in Nat /\ Cardinality(B) \in Nat
    BY FS_CardinalityType
  <1>3. Cardinality(A \ {x}) = Cardinality(B \ {x})
    OBVIOUS
  <1>4. (IF x \in A THEN Cardinality(A) - 1 ELSE Cardinality(A)) =
        (IF x \in B THEN Cardinality(B) - 1 ELSE Cardinality(B))
    BY <1>1, <1>3
  <1> QED
    BY <1>2, <1>4 DEF One

\* What x adds to the counts.
QueueShare(x, m) == One(x, WithMode(lock.conflictList, m))

(* What x's request is for the sets that are counted.                       *)
LEMMA Shares ==
    ASSUME NEW x
    PROVE  /\ \A m : One(x, WithMode(lock.grantedList, m)) =
                 IF x \in Members(lock.grantedList) /\ request[x].mode = m THEN 1 ELSE 0
           /\ \A m : One(x, ToConvert(m)) =
                 IF /\ x \in Members(lock.grantedList) /\ request[x].status = "Converting"
                    /\ request[x].convertMode = m THEN 1 ELSE 0
           /\ \A m : QueueShare(x, m) =
                 IF x \in Members(lock.conflictList) /\ request[x].mode = m THEN 1 ELSE 0
           /\ One(x, Conversions) =
                 IF x \in Members(lock.grantedList) /\ request[x].status = "Converting"
                 THEN 1 ELSE 0
           /\ One(x, Firsts) =
                 IF x \in Members(lock.grantedList) /\ request[x].compatibleFirst THEN 1 ELSE 0
  BY DEF One, WithMode, ToConvert, QueueShare, Conversions, Firsts

(* The same after the step.                                                 *)
LEMMA SharesAfter ==
    ASSUME NEW x
    PROVE  /\ \A m : One(x, WithMode(lock.grantedList, m))' =
                 IF x \in Members(lock'.grantedList) /\ request'[x].mode = m THEN 1 ELSE 0
           /\ \A m : One(x, ToConvert(m))' =
                 IF /\ x \in Members(lock'.grantedList) /\ request'[x].status = "Converting"
                    /\ request'[x].convertMode = m THEN 1 ELSE 0
           /\ \A m : QueueShare(x, m)' =
                 IF x \in Members(lock'.conflictList) /\ request'[x].mode = m THEN 1 ELSE 0
           /\ One(x, Conversions)' =
                 IF x \in Members(lock'.grantedList) /\ request'[x].status = "Converting"
                 THEN 1 ELSE 0
           /\ One(x, Firsts)' =
                 IF x \in Members(lock'.grantedList) /\ request'[x].compatibleFirst THEN 1 ELSE 0
  BY DEF One, WithMode, ToConvert, QueueShare, Conversions, Firsts

(* The counted sets are finite after the step.                              *)
LEMMA FiniteListsAfter ==
    ASSUME TypeInv'
    PROVE  /\ \A m : /\ IsFiniteSet(ToConvert(m)') /\ Cardinality(ToConvert(m)') \in Nat
                     /\ IsFiniteSet(WithMode(lock.grantedList, m)')
                     /\ Cardinality(WithMode(lock.grantedList, m)') \in Nat
                     /\ IsFiniteSet(WithMode(lock.conflictList, m)')
                     /\ Cardinality(WithMode(lock.conflictList, m)') \in Nat
           /\ IsFiniteSet(Conversions') /\ Cardinality(Conversions') \in Nat
           /\ IsFiniteSet(Firsts') /\ Cardinality(Firsts') \in Nat
  <1>1. \A S : S \subseteq Lockers => IsFiniteSet(S) /\ Cardinality(S) \in Nat
    BY ConstantAssumption, FS_Subset, FS_CardinalityType
  <1>2. lock'.grantedList \in Seq(Lockers) /\ lock'.conflictList \in Seq(Lockers)
    BY DEF TypeInv, LockType, LockHead
  <1>3. Members(lock'.grantedList) \subseteq Lockers /\ Members(lock'.conflictList) \subseteq Lockers
    BY <1>2, MembersDef
  <1>4. Conversions' \subseteq Lockers /\ Firsts' \subseteq Lockers
    BY <1>3 DEF Conversions, Firsts
  <1>5. \A m : /\ ToConvert(m)' \subseteq Lockers
               /\ WithMode(lock.grantedList, m)' \subseteq Lockers
               /\ WithMode(lock.conflictList, m)' \subseteq Lockers
    BY <1>3 DEF ToConvert, WithMode
  <1> QED
    BY <1>1, <1>4, <1>5

(* When the others keep theirs, the counted sets change by x only.          *)
LEMMA CountFrame ==
    ASSUME TypeInv, TypeInv', NEW x \in Lockers, OthersKeep(x)
    PROVE  /\ \A m : /\ Cardinality(WithMode(lock.grantedList, m))' =
                           Cardinality(WithMode(lock.grantedList, m))
                             - One(x, WithMode(lock.grantedList, m))
                             + One(x, WithMode(lock.grantedList, m))'
                     /\ Cardinality(ToConvert(m))' =
                           Cardinality(ToConvert(m)) - One(x, ToConvert(m)) + One(x, ToConvert(m))'
                     /\ Cardinality(WithMode(lock.conflictList, m))' =
                           Cardinality(WithMode(lock.conflictList, m))
                             - QueueShare(x, m) + QueueShare(x, m)'
           /\ Cardinality(Conversions)' =
                 Cardinality(Conversions) - One(x, Conversions) + One(x, Conversions)'
           /\ Cardinality(Firsts)' = Cardinality(Firsts) - One(x, Firsts) + One(x, Firsts)'
  <1>1. lock'.grantedList \in Seq(Lockers) /\ lock'.conflictList \in Seq(Lockers)
    BY DEF TypeInv, LockType, LockHead
  <1>2. /\ Members(lock'.grantedList) \subseteq Lockers
        /\ Members(lock'.conflictList) \subseteq Lockers
    BY <1>1, MembersDef
  <1>3. /\ Members(lock.grantedList) \subseteq Lockers
        /\ Members(lock.conflictList) \subseteq Lockers
    BY ListsInLockers
  <1>4. ASSUME NEW m
        PROVE  /\ Cardinality(WithMode(lock.grantedList, m))' =
                      Cardinality(WithMode(lock.grantedList, m))
                        - One(x, WithMode(lock.grantedList, m))
                        + One(x, WithMode(lock.grantedList, m))'
               /\ Cardinality(ToConvert(m))' =
                      Cardinality(ToConvert(m)) - One(x, ToConvert(m)) + One(x, ToConvert(m))'
               /\ Cardinality(WithMode(lock.conflictList, m))' =
                      Cardinality(WithMode(lock.conflictList, m))
                        - QueueShare(x, m) + QueueShare(x, m)'
    <2>1. /\ WithMode(lock.grantedList, m) \ {x} = WithMode(lock.grantedList, m)' \ {x}
          /\ ToConvert(m) \ {x} = ToConvert(m)' \ {x}
          /\ WithMode(lock.conflictList, m) \ {x} = WithMode(lock.conflictList, m)' \ {x}
      BY <1>2, <1>3 DEF OthersKeep, WithMode, ToConvert
    <2> QED
      BY <2>1, FiniteLists, FiniteListsAfter, CardinalityBut DEF QueueShare
  <1>5. /\ Conversions \ {x} = Conversions' \ {x}
        /\ Firsts \ {x} = Firsts' \ {x}
    BY <1>2, <1>3 DEF OthersKeep, Conversions, Firsts
  <1> QED
    BY <1>4, <1>5, FiniteLists, FiniteListsAfter, CardinalityBut

(* CountInv holds again if the counts have changed by what x adds.          *)
LEMMA CountsOf ==
    ASSUME TypeInv, TypeInv', CountInv, NEW x \in Lockers, OthersKeep(x),
           \A m \in ModesAll :
              /\ lock'.grantedCounts[m] = lock.grantedCounts[m]
                    - One(x, WithMode(lock.grantedList, m)) - One(x, ToConvert(m))
                    + One(x, WithMode(lock.grantedList, m))' + One(x, ToConvert(m))'
              /\ lock'.conflictCounts[m] =
                    lock.conflictCounts[m] - QueueShare(x, m) + QueueShare(x, m)',
           lock'.conversionsCount =
              lock.conversionsCount - One(x, Conversions) + One(x, Conversions)'
    PROVE  CountInv'
  <1>1. ASSUME NEW m \in ModesAll
        PROVE  /\ lock'.grantedCounts[m] =
                      Cardinality(WithMode(lock.grantedList, m))' + Cardinality(ToConvert(m))'
               /\ lock'.conflictCounts[m] = Cardinality(WithMode(lock.conflictList, m))'
    <2>1. /\ lock.grantedCounts[m] =
                Cardinality(WithMode(lock.grantedList, m)) + Cardinality(ToConvert(m))
          /\ lock.conflictCounts[m] = Cardinality(WithMode(lock.conflictList, m))
      BY DEF CountInv
    <2>2. /\ Cardinality(WithMode(lock.grantedList, m)) \in Nat
          /\ Cardinality(ToConvert(m)) \in Nat
          /\ Cardinality(WithMode(lock.conflictList, m)) \in Nat
      BY FiniteLists
    <2>3. /\ One(x, WithMode(lock.grantedList, m)) \in Nat /\ One(x, ToConvert(m)) \in Nat
          /\ One(x, WithMode(lock.grantedList, m))' \in Nat /\ One(x, ToConvert(m))' \in Nat
          /\ QueueShare(x, m) \in Nat /\ QueueShare(x, m)' \in Nat
      BY Shares, SharesAfter
    <2> QED
      BY <2>1, <2>2, <2>3, CountFrame
  <1>2. lock'.conversionsCount = Cardinality(Conversions)'
    BY CountFrame DEF CountInv
  <1> QED
    BY <1>1, <1>2 DEF CountInv

(* The functions that count.                                                *)
LEMMA CountUp ==
    ASSUME NEW c \in [ModesAll -> Int], NEW n \in ModesAll
    PROVE  /\ \A m \in ModesAll : Inc(c, n)[m] = c[m] + (IF n = m THEN 1 ELSE 0)
           /\ \A m \in ModesAll : Dec(c, n)[m] = c[m] - (IF n = m THEN 1 ELSE 0)
  BY DEF Inc, Dec

(* The types of the counts.                                                 *)
LEMMA CountTypesOfLock ==
    ASSUME TypeInv
    PROVE  /\ lock.grantedCounts \in [ModesAll -> Int] /\ lock.conflictCounts \in [ModesAll -> Int]
           /\ lock.conversionsCount \in Int /\ lock.compatibleFirstCount \in Int
  BY DEF TypeInv, LockType, LockHead

(* The counts that each kind of change leaves.                              *)
LEMMA CountJoinsQueue ==
    ASSUME TypeInv, TypeInv', CountInv, NEW x \in Lockers, OthersKeep(x), JoinsQueue(x)
    PROVE  CountInv'
  <1>1. ASSUME NEW m \in ModesAll
        PROVE  lock'.grantedCounts[m] = lock.grantedCounts[m]
                  - One(x, WithMode(lock.grantedList, m)) - One(x, ToConvert(m))
                  + One(x, WithMode(lock.grantedList, m))' + One(x, ToConvert(m))'
    <2>1. /\ One(x, WithMode(lock.grantedList, m)) = 0
          /\ One(x, ToConvert(m)) = 0
      BY Shares DEF JoinsQueue, SameGranted, SameFields
    <2>2. /\ One(x, WithMode(lock.grantedList, m))' = 0
          /\ One(x, ToConvert(m))' = 0
      BY SharesAfter DEF JoinsQueue, SameGranted, SameFields
    <2>3. lock'.grantedCounts[m] = lock.grantedCounts[m]
      BY CountUp, CountTypesOfLock DEF JoinsQueue, SameGranted, SameFields
    <2>4. lock.grantedCounts[m] \in Int
      BY CountTypesOfLock
    <2> QED
      BY <2>1, <2>2, <2>3, <2>4
  <1>2. ASSUME NEW m \in ModesAll
        PROVE  lock'.conflictCounts[m] =
                  lock.conflictCounts[m] - QueueShare(x, m) + QueueShare(x, m)'
    <2>1. /\ QueueShare(x, m) = 0
          /\ QueueShare(x, m)' = (IF request[x].mode = m THEN 1 ELSE 0)
      BY Shares, SharesAfter DEF JoinsQueue, SameGranted, SameFields
    <2>2. lock'.conflictCounts[m] = lock.conflictCounts[m] + (IF request[x].mode = m THEN 1 ELSE 0)
      BY CountUp, CountTypesOfLock DEF JoinsQueue, SameGranted, SameFields
    <2>3. lock.conflictCounts[m] \in Int
      BY CountTypesOfLock
    <2> QED
      BY <2>1, <2>2, <2>3
  <1>3. lock'.conversionsCount =
            lock.conversionsCount - One(x, Conversions) + One(x, Conversions)'
    BY Shares, SharesAfter, CountTypesOfLock DEF JoinsQueue, SameGranted, SameFields
  <1> QED
    BY <1>1, <1>2, <1>3, CountsOf

(* A request that joins the granted list is counted there.                  *)
LEMMA CountJoinsGranted ==
    ASSUME TypeInv, TypeInv', CountInv, NEW x \in Lockers, OthersKeep(x), JoinsGranted(x),
           SameQueue, x \notin Members(lock.conflictList)
    PROVE  CountInv'
  <1>1. ASSUME NEW m \in ModesAll
        PROVE  lock'.grantedCounts[m] = lock.grantedCounts[m]
                  - One(x, WithMode(lock.grantedList, m)) - One(x, ToConvert(m))
                  + One(x, WithMode(lock.grantedList, m))' + One(x, ToConvert(m))'
    <2>1. /\ One(x, WithMode(lock.grantedList, m)) = 0
          /\ One(x, ToConvert(m)) = 0
      BY Shares DEF JoinsGranted, SameQueue, SameFields
    <2>2. /\ One(x, WithMode(lock.grantedList, m))' = (IF request[x].mode = m THEN 1 ELSE 0)
          /\ One(x, ToConvert(m))' = 0
      BY SharesAfter DEF JoinsGranted, SameQueue, SameFields
    <2>3. lock'.grantedCounts[m] = lock.grantedCounts[m] + (IF request[x].mode = m THEN 1 ELSE 0)
      <3>1. /\ lock'.grantedCounts = Inc(lock.grantedCounts, request[x].mode)
            /\ request[x].mode \in ModesAll
        BY DEF JoinsGranted
      <3> QED
        BY <3>1, CountUp, CountTypesOfLock
    <2>4. lock.grantedCounts[m] \in Int
      BY CountTypesOfLock
    <2> QED
      BY <2>1, <2>2, <2>3, <2>4
  <1>2. ASSUME NEW m \in ModesAll
        PROVE  lock'.conflictCounts[m] =
                  lock.conflictCounts[m] - QueueShare(x, m) + QueueShare(x, m)'
    <2>1. /\ QueueShare(x, m) = 0
          /\ QueueShare(x, m)' = 0
      BY Shares, SharesAfter DEF JoinsGranted, SameQueue, SameFields
    <2>2. lock'.conflictCounts[m] = lock.conflictCounts[m]
      BY CountUp, CountTypesOfLock DEF JoinsGranted, SameQueue, SameFields
    <2>3. lock.conflictCounts[m] \in Int
      BY CountTypesOfLock
    <2> QED
      BY <2>1, <2>2, <2>3
  <1>3. lock'.conversionsCount =
            lock.conversionsCount - One(x, Conversions) + One(x, Conversions)'
    BY Shares, SharesAfter, CountTypesOfLock DEF JoinsGranted, SameQueue, SameFields
  <1> QED
    BY <1>1, <1>2, <1>3, CountsOf

(* One that leaves the queue for the granted list is counted there instead. *)
LEMMA CountGrantsWaiter ==
    ASSUME TypeInv, TypeInv', CountInv, NEW x \in Lockers, OthersKeep(x), JoinsGranted(x),
           LeavesQueue(x)
    PROVE  CountInv'
  <1>1. ASSUME NEW m \in ModesAll
        PROVE  lock'.grantedCounts[m] = lock.grantedCounts[m]
                  - One(x, WithMode(lock.grantedList, m)) - One(x, ToConvert(m))
                  + One(x, WithMode(lock.grantedList, m))' + One(x, ToConvert(m))'
    <2>1. /\ One(x, WithMode(lock.grantedList, m)) = 0
          /\ One(x, ToConvert(m)) = 0
      BY Shares DEF JoinsGranted, LeavesQueue, SameFields
    <2>2. /\ One(x, WithMode(lock.grantedList, m))' = (IF request[x].mode = m THEN 1 ELSE 0)
          /\ One(x, ToConvert(m))' = 0
      BY SharesAfter DEF JoinsGranted, LeavesQueue, SameFields
    <2>3. lock'.grantedCounts[m] = lock.grantedCounts[m] + (IF request[x].mode = m THEN 1 ELSE 0)
      <3>1. /\ lock'.grantedCounts = Inc(lock.grantedCounts, request[x].mode)
            /\ request[x].mode \in ModesAll
        BY DEF JoinsGranted
      <3> QED
        BY <3>1, CountUp, CountTypesOfLock
    <2>4. lock.grantedCounts[m] \in Int
      BY CountTypesOfLock
    <2> QED
      BY <2>1, <2>2, <2>3, <2>4
  <1>2. ASSUME NEW m \in ModesAll
        PROVE  lock'.conflictCounts[m] =
                  lock.conflictCounts[m] - QueueShare(x, m) + QueueShare(x, m)'
    <2>1. /\ QueueShare(x, m) = (IF request[x].mode = m THEN 1 ELSE 0)
          /\ QueueShare(x, m)' = 0
      BY Shares, SharesAfter DEF JoinsGranted, LeavesQueue, SameFields
    <2>2. lock'.conflictCounts[m] = lock.conflictCounts[m] - (IF request[x].mode = m THEN 1 ELSE 0)
      <3>1. /\ lock'.conflictCounts = Dec(lock.conflictCounts, request[x].mode)
            /\ request[x].mode \in ModesAll
        BY DEF LeavesQueue
      <3> QED
        BY <3>1, CountUp, CountTypesOfLock
    <2>3. lock.conflictCounts[m] \in Int
      BY CountTypesOfLock
    <2> QED
      BY <2>1, <2>2, <2>3
  <1>3. lock'.conversionsCount =
            lock.conversionsCount - One(x, Conversions) + One(x, Conversions)'
    BY Shares, SharesAfter, CountTypesOfLock DEF JoinsGranted, LeavesQueue, SameFields
  <1> QED
    BY <1>1, <1>2, <1>3, CountsOf

(* One that leaves the queue is counted no longer.                          *)
LEMMA CountLeavesQueue ==
    ASSUME TypeInv, TypeInv', CountInv, NEW x \in Lockers, OthersKeep(x), LeavesQueue(x),
           SameGranted, x \notin Members(lock.grantedList)
    PROVE  CountInv'
  <1>1. ASSUME NEW m \in ModesAll
        PROVE  lock'.grantedCounts[m] = lock.grantedCounts[m]
                  - One(x, WithMode(lock.grantedList, m)) - One(x, ToConvert(m))
                  + One(x, WithMode(lock.grantedList, m))' + One(x, ToConvert(m))'
    <2>1. /\ One(x, WithMode(lock.grantedList, m)) = 0
          /\ One(x, ToConvert(m)) = 0
      BY Shares DEF LeavesQueue, SameGranted
    <2>2. /\ One(x, WithMode(lock.grantedList, m))' = 0
          /\ One(x, ToConvert(m))' = 0
      BY SharesAfter DEF LeavesQueue, SameGranted
    <2>3. lock'.grantedCounts[m] = lock.grantedCounts[m]
      BY CountUp, CountTypesOfLock DEF LeavesQueue, SameGranted
    <2>4. lock.grantedCounts[m] \in Int
      BY CountTypesOfLock
    <2> QED
      BY <2>1, <2>2, <2>3, <2>4
  <1>2. ASSUME NEW m \in ModesAll
        PROVE  lock'.conflictCounts[m] =
                  lock.conflictCounts[m] - QueueShare(x, m) + QueueShare(x, m)'
    <2>1. /\ QueueShare(x, m) = (IF request[x].mode = m THEN 1 ELSE 0)
          /\ QueueShare(x, m)' = 0
      BY Shares, SharesAfter DEF LeavesQueue, SameGranted
    <2>2. lock'.conflictCounts[m] = lock.conflictCounts[m] - (IF request[x].mode = m THEN 1 ELSE 0)
      BY CountUp, CountTypesOfLock DEF LeavesQueue, SameGranted
    <2>3. lock.conflictCounts[m] \in Int
      BY CountTypesOfLock
    <2> QED
      BY <2>1, <2>2, <2>3
  <1>3. lock'.conversionsCount =
            lock.conversionsCount - One(x, Conversions) + One(x, Conversions)'
    BY Shares, SharesAfter, CountTypesOfLock DEF LeavesQueue, SameGranted
  <1> QED
    BY <1>1, <1>2, <1>3, CountsOf

(* Nor is one that leaves the granted list.                                 *)
LEMMA CountLeavesGranted ==
    ASSUME TypeInv, TypeInv', CountInv, NEW x \in Lockers, OthersKeep(x), LeavesGranted(x),
           SameQueue
    PROVE  CountInv'
  <1>1. ASSUME NEW m \in ModesAll
        PROVE  lock'.grantedCounts[m] = lock.grantedCounts[m]
                  - One(x, WithMode(lock.grantedList, m)) - One(x, ToConvert(m))
                  + One(x, WithMode(lock.grantedList, m))' + One(x, ToConvert(m))'
    <2>1. /\ One(x, WithMode(lock.grantedList, m)) = (IF request[x].mode = m THEN 1 ELSE 0)
          /\ One(x, ToConvert(m)) = 0
      BY Shares DEF LeavesGranted, SameQueue
    <2>2. /\ One(x, WithMode(lock.grantedList, m))' = 0
          /\ One(x, ToConvert(m))' = 0
      BY SharesAfter DEF LeavesGranted, SameQueue
    <2>3. lock'.grantedCounts[m] = lock.grantedCounts[m] - (IF request[x].mode = m THEN 1 ELSE 0)
      BY CountUp, CountTypesOfLock DEF LeavesGranted, SameQueue
    <2>4. lock.grantedCounts[m] \in Int
      BY CountTypesOfLock
    <2> QED
      BY <2>1, <2>2, <2>3, <2>4
  <1>2. ASSUME NEW m \in ModesAll
        PROVE  lock'.conflictCounts[m] =
                  lock.conflictCounts[m] - QueueShare(x, m) + QueueShare(x, m)'
    <2>1. /\ QueueShare(x, m) = 0
          /\ QueueShare(x, m)' = 0
      BY Shares, SharesAfter DEF LeavesGranted, SameQueue
    <2>2. lock'.conflictCounts[m] = lock.conflictCounts[m]
      BY CountUp, CountTypesOfLock DEF LeavesGranted, SameQueue
    <2>3. lock.conflictCounts[m] \in Int
      BY CountTypesOfLock
    <2> QED
      BY <2>1, <2>2, <2>3
  <1>3. lock'.conversionsCount =
            lock.conversionsCount - One(x, Conversions) + One(x, Conversions)'
    BY Shares, SharesAfter, CountTypesOfLock DEF LeavesGranted, SameQueue
  <1> QED
    BY <1>1, <1>2, <1>3, CountsOf

(* A request that changes its mode is counted under the new one.            *)
LEMMA CountChangesMode ==
    ASSUME TypeInv, TypeInv', CountInv, NEW x \in Lockers, OthersKeep(x),
           NEW n, ChangesMode(x, n)
    PROVE  CountInv'
  <1>1. ASSUME NEW m \in ModesAll
        PROVE  lock'.grantedCounts[m] = lock.grantedCounts[m]
                  - One(x, WithMode(lock.grantedList, m)) - One(x, ToConvert(m))
                  + One(x, WithMode(lock.grantedList, m))' + One(x, ToConvert(m))'
    <2>1. /\ One(x, WithMode(lock.grantedList, m)) = (IF request[x].mode = m THEN 1 ELSE 0)
          /\ One(x, ToConvert(m)) = 0
      BY Shares DEF ChangesMode, SameQueue
    <2>2. /\ One(x, WithMode(lock.grantedList, m))' = (IF n = m THEN 1 ELSE 0)
          /\ One(x, ToConvert(m))' = 0
      BY SharesAfter DEF ChangesMode, SameQueue
    <2>3. lock'.grantedCounts[m] = lock.grantedCounts[m] + (IF n = m THEN 1 ELSE 0)
                                       - (IF request[x].mode = m THEN 1 ELSE 0)
      <3> DEFINE c == Inc(lock.grantedCounts, n)
      <3>1. /\ lock'.grantedCounts = Dec(c, request[x].mode)
            /\ request[x].mode \in ModesAll /\ n \in ModesAll
        BY DEF ChangesMode
      <3>2. /\ c \in [ModesAll -> Int]
            /\ c[m] = lock.grantedCounts[m] + (IF n = m THEN 1 ELSE 0)
        BY <3>1, CountUp, CountTypes, CountTypesOfLock
      <3> HIDE DEF c
      <3>3. Dec(c, request[x].mode)[m] = c[m] - (IF request[x].mode = m THEN 1 ELSE 0)
        BY <3>1, <3>2, CountUp
      <3> QED
        BY <3>1, <3>2, <3>3, CountTypesOfLock
    <2>4. lock.grantedCounts[m] \in Int
      BY CountTypesOfLock
    <2> QED
      BY <2>1, <2>2, <2>3, <2>4
  <1>2. ASSUME NEW m \in ModesAll
        PROVE  lock'.conflictCounts[m] =
                  lock.conflictCounts[m] - QueueShare(x, m) + QueueShare(x, m)'
    <2>1. /\ QueueShare(x, m) = 0
          /\ QueueShare(x, m)' = 0
      BY Shares, SharesAfter DEF ChangesMode, SameQueue
    <2>2. lock'.conflictCounts[m] = lock.conflictCounts[m]
      BY CountUp, CountTypesOfLock DEF ChangesMode, SameQueue
    <2>3. lock.conflictCounts[m] \in Int
      BY CountTypesOfLock
    <2> QED
      BY <2>1, <2>2, <2>3
  <1>3. lock'.conversionsCount =
            lock.conversionsCount - One(x, Conversions) + One(x, Conversions)'
    BY Shares, SharesAfter, CountTypesOfLock DEF ChangesMode, SameQueue
  <1> QED
    BY <1>1, <1>2, <1>3, CountsOf

(* One that waits to convert is counted under both modes.                   *)
LEMMA CountWaitsToConvert ==
    ASSUME TypeInv, TypeInv', CountInv, NEW x \in Lockers, OthersKeep(x),
           NEW n, WaitsToConvert(x, n)
    PROVE  CountInv'
  <1>1. ASSUME NEW m \in ModesAll
        PROVE  lock'.grantedCounts[m] = lock.grantedCounts[m]
                  - One(x, WithMode(lock.grantedList, m)) - One(x, ToConvert(m))
                  + One(x, WithMode(lock.grantedList, m))' + One(x, ToConvert(m))'
    <2>1. /\ One(x, WithMode(lock.grantedList, m)) = (IF request[x].mode = m THEN 1 ELSE 0)
          /\ One(x, ToConvert(m)) = 0
      BY Shares DEF WaitsToConvert, SameQueue
    <2>2. /\ One(x, WithMode(lock.grantedList, m))' = (IF request[x].mode = m THEN 1 ELSE 0)
          /\ One(x, ToConvert(m))' = (IF n = m THEN 1 ELSE 0)
      BY SharesAfter DEF WaitsToConvert, SameQueue
    <2>3. lock'.grantedCounts[m] = lock.grantedCounts[m] + (IF n = m THEN 1 ELSE 0)
      BY CountUp, CountTypesOfLock DEF WaitsToConvert, SameQueue
    <2>4. lock.grantedCounts[m] \in Int
      BY CountTypesOfLock
    <2> QED
      BY <2>1, <2>2, <2>3, <2>4
  <1>2. ASSUME NEW m \in ModesAll
        PROVE  lock'.conflictCounts[m] =
                  lock.conflictCounts[m] - QueueShare(x, m) + QueueShare(x, m)'
    <2>1. /\ QueueShare(x, m) = 0
          /\ QueueShare(x, m)' = 0
      BY Shares, SharesAfter DEF WaitsToConvert, SameQueue
    <2>2. lock'.conflictCounts[m] = lock.conflictCounts[m]
      BY CountUp, CountTypesOfLock DEF WaitsToConvert, SameQueue
    <2>3. lock.conflictCounts[m] \in Int
      BY CountTypesOfLock
    <2> QED
      BY <2>1, <2>2, <2>3
  <1>3. lock'.conversionsCount =
            lock.conversionsCount - One(x, Conversions) + One(x, Conversions)'
    BY Shares, SharesAfter, CountTypesOfLock DEF WaitsToConvert, SameQueue
  <1> QED
    BY <1>1, <1>2, <1>3, CountsOf

(* One whose conversion is granted is counted under the new mode only.      *)
LEMMA CountConverts ==
    ASSUME TypeInv, TypeInv', CountInv, NEW x \in Lockers, OthersKeep(x), Converts(x)
    PROVE  CountInv'
  <1>1. ASSUME NEW m \in ModesAll
        PROVE  lock'.grantedCounts[m] = lock.grantedCounts[m]
                  - One(x, WithMode(lock.grantedList, m)) - One(x, ToConvert(m))
                  + One(x, WithMode(lock.grantedList, m))' + One(x, ToConvert(m))'
    <2>1. /\ One(x, WithMode(lock.grantedList, m)) = (IF request[x].mode = m THEN 1 ELSE 0)
          /\ One(x, ToConvert(m)) = (IF request[x].convertMode = m THEN 1 ELSE 0)
      BY Shares DEF Converts, SameQueue
    <2>2. /\ One(x, WithMode(lock.grantedList, m))' = (IF request[x].convertMode = m THEN 1 ELSE 0)
          /\ One(x, ToConvert(m))' = 0
      BY SharesAfter DEF Converts, SameQueue
    <2>3. lock'.grantedCounts[m] = lock.grantedCounts[m] - (IF request[x].mode = m THEN 1 ELSE 0)
      BY CountUp, CountTypesOfLock DEF Converts, SameQueue
    <2>4. lock.grantedCounts[m] \in Int
      BY CountTypesOfLock
    <2> QED
      BY <2>1, <2>2, <2>3, <2>4
  <1>2. ASSUME NEW m \in ModesAll
        PROVE  lock'.conflictCounts[m] =
                  lock.conflictCounts[m] - QueueShare(x, m) + QueueShare(x, m)'
    <2>1. /\ QueueShare(x, m) = 0
          /\ QueueShare(x, m)' = 0
      BY Shares, SharesAfter DEF Converts, SameQueue
    <2>2. lock'.conflictCounts[m] = lock.conflictCounts[m]
      BY CountUp, CountTypesOfLock DEF Converts, SameQueue
    <2>3. lock.conflictCounts[m] \in Int
      BY CountTypesOfLock
    <2> QED
      BY <2>1, <2>2, <2>3
  <1>3. lock'.conversionsCount =
            lock.conversionsCount - One(x, Conversions) + One(x, Conversions)'
    BY Shares, SharesAfter, CountTypesOfLock DEF Converts, SameQueue
  <1> QED
    BY <1>1, <1>2, <1>3, CountsOf

(* A migration adds the requests it moves, all granted, to the granted list. *)
LEMMA MovedRequests ==
    ASSUME TypeInv, LockerInv, ListInv, PartitionInv, NEW r \in Moved
    PROVE  /\ r \in Lockers /\ request[r].mode \in IntentModes /\ request[r].status = "Granted"
           /\ request[r].convertMode = "NONE"
           /\ r \notin Members(lock.grantedList) /\ r \notin Members(lock.conflictList)
  BY ListedModes, NotListed DEF Moved, PartitionInv, PartitionedOK

(* The counts after a turn of the migration.                                *)
LEMMA CountMigrate ==
    ASSUME TypeInv, TypeInv', LockerInv, DistinctInv, ListInv, HeadsInv, PartitionInv, CountInv,
           NEW l, MigratePartition(l)
    PROVE  CountInv' /\ (FirstInv => FirstInv')
  <1> DEFINE M(m) == {r \in Moved : request[r].mode = m}
             F == {r \in Moved : request[r].compatibleFirst}
  <1>1. /\ IsFiniteSet(F) /\ Cardinality(F) \in Nat
        /\ \A m : IsFiniteSet(M(m)) /\ Cardinality(M(m)) \in Nat
    <2>1. \A S : S \subseteq Lockers => IsFiniteSet(S) /\ Cardinality(S) \in Nat
      BY ConstantAssumption, FS_Subset, FS_CardinalityType
    <2>2. F \subseteq Lockers /\ \A m : M(m) \subseteq Lockers
      BY DEF Moved
    <2> HIDE DEF F, M
    <2> QED
      BY <2>1, <2>2
  <1>2. /\ Members(lock'.grantedList) = Members(lock.grantedList) \union Moved
        /\ lock'.conflictList = lock.conflictList /\ request' = request
        /\ lock'.conversionsCount = lock.conversionsCount
        /\ lock'.conflictCounts = lock.conflictCounts
        /\ \A m \in ModesAll : lock'.grantedCounts[m] = lock.grantedCounts[m] + Cardinality(M(m))
        /\ lock'.compatibleFirstCount = lock.compatibleFirstCount + Cardinality(F)
    BY MigrateEffect
  <1>3. \A A, B : IsFiniteSet(A) /\ IsFiniteSet(B) /\ A \intersect B = {} =>
            Cardinality(A \union B) = Cardinality(A) + Cardinality(B)
    <2>1. ASSUME NEW A, NEW B, IsFiniteSet(A), IsFiniteSet(B), A \intersect B = {}
          PROVE  Cardinality(A \union B) = Cardinality(A) + Cardinality(B)
      <3>1. Cardinality(A \union B) = Cardinality(A) + Cardinality(B) - Cardinality(A \cap B)
        BY <2>1, FS_Union
      <3>2. Cardinality(A \cap B) = 0 /\ Cardinality(A) \in Nat /\ Cardinality(B) \in Nat
        BY <2>1, FS_EmptySet, FS_CardinalityType
      <3> QED
        BY <3>1, <3>2
    <2> QED
      BY <2>1
  <1>4. \A m : /\ WithMode(lock.grantedList, m)' = WithMode(lock.grantedList, m) \union M(m)
               /\ WithMode(lock.grantedList, m) \intersect M(m) = {}
               /\ WithMode(lock.conflictList, m)' = WithMode(lock.conflictList, m)
               /\ ToConvert(m)' = ToConvert(m)
    BY <1>2, MovedRequests DEF WithMode, ToConvert
  <1>5. /\ Conversions' = Conversions
        /\ Firsts' = Firsts \union F /\ Firsts \intersect F = {}
    BY <1>2, MovedRequests DEF Conversions, Firsts
  <1> HIDE DEF M, F
  <1>6. ASSUME NEW m \in ModesAll
        PROVE  /\ lock'.grantedCounts[m] =
                      Cardinality(WithMode(lock.grantedList, m))' + Cardinality(ToConvert(m))'
               /\ lock'.conflictCounts[m] = Cardinality(WithMode(lock.conflictList, m))'
    <2>1. Cardinality(WithMode(lock.grantedList, m))' =
              Cardinality(WithMode(lock.grantedList, m)) + Cardinality(M(m))
      BY <1>1, <1>3, <1>4, FiniteLists
    <2>2. /\ Cardinality(ToConvert(m))' = Cardinality(ToConvert(m))
          /\ Cardinality(WithMode(lock.conflictList, m))' =
                Cardinality(WithMode(lock.conflictList, m))
      BY <1>4
    <2>3. /\ lock.grantedCounts[m] =
                Cardinality(WithMode(lock.grantedList, m)) + Cardinality(ToConvert(m))
          /\ lock.conflictCounts[m] = Cardinality(WithMode(lock.conflictList, m))
      BY DEF CountInv
    <2> QED
      BY <1>1, <1>2, <2>1, <2>2, <2>3, FiniteLists
  <1>7. lock'.conversionsCount = Cardinality(Conversions)'
    BY <1>2, <1>5 DEF CountInv
  <1>8. FirstInv => FirstInv'
    BY <1>1, <1>2, <1>3, <1>5, FiniteLists DEF FirstInv
  <1> QED
    BY <1>6, <1>7, <1>8 DEF CountInv

(* A step that leaves the lists alone leaves what is counted alone.         *)
LEMMA CountQuiet ==
    ASSUME CountInv, Quiet
    PROVE  CountInv' /\ (NoPriorityConversion /\ FirstInv => FirstInv')
  <1>1. \A m : /\ WithMode(lock.grantedList, m)' = WithMode(lock.grantedList, m)
               /\ WithMode(lock.conflictList, m)' = WithMode(lock.conflictList, m)
               /\ ToConvert(m)' = ToConvert(m)
    BY DEF Quiet, SameLists, SameModes, WithMode, ToConvert
  <1>2. Conversions' = Conversions
    BY DEF Quiet, SameLists, SameModes, Conversions
  <1>3. ASSUME NoPriorityConversion, FirstInv PROVE FirstInv'
    <2>1. Firsts' = Firsts /\ lock'.compatibleFirstCount = lock.compatibleFirstCount
      BY <1>3 DEF Quiet, SameLists, SameFirsts, Firsts
    <2> QED
      BY <1>3, <2>1 DEF FirstInv
  <1>4. /\ lock'.grantedCounts = lock.grantedCounts /\ lock'.conflictCounts = lock.conflictCounts
        /\ lock'.conversionsCount = lock.conversionsCount
    BY DEF Quiet, SameLists
  <1> QED
    BY <1>1, <1>2, <1>3, <1>4 DEF CountInv

(* The compatible-first requests are those that x's change leaves.          *)
LEMMA FirstOf ==
    ASSUME TypeInv, TypeInv', FirstInv, NEW x \in Lockers, OthersKeep(x),
           \/ JoinsQueue(x) \/ JoinsGranted(x) \/ LeavesGranted(x)
           \/ LeavesQueue(x) /\ SameGranted /\ x \notin Members(lock.grantedList)
           \/ \E n : ChangesMode(x, n) \/ WaitsToConvert(x, n)
           \/ Converts(x)
    PROVE  FirstInv'
  <1>1. lock'.compatibleFirstCount = lock.compatibleFirstCount
            - (IF x \in Members(lock.grantedList) /\ request[x].compatibleFirst THEN 1 ELSE 0)
            + (IF x \in Members(lock'.grantedList) /\ request'[x].compatibleFirst THEN 1 ELSE 0)
    <2>1. lock.compatibleFirstCount \in Int
      BY CountTypesOfLock
    <2>2. CASE JoinsQueue(x)
      BY <2>1, <2>2 DEF JoinsQueue, SameGranted
    <2>3. CASE JoinsGranted(x)
      BY <2>1, <2>3 DEF JoinsGranted, SameFields
    <2>4. CASE LeavesGranted(x)
      BY <2>1, <2>4 DEF LeavesGranted
    <2>5. CASE LeavesQueue(x) /\ SameGranted /\ x \notin Members(lock.grantedList)
      BY <2>1, <2>5 DEF SameGranted
    <2>6. CASE \E n : ChangesMode(x, n)
      BY <2>1, <2>6 DEF ChangesMode
    <2>7. CASE \E n : WaitsToConvert(x, n)
      BY <2>1, <2>7 DEF WaitsToConvert
    <2>8. CASE Converts(x)
      BY <2>1, <2>8 DEF Converts
    <2> QED
      BY <2>2, <2>3, <2>4, <2>5, <2>6, <2>7, <2>8
  <1>2. Cardinality(Firsts)' = Cardinality(Firsts) - One(x, Firsts) + One(x, Firsts)'
    BY CountFrame
  <1>3. /\ One(x, Firsts) =
              IF x \in Members(lock.grantedList) /\ request[x].compatibleFirst THEN 1 ELSE 0
        /\ One(x, Firsts)' =
              IF x \in Members(lock'.grantedList) /\ request'[x].compatibleFirst THEN 1 ELSE 0
    BY Shares, SharesAfter
  <1> QED
    BY <1>1, <1>2, <1>3 DEF FirstInv

(* Every step keeps the counts in step with the lists.                      *)
LEMMA CountStep ==
    ASSUME NoCancelledConversion, TypeInv, HolderInv, LockerInv, DistinctInv, ListInv,
        HeadsInv, PartitionInv, CountInv, PartitionedHasNoConflicts, CompatibleInv,
        ConversionInv, FrontInv, Next, TypeInv'
    PROVE  CountInv'
  <1>1. ASSUME NEW l \in Lockers \union {Cleaner}, MigratePartition(l) PROVE CountInv'
    BY <1>1, CountMigrate
  <1>2. ASSUME NEW l \in Lockers, NEW m \in {"IX", "S"}, Downgrade(l, m) PROVE CountInv'
    BY <1>2, DowngradeEffect, CountChangesMode
  <1>3. ASSUME NEW l \in Lockers, NewRequest(l) PROVE CountInv'
    BY <1>3, NewRequestEffect, CountJoinsQueue, CountJoinsGranted
  <1>4. ASSUME NEW l \in Lockers, ConvertRequest(l) PROVE CountInv'
    BY <1>4, ConvertRequestEffect, CountChangesMode, CountWaitsToConvert
  <1>5. ASSUME NEW l \in Lockers, UnlockGranted(l) PROVE CountInv'
    BY <1>5, UnlockGrantedEffect, CountLeavesGranted
  <1>6. ASSUME NEW l \in Lockers, UnlockWaiting(l) PROVE CountInv'
    BY <1>6, UnlockWaitingEffect, CountLeavesQueue
  <1>7. ASSUME NEW l \in Lockers, ScanGranted(l),
      GrantsConversion(lock.grantedList[scan.at]) PROVE CountInv'
    BY <1>7, ScanGrantedGrants, CountConverts
  <1>8. ASSUME NEW l \in Lockers, ScanConflicts(l), GrantsWaiter(lock.conflictList[scan.at])
      PROVE CountInv'
    BY <1>8, ScanConflictsGrants, CountGrantsWaiter
  <1>9. CASE Quiet
    BY <1>9, CountQuiet
  <1> QED
    BY StepKinds, <1>1, <1>2, <1>3, <1>4, <1>5, <1>6, <1>7, <1>8, <1>9 DEF StepKind, ChangesList

(* Every step keeps the count of the compatible-first requests.             *)
LEMMA FirstStep ==
    ASSUME NoCancelledConversion, TypeInv, HolderInv, LockerInv, DistinctInv, ListInv,
        HeadsInv, PartitionInv, CountInv, PartitionedHasNoConflicts, CompatibleInv,
        ConversionInv, FrontInv, Next, TypeInv', NoPriorityConversion, FirstInv
    PROVE  FirstInv'
  <1>1. ASSUME NEW l \in Lockers \union {Cleaner}, MigratePartition(l) PROVE FirstInv'
    BY <1>1, CountMigrate
  <1>2. ASSUME NEW l \in Lockers, NEW m \in {"IX", "S"}, Downgrade(l, m) PROVE FirstInv'
    BY <1>2, DowngradeEffect, FirstOf
  <1>3. ASSUME NEW l \in Lockers, NewRequest(l) PROVE FirstInv'
    BY <1>3, NewRequestEffect, FirstOf
  <1>4. ASSUME NEW l \in Lockers, ConvertRequest(l) PROVE FirstInv'
    BY <1>4, ConvertRequestEffect, FirstOf
  <1>5. ASSUME NEW l \in Lockers, UnlockGranted(l) PROVE FirstInv'
    BY <1>5, UnlockGrantedEffect, FirstOf
  <1>6. ASSUME NEW l \in Lockers, UnlockWaiting(l) PROVE FirstInv'
    BY <1>6, UnlockWaitingEffect, FirstOf
  <1>7. ASSUME NEW l \in Lockers, ScanGranted(l),
      GrantsConversion(lock.grantedList[scan.at]) PROVE FirstInv'
    BY <1>7, ScanGrantedGrants, FirstOf
  <1>8. ASSUME NEW l \in Lockers, ScanConflicts(l), GrantsWaiter(lock.conflictList[scan.at])
      PROVE FirstInv'
    BY <1>8, ScanConflictsGrants, FirstOf
  <1>9. CASE Quiet
    BY <1>9, CountQuiet
  <1> QED
    BY StepKinds, <1>1, <1>2, <1>3, <1>4, <1>5, <1>6, <1>7, <1>8, <1>9 DEF StepKind, ChangesList

=============================================================================
