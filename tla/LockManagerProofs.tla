------------------------- MODULE LockManagerProofs -------------------------
(****************************************************************************)
(* The rest of the invariant, whose parts are about the partitions, the     *)
(* modes granted together, and what a scan of the lists has still to do;    *)
(* and the theorems.                                                        *)
(****************************************************************************)
EXTENDS LockManagerCounts

----------------------------------------------------------------------------
(* The partitions.                                                          *)

\* The steps that change a partition, or the vector of them.
PartitionKind ==
    \/ UNCHANGED heads /\ lock'.partitions = lock.partitions
    \/ \E l \in Lockers, m \in LockModes : Lock(l, m)
    \/ \E l \in Lockers : StartPartitioned(l) \/ UnlockPartition(l)
    \/ \E l \in Lockers \union {Cleaner} : MigratePartition(l)

(* The other steps leave them alone.                                        *)
LEMMA PartitionKinds ==
    ASSUME TypeInv, HolderInv, LockerInv, ListInv, CountInv, FrontInv, Next
    PROVE  PartitionKind
<1>1. ASSUME NEW l \in Lockers, NEW m \in LockModes, Lock(l, m) PROVE PartitionKind
  BY <1>1 DEF PartitionKind
<1>2. ASSUME NEW l \in Lockers, NEW m \in ConvertModes, Convert(l, m) PROVE PartitionKind
  BY <1>2 DEF PartitionKind, Convert, TypeInv, LockType, LockHead
<1>3. ASSUME NEW l \in Lockers, NEW m \in {"IX", "S"}, Downgrade(l, m) PROVE PartitionKind
  BY <1>3 DEF PartitionKind, Downgrade, StartScan, TypeInv, LockType, LockHead
<1>4. ASSUME NEW l \in Lockers, LockTimeout(l) PROVE PartitionKind
  BY <1>4 DEF PartitionKind, LockTimeout, TypeInv, LockType, LockHead
<1>5. ASSUME NEW l \in Lockers, Unlock(l) PROVE PartitionKind
  BY <1>5 DEF PartitionKind, Unlock, TypeInv, LockType, LockHead
<1>6. ASSUME NEW l \in Lockers, StartPartitioned(l) PROVE PartitionKind
  BY <1>6 DEF PartitionKind
<1>7. ASSUME NEW l \in Lockers, StartMigration(l) PROVE PartitionKind
  BY <1>7 DEF PartitionKind, StartMigration, TypeInv, LockType, LockHead
<1>8. ASSUME NEW l \in Lockers \union {Cleaner}, MigratePartition(l) PROVE PartitionKind
  BY <1>8 DEF PartitionKind
<1>9. ASSUME NEW l \in Lockers, NewRequest(l) PROVE PartitionKind
  BY <1>9 DEF PartitionKind, NewRequest, AtLockHead, TypeInv, LockType, LockHead
<1>10. ASSUME NEW l \in Lockers, ConvertRequest(l) PROVE PartitionKind
  BY <1>10 DEF PartitionKind, ConvertRequest, AtLockHead, TypeInv, LockType, LockHead
<1>11. ASSUME NEW l \in Lockers, LockComplete(l) PROVE PartitionKind
  BY <1>11 DEF PartitionKind, LockComplete, TypeInv, LockType, LockHead
<1>12. ASSUME NEW l \in Lockers, UnlockPartition(l) PROVE PartitionKind
  BY <1>12 DEF PartitionKind
<1>13. ASSUME NEW l \in Lockers, UnlockGranted(l) PROVE PartitionKind
  BY <1>13 DEF PartitionKind, UnlockGranted, StartScan, TypeInv, LockType, LockHead
<1>14. ASSUME NEW l \in Lockers, UnlockWaiting(l) PROVE PartitionKind
  BY <1>14 DEF PartitionKind, UnlockWaiting, StartScan, TypeInv, LockType, LockHead
<1>15. ASSUME NEW l \in Lockers, UnlockConverting(l) PROVE PartitionKind
  BY <1>15 DEF PartitionKind, UnlockConverting, StartScan, TypeInv, LockType, LockHead
<1>16. ASSUME NEW l \in Lockers, ScanGranted(l) PROVE PartitionKind
  BY <1>16, ScanGrantedEffect DEF PartitionKind, GrantsConversion, TypeInv, LockType, LockHead
<1>17. ASSUME NEW l \in Lockers, ScanConflicts(l) PROVE PartitionKind
  BY <1>17, ScanConflictsEffect DEF PartitionKind, GrantsWaiter, TypeInv, LockType, LockHead
<1>18. ASSUME NEW l \in Lockers, ScanFinish(l) PROVE PartitionKind
  BY <1>18 DEF PartitionKind, ScanFinish, TypeInv, LockType, LockHead
<1>19. CASE CleanupStart
  BY <1>19 DEF PartitionKind, CleanupStart, TypeInv, LockType, LockHead
<1>20. CASE CleanupFinish
  BY <1>20, CleanupEffect DEF PartitionKind
<1> QED
  BY <1>1, <1>2, <1>3, <1>4, <1>5, <1>6, <1>7, <1>8, <1>9, <1>10, <1>11, <1>12, <1>13,
      <1>14, <1>15, <1>16, <1>17, <1>18, <1>19, <1>20 DEF Next, Continue, Cleanup

(* The PartitionedLockHead that Lock joins exists.                          *)
LEMMA LockJoins ==
    ASSUME TypeInv, LockerInv, ListInv, HeadsInv, NEW l \in Lockers, NEW m \in LockModes,
           Lock(l, m)
    PROVE  /\ ~InPartition(l) /\ request[l].status = "New" /\ UNCHANGED lock
           /\ \/ /\ request'[l].status = "Granted" /\ m \in IntentModes /\ pc' = pc
                 /\ \A k \in Lockers : InPartition(k)' <=> InPartition(k) \/ k = l
                 /\ HeadsShape' /\ DOMAIN heads' = DOMAIN heads
              \/ request'[l].status = "New" /\ pc'[l] = "LockBucket" /\ UNCHANGED heads
  <1>1. ~InPartition(l) /\ request[l].status = "New" /\ UNCHANGED lock
    BY LockEffect, NotListed
  <1>2. CASE request'[l].status = "New" /\ pc'[l] = "LockBucket" /\ UNCHANGED heads
    BY <1>1, <1>2
  <1>3. CASE /\ request'[l].status = "Granted" /\ pc' = pc
             /\ m \in IntentModes /\ PartitionOf[l] \in DOMAIN heads
             /\ heads' = [heads EXCEPT ![PartitionOf[l]] = Append(@, l)]
    <2> DEFINE p == PartitionOf[l]
    <2>1. heads' = [q \in DOMAIN heads \union {p} |->
                        IF q # p THEN heads[q]
                        ELSE IF p \in DOMAIN heads THEN Append(heads[p], l) ELSE <<l>>]
      BY <1>3
    <2>2. DOMAIN heads \union {p} = DOMAIN heads
      BY <1>3
    <2> HIDE DEF p
    <2>3. p = PartitionOf[l]
      BY DEF p
    <2>4. /\ \A k \in Lockers : InPartition(k)' <=> InPartition(k) \/ k = l
          /\ HeadsShape' /\ DOMAIN heads' = DOMAIN heads \union {p}
      BY <1>1, <2>1, <2>3, JoinPartition
    <2> QED
      BY <1>1, <1>3, <2>2, <2>4
  <1> QED
    BY <1>2, <1>3, LockEffect

(* A partition is started, or joined, by a new request.                     *)
LEMMA StartJoins ==
    ASSUME TypeInv, LockerInv, ListInv, HeadsInv, NEW l \in Lockers, StartPartitioned(l)
    PROVE  /\ ~InPartition(l) /\ request[l].status = "New" /\ pc[l] = "LockBucket"
           /\ \A k \in Lockers : InPartition(k)' <=> InPartition(k) \/ k = l
           /\ HeadsShape' /\ DOMAIN heads' = DOMAIN heads \union {PartitionOf[l]}
           /\ Members(lock'.partitions) = Members(lock.partitions) \union {PartitionOf[l]}
           /\ request[l].mode \in IntentModes /\ request[l].partitioned
           /\ request'[l].mode = request[l].mode /\ request'[l].partitioned
           /\ request'[l].status = "Granted" /\ pc'[l] = "Idle"
           /\ SameLists
  <1>1. /\ pc[l] = "LockBucket" /\ request[l].partitioned /\ pc'[l] = "Idle"
    BY DEF StartPartitioned, TypeInv, ControlType
  <1>2. request[l].status = "New" /\ request[l].mode \in IntentModes /\ ~InPartition(l)
    <2>1. request[l].status = "New" /\ request[l].mode \in IntentModes
      BY <1>1 DEF LockerInv, LockerOK, ThreadOK
    <2> QED
      BY <2>1, NotListed
  <1>3. /\ request'[l].mode = request[l].mode /\ request'[l].partitioned
        /\ request'[l].status = "Granted"
    BY <1>1 DEF StartPartitioned, TypeInv, RequestType, Request
  <1>4. /\ lock'.partitions = Append(lock.partitions, PartitionOf[l]) /\ SameLists
    BY DEF StartPartitioned, AddPartition, SameLists, TypeInv, LockType, LockHead
  <1>5. Members(lock'.partitions) = Members(lock.partitions) \union {PartitionOf[l]}
    <2>1. lock.partitions \in Seq(Partitions) /\ PartitionOf[l] \in Partitions
      BY ConstantAssumption DEF TypeInv, LockType, LockHead
    <2> QED
      BY <1>4, <2>1, MembersOfAppend
  <1>6. /\ \A k \in Lockers : InPartition(k)' <=> InPartition(k) \/ k = l
        /\ HeadsShape' /\ DOMAIN heads' = DOMAIN heads \union {PartitionOf[l]}
    <2> DEFINE p == PartitionOf[l]
    <2>1. heads' = [q \in DOMAIN heads \union {p} |->
                        IF q # p THEN heads[q]
                        ELSE IF p \in DOMAIN heads THEN Append(heads[p], l) ELSE <<l>>]
      BY DEF StartPartitioned
    <2> HIDE DEF p
    <2>2. p = PartitionOf[l]
      BY DEF p
    <2> QED
      BY <1>2, <2>1, <2>2, JoinPartition
  <1> QED
    BY <1>1, <1>2, <1>3, <1>4, <1>5, <1>6

(* A request leaves its partition, or finds that it has migrated.           *)
LEMMA UnlockLeaves ==
    ASSUME TypeInv, LockerInv, ListInv, HeadsInv, NEW l \in Lockers, UnlockPartition(l)
    PROVE  /\ pc[l] = "UnlockPartition" /\ UNCHANGED lock
           /\ \/ /\ InPartition(l) /\ request'[l] = InitNew /\ pc'[l] = "Idle"
                 /\ \A k \in Lockers : InPartition(k)' <=> InPartition(k) /\ k # l
                 /\ HeadsShape' /\ DOMAIN heads' = DOMAIN heads
              \/ ~InPartition(l) /\ UNCHANGED <<heads, request>> /\ pc'[l] = "UnlockBucket"
  <1>1. pc[l] = "UnlockPartition" /\ UNCHANGED lock
    BY DEF UnlockPartition
  <1>2. CASE InPartition(l)
    <2>1. /\ heads' = [heads EXCEPT ![PartitionOf[l]] = ListRemove(@, l)]
          /\ request' = [request EXCEPT ![l] = InitNew] /\ pc' = [pc EXCEPT ![l] = "Idle"]
      BY <1>2 DEF UnlockPartition, InPartition
    <2> QED
      BY <1>1, <1>2, <2>1, LeavePartition DEF TypeInv, RequestType, ControlType
  <1>3. CASE ~InPartition(l)
    BY <1>1, <1>3 DEF UnlockPartition, InPartition, TypeInv, ControlType
  <1> QED
    BY <1>2, <1>3

(* Every step leaves the partitions well formed and in the vector.          *)
LEMMA HeadsStep ==
    ASSUME TypeInv, HolderInv, LockerInv, DistinctInv, ListInv, HeadsInv, CountInv,
           FrontInv, Next
    PROVE  HeadsInv'
  <1>0. HeadsInv' <=> HeadsShape' /\ \A p \in DOMAIN heads' : p \in Members(lock'.partitions)
    BY DEF HeadsInv, HeadsShape
  <1>1. CASE UNCHANGED heads /\ lock'.partitions = lock.partitions
    BY <1>1 DEF HeadsInv
  <1>2. ASSUME NEW l \in Lockers, NEW m \in LockModes, Lock(l, m) PROVE HeadsInv'
    <2>1. CASE UNCHANGED heads
      BY <1>2, <2>1, LockJoins DEF HeadsInv
    <2> QED
      BY <1>0, <1>2, <2>1, LockJoins DEF HeadsInv
  <1>3. ASSUME NEW l \in Lockers, StartPartitioned(l) PROVE HeadsInv'
    BY <1>0, <1>3, StartJoins DEF HeadsInv
  <1>4. ASSUME NEW l \in Lockers, UnlockPartition(l) PROVE HeadsInv'
    <2>1. CASE UNCHANGED heads
      BY <1>4, <2>1, UnlockLeaves DEF HeadsInv
    <2> QED
      BY <1>0, <1>4, <2>1, UnlockLeaves DEF HeadsInv
  <1>5. ASSUME NEW l \in Lockers \union {Cleaner}, MigratePartition(l) PROVE HeadsInv'
    BY <1>0, <1>5, MigrateEffect DEF HeadsInv
  <1> QED
    BY <1>1, <1>2, <1>3, <1>4, <1>5, PartitionKinds DEF PartitionKind

(* The requests of the others, and where they are listed, stay.             *)
LEMMA ListFrame ==
    ASSUME ListInv, NEW x \in Lockers, OthersKeep(x), ListedOK(x)',
           \A k \in Lockers \ {x} : /\ GivenUp(k)' <=> GivenUp(k)
                                    /\ InPartition(k)' <=> InPartition(k)
    PROVE  ListInv'
  <1>1. ASSUME NEW k \in Lockers \ {x} PROVE ListedOK(k)'
    BY DEF ListInv, ListedOK, OthersKeep, OnGrantedList, Queued
  <1> QED
    BY <1>1 DEF ListInv

(* A step that leaves the lists alone leaves the others on them.            *)
LEMMA OthersInPlace ==
    ASSUME NEW x \in Lockers, OthersSame(x), SameLists
    PROVE  OthersKeep(x) /\ \A k \in Lockers \ {x} : GivenUp(k)' <=> GivenUp(k)
  BY DEF OthersSame, SameLists, OthersKeep, GivenUp

(* Who is giving up depends on the locker's own state only.                 *)
LEMMA OthersKeepGivenUp ==
    ASSUME NEW x \in Lockers, OthersKeep(x),
           \A k \in Lockers \ {x} : pc'[k] \in ScanStates <=> pc[k] \in ScanStates
    PROVE  \A k \in Lockers \ {x} : GivenUp(k)' <=> GivenUp(k)
  BY DEF OthersKeep, GivenUp

(* Partitions that are left alone.                                          *)
LEMMA SamePartitions ==
    ASSUME UNCHANGED heads
    PROVE  \A k \in Lockers : InPartition(k)' <=> InPartition(k)
  BY DEF InPartition

(* Every step leaves each request on the list where it ought to be.         *)
LEMMA ListStep ==
    ASSUME NoCancelledConversion, TypeInv, HolderInv, LockerInv, DistinctInv, ListInv,
           HeadsInv, PartitionInv, CountInv, FrontInv, Next
    PROVE  ListInv'
<1>1. ASSUME NEW l \in Lockers, NEW m \in LockModes, Lock(l, m) PROVE ListInv'
  <2>0. ListedOK(l) /\ LockerOK(l)
    BY DEF ListInv, LockerInv
  <2>1. OthersSame(l) /\ SameLists
    BY <1>1 DEF Lock, OthersSame, SameLists, TypeInv, RequestType, ControlType, LockType,
        LockHead
  <2>2. \A k \in Lockers \ {l} : InPartition(k)' <=> InPartition(k)
    BY <1>1, LockJoins, SamePartitions
  <2>3. ListedOK(l)'
    <3>1. /\ l \notin Members(lock.grantedList) /\ l \notin Members(lock.conflictList)
          /\ pc'[l] \notin ScanStates
      BY <1>1, LockEffect, LockJoins, NotListed DEF ScanStates
    <3>2. InPartition(l)' <=> request'[l].status = "Granted"
      BY <1>1, LockJoins, SamePartitions
    <3>3. request'[l].status \in {"New", "Granted"}
      BY <1>1, LockJoins
    <3> QED
      BY <2>1, <3>1, <3>2, <3>3 DEF SameLists, ListedOK, OnGrantedList, Queued, GivenUp
  <2> QED
    BY <2>1, <2>2, <2>3, OthersInPlace, ListFrame
<1>2. ASSUME NEW l \in Lockers, NEW m \in ConvertModes, Convert(l, m) PROVE ListInv'
  <2>0. ListedOK(l) /\ LockerOK(l)
    BY DEF ListInv, LockerInv
  <2>1. OthersSame(l) /\ SameLists /\ UNCHANGED heads
    BY <1>2 DEF Convert, OthersSame, SameLists, TypeInv, RequestType, ControlType, LockType,
        LockHead
  <2>2. /\ request'[l].status = request[l].status /\ pc[l] \notin ScanStates
        /\ pc'[l] \notin ScanStates
    BY <1>2 DEF Convert, ScanStates, TypeInv, RequestType, Request, ControlType
  <2>3. ListedOK(l)'
    BY <2>0, <2>1, <2>2, SamePartitions DEF SameLists, ListedOK, OnGrantedList, Queued, GivenUp
  <2> QED
    BY <2>1, <2>3, OthersInPlace, SamePartitions, ListFrame
<1>3. ASSUME NEW l \in Lockers, NEW m \in {"IX", "S"}, Downgrade(l, m) PROVE ListInv'
  <2>0. ListedOK(l) /\ LockerOK(l)
    BY DEF ListInv, LockerInv
  <2>1. OthersKeep(l) /\ ChangesMode(l, m) /\ UNCHANGED heads
    BY <1>3, DowngradeEffect
  <2>2. \A k \in Lockers \ {l} : pc'[k] \in ScanStates <=> pc[k] \in ScanStates
    BY <1>3 DEF Downgrade, StartScan, TypeInv, ControlType
  <2>3. ListedOK(l)'
    <3>1. /\ pc[l] = "Idle" /\ request[l].recursiveCount > 0
          /\ request'[l].recursiveCount = request[l].recursiveCount
      <4>1. pc[l] = "Idle" /\ request[l].status = "Granted"
        BY <1>3 DEF Downgrade
      <4>2. request[l].recursiveCount > 0
        BY <2>0, <4>1 DEF LockerOK, ThreadOK, InitNew
      <4>3. request'[l].recursiveCount = request[l].recursiveCount
        BY <1>3 DEF Downgrade, TypeInv, RequestType, Request
      <4> QED
        BY <4>1, <4>2, <4>3
    <3>2. ~GivenUp(l) /\ ~GivenUp(l)'
      BY <3>1 DEF GivenUp, ScanStates
    <3> QED
      BY <2>0, <2>1, <3>2, SamePartitions
        DEF ChangesMode, SameQueue, ListedOK, OnGrantedList, Queued
  <2> QED
    BY <2>1, <2>2, <2>3, OthersKeepGivenUp, SamePartitions, ListFrame
<1>4. ASSUME NEW l \in Lockers, LockTimeout(l) PROVE ListInv'
  <2>0. ListedOK(l) /\ LockerOK(l)
    BY DEF ListInv, LockerInv
  <2>1. OthersSame(l) /\ SameLists /\ UNCHANGED heads
    BY <1>4 DEF LockTimeout, OthersSame, SameLists, TypeInv, RequestType, ControlType,
        LockType, LockHead
  <2>2. /\ request'[l].status = request[l].status /\ pc[l] \notin ScanStates
        /\ pc'[l] \notin ScanStates
    BY <1>4 DEF LockTimeout, ScanStates, TypeInv, RequestType, Request, ControlType
  <2>3. ListedOK(l)'
    BY <2>0, <2>1, <2>2, SamePartitions DEF SameLists, ListedOK, OnGrantedList, Queued, GivenUp
  <2> QED
    BY <2>1, <2>3, OthersInPlace, SamePartitions, ListFrame
<1>5. ASSUME NEW l \in Lockers, Unlock(l) PROVE ListInv'
  <2>0. ListedOK(l) /\ LockerOK(l)
    BY DEF ListInv, LockerInv
  <2>1. OthersSame(l) /\ SameLists /\ UNCHANGED heads
    BY <1>5 DEF Unlock, OthersSame, SameLists, TypeInv, RequestType, ControlType, LockType,
        LockHead
  <2>2. /\ request'[l].status = request[l].status /\ pc[l] \notin ScanStates
        /\ pc'[l] \notin ScanStates
    BY <1>5, UnlockEffect DEF ScanStates, TypeInv, RequestType, Request, ControlType
  <2>3. ListedOK(l)'
    BY <2>0, <2>1, <2>2, SamePartitions DEF SameLists, ListedOK, OnGrantedList, Queued, GivenUp
  <2> QED
    BY <2>1, <2>3, OthersInPlace, SamePartitions, ListFrame
<1>6. ASSUME NEW l \in Lockers, StartPartitioned(l) PROVE ListInv'
  <2>0. ListedOK(l) /\ LockerOK(l)
    BY DEF ListInv, LockerInv
  <2>1. OthersSame(l) /\ SameLists
    BY <1>6 DEF StartPartitioned, AddPartition, OthersSame, SameLists, TypeInv, RequestType,
        ControlType, LockType, LockHead
  <2>2. \A k \in Lockers \ {l} : InPartition(k)' <=> InPartition(k)
    BY <1>6, StartJoins
  <2>3. ListedOK(l)'
    <3>1. /\ l \notin Members(lock.grantedList) /\ l \notin Members(lock.conflictList)
          /\ pc'[l] \notin ScanStates /\ InPartition(l)' /\ request'[l].status = "Granted"
      BY <1>6, StartJoins, NotListed DEF ScanStates
    <3> QED
      BY <2>1, <3>1 DEF SameLists, ListedOK, OnGrantedList, Queued, GivenUp
  <2> QED
    BY <2>1, <2>2, <2>3, OthersInPlace, ListFrame
<1>7. ASSUME NEW l \in Lockers, StartMigration(l) PROVE ListInv'
  <2>0. ListedOK(l) /\ LockerOK(l)
    BY DEF ListInv, LockerInv
  <2>1. OthersSame(l) /\ SameLists /\ UNCHANGED heads
    BY <1>7 DEF StartMigration, OthersSame, SameLists, TypeInv, RequestType, ControlType,
        LockType, LockHead
  <2>2. /\ request'[l].status = request[l].status /\ pc[l] \notin ScanStates
        /\ pc'[l] \notin ScanStates
    BY <1>7 DEF StartMigration, ScanStates, TypeInv, RequestType, Request, ControlType
  <2>3. ListedOK(l)'
    BY <2>0, <2>1, <2>2, SamePartitions DEF SameLists, ListedOK, OnGrantedList, Queued, GivenUp
  <2> QED
    BY <2>1, <2>3, OthersInPlace, SamePartitions, ListFrame
<1>8. ASSUME NEW l \in Lockers \union {Cleaner}, MigratePartition(l) PROVE ListInv'
  <2>1. ASSUME NEW k \in Lockers PROVE ListedOK(k)'
    <3>1. /\ InPartition(k)' <=> InPartition(k) /\ k \notin Moved
          /\ Members(lock'.grantedList) = Members(lock.grantedList) \union Moved
          /\ lock'.conflictList = lock.conflictList
          /\ request' = request /\ pc' = pc
      BY <1>8, MigrateEffect
    <3>2. k \in Moved => InPartition(k) /\ k \notin Members(lock.grantedList)
      BY MovedRequests DEF Moved
    <3>3. ListedOK(k)
      BY DEF ListInv
    <3>4. GivenUp(k)' <=> GivenUp(k)
      BY <3>1 DEF GivenUp
    <3> QED
      BY <3>1, <3>2, <3>3, <3>4 DEF ListedOK, OnGrantedList, Queued
  <2> QED
    BY <2>1 DEF ListInv
<1>9. ASSUME NEW l \in Lockers, NewRequest(l) PROVE ListInv'
  <2>0. ListedOK(l) /\ LockerOK(l)
    BY DEF ListInv, LockerInv
  <2>1. OthersKeep(l) /\ UNCHANGED heads
    BY <1>9, NewRequestEffect
  <2>2. \A k \in Lockers \ {l} : pc'[k] \in ScanStates <=> pc[k] \in ScanStates
    BY <1>9 DEF NewRequest, AtLockHead, TypeInv, ControlType
  <2>3. ListedOK(l)'
    <3>1. ~InPartition(l) /\ pc'[l] \notin ScanStates
      BY <1>9, <2>0, NotListed
        DEF NewRequest, AtLockHead, LockerOK, ThreadOK, ScanStates, TypeInv, ControlType
    <3>2. \/ /\ l \notin Members(lock'.grantedList) /\ l \in Members(lock'.conflictList)
             /\ request'[l].status = "Waiting"
          \/ /\ l \in Members(lock'.grantedList) /\ l \notin Members(lock'.conflictList)
             /\ request'[l].status = "Granted"
      BY <1>9, NewRequestEffect DEF JoinsQueue, JoinsGranted
    <3> QED
      BY <2>1, <3>1, <3>2, SamePartitions DEF ListedOK, OnGrantedList, Queued, GivenUp
  <2> QED
    BY <2>1, <2>2, <2>3, OthersKeepGivenUp, SamePartitions, ListFrame
<1>10. ASSUME NEW l \in Lockers, ConvertRequest(l) PROVE ListInv'
  <2>0. ListedOK(l) /\ LockerOK(l)
    BY DEF ListInv, LockerInv
  <2>1. OthersKeep(l) /\ UNCHANGED heads
    BY <1>10, ConvertRequestEffect
  <2>2. \A k \in Lockers \ {l} : pc'[k] \in ScanStates <=> pc[k] \in ScanStates
    BY <1>10 DEF ConvertRequest, AtLockHead, TypeInv, ControlType
  <2>3. ListedOK(l)'
    <3>1. /\ l \in Members(lock.grantedList) /\ l \in Members(lock'.grantedList)
          /\ l \notin Members(lock'.conflictList)
          /\ request'[l].status \in {"Granted", "Converting"}
      BY <1>10, ConvertRequestEffect DEF ChangesMode, WaitsToConvert, SameQueue
    <3>2. pc'[l] \notin ScanStates
      BY <1>10 DEF ConvertRequest, ScanStates, TypeInv, ControlType
    <3> QED
      BY <2>0, <2>1, <3>1, <3>2, SamePartitions DEF ListedOK, OnGrantedList, Queued, GivenUp
  <2> QED
    BY <2>1, <2>2, <2>3, OthersKeepGivenUp, SamePartitions, ListFrame
<1>11. ASSUME NEW l \in Lockers, LockComplete(l) PROVE ListInv'
  <2>0. ListedOK(l) /\ LockerOK(l)
    BY DEF ListInv, LockerInv
  <2>1. OthersSame(l) /\ SameLists /\ UNCHANGED heads
    BY <1>11 DEF LockComplete, OthersSame, SameLists, TypeInv, RequestType, ControlType,
        LockType, LockHead
  <2>2. /\ request'[l].status = request[l].status /\ pc[l] \notin ScanStates
        /\ pc'[l] \notin ScanStates
    BY <1>11 DEF LockComplete, ScanStates, TypeInv, RequestType, Request, ControlType
  <2>3. ListedOK(l)'
    BY <2>0, <2>1, <2>2, SamePartitions DEF SameLists, ListedOK, OnGrantedList, Queued, GivenUp
  <2> QED
    BY <2>1, <2>3, OthersInPlace, SamePartitions, ListFrame
<1>12. ASSUME NEW l \in Lockers, UnlockPartition(l) PROVE ListInv'
  <2>0. ListedOK(l) /\ LockerOK(l)
    BY DEF ListInv, LockerInv
  <2>1. OthersSame(l) /\ SameLists
    BY <1>12 DEF UnlockPartition, OthersSame, SameLists, TypeInv, RequestType, ControlType,
        LockType, LockHead
  <2>2. \A k \in Lockers \ {l} : InPartition(k)' <=> InPartition(k)
    BY <1>12, UnlockLeaves, SamePartitions
  <2>3. ListedOK(l)'
    <3>1. CASE InPartition(l)
      <4>1. /\ l \notin Members(lock.grantedList) /\ l \notin Members(lock.conflictList)
            /\ ~InPartition(l)' /\ request'[l].status = "New"
        BY <1>12, <3>1, UnlockLeaves, NotListed DEF InitNew
      <4> QED
        BY <2>1, <4>1 DEF SameLists, ListedOK, OnGrantedList, Queued, GivenUp
    <3>2. CASE ~InPartition(l)
      <4>1. /\ request'[l] = request[l] /\ ~InPartition(l)'
            /\ pc[l] \notin ScanStates /\ pc'[l] \notin ScanStates
        BY <1>12, <3>2, UnlockLeaves, SamePartitions DEF ScanStates
      <4> QED
        BY <2>0, <2>1, <3>2, <4>1 DEF SameLists, ListedOK, OnGrantedList, Queued, GivenUp
    <3> QED
      BY <3>1, <3>2
  <2> QED
    BY <2>1, <2>2, <2>3, OthersInPlace, ListFrame
<1>13. ASSUME NEW l \in Lockers, UnlockGranted(l) PROVE ListInv'
  <2>0. ListedOK(l) /\ LockerOK(l)
    BY DEF ListInv, LockerInv
  <2>1. OthersKeep(l) /\ LeavesGranted(l) /\ SameQueue /\ UNCHANGED heads
    BY <1>13, UnlockGrantedEffect
  <2>2. \A k \in Lockers \ {l} : pc'[k] \in ScanStates <=> pc[k] \in ScanStates
    BY <1>13 DEF UnlockGranted, StartScan, TypeInv, ControlType
  <2>3. ListedOK(l)'
    <3>1. GivenUp(l)' /\ ~InPartition(l)
      <4>1. pc[l] = "UnlockBucket" /\ pc'[l] = "ScanGranted" /\ request' = request
        BY <1>13, UnlockGrantedEffect
      <4>2. request[l].recursiveCount = 0
        BY <2>0, <4>1 DEF LockerOK, ThreadOK
      <4>3. ~InPartition(l)
        BY <4>1 DEF PartitionInv, PartitionedOK
      <4> QED
        BY <4>1, <4>2, <4>3 DEF GivenUp, ScanStates
    <3>2. l \notin Members(lock'.grantedList) /\ l \notin Members(lock'.conflictList)
      BY <1>13, <2>1, UnlockGrantedEffect DEF LeavesGranted, LeavesQueue, SameQueue, SameGranted
    <3> QED
      BY <2>1, <3>1, <3>2, SamePartitions DEF ListedOK, OnGrantedList, Queued
  <2> QED
    BY <2>1, <2>2, <2>3, OthersKeepGivenUp, SamePartitions, ListFrame
<1>14. ASSUME NEW l \in Lockers, UnlockWaiting(l) PROVE ListInv'
  <2>0. ListedOK(l) /\ LockerOK(l)
    BY DEF ListInv, LockerInv
  <2>1. OthersKeep(l) /\ LeavesQueue(l) /\ SameGranted /\ UNCHANGED heads
    BY <1>14, UnlockWaitingEffect
  <2>2. \A k \in Lockers \ {l} : pc'[k] \in ScanStates <=> pc[k] \in ScanStates
    BY <1>14 DEF UnlockWaiting, StartScan, TypeInv, ControlType
  <2>3. ListedOK(l)'
    <3>1. GivenUp(l)' /\ ~InPartition(l)
      <4>1. pc[l] = "UnlockBucket" /\ pc'[l] = "ScanGranted" /\ request' = request
        BY <1>14, UnlockWaitingEffect
      <4>2. request[l].recursiveCount = 0
        BY <2>0, <4>1 DEF LockerOK, ThreadOK
      <4>3. ~InPartition(l)
        BY <4>1 DEF PartitionInv, PartitionedOK
      <4> QED
        BY <4>1, <4>2, <4>3 DEF GivenUp, ScanStates
    <3>2. l \notin Members(lock'.grantedList) /\ l \notin Members(lock'.conflictList)
      BY <1>14, <2>1, UnlockWaitingEffect DEF LeavesGranted, LeavesQueue, SameQueue, SameGranted
    <3> QED
      BY <2>1, <3>1, <3>2, SamePartitions DEF ListedOK, OnGrantedList, Queued
  <2> QED
    BY <2>1, <2>2, <2>3, OthersKeepGivenUp, SamePartitions, ListFrame
<1>15. ASSUME NEW l \in Lockers, UnlockConverting(l) PROVE ListInv'
  BY <1>15 DEF UnlockConverting, LockerInv, LockerOK, RequestOK
<1>16. ASSUME NEW l \in Lockers, ScanGranted(l) PROVE ListInv'
  <2>0. /\ UNCHANGED heads
        /\ \A k \in Lockers : pc'[k] \in ScanStates <=> pc[k] \in ScanStates
    BY <1>16, ScanGrantedEffect DEF ScanStates, TypeInv, ControlType
  <2>1. CASE UNCHANGED <<request, lock>>
    BY <2>0, <2>1, SamePartitions DEF ListInv, ListedOK, OnGrantedList, Queued, GivenUp
  <2>2. ASSUME NEW it, GrantsConversion(it) PROVE ListInv'
    <3>1. it \in Lockers /\ OthersKeep(it) /\ Converts(it)
      BY <1>16, <2>2, ScanGrantedGrants
    <3>2. ListedOK(it) /\ LockerOK(it)
      BY <3>1 DEF ListInv, LockerInv
    <3>3. ~GivenUp(it) /\ ~GivenUp(it)'
      BY <2>0, <3>1, <3>2 DEF Converts, GivenUp, ScanStates, LockerOK, RequestOK
    <3>4. ListedOK(it)'
      BY <2>0, <3>1, <3>2, <3>3, SamePartitions
        DEF Converts, SameQueue, ListedOK, OnGrantedList, Queued
    <3> QED
      BY <2>0, <3>1, <3>4, OthersKeepGivenUp, SamePartitions, ListFrame
  <2> QED
    BY <1>16, <2>1, <2>2, ScanGrantedEffect
<1>17. ASSUME NEW l \in Lockers, ScanConflicts(l) PROVE ListInv'
  <2>0. UNCHANGED <<heads, pc>>
    BY <1>17, ScanConflictsEffect
  <2>1. CASE UNCHANGED <<request, lock>>
    BY <2>0, <2>1, SamePartitions DEF ListInv, ListedOK, OnGrantedList, Queued, GivenUp
  <2>2. ASSUME NEW it, GrantsWaiter(it) PROVE ListInv'
    <3>1. /\ it \in Lockers /\ OthersKeep(it) /\ LeavesQueue(it) /\ JoinsGranted(it)
          /\ pc[it] \notin ScanStates
      BY <1>17, <2>2, ScanConflictsGrants
    <3>2. ListedOK(it)
      BY <3>1 DEF ListInv
    <3>3. ~GivenUp(it) /\ ~GivenUp(it)'
      BY <2>0, <3>1 DEF GivenUp
    <3>4. ListedOK(it)'
      BY <2>0, <3>1, <3>2, <3>3, SamePartitions
        DEF LeavesQueue, JoinsGranted, ListedOK, OnGrantedList, Queued
    <3> QED
      BY <2>0, <3>1, <3>4, OthersKeepGivenUp, SamePartitions, ListFrame
  <2> QED
    BY <1>17, <2>1, <2>2, ScanConflictsEffect
<1>18. ASSUME NEW l \in Lockers, ScanFinish(l) PROVE ListInv'
  <2>0. ListedOK(l) /\ LockerOK(l)
    BY DEF ListInv, LockerInv
  <2>1. OthersSame(l) /\ SameLists /\ UNCHANGED heads
    BY <1>18 DEF ScanFinish, OthersSame, SameLists, TypeInv, RequestType, ControlType,
        LockType, LockHead
  <2>2. /\ pc'[l] \notin ScanStates /\ pc[l] \in ScanStates
        /\ \/ request[l].recursiveCount = 0 /\ request'[l].status = "New"
           \/ request[l].recursiveCount > 0 /\ request'[l] = request[l]
    BY <1>18, FinishEffect DEF ScanStates, InitNew
  <2>3. ListedOK(l)'
    BY <2>0, <2>1, <2>2, SamePartitions DEF SameLists, ListedOK, OnGrantedList, Queued, GivenUp
  <2> QED
    BY <2>1, <2>3, OthersInPlace, SamePartitions, ListFrame
<1>19. CASE CleanupStart
  BY <1>19, SamePartitions DEF CleanupStart, ListInv, ListedOK, OnGrantedList, Queued, GivenUp
<1>20. CASE CleanupFinish
  <2>1. SameLists /\ UNCHANGED <<request, heads, pc>>
    BY <1>20, CleanupEffect
  <2> QED
    BY <2>1, SamePartitions DEF SameLists, ListInv, ListedOK, OnGrantedList, Queued, GivenUp
<1> QED
  BY <1>1, <1>2, <1>3, <1>4, <1>5, <1>6, <1>7, <1>8, <1>9, <1>10, <1>11, <1>12, <1>13,
      <1>14, <1>15, <1>16, <1>17, <1>18, <1>19, <1>20 DEF Next, Continue, Cleanup

(* Every step leaves each request on its list once.                         *)
LEMMA DistinctStep ==
    ASSUME NoCancelledConversion, TypeInv, HolderInv, LockerInv, DistinctInv, ListInv,
        HeadsInv, PartitionInv, CountInv, PartitionedHasNoConflicts, CompatibleInv,
        ConversionInv, FrontInv, Next, TypeInv'
    PROVE  DistinctInv'
  <1>1. ASSUME NEW l \in Lockers \union {Cleaner}, MigratePartition(l) PROVE DistinctInv'
    BY <1>1, MigrateEffect DEF DistinctInv
  <1>2. ASSUME NEW l \in Lockers, NEW m \in {"IX", "S"}, Downgrade(l, m) PROVE DistinctInv'
    BY <1>2, DowngradeEffect DEF ChangesMode, SameQueue, DistinctInv
  <1>3. ASSUME NEW l \in Lockers, NewRequest(l) PROVE DistinctInv'
    BY <1>3, NewRequestEffect DEF JoinsQueue, JoinsGranted, SameQueue, SameGranted, DistinctInv
  <1>4. ASSUME NEW l \in Lockers, ConvertRequest(l) PROVE DistinctInv'
    BY <1>4, ConvertRequestEffect DEF ChangesMode, WaitsToConvert, SameQueue, DistinctInv
  <1>5. ASSUME NEW l \in Lockers, UnlockGranted(l) PROVE DistinctInv'
    BY <1>5, UnlockGrantedEffect DEF LeavesGranted, SameQueue, DistinctInv
  <1>6. ASSUME NEW l \in Lockers, UnlockWaiting(l) PROVE DistinctInv'
    BY <1>6, UnlockWaitingEffect DEF LeavesQueue, SameGranted, DistinctInv
  <1>7. ASSUME NEW l \in Lockers, ScanGranted(l),
      GrantsConversion(lock.grantedList[scan.at]) PROVE DistinctInv'
    BY <1>7, ScanGrantedGrants DEF Converts, SameQueue, DistinctInv
  <1>8. ASSUME NEW l \in Lockers, ScanConflicts(l), GrantsWaiter(lock.conflictList[scan.at])
      PROVE DistinctInv'
    BY <1>8, ScanConflictsGrants DEF LeavesQueue, JoinsGranted, DistinctInv
  <1>9. CASE Quiet
    BY <1>9 DEF Quiet, SameLists, DistinctInv
  <1> QED
    BY StepKinds, <1>1, <1>2, <1>3, <1>4, <1>5, <1>6, <1>7, <1>8, <1>9 DEF StepKind, ChangesList

(* Only l's request may have changed, and no other has joined a partition.  *)
LEMMA PartitionFrame ==
    ASSUME PartitionInv, NEW l \in Lockers, OthersSame(l),
           \A k \in Lockers \ {l} : InPartition(k)' => InPartition(k),
           InPartition(l)' => PartitionedOK(l)'
    PROVE  PartitionInv'
  <1>1. ASSUME NEW k \in Lockers \ {l}, InPartition(k)' PROVE PartitionedOK(k)'
    BY <1>1 DEF PartitionInv, PartitionedOK, OthersSame
  <1> QED
    BY <1>1 DEF PartitionInv

(* Every step leaves granted intent requests only in the partitions.        *)
LEMMA PartitionStep ==
    ASSUME TypeInv, HolderInv, LockerInv, DistinctInv, ListInv, HeadsInv, PartitionInv,
           CountInv, Next
    PROVE  PartitionInv'
<1>1. ASSUME NEW l \in Lockers, NEW m \in LockModes, Lock(l, m) PROVE PartitionInv'
  <2>1. OthersSame(l)
    BY <1>1 DEF Lock, OthersSame, TypeInv, RequestType, ControlType
  <2>2. \A k \in Lockers \ {l} : InPartition(k)' => InPartition(k)
    BY <1>1, LockJoins, SamePartitions
  <2>3. InPartition(l)' => PartitionedOK(l)'
    BY <1>1, LockJoins, LockEffect, SamePartitions DEF PartitionedOK
  <2> QED
    BY <2>1, <2>2, <2>3, PartitionFrame
<1>2. ASSUME NEW l \in Lockers, NEW m \in ConvertModes, Convert(l, m) PROVE PartitionInv'
  <2>1. OthersSame(l)
    BY <1>2 DEF Convert, OthersSame, TypeInv, RequestType, ControlType
  <2>2. \A k \in Lockers : InPartition(k)' => InPartition(k)
    BY <1>2, SamePartitions DEF Convert
  <2>3. InPartition(l)' => PartitionedOK(l)'
    <3>1. CASE InPartition(l)
      <4>1. PartitionedOK(l)
        BY <3>1 DEF PartitionInv
      <4> QED
        BY <1>2, <4>1 DEF Convert, PartitionedOK, TypeInv, RequestType, Request, ControlType
    <3> QED
      BY <2>2, <3>1
  <2> QED
    BY <2>1, <2>2, <2>3, PartitionFrame
<1>3. ASSUME NEW l \in Lockers, NEW m \in {"IX", "S"}, Downgrade(l, m) PROVE PartitionInv'
  <2>1. OthersSame(l)
    BY <1>3 DEF Downgrade, StartScan, OthersSame, TypeInv, RequestType, ControlType
  <2>2. \A k \in Lockers : InPartition(k)' => InPartition(k)
    BY <1>3, SamePartitions DEF Downgrade, StartScan
  <2>3. InPartition(l)' => PartitionedOK(l)'
    <3>1. CASE InPartition(l)
      <4>1. PartitionedOK(l)
        BY <3>1 DEF PartitionInv
      <4> QED
        BY <1>3, <4>1 DEF Downgrade, PartitionedOK, IntentModes
    <3> QED
      BY <2>2, <3>1
  <2> QED
    BY <2>1, <2>2, <2>3, PartitionFrame
<1>4. ASSUME NEW l \in Lockers, LockTimeout(l) PROVE PartitionInv'
  <2>1. OthersSame(l)
    BY <1>4 DEF LockTimeout, OthersSame, TypeInv, RequestType, ControlType
  <2>2. \A k \in Lockers : InPartition(k)' => InPartition(k)
    BY <1>4, SamePartitions DEF LockTimeout
  <2>3. InPartition(l)' => PartitionedOK(l)'
    <3>1. CASE InPartition(l)
      <4>1. PartitionedOK(l)
        BY <3>1 DEF PartitionInv
      <4> QED
        BY <1>4, <4>1 DEF LockTimeout, PartitionedOK, TypeInv, RequestType, Request,
            ControlType
    <3> QED
      BY <2>2, <3>1
  <2> QED
    BY <2>1, <2>2, <2>3, PartitionFrame
<1>5. ASSUME NEW l \in Lockers, Unlock(l) PROVE PartitionInv'
  <2>1. OthersSame(l)
    BY <1>5 DEF Unlock, OthersSame, TypeInv, RequestType, ControlType
  <2>2. \A k \in Lockers : InPartition(k)' => InPartition(k)
    BY <1>5, SamePartitions DEF Unlock
  <2>3. InPartition(l)' => PartitionedOK(l)'
    <3>1. CASE InPartition(l)
      <4>1. PartitionedOK(l)
        BY <3>1 DEF PartitionInv
      <4> QED
        BY <1>5, <4>1 DEF Unlock, PartitionedOK, TypeInv, RequestType, Request, ControlType
    <3> QED
      BY <2>2, <3>1
  <2> QED
    BY <2>1, <2>2, <2>3, PartitionFrame
<1>6. ASSUME NEW l \in Lockers, StartPartitioned(l) PROVE PartitionInv'
  <2>1. OthersSame(l)
    BY <1>6 DEF StartPartitioned, AddPartition, OthersSame, TypeInv, RequestType,
        ControlType
  <2>2. \A k \in Lockers \ {l} : InPartition(k)' => InPartition(k)
    BY <1>6, StartJoins
  <2>3. InPartition(l)' => PartitionedOK(l)'
    BY <1>6, StartJoins DEF PartitionedOK
  <2> QED
    BY <2>1, <2>2, <2>3, PartitionFrame
<1>7. ASSUME NEW l \in Lockers, StartMigration(l) PROVE PartitionInv'
  <2>1. OthersSame(l)
    BY <1>7 DEF StartMigration, OthersSame, TypeInv, RequestType, ControlType
  <2>2. \A k \in Lockers : InPartition(k)' => InPartition(k)
    BY <1>7, SamePartitions DEF StartMigration
  <2>3. InPartition(l)' => PartitionedOK(l)'
    <3>1. CASE InPartition(l)
      <4>1. PartitionedOK(l)
        BY <3>1 DEF PartitionInv
      <4> QED
        BY <1>7, <4>1 DEF StartMigration, PartitionedOK, TypeInv, RequestType, Request,
            ControlType
    <3> QED
      BY <2>2, <3>1
  <2> QED
    BY <2>1, <2>2, <2>3, PartitionFrame
<1>8. ASSUME NEW l \in Lockers \union {Cleaner}, MigratePartition(l) PROVE PartitionInv'
  BY <1>8, MigrateEffect DEF PartitionInv, PartitionedOK
<1>9. ASSUME NEW l \in Lockers, NewRequest(l) PROVE PartitionInv'
  <2>1. OthersSame(l)
    BY <1>9 DEF NewRequest, AtLockHead, OthersSame, TypeInv, RequestType, ControlType
  <2>2. \A k \in Lockers : InPartition(k)' => InPartition(k)
    BY <1>9, SamePartitions DEF NewRequest, AtLockHead
  <2>3. InPartition(l)' => PartitionedOK(l)'
    <3>1. CASE InPartition(l)
      <4>1. PartitionedOK(l)
        BY <3>1 DEF PartitionInv
      <4> QED
        BY <1>9, <4>1 DEF NewRequest, AtLockHead, PartitionedOK, TypeInv, RequestType,
            Request, ControlType
    <3> QED
      BY <2>2, <3>1
  <2> QED
    BY <2>1, <2>2, <2>3, PartitionFrame
<1>10. ASSUME NEW l \in Lockers, ConvertRequest(l) PROVE PartitionInv'
  <2>1. OthersSame(l)
    BY <1>10 DEF ConvertRequest, AtLockHead, OthersSame, TypeInv, RequestType, ControlType
  <2>2. \A k \in Lockers : ~InPartition(k) /\ ~InPartition(k)'
    BY <1>10, ConvertRequestEffect, HeadsDef, SamePartitions
  <2>3. InPartition(l)' => PartitionedOK(l)'
    BY <2>2
  <2> QED
    BY <2>1, <2>2, <2>3, PartitionFrame
<1>11. ASSUME NEW l \in Lockers, LockComplete(l) PROVE PartitionInv'
  <2>1. OthersSame(l)
    BY <1>11 DEF LockComplete, OthersSame, TypeInv, RequestType, ControlType
  <2>2. \A k \in Lockers : InPartition(k)' => InPartition(k)
    BY <1>11, SamePartitions DEF LockComplete
  <2>3. InPartition(l)' => PartitionedOK(l)'
    <3>1. CASE InPartition(l)
      <4>1. PartitionedOK(l)
        BY <3>1 DEF PartitionInv
      <4> QED
        BY <1>11, <4>1 DEF LockComplete, PartitionedOK, TypeInv, RequestType, Request,
            ControlType
    <3> QED
      BY <2>2, <3>1
  <2> QED
    BY <2>1, <2>2, <2>3, PartitionFrame
<1>12. ASSUME NEW l \in Lockers, UnlockPartition(l) PROVE PartitionInv'
  <2>1. OthersSame(l)
    BY <1>12 DEF UnlockPartition, OthersSame, TypeInv, RequestType, ControlType
  <2>2. \A k \in Lockers : InPartition(k)' => InPartition(k)
    BY <1>12, UnlockLeaves, SamePartitions
  <2>3. InPartition(l)' => PartitionedOK(l)'
    BY <1>12, UnlockLeaves, SamePartitions
  <2> QED
    BY <2>1, <2>2, <2>3, PartitionFrame
<1>13. ASSUME NEW l \in Lockers, UnlockGranted(l) PROVE PartitionInv'
  <2>1. OthersSame(l)
    BY <1>13 DEF UnlockGranted, StartScan, OthersSame, TypeInv, RequestType, ControlType
  <2>2. \A k \in Lockers : InPartition(k)' => InPartition(k)
    BY <1>13, SamePartitions DEF UnlockGranted, StartScan
  <2>3. InPartition(l)' => PartitionedOK(l)'
    <3>1. CASE InPartition(l)
      <4>1. PartitionedOK(l)
        BY <3>1 DEF PartitionInv
      <4> QED
        BY <1>13, <4>1 DEF UnlockGranted, StartScan, PartitionedOK, TypeInv, RequestType,
            Request, ControlType
    <3> QED
      BY <2>2, <3>1
  <2> QED
    BY <2>1, <2>2, <2>3, PartitionFrame
<1>14. ASSUME NEW l \in Lockers, UnlockWaiting(l) PROVE PartitionInv'
  <2>1. OthersSame(l)
    BY <1>14 DEF UnlockWaiting, StartScan, OthersSame, TypeInv, RequestType, ControlType
  <2>2. \A k \in Lockers : InPartition(k)' => InPartition(k)
    BY <1>14, SamePartitions DEF UnlockWaiting, StartScan
  <2>3. InPartition(l)' => PartitionedOK(l)'
    <3>1. CASE InPartition(l)
      <4>1. PartitionedOK(l)
        BY <3>1 DEF PartitionInv
      <4> QED
        BY <1>14, <4>1 DEF UnlockWaiting, StartScan, PartitionedOK, TypeInv, RequestType,
            Request, ControlType
    <3> QED
      BY <2>2, <3>1
  <2> QED
    BY <2>1, <2>2, <2>3, PartitionFrame
<1>15. ASSUME NEW l \in Lockers, UnlockConverting(l) PROVE PartitionInv'
  <2>1. OthersSame(l)
    BY <1>15 DEF UnlockConverting, StartScan, OthersSame, TypeInv, RequestType, ControlType
  <2>2. \A k \in Lockers : InPartition(k)' => InPartition(k)
    BY <1>15, SamePartitions DEF UnlockConverting, StartScan
  <2>3. InPartition(l)' => PartitionedOK(l)'
    <3>1. CASE InPartition(l)
      <4>1. PartitionedOK(l)
        BY <3>1 DEF PartitionInv
      <4> QED
        BY <1>15, <4>1 DEF UnlockConverting, StartScan, PartitionedOK, TypeInv, RequestType,
            Request, ControlType
    <3> QED
      BY <2>2, <3>1
  <2> QED
    BY <2>1, <2>2, <2>3, PartitionFrame
<1>16. ASSUME NEW l \in Lockers, ScanGranted(l) PROVE PartitionInv'
  <2>0. UNCHANGED heads
    BY <1>16, ScanGrantedEffect
  <2>1. CASE UNCHANGED <<request, lock>>
    <3>1. OthersSame(l)
      BY <1>16, <2>1, ScanGrantedEffect DEF OthersSame, TypeInv, ControlType
    <3>2. ~InPartition(l)
      BY <1>16, ScanGrantedEffect DEF PartitionInv, PartitionedOK
    <3> QED
      BY <2>0, <3>1, <3>2, SamePartitions, PartitionFrame
  <2>2. ASSUME NEW it, GrantsConversion(it), UNCHANGED pc PROVE PartitionInv'
    <3>1. it \in Lockers /\ OthersKeep(it) /\ Converts(it)
      BY <1>16, <2>2, ScanGrantedGrants
    <3>2. ~InPartition(it)
      BY <3>1 DEF Converts, PartitionInv, PartitionedOK
    <3>3. OthersSame(it)
      BY <1>16, <2>2, <3>1, ScanGrantedEffect DEF OthersSame, OthersKeep
    <3> QED
      BY <2>0, <3>1, <3>2, <3>3, SamePartitions, PartitionFrame
  <2> QED
    BY <1>16, <2>1, <2>2, ScanGrantedEffect
<1>17. ASSUME NEW l \in Lockers, ScanConflicts(l) PROVE PartitionInv'
  <2>0. UNCHANGED <<heads, pc, newMode>>
    BY <1>17, ScanConflictsEffect
  <2>1. CASE UNCHANGED <<request, lock>>
    BY <2>0, <2>1, SamePartitions DEF PartitionInv, PartitionedOK
  <2>2. ASSUME NEW it, GrantsWaiter(it) PROVE PartitionInv'
    <3>1. it \in Lockers /\ OthersKeep(it) /\ LeavesQueue(it)
      BY <1>17, <2>2, ScanConflictsGrants
    <3>2. ~InPartition(it)
      BY <3>1 DEF LeavesQueue, PartitionInv, PartitionedOK
    <3>3. OthersSame(it)
      BY <2>0, <3>1 DEF OthersSame, OthersKeep
    <3> QED
      BY <2>0, <3>1, <3>2, <3>3, SamePartitions, PartitionFrame
  <2> QED
    BY <1>17, <2>1, <2>2, ScanConflictsEffect
<1>18. ASSUME NEW l \in Lockers, ScanFinish(l) PROVE PartitionInv'
  <2>1. OthersSame(l)
    BY <1>18 DEF ScanFinish, OthersSame, TypeInv, RequestType, ControlType
  <2>2. \A k \in Lockers : InPartition(k)' => InPartition(k)
    BY <1>18, SamePartitions DEF ScanFinish
  <2>3. InPartition(l)' => PartitionedOK(l)'
    <3>1. CASE InPartition(l)
      <4>1. PartitionedOK(l)
        BY <3>1 DEF PartitionInv
      <4> QED
        BY <1>18, <4>1 DEF ScanFinish, PartitionedOK
    <3> QED
      BY <2>2, <3>1
  <2> QED
    BY <2>1, <2>2, <2>3, PartitionFrame
<1>19. CASE CleanupStart
  BY <1>19, SamePartitions DEF CleanupStart, PartitionInv, PartitionedOK
<1>20. CASE CleanupFinish
  BY <1>20, SamePartitions DEF CleanupFinish, PartitionInv, PartitionedOK
<1> QED
  BY <1>1, <1>2, <1>3, <1>4, <1>5, <1>6, <1>7, <1>8, <1>9, <1>10, <1>11, <1>12, <1>13,
      <1>14, <1>15, <1>16, <1>17, <1>18, <1>19, <1>20 DEF Next, Continue, Cleanup

----------------------------------------------------------------------------
(* Modes on the granted list.                                               *)

(* A lock that may be partitioned has neither waiters nor full modes.       *)
LEMMA MayPartitionLists ==
    ASSUME TypeInv, LockerInv, ListInv, CountInv
    PROVE  MayPartition <=>
              /\ lock.conflictList = <<>>
              /\ \A l \in Members(lock.grantedList) :
                    {request[l].mode, request[l].convertMode} \subseteq IntentModes \union {"NONE"}
  <1>1. Mask(lock.conflictCounts) = {} <=> lock.conflictList = <<>>
    BY EmptyMasks
  <1>2. ASSUME Mask(lock.grantedCounts) \subseteq IntentModes, NEW l \in Members(lock.grantedList)
        PROVE  Taken(l) \subseteq IntentModes \union {"NONE"}
    <2>1. ASSUME NEW c \in Taken(l), c # "NONE" PROVE c \in IntentModes
      <3>1. c \in ModesAll /\ (l \in WithMode(lock.grantedList, c) \/ l \in ToConvert(c))
        BY <2>1, ListedModes, ListsInLockers DEF Taken, WithMode, ToConvert
      <3> QED
        BY <1>2, <3>1, GrantedMask
    <2> QED
      BY <2>1
  <1>3. ASSUME \A l \in Members(lock.grantedList) : Taken(l) \subseteq IntentModes \union {"NONE"}
        PROVE  Mask(lock.grantedCounts) \subseteq IntentModes
    <2>1. SUFFICES ASSUME NEW c \in Mask(lock.grantedCounts) PROVE c \in IntentModes
      OBVIOUS
    <2>2. c \in ModesAll /\ c # "NONE"
      BY DEF Mask, ModesAll
    <2>3. PICK l \in Members(lock.grantedList) : c \in Taken(l)
      BY <2>2, GrantedMask DEF WithMode, ToConvert, Taken
    <2> QED
      BY <1>3, <2>2, <2>3
  <1> QED
    BY <1>1, <1>2, <1>3 DEF MayPartition, Taken

(* An X on the list is alone there, and the lock is not partitioned.        *)
LEMMA FullModeAlone ==
    ASSUME TypeInv, LockerInv, ListInv, CompatibleInv, PartitionedHasNoConflicts,
           NEW l \in Members(lock.grantedList), request[l].mode = "X"
    PROVE  Members(lock.grantedList) = {l} /\ lock.partitions = <<>>
  <1>1. ASSUME NEW k \in Members(lock.grantedList), k # l PROVE FALSE
    <2>1. request[k].mode \in ModesAll /\ request[l].mode \in ModesAll
      BY ListedModes, ListsInLockers
    <2>2. ~Conflicts(request[l].mode, {request[k].mode})
      BY <1>1 DEF CompatibleInv
    <2> QED
      BY <2>1, <2>2, ConflictRules
  <1>2. lock.partitions = <<>>
    BY DEF PartitionedHasNoConflicts, IntentModes
  <1> QED
    BY <1>1, <1>2

(* Only x's mode has changed, and it conflicts with nobody's.               *)
LEMMA CompatibleFrame ==
    ASSUME TypeInv, TypeInv', LockerInv, ListInv, CompatibleInv, NEW x \in Lockers,
           OthersKeep(x),
           request'[x].mode \in ModesAll,
           x \in Members(lock'.grantedList) =>
              \A k \in Members(lock.grantedList) \ {x} :
                 ~Conflicts(request'[x].mode, {request[k].mode})
    PROVE  CompatibleInv'
  <1>1. Members(lock'.grantedList) \subseteq Lockers
    BY MembersDef DEF TypeInv, LockType, LockHead
  <1>2. SUFFICES ASSUME NEW l \in Members(lock'.grantedList), NEW k \in Members(lock'.grantedList),
                        l # k
                 PROVE  ~Conflicts(request'[l].mode, {request'[k].mode})
    BY DEF CompatibleInv
  <1>3. \A j \in Members(lock'.grantedList) \ {x} :
            /\ j \in Members(lock.grantedList) /\ request'[j] = request[j]
            /\ request[j].mode \in ModesAll
    BY <1>1, ListedModes DEF OthersKeep
  <1>4. CASE l # x /\ k # x
    <2>1. /\ l \in Members(lock.grantedList) /\ k \in Members(lock.grantedList)
          /\ request'[l] = request[l] /\ request'[k] = request[k]
      BY <1>2, <1>3, <1>4
    <2>2. ~Conflicts(request[l].mode, {request[k].mode})
      BY <1>2, <2>1 DEF CompatibleInv
    <2> QED
      BY <2>1, <2>2
  <1>5. CASE l = x
    BY <1>2, <1>3, <1>5
  <1>6. CASE k = x
    <2>1. ~Conflicts(request'[x].mode, {request[l].mode})
      BY <1>2, <1>3, <1>6
    <2>2. request[l].mode \in ModesAll /\ request'[l] = request[l]
      BY <1>2, <1>3, <1>6
    <2> QED
      BY <1>6, <2>1, <2>2, ConflictRules
  <1> QED
    BY <1>4, <1>5, <1>6

(* What nobody blocks conflicts with nobody's mode.                         *)
LEMMA NotBlocked ==
    ASSUME TypeInv, LockerInv, ListInv, NEW m \in ModesAll,
           NEW K \in SUBSET Members(lock.grantedList), ~BlockedBy(m, K)
    PROVE  \A k \in K : ~Conflicts(m, {request[k].mode})
  <1>1. SUFFICES ASSUME NEW k \in K, Conflicts(m, {request[k].mode}) PROVE FALSE
    OBVIOUS
  <1>2. Conflicts(m, Taken(k))
    BY <1>1 DEF Taken, Conflicts
  <1> QED
    BY <1>2 DEF BlockedBy

(* Whom a migration moves holds an intent mode, as do the others.           *)
LEMMA CompatibleMigrate ==
    ASSUME TypeInv, LockerInv, DistinctInv, ListInv, HeadsInv, PartitionInv, CompatibleInv,
           PartitionedHasNoConflicts, NEW l, MigratePartition(l)
    PROVE  CompatibleInv' /\ PartitionedHasNoConflicts'
  <1>1. /\ Members(lock'.grantedList) = Members(lock.grantedList) \union Moved
        /\ lock'.conflictList = lock.conflictList /\ request' = request
        /\ lock.partitions # <<>>
    BY MigrateEffect
  <1>2. /\ lock.conflictList = <<>>
        /\ \A k \in Members(lock.grantedList) :
              {request[k].mode, request[k].convertMode} \subseteq IntentModes \union {"NONE"}
    BY <1>1 DEF PartitionedHasNoConflicts
  <1>3. \A k \in Members(lock'.grantedList) : request[k].mode \in IntentModes
    BY <1>1, <1>2, MovedRequests, ListedModes, ListsInLockers DEF ModesAll
  <1>4. \A m \in IntentModes : m \in ModesAll
    BY DEF IntentModes, ModesAll
  <1>5. CompatibleInv'
    BY <1>1, <1>3, <1>4, ConflictRules DEF CompatibleInv
  <1>6. \A k \in Members(lock'.grantedList) :
            {request[k].mode, request[k].convertMode} \subseteq IntentModes \union {"NONE"}
    BY <1>1, <1>2, MovedRequests
  <1> QED
    BY <1>1, <1>2, <1>5, <1>6 DEF PartitionedHasNoConflicts

(* The lists hold lockers' requests after the step.                         *)
LEMMA ListsAfter ==
    ASSUME TypeInv'
    PROVE  /\ Members(lock'.grantedList) \subseteq Lockers
           /\ Members(lock'.conflictList) \subseteq Lockers
  BY MembersDef DEF TypeInv, LockType, LockHead

(* Every step leaves the modes on the granted list compatible.              *)
LEMMA CompatibleStep ==
    ASSUME NoCancelledConversion, TypeInv, HolderInv, LockerInv, DistinctInv, ListInv,
        HeadsInv, PartitionInv, CountInv, PartitionedHasNoConflicts, CompatibleInv,
        ConversionInv, FrontInv, Next, TypeInv'
    PROVE  CompatibleInv'
  <1>1. ASSUME NEW l \in Lockers \union {Cleaner}, MigratePartition(l) PROVE CompatibleInv'
    BY <1>1, CompatibleMigrate
  <1>2. ASSUME NEW l \in Lockers, NEW m \in {"IX", "S"}, Downgrade(l, m) PROVE
      CompatibleInv'
    <2>1. OthersKeep(l) /\ ChangesMode(l, m) /\ request[l].mode = "X"
      BY <1>2, DowngradeEffect
    <2>2. Members(lock.grantedList) = {l} /\ request'[l].mode \in ModesAll
      BY <2>1, FullModeAlone DEF ChangesMode
    <2> QED
      BY <2>1, <2>2, CompatibleFrame
  <1>3. ASSUME NEW l \in Lockers, NewRequest(l) PROVE CompatibleInv'
    <2>1. OthersKeep(l) /\ (JoinsQueue(l) \/ JoinsGranted(l))
      BY <1>3, NewRequestEffect
    <2>2. CASE JoinsQueue(l)
      BY <2>1, <2>2, CompatibleFrame DEF JoinsQueue, SameFields
    <2>3. CASE JoinsGranted(l)
      BY <2>1, <2>3, NotBlocked, CompatibleFrame DEF JoinsGranted, SameFields
    <2> QED
      BY <2>1, <2>2, <2>3
  <1>4. ASSUME NEW l \in Lockers, ConvertRequest(l) PROVE CompatibleInv'
    <2>1. /\ OthersKeep(l)
          /\ \/ WaitsToConvert(l, newMode[l])
             \/ /\ ChangesMode(l, newMode[l])
                /\ ~BlockedBy(newMode[l], Members(lock.grantedList) \ {l})
      BY <1>4, ConvertRequestEffect
    <2>2. CASE WaitsToConvert(l, newMode[l])
      BY <2>1, <2>2, CompatibleFrame DEF WaitsToConvert, CompatibleInv
    <2>3. CASE /\ ChangesMode(l, newMode[l])
               /\ ~BlockedBy(newMode[l], Members(lock.grantedList) \ {l})
      <3>1. newMode[l] \in ModesAll /\ request'[l].mode = newMode[l]
        BY <2>3 DEF ChangesMode
      <3>2. \A k \in Members(lock.grantedList) \ {l} : ~Conflicts(newMode[l], {request[k].mode})
        BY <2>3, <3>1, NotBlocked
      <3> QED
        BY <2>1, <3>1, <3>2, CompatibleFrame
    <2> QED
      BY <2>1, <2>2, <2>3
  <1>5. ASSUME NEW l \in Lockers, UnlockGranted(l) PROVE CompatibleInv'
    <2>1. OthersKeep(l) /\ LeavesGranted(l)
      BY <1>5, UnlockGrantedEffect
    <2> QED
      BY <2>1, CompatibleFrame DEF LeavesGranted
  <1>6. ASSUME NEW l \in Lockers, UnlockWaiting(l) PROVE CompatibleInv'
    <2>1. SameGranted /\ request' = request
      BY <1>6, UnlockWaitingEffect
    <2> QED
      BY <2>1 DEF SameGranted, CompatibleInv
  <1>7. ASSUME NEW l \in Lockers, ScanGranted(l),
      GrantsConversion(lock.grantedList[scan.at]) PROVE CompatibleInv'
    <2> DEFINE it == lock.grantedList[scan.at]
    <2>1. it \in Lockers /\ OthersKeep(it) /\ Converts(it)
      BY <1>7, ScanGrantedGrants
    <2> HIDE DEF it
    <2>2. /\ request'[it].mode = request[it].convertMode /\ request[it].convertMode \in ModesAll
          /\ ~BlockedBy(request[it].convertMode, Members(lock.grantedList) \ {it})
      BY <2>1 DEF Converts
    <2>3. \A k \in Members(lock.grantedList) \ {it} :
              ~Conflicts(request[it].convertMode, {request[k].mode})
      BY <2>2, NotBlocked
    <2> QED
      BY <2>1, <2>2, <2>3, CompatibleFrame
  <1>8. ASSUME NEW l \in Lockers, ScanConflicts(l), GrantsWaiter(lock.conflictList[scan.at])
      PROVE CompatibleInv'
    <2> DEFINE it == lock.conflictList[scan.at]
    <2>1. it \in Lockers /\ OthersKeep(it) /\ JoinsGranted(it)
      BY <1>8, ScanConflictsGrants
    <2> HIDE DEF it
    <2> QED
      BY <2>1, NotBlocked, CompatibleFrame DEF JoinsGranted, SameFields
  <1>9. CASE Quiet
    BY <1>9 DEF Quiet, SameLists, SameModes, CompatibleInv
  <1> QED
    BY StepKinds, <1>1, <1>2, <1>3, <1>4, <1>5, <1>6, <1>7, <1>8, <1>9 DEF StepKind, ChangesList

(* Every step keeps conflicts away from partitioned locks.                  *)
LEMMA PartitionedStep ==
    ASSUME NoCancelledConversion, TypeInv, HolderInv, LockerInv, DistinctInv, ListInv,
        HeadsInv, PartitionInv, CountInv, PartitionedHasNoConflicts, CompatibleInv,
        ConversionInv, FrontInv, Next, TypeInv'
    PROVE  PartitionedHasNoConflicts'
  <1>1. ASSUME NEW l \in Lockers \union {Cleaner}, MigratePartition(l) PROVE
      PartitionedHasNoConflicts'
    BY <1>1, CompatibleMigrate
  <1>2. ASSUME NEW l \in Lockers, NEW m \in {"IX", "S"}, Downgrade(l, m) PROVE
      PartitionedHasNoConflicts'
    <2>1. ChangesMode(l, m) /\ request[l].mode = "X" /\ lock'.partitions = lock.partitions
      BY <1>2, DowngradeEffect
    <2>2. lock.partitions = <<>>
      BY <2>1, FullModeAlone DEF ChangesMode
    <2> QED
      BY <2>1, <2>2 DEF PartitionedHasNoConflicts
  <1>3. ASSUME NEW l \in Lockers, NewRequest(l) PROVE PartitionedHasNoConflicts'
    BY <1>3, NewRequestEffect DEF PartitionedHasNoConflicts
  <1>4. ASSUME NEW l \in Lockers, ConvertRequest(l) PROVE PartitionedHasNoConflicts'
    BY <1>4, ConvertRequestEffect DEF PartitionedHasNoConflicts
  <1>5. ASSUME NEW l \in Lockers, UnlockGranted(l) PROVE PartitionedHasNoConflicts'
    <2>1. OthersKeep(l) /\ LeavesGranted(l) /\ SameQueue /\ lock'.partitions = lock.partitions
      BY <1>5, UnlockGrantedEffect
    <2>2. \A k \in Members(lock'.grantedList) :
              k \in Members(lock.grantedList) /\ request'[k] = request[k]
      BY <2>1, ListsAfter DEF LeavesGranted, OthersKeep
    <2> QED
      BY <2>1, <2>2 DEF PartitionedHasNoConflicts, SameQueue
  <1>6. ASSUME NEW l \in Lockers, UnlockWaiting(l) PROVE PartitionedHasNoConflicts'
    <2>1. LeavesQueue(l) /\ lock'.partitions = lock.partitions
      BY <1>6, UnlockWaitingEffect
    <2> QED
      BY <2>1, ListsInLockers DEF LeavesQueue, PartitionedHasNoConflicts
  <1>7. ASSUME NEW l \in Lockers, ScanGranted(l),
      GrantsConversion(lock.grantedList[scan.at]) PROVE PartitionedHasNoConflicts'
    <2> DEFINE it == lock.grantedList[scan.at]
    <2>1. it \in Lockers /\ OthersKeep(it) /\ Converts(it) /\ lock'.partitions = lock.partitions
      BY <1>7, ScanGrantedGrants
    <2> HIDE DEF it
    <2>2. \A k \in Members(lock'.grantedList) :
              /\ k \in Members(lock.grantedList)
              /\ k # it => request'[k] = request[k]
      BY <2>1, ListsAfter DEF Converts, OthersKeep
    <2>3. lock'.conflictList = lock.conflictList
      BY <2>1 DEF Converts, SameQueue
    <2>4. /\ request'[it].mode = request[it].convertMode /\ request'[it].convertMode = "NONE"
          /\ it \in Members(lock.grantedList)
      BY <2>1 DEF Converts
    <2> QED
      BY <2>1, <2>2, <2>3, <2>4 DEF PartitionedHasNoConflicts
  <1>8. ASSUME NEW l \in Lockers, ScanConflicts(l), GrantsWaiter(lock.conflictList[scan.at])
      PROVE PartitionedHasNoConflicts'
    <2> DEFINE it == lock.conflictList[scan.at]
    <2>1. LeavesQueue(it) /\ lock'.partitions = lock.partitions
      BY <1>8, ScanConflictsGrants
    <2> HIDE DEF it
    <2> QED
      BY <2>1, ListsInLockers DEF LeavesQueue, PartitionedHasNoConflicts
  <1>9. CASE Quiet
    <2>1. CASE lock'.partitions = lock.partitions
      BY <1>9, <2>1 DEF Quiet, SameLists, SameModes, PartitionedHasNoConflicts
    <2>2. ASSUME NEW l \in Lockers, StartPartitioned(l) PROVE PartitionedHasNoConflicts'
      <3>1. /\ lock.conflictList = <<>>
            /\ \A k \in Members(lock.grantedList) :
                  {request[k].mode, request[k].convertMode} \subseteq IntentModes \union {"NONE"}
        BY <2>2, MayPartitionLists DEF StartPartitioned
      <3> QED
        BY <1>9, <3>1 DEF Quiet, SameLists, SameModes, PartitionedHasNoConflicts
    <2>3. ASSUME NEW l \in Lockers \union {Cleaner}, MigratePartition(l)
          PROVE  PartitionedHasNoConflicts'
      BY <2>3, CompatibleMigrate
    <2>4. ASSUME NEW l \in Lockers, UnlockPartition(l) \/ \E m \in LockModes : Lock(l, m)
          PROVE  lock'.partitions = lock.partitions
      BY <2>4, UnlockLeaves, LockJoins
    <2> QED
      BY <2>1, <2>2, <2>3, <2>4, PartitionKinds DEF PartitionKind
  <1> QED
    BY StepKinds, <1>1, <1>2, <1>3, <1>4, <1>5, <1>6, <1>7, <1>8, <1>9 DEF StepKind, ChangesList

----------------------------------------------------------------------------
(* What a scan has passed.                                                  *)

SameScan ==
    /\ scan' = scan
    /\ \A k \in Lockers : \A s \in ScanStates : pc'[k] = s <=> pc[k] = s

ScanKind ==
    \/ SameScan
    \/ \E l \in Lockers : \E m \in {"IX", "S"} : Downgrade(l, m)
    \/ \E l \in Lockers : \/ UnlockGranted(l) \/ UnlockWaiting(l)
                          \/ ScanGranted(l) \/ ScanConflicts(l) \/ ScanFinish(l)

(* The other steps leave the scan alone.                                    *)
LEMMA ScanKinds ==
    ASSUME TypeInv, LockerInv, Next
    PROVE  ScanKind
<1>1. ASSUME NEW l \in Lockers, NEW m \in LockModes, Lock(l, m) PROVE ScanKind
  BY <1>1 DEF ScanKind, SameScan, ScanStates, Lock, TypeInv, ControlType
<1>2. ASSUME NEW l \in Lockers, NEW m \in ConvertModes, Convert(l, m) PROVE ScanKind
  BY <1>2 DEF ScanKind, SameScan, ScanStates, Convert, TypeInv, ControlType
<1>3. ASSUME NEW l \in Lockers, NEW m \in {"IX", "S"}, Downgrade(l, m) PROVE ScanKind
  BY <1>3 DEF ScanKind
<1>4. ASSUME NEW l \in Lockers, LockTimeout(l) PROVE ScanKind
  BY <1>4 DEF ScanKind, SameScan, ScanStates, LockTimeout, TypeInv, ControlType
<1>5. ASSUME NEW l \in Lockers, Unlock(l) PROVE ScanKind
  BY <1>5 DEF ScanKind, SameScan, ScanStates, Unlock, TypeInv, ControlType
<1>6. ASSUME NEW l \in Lockers, StartPartitioned(l) PROVE ScanKind
  BY <1>6
    DEF ScanKind, SameScan, ScanStates, StartPartitioned, AddPartition, TypeInv, ControlType
<1>7. ASSUME NEW l \in Lockers, StartMigration(l) PROVE ScanKind
  BY <1>7 DEF ScanKind, SameScan, ScanStates, StartMigration, TypeInv, ControlType
<1>8. ASSUME NEW l \in Lockers \union {Cleaner}, MigratePartition(l) PROVE ScanKind
  BY <1>8 DEF ScanKind, SameScan, ScanStates, MigratePartition, TypeInv, ControlType
<1>9. ASSUME NEW l \in Lockers, NewRequest(l) PROVE ScanKind
  BY <1>9 DEF ScanKind, SameScan, ScanStates, NewRequest, AtLockHead, TypeInv, ControlType
<1>10. ASSUME NEW l \in Lockers, ConvertRequest(l) PROVE ScanKind
  BY <1>10 DEF ScanKind, SameScan, ScanStates, ConvertRequest, AtLockHead, TypeInv, ControlType
<1>11. ASSUME NEW l \in Lockers, LockComplete(l) PROVE ScanKind
  BY <1>11 DEF ScanKind, SameScan, ScanStates, LockComplete, TypeInv, ControlType
<1>12. ASSUME NEW l \in Lockers, UnlockPartition(l) PROVE ScanKind
  BY <1>12 DEF ScanKind, SameScan, ScanStates, UnlockPartition, TypeInv, ControlType
<1>13. ASSUME NEW l \in Lockers, UnlockGranted(l) PROVE ScanKind
  BY <1>13 DEF ScanKind
<1>14. ASSUME NEW l \in Lockers, UnlockWaiting(l) PROVE ScanKind
  BY <1>14 DEF ScanKind
<1>15. ASSUME NEW l \in Lockers, UnlockConverting(l) PROVE ScanKind
  BY <1>15 DEF UnlockConverting, LockerInv, LockerOK, RequestOK
<1>16. ASSUME NEW l \in Lockers, ScanGranted(l) PROVE ScanKind
  BY <1>16 DEF ScanKind
<1>17. ASSUME NEW l \in Lockers, ScanConflicts(l) PROVE ScanKind
  BY <1>17 DEF ScanKind
<1>18. ASSUME NEW l \in Lockers, ScanFinish(l) PROVE ScanKind
  BY <1>18 DEF ScanKind
<1>19. CASE CleanupStart
  BY <1>19 DEF ScanKind, SameScan, ScanStates, CleanupStart, TypeInv, ControlType
<1>20. CASE CleanupFinish
  BY <1>20 DEF ScanKind, SameScan, ScanStates, CleanupFinish, TypeInv, ControlType
<1> QED
  BY <1>1, <1>2, <1>3, <1>4, <1>5, <1>6, <1>7, <1>8, <1>9, <1>10, <1>11, <1>12, <1>13,
      <1>14, <1>15, <1>16, <1>17, <1>18, <1>19, <1>20 DEF Next, Continue, Cleanup

(* Who scans, when no scan begins, moves on or ends.                        *)
LEMMA SameScanning ==
    ASSUME SameScan
    PROVE  /\ scan' = scan
           /\ Scanning(ScanStates)' <=> Scanning(ScanStates)
           /\ Scanning({"ScanGranted"})' <=> Scanning({"ScanGranted"})
           /\ Scanning({"ScanConflicts"})' <=> Scanning({"ScanConflicts"})
  BY DEF SameScan, Scanning, ScanStates

(* One thread scans at a time.                                              *)
LEMMA WhoScans ==
    ASSUME HolderInv, NEW l \in Lockers
    PROVE  /\ pc[l] = "ScanGranted" =>
                 /\ Scanning(ScanStates) /\ Scanning({"ScanGranted"})
                 /\ ~Scanning({"ScanConflicts"})
           /\ pc[l] = "ScanConflicts" =>
                 /\ Scanning(ScanStates) /\ Scanning({"ScanConflicts"})
                 /\ ~Scanning({"ScanGranted"})
  BY DEF HolderInv, MutexStates, ScanStates, Scanning

(* The same after the step.                                                 *)
LEMMA WhoScansAfter ==
    ASSUME HolderInv', NEW l \in Lockers
    PROVE  /\ pc'[l] = "ScanGranted" =>
                 /\ Scanning(ScanStates)' /\ Scanning({"ScanGranted"})'
                 /\ ~Scanning({"ScanConflicts"})'
           /\ pc'[l] = "ScanConflicts" =>
                 /\ Scanning(ScanStates)' /\ Scanning({"ScanConflicts"})'
                 /\ ~Scanning({"ScanGranted"})'
  BY DEF HolderInv, MutexStates, ScanStates, Scanning

(* When nobody scans, nobody walks either list.                             *)
LEMMA NobodyScansAny ==
    NobodyScans => ~Scanning({"ScanGranted"}) /\ ~Scanning({"ScanConflicts"})
  BY DEF NobodyScans, Scanning, ScanStates

(* The turns of the two walks.                                              *)
LEMMA ScanGrantedTurn ==
    ASSUME TypeInv, NEW l \in Lockers, ScanGranted(l)
    PROVE  LET it == lock.grantedList[scan.at] IN
           /\ pc[l] = "ScanGranted" /\ scan'.check = scan.check
           /\ \/ /\ scan.at <= Len(lock.grantedList) /\ it \in Members(lock.grantedList)
                 /\ scan'.at = scan.at + 1 /\ pc'[l] = "ScanGranted"
                 /\ \/ GrantsConversion(it)
                    \/ /\ UNCHANGED <<request, lock>>
                       /\ request[it].status = "Converting" =>
                             Conflicts(request[it].convertMode,
                                       GrantedWithout({request[it].mode, request[it].convertMode}))
              \/ /\ ~(scan.at <= Len(lock.grantedList) /\ lock.conversionsCount > 0)
                 /\ scan'.at = 1 /\ pc'[l] = "ScanConflicts"
                 /\ UNCHANGED <<request, lock>>
  <1>1. pc[l] = "ScanGranted" /\ scan'.check = scan.check
    BY DEF ScanGranted, TypeInv, ControlType
  <1>2. CASE scan.at <= Len(lock.grantedList) /\ lock.conversionsCount > 0
    <2>1. scan'.at = scan.at + 1 /\ pc'[l] = "ScanGranted"
      BY <1>1, <1>2 DEF ScanGranted, TypeInv, ControlType
    <2> QED
      BY <1>1, <1>2, <2>1, ScannedGranted DEF ScanGranted, GrantsConversion
  <1>3. CASE ~(scan.at <= Len(lock.grantedList) /\ lock.conversionsCount > 0)
    BY <1>1, <1>3 DEF ScanGranted, TypeInv, ControlType
  <1> QED
    BY <1>2, <1>3

(* A turn of the walk of the queue.                                         *)
LEMMA ScanConflictsTurn ==
    ASSUME TypeInv, NEW l \in Lockers, ScanConflicts(l)
    PROVE  LET it == lock.conflictList[scan.at] IN
           /\ pc[l] = "ScanConflicts" /\ pc' = pc /\ scan.check
           /\ it \in Members(lock.conflictList) /\ scan.at \in 1..Len(lock.conflictList)
           /\ \/ /\ Conflicts(request[it].mode, Mask(lock.grantedCounts))
                 /\ scan'.at = scan.at + 1 /\ scan'.check = scan.check
                 /\ UNCHANGED <<request, lock>>
              \/ /\ GrantsWaiter(it)
                 /\ scan'.at = scan.at /\ scan'.check = (request[it].mode # "X")
  <1>1. /\ pc[l] = "ScanConflicts" /\ pc' = pc /\ scan.check
        /\ lock.conflictList[scan.at] \in Members(lock.conflictList)
        /\ lock.conflictList[scan.at] \in Lockers
        /\ scan.at \in 1..Len(lock.conflictList)
    BY ScannedWaiter DEF ScanConflicts, ScanGoesOn
  <1>2. CASE Conflicts(request[lock.conflictList[scan.at]].mode, Mask(lock.grantedCounts))
    BY <1>1, <1>2 DEF ScanConflicts, TypeInv, ControlType
  <1>3. CASE ~Conflicts(request[lock.conflictList[scan.at]].mode, Mask(lock.grantedCounts))
    <2>1. GrantsWaiter(lock.conflictList[scan.at])
      BY <1>1, <1>3 DEF ScanConflicts, GrantsWaiter
    <2>2. /\ scan'.at = scan.at
          /\ scan'.check = (request[lock.conflictList[scan.at]].mode # "X")
      BY <1>3 DEF ScanConflicts, TypeInv, ControlType
    <2> QED
      BY <1>1, <2>1, <2>2
  <1> QED
    BY <1>2, <1>3

BlockedAfter(m, K) == \E k \in K : Conflicts(m, {request'[k].mode, request'[k].convertMode})

\* The requests of K block whom they blocked.
KeepBlocking(K) ==
    \A k \in K : \A m \in ModesAll :
        Conflicts(m, Taken(k)) => Conflicts(m, {request'[k].mode, request'[k].convertMode})

(* Who is blocked by requests that keep blocking stays blocked.             *)
LEMMA StillBlocked ==
    ASSUME NEW m \in ModesAll, NEW K, NEW J, J \subseteq K, KeepBlocking(J), BlockedBy(m, J)
    PROVE  BlockedAfter(m, K)
  BY DEF BlockedBy, BlockedAfter, KeepBlocking

(* Each of these leaves the granted list blocking.                          *)
LEMMA BlockingQuiet ==
    ASSUME Quiet
    PROVE  KeepBlocking(Members(lock.grantedList))
  BY DEF Quiet, SameModes, KeepBlocking, Taken

(* So does one request that is not listed, waits to convert, or gets a mode *)
(* that covers its own.                                                     *)
LEMMA BlockingOthers ==
    ASSUME TypeInv, NEW x \in Lockers, OthersKeep(x),
           \/ x \notin Members(lock.grantedList)
           \/ \E n : WaitsToConvert(x, n)
           \/ \E n : ChangesMode(x, n) /\ IsModeCovered(request[x].mode, n)
           \/ Converts(x)
    PROVE  KeepBlocking(Members(lock.grantedList))
  <1>1. \A k \in Members(lock.grantedList) \ {x} : request'[k] = request[k]
    BY ListsInLockers DEF OthersKeep
  <1>2. ASSUME x \in Members(lock.grantedList), NEW m \in ModesAll, Conflicts(m, Taken(x))
        PROVE  Conflicts(m, {request'[x].mode, request'[x].convertMode})
    <2>1. CASE \E n : WaitsToConvert(x, n)
      <3>1. request'[x].mode = request[x].mode /\ request[x].convertMode = "NONE"
        BY <2>1 DEF WaitsToConvert
      <3>2. Conflicts(m, {request[x].mode})
        BY <1>2, <3>1, ConflictTable DEF Taken, Conflicts, ModesAll
      <3> QED
        BY <3>1, <3>2 DEF Conflicts
    <2>2. ASSUME NEW n, ChangesMode(x, n), IsModeCovered(request[x].mode, n)
          PROVE  Conflicts(m, {request'[x].mode, request'[x].convertMode})
      <3>1. /\ request'[x].mode = n /\ request[x].convertMode = "NONE"
            /\ request[x].mode \in ModesAll /\ n \in ModesAll
        BY <2>2 DEF ChangesMode
      <3>2. Conflicts(m, {request[x].mode})
        BY <1>2, <3>1, ConflictTable DEF Taken, Conflicts, ModesAll
      <3>3. Conflicts(m, {n})
        BY <2>2, <3>1, <3>2, CoverRules
      <3> QED
        BY <3>1, <3>3 DEF Conflicts
    <2>3. CASE Converts(x)
      <3>1. /\ request'[x].mode = request[x].convertMode
            /\ request[x].mode \in ModesAll /\ request[x].convertMode \in ModesAll
            /\ IsModeCovered(request[x].mode, request[x].convertMode)
        BY <2>3 DEF Converts
      <3>2. Conflicts(m, {request[x].mode}) \/ Conflicts(m, {request[x].convertMode})
        BY <1>2 DEF Taken, Conflicts
      <3>3. Conflicts(m, {request[x].convertMode})
        BY <3>1, <3>2, CoverRules
      <3> QED
        BY <3>1, <3>3 DEF Conflicts
    <2> QED
      BY <1>2, <2>1, <2>2, <2>3
  <1> QED
    BY <1>1, <1>2 DEF KeepBlocking, Taken

(* A conversion stays blocked by whom the list keeps.                       *)
LEMMA ConversionFrame ==
    ASSUME TypeInv, Members(lock.grantedList) \subseteq Members(lock'.grantedList),
           KeepBlocking(Members(lock.grantedList)),
           \A i \in 1..Len(lock'.grantedList) :
              LET l == lock'.grantedList[i] IN
              request'[l].status = "Converting" /\ (Scanning({"ScanGranted"})' => i < scan'.at) =>
                 /\ request'[l].convertMode \in ModesAll
                 /\ BlockedBy(request'[l].convertMode, Members(lock.grantedList) \ {l})
    PROVE  ConversionInv'
  <1>1. SUFFICES ASSUME NEW i \in 1..Len(lock'.grantedList),
                        request'[lock'.grantedList[i]].status = "Converting",
                        Scanning({"ScanGranted"})' => i < scan'.at
                 PROVE  BlockedAfter(request'[lock'.grantedList[i]].convertMode,
                                     Members(lock'.grantedList) \ {lock'.grantedList[i]})
    BY DEF ConversionInv, BlockedBy, BlockedAfter, Taken
  <1> DEFINE l == lock'.grantedList[i]
  <1>2. /\ request'[l].convertMode \in ModesAll
        /\ BlockedBy(request'[l].convertMode, Members(lock.grantedList) \ {l})
    BY <1>1
  <1> HIDE DEF l
  <1>3. KeepBlocking(Members(lock.grantedList) \ {l})
    BY DEF KeepBlocking
  <1>4. BlockedAfter(request'[l].convertMode, Members(lock'.grantedList) \ {l})
    BY <1>2, <1>3, StillBlocked
  <1> QED
    BY <1>4 DEF l

(* The list has only grown at its end.                                      *)
LEMMA GrantedGrows ==
    ASSUME TypeInv, TypeInv', Distinct(lock'.grantedList),
           \A j \in 1..Len(lock.grantedList) :
              j \in 1..Len(lock'.grantedList) /\ lock'.grantedList[j] = lock.grantedList[j],
           NEW i \in 1..Len(lock'.grantedList), lock'.grantedList[i] \in Members(lock.grantedList)
    PROVE  i \in 1..Len(lock.grantedList) /\ lock.grantedList[i] = lock'.grantedList[i]
  <1>1. PICK j \in 1..Len(lock.grantedList) : lock.grantedList[j] = lock'.grantedList[i]
    BY MembersDef DEF TypeInv, LockType, LockHead
  <1>2. j \in 1..Len(lock'.grantedList) /\ lock'.grantedList[j] = lock'.grantedList[i]
    BY <1>1
  <1>3. i = j
    BY <1>2 DEF Distinct
  <1> QED
    BY <1>1, <1>3

(* Append leaves the indices before it.                                     *)
LEMMA AppendGrows ==
    ASSUME TypeInv, NEW x \in Lockers, lock'.grantedList = Append(lock.grantedList, x)
    PROVE  \A j \in 1..Len(lock.grantedList) :
              j \in 1..Len(lock'.grantedList) /\ lock'.grantedList[j] = lock.grantedList[j]
  <1>1. lock.grantedList \in Seq(Lockers) /\ Len(lock.grantedList) \in Nat
    BY DEF TypeInv, LockType, LockHead
  <1>2. /\ Len(lock'.grantedList) = Len(lock.grantedList) + 1
        /\ \A j \in 1..Len(lock.grantedList) : lock'.grantedList[j] = lock.grantedList[j]
    BY <1>1, AppendProperties
  <1> QED
    BY <1>1, <1>2

(* What ConversionInv says of the conversion at a place that no scan has    *)
(* still to reach.                                                          *)
LEMMA ConversionAt ==
    ASSUME TypeInv, LockerInv, ListInv, ConversionInv, NEW i \in 1..Len(lock.grantedList)
    PROVE  LET l == lock.grantedList[i] IN
           /\ l \in Members(lock.grantedList) /\ l \in Lockers
           /\ request[l].status = "Converting" => request[l].convertMode \in ModesAll
           /\ request[l].status = "Converting" /\ (Scanning({"ScanGranted"}) => i < scan.at) =>
                 BlockedBy(request[l].convertMode, Members(lock.grantedList) \ {l})
  <1>1. lock.grantedList[i] \in Members(lock.grantedList)
    BY MembersDef DEF TypeInv, LockType, LockHead
  <1>2. lock.grantedList[i] \in Lockers
    BY <1>1, ListsInLockers
  <1> QED
    BY <1>1, <1>2, ListedModes DEF ConversionInv

(* A request joins the end of the list.                                     *)
LEMMA ConversionJoins ==
    ASSUME TypeInv, TypeInv', LockerInv, ListInv, ConversionInv, NEW x \in Lockers,
           OthersKeep(x),
           JoinsGranted(x), ~Scanning({"ScanGranted"})
    PROVE  ConversionInv'
  <1>1. /\ x \notin Members(lock.grantedList) /\ request'[x].status = "Granted"
        /\ lock'.grantedList = Append(lock.grantedList, x) /\ Distinct(lock'.grantedList)
    BY DEF JoinsGranted
  <1>2. Members(lock.grantedList) \subseteq Members(lock'.grantedList)
    BY <1>1, ListsInLockers DEF OthersKeep
  <1>3. KeepBlocking(Members(lock.grantedList))
    BY <1>1, BlockingOthers
  <1>4. ASSUME NEW i \in 1..Len(lock'.grantedList), request'[lock'.grantedList[i]].status = "Converting"
        PROVE  LET l == lock'.grantedList[i] IN
               /\ request'[l].convertMode \in ModesAll
               /\ BlockedBy(request'[l].convertMode, Members(lock.grantedList) \ {l})
    <2> DEFINE l == lock'.grantedList[i]
    <2>1. l \in Members(lock'.grantedList)
      BY <1>4, MembersDef DEF TypeInv, LockType, LockHead
    <2>2. l # x /\ l \in Lockers /\ l \in Members(lock.grantedList) /\ request'[l] = request[l]
      BY <1>1, <1>4, <2>1, ListsAfter DEF OthersKeep
    <2>3. i \in 1..Len(lock.grantedList) /\ lock.grantedList[i] = l
      BY <1>1, <2>2, AppendGrows, GrantedGrows
    <2> QED
      BY <1>4, <2>2, <2>3, ConversionAt
  <1> QED
    BY <1>2, <1>3, <1>4, ConversionFrame

(* The list stays, and one of its requests changes.                         *)
LEMMA ConversionChanges ==
    ASSUME TypeInv, LockerInv, ListInv, ConversionInv, NEW x \in Lockers, OthersKeep(x),
           lock'.grantedList = lock.grantedList, KeepBlocking(Members(lock.grantedList)),
           request'[x].status = "Converting" =>
              /\ request'[x].convertMode \in ModesAll
              /\ BlockedBy(request'[x].convertMode, Members(lock.grantedList) \ {x}),
           \A i \in 1..Len(lock.grantedList) :
              lock.grantedList[i] # x /\ (Scanning({"ScanGranted"})' => i < scan'.at) =>
                 (Scanning({"ScanGranted"}) => i < scan.at)
    PROVE  ConversionInv'
  <1>1. ASSUME NEW i \in 1..Len(lock.grantedList),
               request'[lock.grantedList[i]].status = "Converting",
               Scanning({"ScanGranted"})' => i < scan'.at
        PROVE  LET l == lock.grantedList[i] IN
               /\ request'[l].convertMode \in ModesAll
               /\ BlockedBy(request'[l].convertMode, Members(lock.grantedList) \ {l})
    <2> DEFINE l == lock.grantedList[i]
    <2>1. CASE l = x
      BY <1>1, <2>1
    <2>2. CASE l # x
      <3>1. l \in Lockers /\ request'[l] = request[l]
        BY <2>2, ConversionAt DEF OthersKeep
      <3>2. Scanning({"ScanGranted"}) => i < scan.at
        BY <1>1, <2>2
      <3> QED
        BY <1>1, <3>1, <3>2, ConversionAt
    <2> QED
      BY <2>1, <2>2
  <1>2. Len(lock'.grantedList) = Len(lock.grantedList)
        /\ \A i \in 1..Len(lock.grantedList) : lock'.grantedList[i] = lock.grantedList[i]
    OBVIOUS
  <1> QED
    BY <1>1, <1>2, ConversionFrame

(* Nothing has changed but the place of the scan.                           *)
LEMMA ConversionQuiet ==
    ASSUME TypeInv, LockerInv, ListInv, ConversionInv, Quiet,
           \A i \in 1..Len(lock.grantedList) :
              /\ request[lock.grantedList[i]].status = "Converting"
              /\ Scanning({"ScanGranted"})' => i < scan'.at
              => BlockedBy(request[lock.grantedList[i]].convertMode,
                           Members(lock.grantedList) \ {lock.grantedList[i]})
    PROVE  ConversionInv'
  <1>1. lock'.grantedList = lock.grantedList
    BY DEF Quiet, SameLists
  <1>2. ASSUME NEW i \in 1..Len(lock.grantedList),
               request'[lock.grantedList[i]].status = "Converting",
               Scanning({"ScanGranted"})' => i < scan'.at
        PROVE  LET l == lock.grantedList[i] IN
               /\ request'[l].convertMode \in ModesAll
               /\ BlockedBy(request'[l].convertMode, Members(lock.grantedList) \ {l})
    <2> DEFINE l == lock.grantedList[i]
    <2>1. /\ l \in Members(lock.grantedList)
          /\ request[l].status = "Converting" => request[l].convertMode \in ModesAll
      BY ConversionAt
    <2>2. request'[l].status = request[l].status /\ request'[l].convertMode = request[l].convertMode
      BY <2>1 DEF Quiet, SameModes
    <2> QED
      BY <1>2, <2>1, <2>2
  <1> QED
    BY <1>1, <1>2, BlockingQuiet, ConversionFrame

(* A scan that has begun has passed nothing.                                *)
LEMMA ConversionBegins ==
    ASSUME TypeInv', NEW c, StartsScan(c)
    PROVE  ConversionInv'
  <1>1. Scanning({"ScanGranted"})' /\ scan'.at = 1
    BY DEF StartsScan
  <1>2. \A i \in 1..Len(lock'.grantedList) : ~(i < scan'.at)
    BY <1>1
  <1> QED
    BY <1>1, <1>2 DEF ConversionInv

(* Every step leaves the conversions that a scan has passed blocked.        *)
LEMMA ConversionStep ==
    ASSUME NoCancelledConversion, TypeInv, HolderInv, LockerInv, DistinctInv, ListInv,
        HeadsInv, PartitionInv, CountInv, PartitionedHasNoConflicts, CompatibleInv,
        ConversionInv, FrontInv, Next, TypeInv', HolderInv'
    PROVE  ConversionInv'
  <1>1. ASSUME NEW l \in Lockers \union {Cleaner}, MigratePartition(l) PROVE ConversionInv'
    <2>1. /\ Members(lock'.grantedList) = Members(lock.grantedList) \union Moved
          /\ Distinct(lock'.grantedList) /\ request' = request /\ UNCHANGED <<pc, scan>>
          /\ \A i \in 1..Len(lock.grantedList) :
                i \in 1..Len(lock'.grantedList) /\ lock'.grantedList[i] = lock.grantedList[i]
      BY <1>1, MigrateEffect
    <2>2. KeepBlocking(Members(lock.grantedList))
      BY <2>1 DEF KeepBlocking, Taken
    <2>3. ASSUME NEW i \in 1..Len(lock'.grantedList),
                 request'[lock'.grantedList[i]].status = "Converting",
                 Scanning({"ScanGranted"})' => i < scan'.at
          PROVE  LET k == lock'.grantedList[i] IN
                 /\ request'[k].convertMode \in ModesAll
                 /\ BlockedBy(request'[k].convertMode, Members(lock.grantedList) \ {k})
      <3> DEFINE k == lock'.grantedList[i]
      <3>1. k \in Members(lock'.grantedList)
        BY <2>3, MembersDef DEF TypeInv, LockType, LockHead
      <3>2. k \in Members(lock.grantedList)
        BY <2>1, <2>3, <3>1, MovedRequests
      <3>3. i \in 1..Len(lock.grantedList) /\ lock.grantedList[i] = k
        BY <2>1, <3>2, GrantedGrows
      <3>4. Scanning({"ScanGranted"}) => i < scan.at
        BY <2>1, <2>3 DEF Scanning
      <3> QED
        BY <2>1, <2>3, <3>3, <3>4, ConversionAt
    <2> QED
      BY <2>1, <2>2, <2>3, ConversionFrame
  <1>2. ASSUME NEW l \in Lockers, NEW m \in {"IX", "S"}, Downgrade(l, m) PROVE
      ConversionInv'
    BY <1>2, DowngradeEffect, ConversionBegins
  <1>3. ASSUME NEW l \in Lockers, NewRequest(l) PROVE ConversionInv'
    <2>1. /\ OthersKeep(l) /\ NobodyScans /\ NobodyScans'
          /\ JoinsQueue(l) \/ JoinsGranted(l)
      BY <1>3, NewRequestEffect
    <2>2. ~Scanning({"ScanGranted"})
      BY <2>1, NobodyScansAny
    <2>3. CASE JoinsQueue(l)
      <3>1. /\ lock'.grantedList = lock.grantedList /\ request'[l].status = "Waiting"
            /\ l \notin Members(lock.grantedList)
        BY <2>3 DEF JoinsQueue, SameGranted
      <3>2. KeepBlocking(Members(lock.grantedList))
        BY <2>1, <3>1, BlockingOthers
      <3> QED
        BY <2>1, <2>2, <3>1, <3>2, ConversionChanges
    <2>4. CASE JoinsGranted(l)
      BY <2>1, <2>2, <2>4, ConversionJoins
    <2> QED
      BY <2>1, <2>3, <2>4
  <1>4. ASSUME NEW l \in Lockers, ConvertRequest(l) PROVE ConversionInv'
    <2>1. /\ OthersKeep(l) /\ NobodyScans
          /\ IsModeCovered(request[l].mode, newMode[l])
          /\ WaitsToConvert(l, newMode[l]) \/ ChangesMode(l, newMode[l])
      BY <1>4, ConvertRequestEffect
    <2>2. KeepBlocking(Members(lock.grantedList))
      BY <2>1, BlockingOthers
    <2>3. /\ lock'.grantedList = lock.grantedList
          /\ request'[l].status = "Converting" =>
                /\ request'[l].convertMode \in ModesAll
                /\ BlockedBy(request'[l].convertMode, Members(lock.grantedList) \ {l})
      BY <2>1 DEF WaitsToConvert, ChangesMode
    <2>4. ~Scanning({"ScanGranted"})
      BY <2>1, NobodyScansAny
    <2> QED
      BY <2>1, <2>2, <2>3, <2>4, ConversionChanges
  <1>5. ASSUME NEW l \in Lockers, UnlockGranted(l) PROVE ConversionInv'
    BY <1>5, UnlockGrantedEffect, ConversionBegins
  <1>6. ASSUME NEW l \in Lockers, UnlockWaiting(l) PROVE ConversionInv'
    BY <1>6, UnlockWaitingEffect, ConversionBegins
  <1>7. ASSUME NEW l \in Lockers, ScanGranted(l),
      GrantsConversion(lock.grantedList[scan.at]) PROVE ConversionInv'
    <2> DEFINE it == lock.grantedList[scan.at]
    <2>1. it \in Lockers /\ OthersKeep(it) /\ Converts(it)
      BY <1>7, ScanGrantedGrants
    <2>2. /\ lock'.grantedList = lock.grantedList /\ request'[it].status = "Granted"
          /\ request[it].status = "Converting"
      BY <2>1 DEF Converts
    <2>3. scan'.at = scan.at + 1 /\ pc[l] = "ScanGranted" /\ pc'[l] = "ScanGranted"
      BY <1>7, <2>2, ScanGrantedTurn
    <2>4. Scanning({"ScanGranted"}) /\ Scanning({"ScanGranted"})'
      BY <2>3, WhoScans, WhoScansAfter
    <2>5. \A i \in 1..Len(lock.grantedList) :
              lock.grantedList[i] # it /\ i < scan'.at => i < scan.at
      <3>1. scan.at \in Nat
        BY DEF TypeInv, ControlType
      <3> QED
        BY <2>3, <3>1
    <2>6. KeepBlocking(Members(lock.grantedList))
      BY <2>1, BlockingOthers
    <2> HIDE DEF it
    <2> QED
      BY <2>1, <2>2, <2>4, <2>5, <2>6, ConversionChanges
  <1>8. ASSUME NEW l \in Lockers, ScanConflicts(l), GrantsWaiter(lock.conflictList[scan.at])
      PROVE ConversionInv'
    <2>1. /\ lock.conflictList[scan.at] \in Lockers /\ OthersKeep(lock.conflictList[scan.at])
          /\ JoinsGranted(lock.conflictList[scan.at])
      BY <1>8, ScanConflictsGrants
    <2>2. ~Scanning({"ScanGranted"})
      BY <1>8, ScanConflictsEffect, WhoScans
    <2> QED
      BY <2>1, <2>2, ConversionJoins
  <1>9. CASE Quiet
    <2>1. CASE SameScan
      BY <1>9, <2>1, SameScanning, ConversionAt, ConversionQuiet
    <2>2. ASSUME NEW l \in Lockers, ScanGranted(l) PROVE ConversionInv'
      <3> DEFINE it == lock.grantedList[scan.at]
      <3>1. scan.at \in Nat \ {0}
        BY DEF TypeInv, ControlType
      <3>2. CASE GrantsConversion(it)
        BY <1>7, <2>2, <3>2
      <3>3. CASE /\ scan.at <= Len(lock.grantedList)
                 /\ scan'.at = scan.at + 1 /\ pc'[l] = "ScanGranted"
                 /\ request[it].status = "Converting" =>
                       Conflicts(request[it].convertMode,
                                 GrantedWithout({request[it].mode, request[it].convertMode}))
        <4>1. Scanning({"ScanGranted"})'
          BY <3>3, WhoScansAfter
        <4>2. ASSUME request[it].status = "Converting"
              PROVE  BlockedBy(request[it].convertMode, Members(lock.grantedList) \ {it})
          <5>1. it \in Members(lock.grantedList) /\ it \in Lockers
            BY <3>3, ScannedGranted
          <5>2. request[it].convertMode \in ModesAll
            BY <4>2, <5>1, ListedModes
          <5>3. {request[it].mode, request[it].convertMode} = Taken(it)
            BY DEF Taken
          <5> HIDE DEF it
          <5> QED
            BY <3>3, <4>2, <5>1, <5>2, <5>3, ConflictsWithout
        <4>3. ASSUME NEW i \in 1..Len(lock.grantedList),
                     request[lock.grantedList[i]].status = "Converting", i < scan'.at
              PROVE  BlockedBy(request[lock.grantedList[i]].convertMode,
                               Members(lock.grantedList) \ {lock.grantedList[i]})
          <5>1. i < scan.at \/ i = scan.at
            BY <3>1, <3>3, <4>3
          <5>2. CASE i < scan.at
            BY <4>3, <5>2, ConversionAt
          <5>3. CASE i = scan.at
            BY <4>2, <4>3, <5>3
          <5> QED
            BY <5>1, <5>2, <5>3
        <4> QED
          BY <1>9, <4>1, <4>3, ConversionQuiet
      <3>4. CASE ~(scan.at <= Len(lock.grantedList) /\ lock.conversionsCount > 0)
        <4>1. ASSUME NEW i \in 1..Len(lock.grantedList),
                     request[lock.grantedList[i]].status = "Converting"
              PROVE  i < scan.at
          <5>1. lock.grantedList[i] \in Conversions
            BY <4>1, ConversionAt DEF Conversions
          <5>2. lock.conversionsCount > 0
            BY <5>1, FiniteLists, FS_EmptySet DEF CountInv
          <5>3. Len(lock.grantedList) \in Nat
            BY DEF TypeInv, LockType, LockHead
          <5> QED
            BY <3>1, <3>4, <5>2, <5>3
        <4> QED
          BY <1>9, <4>1, ConversionAt, ConversionQuiet
      <3> QED
        BY <2>2, <3>2, <3>3, <3>4, ScanGrantedTurn
    <2>3. ASSUME NEW l \in Lockers, ScanConflicts(l) PROVE ConversionInv'
      <3>1. CASE GrantsWaiter(lock.conflictList[scan.at])
        BY <1>8, <2>3, <3>1
      <3>2. ~Scanning({"ScanGranted"})
        BY <2>3, ScanConflictsEffect, WhoScans
      <3> QED
        BY <1>9, <3>2, ConversionAt, ConversionQuiet
    <2>4. ASSUME NEW l \in Lockers, ScanFinish(l) PROVE ConversionInv'
      <3>1. ~Scanning({"ScanGranted"})
        BY <2>4, FinishEffect, WhoScans
      <3> QED
        BY <1>9, <3>1, ConversionAt, ConversionQuiet
    <2> QED
      BY <1>2, <1>5, <1>6, <2>1, <2>2, <2>3, <2>4, ScanKinds DEF ScanKind
  <1> QED
    BY StepKinds, <1>1, <1>2, <1>3, <1>4, <1>5, <1>6, <1>7, <1>8, <1>9 DEF StepKind, ChangesList

(* The front of the queue.                                                  *)
LEMMA FrontIsQueued ==
    ASSUME TypeInv, LockerInv, ListInv, NEW i \in 1..Len(lock.conflictList)
    PROVE  /\ lock.conflictList[i] \in Members(lock.conflictList)
           /\ lock.conflictList[i] \in Lockers
           /\ request[lock.conflictList[i]].mode \in ModesAll
  <1>1. lock.conflictList[i] \in Members(lock.conflictList)
    BY MembersDef DEF TypeInv, LockType, LockHead
  <1> QED
    BY <1>1, ListsInLockers, ListedModes

(* A queue that is not empty has a front.                                   *)
LEMMA QueueHasFront ==
    ASSUME TypeInv, lock.conflictList # <<>>
    PROVE  Len(lock.conflictList) \in Nat /\ 1 \in 1..Len(lock.conflictList)
  <1>1. lock.conflictList \in Seq(Lockers)
    BY DEF TypeInv, LockType, LockHead
  <1>2. Len(lock.conflictList) \in Nat /\ Len(lock.conflictList) # 0
    BY <1>1, EmptySeq
  <1> QED
    BY <1>2

FrontBlockedAfter ==
    LET front == request'[lock'.conflictList[1]] IN
    \/ BlockedAfter(front.mode, Members(lock'.grantedList))
    \/ /\ front.compatibleFirst
       /\ \E i \in 2..Len(lock'.conflictList) :
             Conflicts(front.mode, {request'[lock'.conflictList[i]].mode})

(* FrontBlocked after the step, with the primes on the variables.           *)
LEMMA FrontAfter ==
    FrontBlocked' <=> FrontBlockedAfter
  BY DEF FrontBlocked, FrontBlockedAfter, BlockedBy, BlockedAfter, Taken

(* While the queue stays, so do its blocked waiters.                        *)
LEMMA FrontFrame ==
    ASSUME TypeInv, LockerInv, ListInv, lock'.conflictList = lock.conflictList,
           \A k \in Members(lock.conflictList) :
              /\ request'[k].mode = request[k].mode
              /\ request'[k].compatibleFirst = request[k].compatibleFirst,
           Members(lock.grantedList) \subseteq Members(lock'.grantedList),
           KeepBlocking(Members(lock.grantedList))
    PROVE  /\ lock.conflictList # <<>> /\ FrontBlocked => FrontBlocked'
           /\ \A i \in 1..Len(lock.conflictList) :
                 BlockedBy(request[lock.conflictList[i]].mode, Members(lock.grantedList)) =>
                    BlockedAfter(request'[lock'.conflictList[i]].mode, Members(lock'.grantedList))
  <1>1. ASSUME NEW i \in 1..Len(lock.conflictList),
               BlockedBy(request[lock.conflictList[i]].mode, Members(lock.grantedList))
        PROVE  BlockedAfter(request'[lock'.conflictList[i]].mode, Members(lock'.grantedList))
    <2>1. /\ request'[lock'.conflictList[i]].mode = request[lock.conflictList[i]].mode
          /\ request[lock.conflictList[i]].mode \in ModesAll
      BY FrontIsQueued
    <2> QED
      BY <1>1, <2>1, StillBlocked
  <1>2. ASSUME lock.conflictList # <<>>, FrontBlocked PROVE FrontBlockedAfter
    <2>1. Len(lock.conflictList) \in Nat /\ 1 \in 1..Len(lock.conflictList)
      BY <1>2, QueueHasFront
    <2>2. \A i \in 1..Len(lock.conflictList) :
              /\ request'[lock'.conflictList[i]].mode = request[lock.conflictList[i]].mode
              /\ request'[lock'.conflictList[i]].compatibleFirst =
                    request[lock.conflictList[i]].compatibleFirst
      BY FrontIsQueued
    <2>3. CASE BlockedBy(request[lock.conflictList[1]].mode, Members(lock.grantedList))
      BY <1>1, <2>1, <2>3 DEF FrontBlockedAfter
    <2>4. CASE /\ request[lock.conflictList[1]].compatibleFirst
               /\ \E i \in 2..Len(lock.conflictList) :
                     Conflicts(request[lock.conflictList[1]].mode,
                               {request[lock.conflictList[i]].mode})
      <3>1. PICK i \in 2..Len(lock.conflictList) :
                Conflicts(request[lock.conflictList[1]].mode, {request[lock.conflictList[i]].mode})
        BY <2>4
      <3>2. i \in 1..Len(lock.conflictList)
        BY <2>1, <3>1
      <3>3. /\ request'[lock'.conflictList[1]].compatibleFirst
            /\ Conflicts(request'[lock'.conflictList[1]].mode, {request'[lock'.conflictList[i]].mode})
        BY <2>1, <2>2, <2>4, <3>1, <3>2
      <3> QED
        BY <3>1, <3>3 DEF FrontBlockedAfter
    <2> QED
      BY <1>2, <2>3, <2>4 DEF FrontBlocked
  <1> QED
    BY <1>1, <1>2, FrontAfter

(* PassedWait after the step, likewise.                                     *)
LEMMA PassedAfter ==
    PassedWait' <=> (Scanning({"ScanConflicts"})' /\ scan'.check =>
        \A i \in 1..Len(lock'.conflictList) :
            i < scan'.at => BlockedAfter(request'[lock'.conflictList[i]].mode,
                                         Members(lock'.grantedList)))
  BY DEF PassedWait, BlockedBy, BlockedAfter, Taken

(* A scan that has begun, and looks at the queue.                           *)
LEMMA FrontBegins ==
    ASSUME StartsScan(TRUE)
    PROVE  FrontInv'
  <1>1. /\ Scanning(ScanStates)' /\ ~Scanning({"ScanConflicts"})' /\ scan'.check
    BY DEF StartsScan, Scanning, ScanStates
  <1> QED
    BY <1>1, PassedAfter DEF FrontInv, FrontWaits, FreeIsScanned

(* The first part of FrontInv, while nobody scans.                          *)
LEMMA FrontWhenFree ==
    ASSUME FrontInv, NobodyScans, lock.conflictList # <<>>
    PROVE  FrontBlocked /\ lock.grantedList # <<>>
  BY DEF FrontInv, FrontWaits, FreeIsScanned, NobodyScans

(* Nobody scans before or after, the queue stays and the list keeps whom it *)
(* has.                                                                     *)
LEMMA FrontKept ==
    ASSUME TypeInv, LockerInv, ListInv, FrontInv, NobodyScans, NobodyScans',
           lock'.conflictList = lock.conflictList,
           \A k \in Members(lock.conflictList) : request'[k] = request[k],
           Members(lock.grantedList) \subseteq Members(lock'.grantedList),
           lock'.grantedList # lock.grantedList => lock'.grantedList # <<>>,
           KeepBlocking(Members(lock.grantedList))
    PROVE  FrontInv'
  <1>1. ~Scanning(ScanStates)' /\ ~Scanning({"ScanConflicts"})'
    BY DEF NobodyScans, Scanning, ScanStates
  <1>2. CASE lock.conflictList = <<>>
    BY <1>1, <1>2, PassedAfter DEF FrontInv, FrontWaits, FreeIsScanned
  <1>3. CASE lock.conflictList # <<>>
    <2>1. FrontBlocked' /\ lock'.grantedList # <<>>
      BY <1>3, FrontWhenFree, FrontFrame
    <2> QED
      BY <1>1, <2>1, PassedAfter DEF FrontInv, FrontWaits, FreeIsScanned
  <1> QED
    BY <1>2, <1>3

(* A new request waits.                                                     *)
LEMMA FrontQueues ==
    ASSUME TypeInv, TypeInv', LockerInv, ListInv, CountInv, FrontInv, NobodyScans, NobodyScans',
           NEW l \in Lockers, OthersKeep(l), JoinsQueue(l), MustWait(request[l].mode)
    PROVE  FrontInv'
  <1> DEFINE m == request[l].mode
             Q == lock.conflictList
  <1>1. /\ m \in ModesAll /\ request'[l].mode = m
        /\ request'[l].compatibleFirst = request[l].compatibleFirst
        /\ lock'.grantedList = lock.grantedList /\ l \notin Members(lock.grantedList)
        /\ l \notin Members(Q)
    BY DEF JoinsQueue, SameFields, SameGranted
  <1>2. KeepBlocking(Members(lock.grantedList))
    BY <1>1, BlockingOthers
  <1>3. \/ BlockedBy(m, Members(lock.grantedList))
        \/ \E k \in Members(Q) : Conflicts(m, {request[k].mode})
    BY <1>1, ConflictsGranted, ConflictsQueued DEF MustWait
  <1>4. BlockedBy(m, Members(lock.grantedList)) => BlockedAfter(m, Members(lock'.grantedList))
    BY <1>1, <1>2, StillBlocked
  <1>5. Q \in Seq(Lockers) /\ Len(Q) \in Nat
    BY DEF TypeInv, LockType, LockHead
  <1>6. \A k \in Members(Q) : request'[k] = request[k]
    BY <1>1, ListsInLockers DEF OthersKeep
  <1>7. lock'.grantedList # <<>>
    <2>1. CASE Q = <<>>
      <3>1. BlockedBy(m, Members(lock.grantedList))
        BY <1>3, <2>1, ListsInLockers
      <3> QED
        BY <1>1, <3>1, ListsInLockers DEF BlockedBy
    <2>2. CASE Q # <<>>
      BY <1>1, <2>2, FrontWhenFree
    <2> QED
      BY <2>1, <2>2
  <1>8. FrontBlockedAfter
    <2>1. CASE request[l].compatibleFirst
      <3>1. lock'.conflictList = <<l>> \o Q
        BY <2>1 DEF JoinsQueue
      <3>2. /\ Len(lock'.conflictList) = Len(Q) + 1 /\ lock'.conflictList[1] = l
            /\ \A j \in 1..Len(Q) : lock'.conflictList[j + 1] = Q[j]
        BY <1>5, <3>1
      <3>3. CASE BlockedBy(m, Members(lock.grantedList))
        BY <1>1, <1>4, <3>2, <3>3 DEF FrontBlockedAfter
      <3>4. ASSUME NEW k \in Members(Q), Conflicts(m, {request[k].mode}) PROVE FrontBlockedAfter
        <4>1. PICK j \in 1..Len(Q) : Q[j] = k
          BY <1>5, <3>4, MembersDef
        <4>2. j + 1 \in 2..Len(lock'.conflictList) /\ lock'.conflictList[j + 1] = k
          BY <1>5, <3>2, <4>1
        <4>3. Conflicts(m, {request'[lock'.conflictList[j + 1]].mode})
          BY <1>6, <3>4, <4>2
        <4> QED
          BY <1>1, <2>1, <3>2, <4>2, <4>3 DEF FrontBlockedAfter
      <3> QED
        BY <1>3, <3>3, <3>4
    <2>2. CASE ~request[l].compatibleFirst
      <3>1. lock'.conflictList = Append(Q, l)
        BY <2>2 DEF JoinsQueue
      <3>2. /\ Len(lock'.conflictList) = Len(Q) + 1 /\ lock'.conflictList[Len(Q) + 1] = l
            /\ \A j \in 1..Len(Q) : lock'.conflictList[j] = Q[j]
        BY <1>5, <3>1, AppendProperties
      <3>3. CASE Q = <<>>
        <4>1. BlockedBy(m, Members(lock.grantedList))
          BY <1>3, <3>3, ListsInLockers
        <4>2. lock'.conflictList[1] = l
          BY <3>2, <3>3
        <4> QED
          BY <1>1, <1>4, <4>1, <4>2 DEF FrontBlockedAfter
      <3>4. CASE Q # <<>>
        <4>1. FrontBlocked /\ 1 \in 1..Len(Q)
          BY <3>4, FrontWhenFree, QueueHasFront
        <4>2. /\ lock'.conflictList[1] = Q[1] /\ request'[Q[1]] = request[Q[1]]
              /\ request[Q[1]].mode \in ModesAll
          BY <1>6, <3>2, <4>1, FrontIsQueued
        <4>3. CASE BlockedBy(request[Q[1]].mode, Members(lock.grantedList))
          <5>1. BlockedAfter(request[Q[1]].mode, Members(lock'.grantedList))
            BY <1>1, <1>2, <4>2, <4>3, StillBlocked
          <5> QED
            BY <4>2, <5>1 DEF FrontBlockedAfter
        <4>4. ASSUME request[Q[1]].compatibleFirst, NEW i \in 2..Len(Q),
                     Conflicts(request[Q[1]].mode, {request[Q[i]].mode})
              PROVE  FrontBlockedAfter
          <5>1. i \in 1..Len(Q) /\ i \in 2..Len(lock'.conflictList)
            BY <1>5, <3>2, <4>4
          <5>2. lock'.conflictList[i] = Q[i] /\ request'[Q[i]] = request[Q[i]]
            BY <1>6, <3>2, <5>1, FrontIsQueued
          <5> QED
            BY <4>2, <4>4, <5>1, <5>2 DEF FrontBlockedAfter
        <4> QED
          BY <4>1, <4>3, <4>4 DEF FrontBlocked
      <3> QED
        BY <3>3, <3>4
    <2> QED
      BY <2>1, <2>2
  <1>9. ~Scanning(ScanStates)' /\ ~Scanning({"ScanConflicts"})'
    BY DEF NobodyScans, Scanning, ScanStates
  <1> QED
    BY <1>7, <1>8, <1>9, PassedAfter, FrontAfter DEF FrontInv, FrontWaits, FreeIsScanned

(* Steps that leave the lists and the modes alone.                          *)
LEMMA FrontQuiet ==
    ASSUME TypeInv, LockerInv, ListInv, Quiet
    PROVE  /\ lock'.conflictList = lock.conflictList /\ lock'.grantedList = lock.grantedList
           /\ lock.conflictList # <<>> /\ FrontBlocked => FrontBlocked'
           /\ \A i \in 1..Len(lock.conflictList) :
                 BlockedBy(request[lock.conflictList[i]].mode, Members(lock.grantedList)) =>
                    BlockedAfter(request'[lock'.conflictList[i]].mode, Members(lock'.grantedList))
  <1>1. lock'.conflictList = lock.conflictList /\ lock'.grantedList = lock.grantedList
    BY DEF Quiet, SameLists
  <1>2. \A k \in Members(lock.conflictList) :
            /\ request'[k].mode = request[k].mode
            /\ request'[k].compatibleFirst = request[k].compatibleFirst
    BY DEF Quiet, SameModes
  <1> QED
    BY <1>1, <1>2, BlockingQuiet, FrontFrame

(* A waiter that conflicts with a granted mode is blocked, and somebody has *)
(* that mode.                                                               *)
LEMMA WaiterBlocked ==
    ASSUME TypeInv, LockerInv, ListInv, CountInv, NEW i \in 1..Len(lock.conflictList),
           Conflicts(request[lock.conflictList[i]].mode, Mask(lock.grantedCounts))
    PROVE  /\ BlockedBy(request[lock.conflictList[i]].mode, Members(lock.grantedList))
           /\ lock.grantedList # <<>>
  <1>1. BlockedBy(request[lock.conflictList[i]].mode, Members(lock.grantedList))
    BY FrontIsQueued, ConflictsGranted
  <1> QED
    BY <1>1, ListsInLockers DEF BlockedBy

(* The granted list keeps the modes of a request that leaves it, if they    *)
(* are counted more than once.                                              *)
LEMMA StaysBlocked ==
    ASSUME TypeInv, LockerInv, ListInv, CountInv, NEW l \in Lockers, OthersKeep(l),
           LeavesGranted(l),
           lock'.grantedCounts[request[l].mode] # 0, NEW m \in ModesAll,
           BlockedBy(m, Members(lock.grantedList))
    PROVE  BlockedAfter(m, Members(lock'.grantedList))
  <1> DEFINE own == request[l].mode
  <1>1. /\ l \in Members(lock.grantedList) /\ own \in ModesAll /\ request[l].convertMode = "NONE"
        /\ lock'.grantedCounts = Dec(lock.grantedCounts, own)
    BY DEF LeavesGranted
  <1>2. Taken(l) \intersect ModesAll = {own} \intersect ModesAll
    BY <1>1 DEF Taken, ModesAll
  <1>3. \A k \in Members(lock.grantedList) \ {l} :
            k \in Members(lock'.grantedList) /\ request'[k] = request[k]
    BY ListsInLockers DEF OthersKeep
  <1>4. ASSUME NEW k \in Members(lock.grantedList) \ {l}, Conflicts(m, Taken(k))
        PROVE  BlockedAfter(m, Members(lock'.grantedList))
    BY <1>3, <1>4 DEF BlockedAfter, Taken
  <1>5. CASE Conflicts(m, Taken(l))
    <2>1. Conflicts(m, {own})
      BY <1>1, <1>2, <1>5, ConflictsOf
    <2>2. lock.grantedCounts[own] >= 1
      <3>1. l \in WithMode(lock.grantedList, own)
        BY <1>1 DEF WithMode
      <3>2. own \in Mask(lock.grantedCounts)
        BY <1>1, <3>1, GrantedMask
      <3> QED
        BY <1>1, <3>2, CountTypesOfLock DEF Mask
    <2>3. lock'.grantedCounts[own] = lock.grantedCounts[own] - 1
      BY <1>1, CountTypesOfLock, CountUp
    <2>4. own \in GrantedWithout({own})
      BY <1>1, <2>2, <2>3, CountTypesOfLock DEF GrantedWithout
    <2>5. PICK k \in Members(lock.grantedList) \ {l} : own \in Taken(k)
      BY <1>1, <1>2, <2>4, OthersTake
    <2>6. Conflicts(m, Taken(k))
      BY <2>1, <2>5 DEF Conflicts
    <2> QED
      BY <1>4, <2>5, <2>6
  <1> QED
    BY <1>4, <1>5 DEF BlockedBy

(* A granted list with a member is not empty.                               *)
LEMMA SomebodyAfter ==
    ASSUME TypeInv', NEW k \in Members(lock'.grantedList)
    PROVE  lock'.grantedList # <<>>
  BY MembersDef DEF TypeInv, LockType, LockHead

(* Every step leaves the front of the queue blocked, or about to be scanned. *)
LEMMA FrontStep ==
    ASSUME NoCancelledConversion, TypeInv, HolderInv, LockerInv, DistinctInv, ListInv,
        HeadsInv, PartitionInv, CountInv, PartitionedHasNoConflicts, CompatibleInv,
        ConversionInv, FrontInv, Next, TypeInv', HolderInv'
    PROVE  FrontInv'
  <1>1. ASSUME NEW l \in Lockers \union {Cleaner}, MigratePartition(l) PROVE FrontInv'
    <2>1. lock.partitions # <<>> /\ lock'.conflictList = lock.conflictList
      BY <1>1, MigrateEffect
    <2>2. lock'.conflictList = <<>> /\ Len(lock'.conflictList) = 0
      BY <2>1 DEF PartitionedHasNoConflicts
    <2> QED
      BY <2>2, PassedAfter DEF FrontInv, FrontWaits, FreeIsScanned
  <1>2. ASSUME NEW l \in Lockers, NEW m \in {"IX", "S"}, Downgrade(l, m) PROVE FrontInv'
    BY <1>2, DowngradeEffect, FrontBegins
  <1>3. ASSUME NEW l \in Lockers, NewRequest(l) PROVE FrontInv'
    <2>1. /\ OthersKeep(l) /\ NobodyScans /\ NobodyScans'
          /\ \/ JoinsQueue(l) /\ MustWait(request[l].mode)
             \/ JoinsGranted(l) /\ SameQueue /\ l \notin Members(lock.conflictList)
      BY <1>3, NewRequestEffect
    <2>2. CASE JoinsQueue(l) /\ MustWait(request[l].mode)
      BY <2>1, <2>2, FrontQueues
    <2>3. CASE JoinsGranted(l) /\ SameQueue /\ l \notin Members(lock.conflictList)
      <3>1. /\ lock'.conflictList = lock.conflictList /\ l \notin Members(lock.grantedList)
            /\ l \in Members(lock'.grantedList)
        BY <2>3 DEF JoinsGranted, SameQueue
      <3>2. \A k \in Members(lock.conflictList) : request'[k] = request[k]
        BY <2>1, <2>3, ListsInLockers DEF OthersKeep
      <3>3. Members(lock.grantedList) \subseteq Members(lock'.grantedList)
        BY <2>1, <3>1, ListsInLockers DEF OthersKeep
      <3>4. lock'.grantedList # <<>>
        BY <3>1, SomebodyAfter
      <3>5. KeepBlocking(Members(lock.grantedList))
        BY <2>1, <3>1, BlockingOthers
      <3> QED
        BY <2>1, <3>1, <3>2, <3>3, <3>4, <3>5, FrontKept
    <2> QED
      BY <2>1, <2>2, <2>3
  <1>4. ASSUME NEW l \in Lockers, ConvertRequest(l) PROVE FrontInv'
    <2>1. /\ OthersKeep(l) /\ NobodyScans /\ NobodyScans'
          /\ IsModeCovered(request[l].mode, newMode[l])
          /\ WaitsToConvert(l, newMode[l]) \/ ChangesMode(l, newMode[l])
      BY <1>4, ConvertRequestEffect
    <2>2. KeepBlocking(Members(lock.grantedList))
      BY <2>1, BlockingOthers
    <2>3. /\ lock'.grantedList = lock.grantedList /\ lock'.conflictList = lock.conflictList
          /\ l \notin Members(lock.conflictList)
      BY <2>1 DEF WaitsToConvert, ChangesMode, SameQueue
    <2>4. \A k \in Members(lock.conflictList) : request'[k] = request[k]
      BY <2>1, <2>3, ListsInLockers DEF OthersKeep
    <2> QED
      BY <2>1, <2>2, <2>3, <2>4, FrontKept
  <1>5. ASSUME NEW l \in Lockers, UnlockGranted(l) PROVE FrontInv'
    <2>1. /\ OthersKeep(l) /\ LeavesGranted(l) /\ request' = request
          /\ lock'.conflictList = lock.conflictList
          /\ StartsScan(lock'.grantedCounts[request[l].mode] = 0)
      BY <1>5, UnlockGrantedEffect DEF SameQueue
    <2>2. CASE lock'.grantedCounts[request[l].mode] = 0
      BY <2>1, <2>2, FrontBegins
    <2>3. CASE lock'.grantedCounts[request[l].mode] # 0
      <3>1. /\ NobodyScans /\ ~Scanning({"ScanConflicts"})'
        BY <2>1 DEF StartsScan
      <3>2. CASE lock.conflictList = <<>>
        BY <2>1, <3>1, <3>2, PassedAfter DEF FrontInv, FrontWaits, FreeIsScanned
      <3>3. CASE lock.conflictList # <<>>
        <4>1. FrontBlocked
          BY <3>1, <3>3, FrontWhenFree
        <4>2. \A m \in ModesAll : BlockedBy(m, Members(lock.grantedList)) =>
                  BlockedAfter(m, Members(lock'.grantedList))
          BY <2>1, <2>3, StaysBlocked
        <4>3. request[lock.conflictList[1]].mode \in ModesAll
          BY <3>3, QueueHasFront, FrontIsQueued
        <4>4. FrontBlockedAfter
          BY <2>1, <4>1, <4>2, <4>3 DEF FrontBlocked, FrontBlockedAfter
        <4>5. lock'.grantedList # <<>>
          <5> DEFINE own == request[l].mode
          <5>1. /\ l \in Members(lock.grantedList) /\ own \in ModesAll
                /\ request[l].convertMode = "NONE"
                /\ lock'.grantedCounts = Dec(lock.grantedCounts, own)
            BY <2>1 DEF LeavesGranted
          <5>2. PICK m \in ModesAll : Conflicts(m, {own})
            BY <5>1, ConflictRules DEF ModesAll
          <5>3. Conflicts(m, Taken(l))
            BY <5>2 DEF Taken, Conflicts
          <5>4. BlockedAfter(m, Members(lock'.grantedList))
            BY <4>2, <5>1, <5>3 DEF BlockedBy
          <5> QED
            BY <5>4, SomebodyAfter DEF BlockedAfter
        <4> QED
          BY <3>1, <4>4, <4>5, PassedAfter, FrontAfter DEF FrontInv, FrontWaits, FreeIsScanned
      <3> QED
        BY <3>2, <3>3
    <2> QED
      BY <2>2, <2>3
  <1>6. ASSUME NEW l \in Lockers, UnlockWaiting(l) PROVE FrontInv'
    BY <1>6, UnlockWaitingEffect, FrontBegins
  <1>7. ASSUME NEW l \in Lockers, ScanGranted(l),
      GrantsConversion(lock.grantedList[scan.at]) PROVE FrontInv'
    <2> DEFINE it == lock.grantedList[scan.at]
    <2>1. it \in Lockers /\ OthersKeep(it) /\ Converts(it)
      BY <1>7, ScanGrantedGrants
    <2>2. /\ lock'.grantedList = lock.grantedList /\ request'[it].status = "Granted"
          /\ request[it].status = "Converting" /\ lock'.conflictList = lock.conflictList
          /\ it \notin Members(lock.conflictList)
      BY <2>1 DEF Converts, SameQueue
    <2>3. /\ scan'.check = scan.check /\ pc[l] = "ScanGranted" /\ pc'[l] = "ScanGranted"
      BY <1>7, <2>2, ScanGrantedTurn
    <2>4. /\ Scanning(ScanStates) /\ ~Scanning({"ScanConflicts"})
          /\ Scanning(ScanStates)' /\ ~Scanning({"ScanConflicts"})'
      BY <2>3, WhoScans, WhoScansAfter
    <2>5. KeepBlocking(Members(lock.grantedList))
      BY <2>1, BlockingOthers
    <2>6. \A k \in Members(lock.conflictList) : request'[k] = request[k]
      BY <2>1, <2>2, ListsInLockers DEF OthersKeep
    <2> HIDE DEF it
    <2>7. lock.conflictList # <<>> /\ FrontBlocked => FrontBlocked'
      BY <2>2, <2>5, <2>6, FrontFrame
    <2> QED
      BY <2>2, <2>3, <2>4, <2>7, PassedAfter DEF FrontInv, FrontWaits, FreeIsScanned
  <1>8. ASSUME NEW l \in Lockers, ScanConflicts(l), GrantsWaiter(lock.conflictList[scan.at])
      PROVE FrontInv'
    <2> DEFINE it == lock.conflictList[scan.at]
               Q == lock.conflictList
    <2>1. it \in Lockers /\ OthersKeep(it) /\ LeavesQueue(it) /\ JoinsGranted(it)
      BY <1>8, ScanConflictsGrants
    <2>2. /\ pc[l] = "ScanConflicts" /\ pc' = pc /\ scan.check /\ scan.at \in 1..Len(Q)
      BY <1>8, ScanConflictsTurn
    <2>3. scan'.at = scan.at /\ scan'.check = (request[it].mode # "X")
      <3>1. request'[it].status # request[it].status
        BY <2>1 DEF LeavesQueue, JoinsGranted
      <3> QED
        BY <1>8, <3>1, ScanConflictsTurn
    <2>4. /\ Scanning(ScanStates)' /\ Scanning({"ScanConflicts"}) /\ Scanning({"ScanConflicts"})'
      BY <2>2, WhoScans DEF Scanning
    <2>5. /\ request[it].mode \in ModesAll /\ request'[it].mode = request[it].mode
          /\ it \in Members(lock'.grantedList) /\ it \notin Members(lock'.conflictList)
          /\ it \notin Members(lock.grantedList)
          /\ lock'.conflictList = ListRemove(Q, it) /\ it \in Members(Q)
      BY <2>1 DEF LeavesQueue, JoinsGranted, SameFields
    <2>6. lock'.grantedList # <<>>
      BY <2>5, SomebodyAfter
    <2>7. Q \in Seq(Lockers) /\ Len(Q) \in Nat /\ Distinct(Q)
      BY DEF TypeInv, LockType, LockHead, DistinctInv
    <2>8. /\ Len(lock'.conflictList) = Len(Q) - 1
          /\ \A i \in 1..(Len(Q) - 1) :
                lock'.conflictList[i] = IF i < scan.at THEN Q[i] ELSE Q[i + 1]
      BY <2>2, <2>5, <2>7, MembersOfRemove
    <2>9. KeepBlocking(Members(lock.grantedList))
      BY <2>1, <2>5, BlockingOthers
    <2>10. Members(lock.grantedList) \subseteq Members(lock'.grantedList)
      BY <2>1, <2>5, ListsInLockers DEF OthersKeep
    <2>11. PassedWait'
      <3>1. ASSUME NEW i \in 1..Len(lock'.conflictList), i < scan'.at
            PROVE  BlockedAfter(request'[lock'.conflictList[i]].mode, Members(lock'.grantedList))
        <4>1. i \in 1..Len(Q) /\ i < scan.at /\ lock'.conflictList[i] = Q[i]
          BY <2>3, <2>7, <2>8, <3>1
        <4>2. BlockedBy(request[Q[i]].mode, Members(lock.grantedList))
          BY <2>2, <2>4, <4>1 DEF FrontInv, PassedWait
        <4>3. Q[i] \in Lockers /\ Q[i] \in Members(Q) /\ request[Q[i]].mode \in ModesAll
          BY <4>1, FrontIsQueued
        <4>4. Q[i] # it
          BY <2>2, <2>7, <4>1 DEF Distinct
        <4>5. request'[Q[i]] = request[Q[i]]
          BY <2>1, <4>3, <4>4 DEF OthersKeep
        <4> QED
          BY <2>9, <2>10, <4>1, <4>2, <4>3, <4>5, StillBlocked
      <3> QED
        BY <3>1, PassedAfter
    <2>12. ASSUME lock'.conflictList # <<>>, ~scan'.check PROVE FrontBlockedAfter
      <3>1. request[it].mode = "X"
        BY <2>3, <2>12
      <3>2. lock'.conflictList[1] \in Members(lock'.conflictList)
        <4>1. lock'.conflictList \in Seq(Lockers)
          BY DEF TypeInv, LockType, LockHead
        <4>2. Len(lock'.conflictList) \in Nat /\ Len(lock'.conflictList) # 0
          BY <2>12, <4>1, EmptySeq
        <4> QED
          BY <4>1, <4>2, MembersDef
      <3>3. /\ lock'.conflictList[1] \in Lockers /\ lock'.conflictList[1] # it
            /\ lock'.conflictList[1] \in Members(Q)
        BY <2>1, <2>5, <3>2, ListsAfter DEF OthersKeep
      <3>4. /\ request'[lock'.conflictList[1]] = request[lock'.conflictList[1]]
            /\ request[lock'.conflictList[1]].mode \in ModesAll
        BY <2>1, <3>3, ListedModes DEF OthersKeep
      <3>5. Conflicts(request'[lock'.conflictList[1]].mode, {request'[it].mode})
        BY <2>5, <3>1, <3>4, ConflictRules
      <3>6. Conflicts(request'[lock'.conflictList[1]].mode,
                      {request'[it].mode, request'[it].convertMode})
        BY <3>5 DEF Conflicts
      <3> QED
        BY <2>5, <3>6 DEF FrontBlockedAfter, BlockedAfter
    <2> QED
      BY <2>4, <2>6, <2>11, <2>12, FrontAfter DEF FrontInv, FrontWaits, FreeIsScanned
  <1>9. CASE Quiet
    <2>0. /\ lock'.conflictList = lock.conflictList /\ lock'.grantedList = lock.grantedList
          /\ lock.conflictList # <<>> /\ FrontBlocked => FrontBlocked'
          /\ \A i \in 1..Len(lock.conflictList) :
                BlockedBy(request[lock.conflictList[i]].mode, Members(lock.grantedList)) =>
                   BlockedAfter(request'[lock'.conflictList[i]].mode, Members(lock'.grantedList))
      BY <1>9, FrontQuiet
    <2>1. CASE SameScan
      <3>1. FrontWaits'
        BY <2>0, <2>1, SameScanning DEF FrontInv, FrontWaits
      <3>2. PassedWait'
        BY <2>0, <2>1, SameScanning, PassedAfter DEF FrontInv, PassedWait
      <3>3. FreeIsScanned'
        BY <2>0, <2>1, SameScanning DEF FrontInv, FreeIsScanned
      <3> QED
        BY <3>1, <3>2, <3>3 DEF FrontInv
    <2>2. ASSUME NEW l \in Lockers, ScanGranted(l) PROVE FrontInv'
      <3>1. CASE GrantsConversion(lock.grantedList[scan.at])
        BY <1>7, <2>2, <3>1
      <3>2. CASE scan'.check = scan.check /\ pc[l] = "ScanGranted" /\ pc'[l] = "ScanGranted"
        <4>1. /\ Scanning(ScanStates) /\ ~Scanning({"ScanConflicts"})
              /\ Scanning(ScanStates)' /\ ~Scanning({"ScanConflicts"})'
          BY <3>2, WhoScans, WhoScansAfter
        <4> QED
          BY <2>0, <3>2, <4>1, PassedAfter DEF FrontInv, FrontWaits, FreeIsScanned
      <3>3. CASE /\ scan'.check = scan.check /\ scan'.at = 1
                 /\ pc[l] = "ScanGranted" /\ pc'[l] = "ScanConflicts"
        <4>1. /\ Scanning(ScanStates) /\ ~Scanning({"ScanConflicts"})
              /\ Scanning(ScanStates)' /\ Scanning({"ScanConflicts"})'
          BY <3>3, WhoScans, WhoScansAfter
        <4>2. \A i \in 1..Len(lock'.conflictList) : ~(i < scan'.at)
          BY <3>3
        <4>3. PassedWait'
          BY <4>2, PassedAfter
        <4> QED
          BY <2>0, <3>3, <4>1, <4>3 DEF FrontInv, FrontWaits, FreeIsScanned
      <3> QED
        BY <2>2, <3>1, <3>2, <3>3, ScanGrantedTurn
    <2>3. ASSUME NEW l \in Lockers, ScanConflicts(l) PROVE FrontInv'
      <3>1. CASE GrantsWaiter(lock.conflictList[scan.at])
        BY <1>8, <2>3, <3>1
      <3>2. CASE /\ Conflicts(request[lock.conflictList[scan.at]].mode, Mask(lock.grantedCounts))
                 /\ scan'.at = scan.at + 1 /\ scan'.check = scan.check
        <4>1. /\ pc[l] = "ScanConflicts" /\ pc' = pc /\ scan.check
              /\ scan.at \in 1..Len(lock.conflictList)
          BY <2>3, ScanConflictsTurn
        <4>2. /\ Scanning({"ScanConflicts"}) /\ Scanning(ScanStates)'
          BY <4>1, WhoScans DEF Scanning
        <4>3. /\ BlockedBy(request[lock.conflictList[scan.at]].mode, Members(lock.grantedList))
              /\ lock.grantedList # <<>>
          BY <3>2, <4>1, WaiterBlocked
        <4>4. ASSUME NEW i \in 1..Len(lock.conflictList), i < scan'.at
              PROVE  BlockedBy(request[lock.conflictList[i]].mode, Members(lock.grantedList))
          <5>1. i < scan.at \/ i = scan.at
            BY <3>2, <4>1, <4>4
          <5>2. CASE i < scan.at
            BY <4>1, <4>2, <5>2 DEF FrontInv, PassedWait
          <5>3. CASE i = scan.at
            BY <4>3, <5>3
          <5> QED
            BY <5>1, <5>2, <5>3
        <4>5. PassedWait'
          BY <2>0, <4>4, PassedAfter
        <4> QED
          BY <2>0, <3>2, <4>1, <4>2, <4>3, <4>5 DEF FrontInv, FrontWaits, FreeIsScanned
      <3> QED
        BY <2>3, <3>1, <3>2, ScanConflictsTurn
    <2>4. ASSUME NEW l \in Lockers, ScanFinish(l) PROVE FrontInv'
      <3>1. /\ pc[l] = "ScanConflicts" /\ ~ScanGoesOn
        BY <2>4 DEF ScanFinish
      <3>2. ~Scanning(ScanStates)' /\ ~Scanning({"ScanConflicts"})'
        <4>1. pc'[l] = "Idle" /\ holder = l
          BY <2>4, FinishEffect
        <4>2. \A k \in Lockers \ {l} : pc'[k] = pc[k] /\ pc[k] \notin ScanStates
          BY <2>4, <4>1 DEF ScanFinish, TypeInv, ControlType, HolderInv, MutexStates
        <4> QED
          BY <4>1, <4>2 DEF Scanning, ScanStates
      <3>3. Scanning(ScanStates) /\ Scanning({"ScanConflicts"})
        BY <3>1, WhoScans
      <3>4. CASE lock.conflictList = <<>>
        BY <2>0, <3>2, <3>4, PassedAfter DEF FrontInv, FrontWaits, FreeIsScanned
      <3>5. CASE lock.conflictList # <<>>
        <4>1. 1 \in 1..Len(lock.conflictList) /\ Len(lock.conflictList) \in Nat
          BY <3>5, QueueHasFront
        <4>2. FrontBlocked /\ lock.grantedList # <<>>
          <5>1. CASE ~scan.check
            BY <3>5, <5>1 DEF FrontInv, FrontWaits, FreeIsScanned
          <5>2. CASE scan.check /\ scan.at > Len(lock.conflictList)
            <6>1. 1 < scan.at
              BY <4>1, <5>2 DEF TypeInv, ControlType
            <6>2. BlockedBy(request[lock.conflictList[1]].mode, Members(lock.grantedList))
              BY <3>3, <4>1, <5>2, <6>1 DEF FrontInv, PassedWait
            <6> QED
              BY <6>2, ListsInLockers DEF FrontBlocked, BlockedBy
          <5>3. CASE Conflicts(request[lock.conflictList[1]].mode, Mask(lock.grantedCounts))
            BY <4>1, <5>3, WaiterBlocked DEF FrontBlocked
          <5> QED
            BY <3>1, <4>1, <5>1, <5>2, <5>3 DEF ScanGoesOn, TypeInv, ControlType
        <4> QED
          BY <2>0, <3>2, <3>5, <4>2, PassedAfter DEF FrontInv, FrontWaits, FreeIsScanned
      <3> QED
        BY <3>4, <3>5
    <2> QED
      BY <1>2, <1>5, <1>6, <2>1, <2>2, <2>3, <2>4, ScanKinds DEF ScanKind
  <1> QED
    BY StepKinds, <1>1, <1>2, <1>3, <1>4, <1>5, <1>6, <1>7, <1>8, <1>9 DEF StepKind, ChangesList

----------------------------------------------------------------------------
(* The checks of the lock manager itself.                                   *)

(* The mode of a request on the granted list is counted.                    *)
LEMMA ModeCounted ==
    ASSUME TypeInv, LockerInv, ListInv, CountInv, NEW l \in Members(lock.grantedList)
    PROVE  request[l].mode \in ModesAll /\ lock.grantedCounts[request[l].mode] >= 1
  <1>1. request[l].mode \in ModesAll /\ l \in WithMode(lock.grantedList, request[l].mode)
    BY ListedModes, ListsInLockers DEF WithMode
  <1>2. request[l].mode \in Mask(lock.grantedCounts)
    BY <1>1, GrantedMask
  <1> QED
    BY <1>1, <1>2, CountTypesOfLock DEF Mask

(* The mode of a waiting request is counted too.                            *)
LEMMA WaiterCounted ==
    ASSUME TypeInv, LockerInv, ListInv, CountInv, NEW l \in Members(lock.conflictList)
    PROVE  lock.conflictCounts[request[l].mode] >= 1
  <1>1. request[l].mode \in ModesAll /\ l \in WithMode(lock.conflictList, request[l].mode)
    BY ListedModes, ListsInLockers DEF WithMode
  <1>2. request[l].mode \in Mask(lock.conflictCounts)
    BY <1>1, ConflictMask
  <1> QED
    BY <1>1, <1>2, CountTypesOfLock DEF Mask

(* The last compatible-first request takes the count to zero; before it,    *)
(* there is another on the list.                                            *)
LEMMA FirstCounted ==
    ASSUME TypeInv, TypeInv', FirstInv, NEW l \in Lockers, OthersKeep(l), LeavesGranted(l),
           request[l].compatibleFirst
    PROVE  /\ lock.compatibleFirstCount > 0
           /\ lock.compatibleFirstCount - 1 = 0 \/ lock'.grantedList # <<>>
  <1>1. /\ l \in Members(lock.grantedList) /\ l \in Firsts
    BY DEF LeavesGranted, Firsts
  <1>2. /\ IsFiniteSet(Firsts) /\ Cardinality(Firsts) \in Nat
        /\ lock.compatibleFirstCount = Cardinality(Firsts)
    BY FiniteLists DEF FirstInv
  <1>3. /\ IsFiniteSet(Firsts \ {l}) /\ Cardinality(Firsts \ {l}) = Cardinality(Firsts) - 1
    BY <1>1, <1>2, FS_RemoveElement
  <1>4. /\ Cardinality(Firsts \ {l}) \in Nat
        /\ Cardinality(Firsts \ {l}) = 0 => Firsts \ {l} = {}
    BY <1>3, FS_CardinalityType, FS_EmptySet
  <1>5. ASSUME Firsts \ {l} # {} PROVE lock'.grantedList # <<>>
    <2>1. PICK k : k \in Firsts \ {l}
      BY <1>5
    <2>2. k \in Members(lock'.grantedList)
      BY <2>1, ListsInLockers DEF Firsts, OthersKeep
    <2> QED
      BY <2>2, SomebodyAfter
  <1>6. lock.compatibleFirstCount > 0
    BY <1>2, <1>3, <1>4
  <1>7. CASE Firsts \ {l} = {}
    <2>1. Cardinality(Firsts \ {l}) = 0
      BY <1>3, <1>7, FS_EmptySet
    <2> QED
      BY <1>2, <1>3, <1>6, <2>1
  <1> QED
    BY <1>5, <1>6, <1>7

(* No step fails a check.                                                   *)
LEMMA FailedStep ==
    ASSUME NoCancelledConversion, TypeInv, HolderInv, LockerInv, DistinctInv, ListInv,
               HeadsInv, PartitionInv, CountInv, PartitionedHasNoConflicts, CompatibleInv,
               FrontInv, FirstInv, Next, TypeInv'
    PROVE  failed' = failed
<1>1. ASSUME NEW l \in Lockers, NEW m \in LockModes, Lock(l, m) PROVE failed' = failed
  BY <1>1 DEF Lock
<1>2. ASSUME NEW l \in Lockers, NEW m \in ConvertModes, Convert(l, m) PROVE failed' = failed
  BY <1>2 DEF Convert
<1>3. ASSUME NEW l \in Lockers, NEW m \in {"IX", "S"}, Downgrade(l, m) PROVE failed' =
    failed
  <2>1. l \in Members(lock.grantedList) /\ request[l].mode = "X"
    BY <1>3, DowngradeEffect DEF ChangesMode
  <2>2. lock.grantedCounts["X"] >= 1
    BY <2>1, ModeCounted
  <2> QED
    BY <1>3, <2>2 DEF Downgrade, Expect
<1>4. ASSUME NEW l \in Lockers, LockTimeout(l) PROVE failed' = failed
  BY <1>4 DEF LockTimeout
<1>5. ASSUME NEW l \in Lockers, Unlock(l) PROVE failed' = failed
  <2>1. LockerOK(l) /\ request[l] \in Request
    BY DEF LockerInv, TypeInv, RequestType
  <2>2. /\ request[l].recursiveCount > 0
        /\ request[l].partitioned => request[l].status \in {"Granted", "Converting"}
    BY <1>5, <2>1, UnlockEffect DEF LockerOK, ThreadOK, RequestOK, Request, InitNew
  <2> QED
    BY <1>5, <2>2 DEF Unlock, Expect
<1>6. ASSUME NEW l \in Lockers, StartPartitioned(l) PROVE failed' = failed
  BY <1>6 DEF StartPartitioned, AddPartition
<1>7. ASSUME NEW l \in Lockers, StartMigration(l) PROVE failed' = failed
  <2>1. lock.partitions # <<>>
    BY <1>7 DEF StartMigration
  <2>2. MayPartition
    BY <2>1, MayPartitionLists DEF PartitionedHasNoConflicts
  <2> QED
    BY <1>7, <2>2 DEF StartMigration, Expect
<1>8. ASSUME NEW l \in Lockers \union {Cleaner}, MigratePartition(l) PROVE failed' = failed
  <2>1. lock.partitions # <<>>
    BY <1>8 DEF MigratePartition
  <2>2. MayPartition
    BY <2>1, MayPartitionLists DEF PartitionedHasNoConflicts
  <2>3. ASSUME NEW m \in IntentModes PROVE ~MustWait(m)
    <3>1. m \in ModesAll /\ ~Conflicts(m, Mask(lock.grantedCounts))
      BY <2>2, ConflictTable DEF MayPartition, IntentModes, Conflicts, ModesAll
    <3>2. ~Conflicts(m, Mask(lock.conflictCounts))
      BY <2>2 DEF MayPartition, Conflicts
    <3> QED
      BY <3>1, <3>2 DEF MustWait
  <2> DEFINE p == lock.partitions[Len(lock.partitions)]
             list == IF p \in DOMAIN heads THEN heads[p] ELSE <<>>
  <2>4. Members(list) = Moved
    BY MovedMembers
  <2>5. \A r \in Members(list) : ~MustWait(request[r].mode)
    BY <2>3, <2>4, MovedRequests
  <2> QED
    BY <1>8, <2>5 DEF MigratePartition, Expect
<1>9. ASSUME NEW l \in Lockers, NewRequest(l) PROVE failed' = failed
  BY <1>9 DEF NewRequest, AtLockHead
<1>10. ASSUME NEW l \in Lockers, ConvertRequest(l) PROVE failed' = failed
  <2> DEFINE counted == Inc(lock.grantedCounts, newMode[l])
  <2>1. /\ l \in Members(lock.grantedList) /\ newMode[l] \in ModesAll
    BY <1>10, ConvertRequestEffect DEF WaitsToConvert, ChangesMode
  <2>2. /\ request[l].mode \in ModesAll /\ lock.grantedCounts[request[l].mode] >= 1
    BY <2>1, ModeCounted
  <2>3. counted[request[l].mode] >= 1
    BY <2>1, <2>2, CountTypesOfLock, CountUp
  <2> QED
    BY <1>10, <2>3 DEF ConvertRequest, Expect
<1>11. ASSUME NEW l \in Lockers, LockComplete(l) PROVE failed' = failed
  BY <1>11 DEF LockComplete
<1>12. ASSUME NEW l \in Lockers, UnlockPartition(l) PROVE failed' = failed
  BY <1>12 DEF UnlockPartition
<1>13. ASSUME NEW l \in Lockers, UnlockGranted(l) PROVE failed' = failed
  <2> DEFINE own == request[l].mode
             granted == ListRemove(lock.grantedList, l)
             firsts == IF request[l].compatibleFirst THEN lock.compatibleFirstCount - 1
                                                     ELSE lock.compatibleFirstCount
  <2>1. OthersKeep(l) /\ LeavesGranted(l)
    BY <1>13, UnlockGrantedEffect
  <2>2. l \in Members(lock.grantedList) /\ lock'.grantedList = granted
    BY <2>1 DEF LeavesGranted
  <2>3. lock.grantedCounts[own] >= 1
    BY <2>2, ModeCounted
  <2>4. request[l].compatibleFirst => /\ lock.compatibleFirstCount > 0
                                      /\ firsts = 0 \/ granted # <<>>
    BY <2>1, <2>2, FirstCounted
  <2> QED
    BY <1>13, <2>3, <2>4 DEF UnlockGranted, Expect
<1>14. ASSUME NEW l \in Lockers, UnlockWaiting(l) PROVE failed' = failed
  <2>1. l \in Members(lock.conflictList)
    BY <1>14, UnlockWaitingEffect DEF LeavesQueue
  <2>2. lock.conflictCounts[request[l].mode] >= 1
    BY <2>1, WaiterCounted
  <2>3. request[l].recursiveCount = 0
    BY <1>14 DEF UnlockWaiting, LockerInv, LockerOK, ThreadOK
  <2> QED
    BY <1>14, <2>2, <2>3 DEF UnlockWaiting, Expect
<1>15. ASSUME NEW l \in Lockers, UnlockConverting(l) PROVE failed' = failed
  <2>1. FALSE
    BY <1>15 DEF UnlockConverting, LockerInv, LockerOK, RequestOK
  <2> QED
    BY <2>1
<1>16. ASSUME NEW l \in Lockers, ScanGranted(l) PROVE failed' = failed
  <2> DEFINE it == lock.grantedList[scan.at]
  <2>1. CASE scan.at <= Len(lock.grantedList) /\ lock.conversionsCount > 0
    <3>1. it \in Members(lock.grantedList) /\ it \in Lockers
      BY <2>1, ScannedGranted
    <3>2. lock.grantedCounts[request[it].mode] >= 1
      BY <3>1, ModeCounted
    <3>3. request[it].status = "Converting" => request[it].convertMode \notin {"NONE", request[it].mode}
      BY <3>1 DEF LockerInv, LockerOK, RequestOK
    <3> QED
      BY <1>16, <2>1, <3>2, <3>3 DEF ScanGranted, Expect
  <2>2. CASE ~(scan.at <= Len(lock.grantedList) /\ lock.conversionsCount > 0)
    BY <1>16, <2>2 DEF ScanGranted
  <2> QED
    BY <2>1, <2>2
<1>17. ASSUME NEW l \in Lockers, ScanConflicts(l) PROVE failed' = failed
  <2> DEFINE it == lock.conflictList[scan.at]
  <2>1. it \in Members(lock.conflictList) /\ it \in Lockers
    BY <1>17, ScannedWaiter DEF ScanConflicts
  <2>2. lock.conflictCounts[request[it].mode] >= 1
    BY <2>1, WaiterCounted
  <2>3. request[it].status = "Waiting"
    BY <2>1 DEF ListInv, ListedOK, Queued
  <2> QED
    BY <1>17, <2>2, <2>3 DEF ScanConflicts, Expect
<1>18. ASSUME NEW l \in Lockers, ScanFinish(l) PROVE failed' = failed
  BY <1>18, EmptyMasks DEF ScanFinish, Expect
<1>19. CASE CleanupStart
  <2>1. lock.partitions # <<>> => MayPartition
    BY MayPartitionLists DEF PartitionedHasNoConflicts
  <2> QED
    BY <1>19, <2>1 DEF CleanupStart, Expect
<1>20. CASE CleanupFinish
  <2>1. lock' = lock
    BY <1>20, CleanupEffect
  <2>2. Mask(lock.grantedCounts) = {} => lock = EmptyLockHead
    BY <1>20, <2>1 DEF CleanupFinish
  <2> QED
    BY <1>20, <2>2 DEF CleanupFinish, Expect
<1> QED
  BY <1>1, <1>2, <1>3, <1>4, <1>5, <1>6, <1>7, <1>8, <1>9, <1>10, <1>11, <1>12, <1>13,
      <1>14, <1>15, <1>16, <1>17, <1>18, <1>19, <1>20 DEF Next, Continue, Cleanup

----------------------------------------------------------------------------
(* The invariant holds.                                                     *)

(* The initial states satisfy it.                                           *)
LEMMA InitInv == Init => LockInv /\ FirstInv /\ NoInvariantFails
  <1> SUFFICES ASSUME Init PROVE LockInv /\ FirstInv /\ NoInvariantFails
    OBVIOUS
  <1>1. /\ \A l \in Lockers : request[l] = InitNew /\ pc[l] = "Idle" /\ newMode[l] = "NONE"
        /\ lock = EmptyLockHead /\ DOMAIN heads = {} /\ holder = NoLocker
    BY DEF Init
  <1>2. /\ lock.grantedList = <<>> /\ lock.conflictList = <<>> /\ lock.partitions = <<>>
        /\ \A m \in ModesAll : lock.grantedCounts[m] = 0 /\ lock.conflictCounts[m] = 0
        /\ lock.conversionsCount = 0 /\ lock.compatibleFirstCount = 0
    BY <1>1 DEF EmptyLockHead
  <1>3. Members(lock.grantedList) = {} /\ Members(lock.conflictList) = {}
    BY <1>2 DEF Members
  <1>4. TypeInv
    <2>1. RequestType
      BY InitNewType DEF Init, RequestType
    <2>2. LockType
      <3>1. [m \in ModesAll |-> 0] \in [ModesAll -> Int]
        OBVIOUS
      <3>2. <<>> \in Seq(Lockers) /\ <<>> \in Seq(Partitions)
        OBVIOUS
      <3> QED
        BY <3>1, <3>2 DEF Init, LockType, EmptyLockHead, LockHead
    <2>3. HeadsType
      BY DEF Init, HeadsType
    <2>4. ControlType
      BY DEF Init, ControlType
    <2> QED
      BY <2>1, <2>2, <2>3, <2>4 DEF TypeInv
  <1>5. \A l \in Lockers : ~InPartition(l) /\ ~GivenUp(l) /\ request[l].status = "New"
    BY <1>1 DEF InPartition, GivenUp, ScanStates, InitNew
  <1>6. HolderInv
    BY <1>1, ConstantAssumption DEF HolderInv, MutexStates, ScanStates
  <1>7. LockerInv
    <2>1. ASSUME NEW l \in Lockers PROVE LockerOK(l)
      <3>1. request[l] = InitNew /\ pc[l] = "Idle"
        BY <1>1
      <3>2. ThreadOK(InitNew, "Idle", newMode[l])
        BY DEF ThreadOK, ScanStates
      <3>3. RequestOK(InitNew, "Idle")
        BY DEF RequestOK, InitNew
      <3> QED
        BY <3>1, <3>2, <3>3 DEF LockerOK
    <2> QED
      BY <2>1 DEF LockerInv
  <1>8. DistinctInv
    BY <1>2 DEF DistinctInv, Distinct
  <1>9. ListInv
    BY <1>3, <1>5 DEF ListInv, ListedOK, OnGrantedList, Queued
  <1>10. HeadsInv /\ PartitionInv
    BY <1>1, <1>5 DEF HeadsInv, PartitionInv
  <1>11. Cardinality({}) = 0
    BY FS_EmptySet
  <1>12. CountInv
    <2>1. \A m : /\ WithMode(lock.grantedList, m) = {} /\ ToConvert(m) = {}
                 /\ WithMode(lock.conflictList, m) = {}
      BY <1>3 DEF WithMode, ToConvert
    <2>2. Conversions = {}
      BY <1>3 DEF Conversions
    <2>3. ASSUME NEW m \in ModesAll
          PROVE  /\ lock.grantedCounts[m] =
                       Cardinality(WithMode(lock.grantedList, m)) + Cardinality(ToConvert(m))
                 /\ lock.conflictCounts[m] = Cardinality(WithMode(lock.conflictList, m))
      <3>1. /\ Cardinality(WithMode(lock.grantedList, m)) = 0 /\ Cardinality(ToConvert(m)) = 0
            /\ Cardinality(WithMode(lock.conflictList, m)) = 0
        BY <1>11, <2>1
      <3> QED
        BY <1>2, <3>1
    <2>4. lock.conversionsCount = Cardinality(Conversions)
      BY <1>2, <1>11, <2>2
    <2> QED
      BY <2>3, <2>4 DEF CountInv
  <1>13. FirstInv
    <2>1. Firsts = {}
      BY <1>3 DEF Firsts
    <2> QED
      BY <1>2, <1>11, <2>1 DEF FirstInv
  <1>14. PartitionedHasNoConflicts /\ CompatibleInv
    BY <1>2, <1>3 DEF PartitionedHasNoConflicts, CompatibleInv
  <1>15. ConversionInv /\ FrontInv
    BY <1>2 DEF ConversionInv, FrontInv, FrontWaits, PassedWait, FreeIsScanned
  <1>16. NoInvariantFails
    BY DEF Init, NoInvariantFails
  <1> QED
    BY <1>4, <1>6, <1>7, <1>8, <1>9, <1>10, <1>12, <1>13, <1>14, <1>15, <1>16 DEF LockInv

(* It is inductive, and with the hypothesis on conversions nothing fails.   *)
LEMMA LockInvStep ==
    ASSUME NoCancelledConversion, LockInv, [Next]_vars
    PROVE  LockInv' /\ (NoPriorityConversion => failed' = failed)
  <1>1. CASE UNCHANGED vars
    <2>1. UNCHANGED <<request, lock, heads, pc, newMode, holder, scan, failed>>
      BY <1>1 DEF vars
    <2>2. /\ TypeInv' /\ HolderInv' /\ LockerInv' /\ DistinctInv'
      BY <2>1 DEF LockInv, TypeInv, RequestType, LockType, HeadsType, ControlType,
                  HolderInv, LockerInv, LockerOK, DistinctInv
    <2>3. ListInv' /\ HeadsInv' /\ PartitionInv'
      BY <2>1 DEF LockInv, ListInv, ListedOK, InPartition, OnGrantedList, Queued, GivenUp,
                  HeadsInv, PartitionInv, PartitionedOK
    <2>4. CountInv' /\ (FirstInv => FirstInv')
      BY <2>1 DEF LockInv, CountInv, WithMode, ToConvert, Conversions, FirstInv, Firsts
    <2>5. PartitionedHasNoConflicts' /\ CompatibleInv'
      BY <2>1 DEF LockInv, PartitionedHasNoConflicts, CompatibleInv
    <2>6. ConversionInv' /\ FrontInv'
      BY <2>1 DEF LockInv, ConversionInv, BlockedBy, Taken, Scanning, FrontInv, FrontWaits,
                  FrontBlocked, PassedWait, FreeIsScanned
    <2> QED
      BY <2>1, <2>2, <2>3, <2>4, <2>5, <2>6 DEF LockInv, NoPriorityConversion
  <1>2. CASE Next
    <2>1. TypeInv /\ HolderInv /\ LockerInv /\ DistinctInv /\ ListInv /\ HeadsInv /\ PartitionInv
          /\ CountInv /\ PartitionedHasNoConflicts /\ CompatibleInv /\ ConversionInv /\ FrontInv
          /\ (NoPriorityConversion => FirstInv)
      BY DEF LockInv
    <2>2. TypeInv'
      BY <1>2, <2>1, TypeStep
    <2>3. HolderInv'
      BY <1>2, <2>1, HolderStep
    <2>4. LockerInv'
      BY <1>2, <2>1, LockerStep
    <2>5. DistinctInv'
      BY <1>2, <2>1, <2>2, DistinctStep
    <2>6. ListInv'
      BY <1>2, <2>1, <2>2, ListStep
    <2>7. HeadsInv' /\ PartitionInv'
      BY <1>2, <2>1, HeadsStep, PartitionStep
    <2>8. CountInv' /\ (NoPriorityConversion => FirstInv')
      BY <1>2, <2>1, <2>2, CountStep, FirstStep
    <2>9. PartitionedHasNoConflicts' /\ CompatibleInv'
      BY <1>2, <2>1, <2>2, PartitionedStep, CompatibleStep
    <2>10. ConversionInv' /\ FrontInv'
      BY <1>2, <2>1, <2>2, <2>3, ConversionStep, FrontStep
    <2>11. NoPriorityConversion => failed' = failed
      BY <1>2, <2>1, <2>2, FailedStep
    <2>12. NoPriorityConversion' <=> NoPriorityConversion
      BY DEF NoPriorityConversion
    <2> QED
      BY <2>2, <2>3, <2>4, <2>5, <2>6, <2>7, <2>8, <2>9, <2>10, <2>11, <2>12 DEF LockInv
  <1> QED
    BY <1>1, <1>2

(* So it holds throughout every behaviour.                                  *)
LEMMA LockInvHolds ==
    ASSUME NoCancelledConversion
    PROVE  Spec => []LockInv
  <1>1. Init => LockInv
    BY InitInv
  <1>2. LockInv /\ [Next]_vars => LockInv'
    BY LockInvStep
  <1> QED
    BY <1>1, <1>2, PTL DEF Spec

----------------------------------------------------------------------------
(* Theorems.                                                                *)

(* No two lockers hold conflicting modes, whichever path granted them: a    *)
(* partition, newRequest, the queue or a conversion.                        *)
THEOREM HeldModesAreCompatible ==
    ASSUME NoCancelledConversion
    PROVE  Spec => []HeldModesCompatible
  <1>1. LockInv => HeldModesCompatible
    <2> SUFFICES ASSUME LockInv, NEW l \in Lockers, NEW k \in Lockers, l # k, Held(l), Held(k)
                 PROVE  ~Conflicts(request[l].mode, {request[k].mode})
      BY DEF HeldModesCompatible
    <2>0. TypeInv /\ LockerInv /\ ListInv /\ HeadsInv /\ PartitionInv /\ CompatibleInv
          /\ PartitionedHasNoConflicts
      BY DEF LockInv
    <2>1. \A j \in Lockers : Held(j) => InPartition(j) \/ OnGrantedList(j)
      BY <2>0 DEF Held, ListInv, ListedOK, GivenUp
    <2>2. CASE OnGrantedList(l) /\ OnGrantedList(k)
      BY <2>0, <2>2 DEF CompatibleInv, OnGrantedList
    <2>3. CASE InPartition(l) \/ InPartition(k)
      <3>1. lock.partitions # <<>>
        BY <2>0, <2>3, HeadsDef
      <3>2. ASSUME NEW j \in Lockers, Held(j) PROVE request[j].mode \in IntentModes
        <4>1. CASE InPartition(j)
          BY <2>0, <4>1 DEF PartitionInv, PartitionedOK
        <4>2. CASE OnGrantedList(j)
          <5>1. request[j].mode \in ModesAll /\ request[j].mode \in IntentModes \union {"NONE"}
            BY <2>0, <3>1, <4>2, ListedModes DEF OnGrantedList, PartitionedHasNoConflicts
          <5> QED
            BY <5>1 DEF ModesAll
        <4> QED
          BY <2>1, <3>2, <4>1, <4>2
      <3>3. IntentModes \subseteq ModesAll
        BY DEF IntentModes, ModesAll
      <3> QED
        BY <3>2, <3>3, ConflictRules
    <2> QED
      BY <2>1, <2>2, <2>3
  <1> QED
    BY <1>1, LockInvHolds, PTL

(* What a locker holds is on exactly one list that the manager will look    *)
(* at: the granted list, or that of a partition that migration will find.   *)
THEOREM HeldRequestsAreListed ==
    ASSUME NoCancelledConversion
    PROVE  Spec => []HeldIsListed
  <1>1. LockInv => HeldIsListed
    <2> SUFFICES ASSUME LockInv PROVE HeldIsListed
      OBVIOUS
    <2>1. ASSUME NEW l \in Lockers, Held(l) PROVE InPartition(l) # OnGrantedList(l)
      <3>1. (InPartition(l) \/ OnGrantedList(l)) /\ ~(InPartition(l) /\ OnGrantedList(l))
        BY <2>1 DEF LockInv, ListInv, ListedOK, Held, GivenUp
      <3>2. InPartition(l) \in BOOLEAN /\ OnGrantedList(l) \in BOOLEAN
        BY DEF InPartition, OnGrantedList
      <3> QED
        BY <2>1, <3>1, <3>2 DEF LockInv, ListInv, ListedOK
    <2>2. \A p \in DOMAIN heads : p \in Members(lock.partitions)
      BY DEF LockInv, HeadsInv
    <2> QED
      BY <2>1, <2>2 DEF HeldIsListed
  <1> QED
    BY <1>1, LockInvHolds, PTL

(* While intent requests may pass the LockHead by through a partition,      *)
(* nothing waits on it and nothing but intent modes is granted.             *)
THEOREM PartitionedLockHasNoConflicts ==
    ASSUME NoCancelledConversion
    PROVE  Spec => []PartitionedHasNoConflicts
  <1>1. LockInv => PartitionedHasNoConflicts
    BY DEF LockInv
  <1> QED
    BY <1>1, LockInvHolds, PTL

(* No wakeup is lost: when no thread is inside the bucket, the front of the *)
(* queue and every conversion are blocked by somebody else's request.       *)
THEOREM NoGrantIsLost ==
    ASSUME NoCancelledConversion
    PROVE  Spec => []NoLostGrant
  <1>1. LockInv => NoLostGrant
    <2> SUFFICES ASSUME LockInv, holder = NoLocker PROVE NoLostGrant
      BY DEF NoLostGrant
    <2>0. /\ TypeInv /\ HolderInv /\ LockerInv /\ ListInv /\ PartitionInv /\ CountInv
          /\ ConversionInv /\ FrontInv
      BY DEF LockInv
    <2>1. NobodyScans /\ ~Scanning({"ScanGranted"})
      BY <2>0, FreeMutex, NobodyScansAny
    <2>2. ASSUME lock.conflictList # <<>>
          PROVE  LET front == request[lock.conflictList[1]]
                 IN  \/ Conflicts(front.mode, Mask(lock.grantedCounts))
                     \/ /\ front.compatibleFirst
                        /\ \E k \in Members(Tail(lock.conflictList)) :
                              Conflicts(front.mode, {request[k].mode})
      <3>1. FrontBlocked
        BY <2>0, <2>1, <2>2, FrontWhenFree
      <3>2. /\ Len(lock.conflictList) \in Nat /\ lock.conflictList \in Seq(Lockers)
            /\ request[lock.conflictList[1]].mode \in ModesAll
        BY <2>0, <2>2, QueueHasFront, FrontIsQueued DEF TypeInv, LockType, LockHead
      <3>3. CASE BlockedBy(request[lock.conflictList[1]].mode, Members(lock.grantedList))
        BY <2>0, <3>2, <3>3, ConflictsGranted
      <3>4. ASSUME NEW i \in 2..Len(lock.conflictList)
            PROVE  lock.conflictList[i] \in Members(Tail(lock.conflictList))
        <4> DEFINE t == Tail(lock.conflictList)
        <4>1. /\ t \in Seq(Lockers) /\ Len(t) = Len(lock.conflictList) - 1
              /\ \A j \in 1..Len(t) : t[j] = lock.conflictList[j + 1]
          BY <2>2, <3>2, HeadTailProperties
        <4> HIDE DEF t
        <4>2. i - 1 \in 1..Len(t) /\ (i - 1) + 1 = i
          BY <3>2, <4>1
        <4>3. t[i - 1] = lock.conflictList[i]
          BY <4>1, <4>2
        <4>4. lock.conflictList[i] \in Members(t)
          BY <4>1, <4>2, <4>3, MembersDef
        <4> QED
          BY <4>4 DEF t
      <3> QED
        BY <3>1, <3>3, <3>4 DEF FrontBlocked
    <2>3. ASSUME NEW l \in Lockers, request[l].status = "Converting"
          PROVE  Conflicts(request[l].convertMode,
                           GrantedWithout({request[l].mode, request[l].convertMode}))
      <3>1. l \in Members(lock.grantedList)
        BY <2>0, <2>3 DEF ListInv, ListedOK, GivenUp, ScanStates, PartitionInv, PartitionedOK,
                          LockerInv, LockerOK, RequestOK, OnGrantedList
      <3>2. PICK i \in 1..Len(lock.grantedList) : lock.grantedList[i] = l
        BY <2>0, <3>1, MembersDef DEF TypeInv, LockType, LockHead
      <3>3. /\ request[l].convertMode \in ModesAll
            /\ BlockedBy(request[l].convertMode, Members(lock.grantedList) \ {l})
        BY <2>0, <2>1, <2>3, <3>2, ConversionAt
      <3>4. {request[l].mode, request[l].convertMode} = Taken(l)
        BY DEF Taken
      <3> QED
        BY <2>0, <3>1, <3>3, <3>4, ConflictsWithout
    <2> QED
      BY <2>2, <2>3 DEF NoLostGrant
  <1> QED
    BY <1>1, LockInvHolds, PTL

(* The lists hold no request that its locker has erased, and the queue      *)
(* exactly the waiters: also when a deadline and a grant race.              *)
THEOREM ListedRequestsAreAlive ==
    ASSUME NoCancelledConversion
    PROVE  Spec => []ListedIsAlive
  <1>1. LockInv => ListedIsAlive
    <2> SUFFICES ASSUME LockInv PROVE ListedIsAlive
      OBVIOUS
    <2>0. TypeInv /\ HolderInv /\ LockerInv /\ DistinctInv /\ ListInv
      BY DEF LockInv
    <2>1. \A l \in Lockers : InPartition(l) \/ OnGrantedList(l) =>
              request[l].status \in {"Granted", "Converting"}
      BY <2>0 DEF ListInv, ListedOK
    <2>2. ASSUME NEW l \in Lockers, request[l].status = "Waiting" PROVE holder = l <=> GivenUp(l)
      BY <2>0, <2>2 DEF HolderInv, MutexStates, ScanStates, GivenUp, LockerInv, LockerOK,
                        ThreadOK, RequestOK
    <2>3. ASSUME NEW l \in Lockers
          PROVE  Cardinality({i \in DOMAIN lock.conflictList : lock.conflictList[i] = l})
                    = (IF request[l].status = "Waiting" /\ ~(holder = l) THEN 1 ELSE 0)
      <3> DEFINE I == {i \in DOMAIN lock.conflictList : lock.conflictList[i] = l}
      <3>1. l \in Members(lock.conflictList) <=> request[l].status = "Waiting" /\ ~(holder = l)
        BY <2>0, <2>2 DEF ListInv, ListedOK, Queued
      <3>2. /\ lock.conflictList \in Seq(Lockers)
            /\ DOMAIN lock.conflictList = 1..Len(lock.conflictList)
        BY <2>0 DEF TypeInv, LockType, LockHead
      <3>3. CASE l \in Members(lock.conflictList)
        <4>1. PICK i \in 1..Len(lock.conflictList) : lock.conflictList[i] = l
          BY <3>2, <3>3, MembersDef
        <4>2. I = {i}
          BY <2>0, <3>2, <4>1 DEF DistinctInv, Distinct
        <4> HIDE DEF I
        <4>3. Cardinality(I) = 1
          BY <4>2, FS_Singleton
        <4> QED
          BY <3>1, <3>3, <4>3 DEF I
      <3>4. CASE l \notin Members(lock.conflictList)
        <4>1. I = {}
          BY <3>2, <3>4, MembersDef
        <4> HIDE DEF I
        <4>2. Cardinality(I) = 0
          BY <4>1, FS_EmptySet
        <4> QED
          BY <3>1, <3>4, <4>2 DEF I
      <3> QED
        BY <3>3, <3>4
    <2>4. \A l \in Members(lock.conflictList) : pc[l] \in {"Waiting", "TimedOut", "UnlockBucket"}
      <3>1. ASSUME NEW l \in Members(lock.conflictList)
            PROVE  pc[l] \in {"Waiting", "TimedOut", "UnlockBucket"}
        <4>1. l \in Lockers /\ request[l].status = "Waiting" /\ ~GivenUp(l)
          BY <2>0, ListsInLockers DEF ListInv, ListedOK, Queued
        <4>2. LockerOK(l) /\ pc[l] \in {"Idle", "LockBucket", "LockMigrate", "ConvertBucket",
                           "ConvertMigrate", "Waiting", "TimedOut", "UnlockPartition",
                           "UnlockBucket", "ScanGranted", "ScanConflicts"}
          BY <2>0, <4>1 DEF LockerInv, TypeInv, ControlType
        <4>3. pc[l] # "Idle"
          BY <4>1, <4>2 DEF LockerOK, ThreadOK, InitNew
        <4>4. pc[l] \notin ScanStates
          BY <4>1, <4>2 DEF LockerOK, ThreadOK, GivenUp
        <4> QED
          BY <4>1, <4>2, <4>3, <4>4 DEF LockerOK, ThreadOK, ScanStates
      <3> QED
        BY <3>1
    <2> QED
      BY <2>1, <2>3, <2>4 DEF ListedIsAlive
  <1> QED
    BY <1>1, LockInvHolds, PTL

(* The counts of the LockHead agree with its lists.                         *)
THEOREM CountsAgreeWithLists ==
    ASSUME NoCancelledConversion, NoPriorityConversion
    PROVE  Spec => []CountsMatchLists
  <1>1. LockInv => CountsMatchLists
    <2> SUFFICES ASSUME LockInv PROVE CountsMatchLists
      OBVIOUS
    <2>1. CountInv /\ FirstInv
      BY DEF LockInv
    <2>2. \A m : ToConvert(m) = {l \in Conversions : request[l].convertMode = m}
      BY DEF ToConvert, Conversions
    <2> QED
      BY <2>1, <2>2 DEF CountsMatchLists, CountInv, FirstInv, WithMode, Conversions, Firsts
  <1> QED
    BY <1>1, LockInvHolds, PTL

(* The variables keep their types; in particular no count goes below zero.  *)
THEOREM TypeCorrect ==
    ASSUME NoCancelledConversion, NoPriorityConversion
    PROVE  Spec => []TypeOK
  <1>1. LockInv => TypeOK
    <2> SUFFICES ASSUME LockInv PROVE TypeOK
      OBVIOUS
    <2>0. TypeInv /\ CountInv /\ FirstInv
      BY DEF LockInv
    <2>1. /\ lock.conversionsCount \in Nat /\ lock.compatibleFirstCount \in Nat
          /\ \A m \in ModesAll : lock.grantedCounts[m] \in Nat /\ lock.conflictCounts[m] \in Nat
      <3>1. ASSUME NEW m \in ModesAll
            PROVE  lock.grantedCounts[m] \in Nat /\ lock.conflictCounts[m] \in Nat
        BY <2>0, FiniteLists DEF CountInv
      <3> QED
        BY <2>0, <3>1, FiniteLists DEF CountInv, FirstInv
    <2>2. /\ lock.grantedCounts \in [ModesAll -> Nat] /\ lock.conflictCounts \in [ModesAll -> Nat]
      BY <2>0, <2>1, CountTypesOfLock
    <2>3. /\ lock.grantedList \in Seq(Lockers) /\ lock.conflictList \in Seq(Lockers)
          /\ lock.partitions \in Seq(Partitions)
      BY <2>0 DEF TypeInv, LockType, LockHead
    <2>4. request \in [Lockers -> Request] /\ HeadsType /\ ControlType
      BY <2>0 DEF TypeInv, RequestType
    <2> QED
      BY <2>1, <2>2, <2>3, <2>4 DEF TypeOK, Request, HeadsType, ControlType
  <1> QED
    BY <1>1, LockInvHolds, PTL

(* None of the invariants that the lock manager asserts ever fails.         *)
THEOREM NoAssertionFails ==
    ASSUME NoCancelledConversion, NoPriorityConversion
    PROVE  Spec => []NoInvariantFails
  <1>1. Init => LockInv /\ NoInvariantFails
    BY InitInv
  <1>2. LockInv /\ NoInvariantFails /\ [Next]_vars => NoInvariantFails'
    BY LockInvStep DEF NoInvariantFails
  <1> QED
    BY <1>1, <1>2, LockInvHolds, PTL DEF Spec

=============================================================================
