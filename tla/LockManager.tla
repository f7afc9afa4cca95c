---------------------------- MODULE LockManager ----------------------------
(***************************************************************************)
(* The lock manager of db/concurrency: the requests that Lockers hold and  *)
(* wait for on one resource.  The manager keeps the resources apart (only  *)
(* the mutex of a hash bucket is shared), so one resource is the whole of  *)
(* its protocol:                                                           *)
(*                                                                         *)
(*   - the LockHead, guarded by the bucket's mutex, with a granted list    *)
(*     that holds the conversions too and a conflict list of the waiters,  *)
(*     the counts of the modes on either, and the partitions in use;       *)
(*   - one PartitionedLockHead per partition, guarded by the partition's   *)
(*     mutex, that takes the intent requests while nothing conflicts.      *)
(*                                                                         *)
(* A step is what a thread does inside one critical section, or between    *)
(* two.  A thread that keeps the bucket's mutex over several steps (it     *)
(* takes the partitions' mutexes one by one to migrate their requests, or  *)
(* walks the two lists to grant) is its `holder'; meanwhile the others may *)
(* take whatever path needs another mutex or none.                         *)
(***************************************************************************)
EXTENDS Integers, Sequences, FiniteSets

CONSTANTS
    Lockers,          \* the lockers, each a thread
    Partitions,       \* the partitions of intent locks
    PartitionOf,      \* _getPartition: the locker's partition
    Global,           \* whether the resource is RESOURCE_GLOBAL
    LockModes,        \* the modes in which lockers ask for the lock
    ConvertModes,     \* the modes to which lockers convert it
    Cancels,          \* which waits end at a deadline: "lock", "convert"
    MaxRecursion,     \* bound on the recursive count of a request
    Cleaner,          \* the thread that deletes unused LockHeads
    NoLocker          \* nobody holds the bucket's mutex

ModesAll == {"IS", "IX", "S", "X"}

ASSUME ConstantAssumption ==
    /\ IsFiniteSet(Lockers)
    /\ Cleaner # NoLocker /\ {Cleaner, NoLocker} \intersect Lockers = {}
    /\ PartitionOf \in [Lockers -> Partitions]
    /\ Global \in BOOLEAN
    /\ LockModes \subseteq ModesAll /\ ConvertModes \subseteq ModesAll
    /\ Cancels \subseteq {"lock", "convert"}
    /\ MaxRecursion \in Nat \ {0}

VARIABLES
    request,      \* the LockRequest of each locker
    lock,         \* the LockHead
    heads,        \* the PartitionedLockHeads that exist: partition -> list
    pc,           \* where each locker's thread is
    newMode,      \* the mode a conversion under way asks for
    holder,       \* whose thread keeps the bucket's mutex
    scan,         \* the locals of _onLockModeChanged
    failed        \* the first invariant() that did not hold

vars == <<request, lock, heads, pc, newMode, holder, scan, failed>>

-----------------------------------------------------------------------------
(* Modes *)

IntentModes == {"IS", "IX"}

LockConflictsTable ==
    [m \in ModesAll \union {"NONE"} |->
        CASE m = "NONE" -> {}
          [] m = "IS"   -> {"X"}
          [] m = "IX"   -> {"S", "X"}
          [] m = "S"    -> {"IX", "X"}
          [] m = "X"    -> {"S", "X", "IS", "IX"}]

Conflicts(m, existing) == LockConflictsTable[m] \intersect existing # {}

IsModeCovered(m, covering) ==
    LockConflictsTable[m] \subseteq LockConflictsTable[covering]

(* The masks are kept in lock step with the counts. *)
Mask(counts) == {m \in ModesAll : counts[m] > 0}

(* Mutant: the count stays at one. *)
IncOnce(counts, m) == [counts EXCEPT ![m] = 1]

Inc(counts, m) == [counts EXCEPT ![m] = @ + 1]

(* Mutant: the mode is taken off the mask with its first release. *)
DecClears(counts, m) == [counts EXCEPT ![m] = 0]

Dec(counts, m) == [counts EXCEPT ![m] = @ - 1]

-----------------------------------------------------------------------------
(* Requests and lists *)

InitNew ==
    [status |-> "New", mode |-> "NONE", convertMode |-> "NONE",
     recursiveCount |-> 0, partitioned |-> FALSE, compatibleFirst |-> FALSE]

EmptyLockHead ==
    [grantedList |-> <<>>, grantedCounts |-> [m \in ModesAll |-> 0],
     conflictList |-> <<>>, conflictCounts |-> [m \in ModesAll |-> 0],
     partitions |-> <<>>, conversionsCount |-> 0, compatibleFirstCount |-> 0]

Members(list) == {list[i] : i \in DOMAIN list}

(* Mutant: takes off the front. *)
ListPopFront(list, l) == IF list = <<>> THEN list ELSE Tail(list)

(* The list is intrusive: taking a request that is not on it off it makes  *)
(* both ends of the list null.                                             *)
ListRemove(list, l) ==
    IF l \in Members(list)
    THEN LET i == CHOOSE j \in DOMAIN list : list[j] = l
         IN  SubSeq(list, 1, i - 1) \o SubSeq(list, i + 1, Len(list))
    ELSE <<>>

(* Mutant: takes the request's own modes off the mask. *)
GrantedMaskWithout(own) == Mask(lock.grantedCounts) \ own

(* The modes that others hold or wait to convert to, for a request that    *)
(* itself accounts for one of each mode in `own'.                          *)
GrantedWithout(own) ==
    {m \in ModesAll : lock.grantedCounts[m] > (IF m \in own THEN 1 ELSE 0)}

(* invariant(): the process aborts, nothing else happens. *)
Expect(condition, what) == failed' = IF condition THEN failed ELSE what

-----------------------------------------------------------------------------
(* Acquiring *)

(* The full modes of the global lock go first in the queue and, while they *)
(* are granted, let later compatible requests overtake (lockBegin).        *)
Priority(m) == Global /\ m \in {"S", "X"}

(* LockerImpl::lockBegin of a new request and the first part of            *)
(* LockManager::lock: an intent request joins the PartitionedLockHead if   *)
(* there is one, else the thread goes for the bucket's mutex.              *)
Lock(l, m) ==
    LET p == PartitionOf[l]
        r == [InitNew EXCEPT !.mode = m, !.recursiveCount = 1,
                             !.partitioned = m \in IntentModes,
                             !.compatibleFirst = Priority(m)]
    IN  /\ pc[l] = "Idle" /\ request[l].status = "New"
        /\ \/ /\ m \in IntentModes /\ p \in DOMAIN heads
              /\ request' = [request EXCEPT ![l] = [r EXCEPT !.status = "Granted"]]
              /\ heads' = [heads EXCEPT ![p] = Append(@, l)]
              /\ UNCHANGED pc
           \/ /\ ~(m \in IntentModes /\ p \in DOMAIN heads)
              /\ request' = [request EXCEPT ![l] = r]
              /\ pc' = [pc EXCEPT ![l] = "LockBucket"]
              /\ UNCHANGED heads
        /\ UNCHANGED <<lock, newMode, holder, scan, failed>>

(* Mutant: looks at the granted modes only. *)
MayPartitionOverWaiters == Mask(lock.grantedCounts) \subseteq IntentModes

(* Nothing but intent modes is granted and nothing waits. *)
MayPartition ==
    Mask(lock.grantedCounts) \subseteq IntentModes /\ Mask(lock.conflictCounts) = {}

(* Mutant: only the first partition is recorded. *)
AddFirstPartition(p) == IF lock.partitions = <<>> THEN <<p>> ELSE lock.partitions

(* The partition is added each time: it may be in the vector already. *)
AddPartition(p) == Append(lock.partitions, p)

(* LockManager::lock under the bucket's mutex: start a partitioned lock. *)
StartPartitioned(l) ==
    LET p == PartitionOf[l]
    IN  /\ pc[l] = "LockBucket" /\ holder = NoLocker
        /\ request[l].partitioned /\ MayPartition
        /\ heads' = [q \in DOMAIN heads \union {p} |->
                        IF q # p THEN heads[q]
                        ELSE IF p \in DOMAIN heads THEN Append(heads[p], l) ELSE <<l>>]
        /\ lock' = [lock EXCEPT !.partitions = AddPartition(p)]
        /\ request' = [request EXCEPT ![l].status = "Granted"]
        /\ pc' = [pc EXCEPT ![l] = "Idle"]
        /\ UNCHANGED <<newMode, holder, scan, failed>>

(* Mutant: new requests overtake the waiters. *)
MustWaitForGranted(m) == Conflicts(m, Mask(lock.grantedCounts))

(* A new request waits behind all granted modes and, unless the policy     *)
(* is compatible-first, behind all the conflicting modes that wait.        *)
MustWait(m) ==
    \/ Conflicts(m, Mask(lock.grantedCounts))
    \/ lock.compatibleFirstCount = 0 /\ Conflicts(m, Mask(lock.conflictCounts))

(* migratePartitionedLockHeads begins: the thread keeps the bucket's mutex *)
(* while it takes the partitions' one after the other.                     *)
StartMigration(l) ==
    /\ holder = NoLocker /\ lock.partitions # <<>>
    /\ \/ /\ pc[l] = "LockBucket" /\ ~(request[l].partitioned /\ MayPartition)
          /\ pc' = [pc EXCEPT ![l] = "LockMigrate"]
       \/ /\ pc[l] = "ConvertBucket"
          /\ pc' = [pc EXCEPT ![l] = "ConvertMigrate"]
    /\ holder' = l
    /\ Expect(MayPartition, "partitioned head with conflicts")
    /\ UNCHANGED <<request, lock, heads, newMode, scan>>

(* One turn of its loop: the requests of the last partition move to the    *)
(* end of the granted list, each through newRequest.                       *)
MigratePartition(l) ==
    LET p == lock.partitions[Len(lock.partitions)]
        list == IF p \in DOMAIN heads THEN heads[p] ELSE <<>>
        moved == Members(list)
    IN  /\ holder = l
        /\ l # Cleaner => pc[l] \in {"LockMigrate", "ConvertMigrate"}
        /\ lock.partitions # <<>>
        /\ Expect(\A r \in moved : ~MustWait(request[r].mode),
                  "migrated request not granted")
        /\ lock' = [lock EXCEPT
              !.partitions = SubSeq(@, 1, Len(@) - 1),
              !.grantedList = @ \o list,
              !.grantedCounts = [m \in ModesAll |->
                  @[m] + Cardinality({r \in moved : request[r].mode = m})],
              !.compatibleFirstCount =
                  @ + Cardinality({r \in moved : request[r].compatibleFirst})]
        /\ heads' = [q \in DOMAIN heads \ {p} |-> heads[q]]
        /\ UNCHANGED <<request, pc, newMode, holder, scan>>

(* The thread has the bucket's mutex and finds, or has left, the LockHead  *)
(* without partitions.                                                     *)
AtLockHead(l, before, migrated) ==
    /\ lock.partitions = <<>>
    /\ \/ pc[l] = before /\ holder = NoLocker
       \/ pc[l] = migrated /\ holder = l

(* LockHead::newRequest. *)
NewRequest(l) ==
    LET m == request[l].mode
        first == request[l].compatibleFirst
    IN  /\ AtLockHead(l, "LockBucket", "LockMigrate")
        /\ pc[l] = "LockBucket" => ~(request[l].partitioned /\ MayPartition)
        /\ \/ /\ MustWait(m)
              /\ lock' = [lock EXCEPT
                    !.conflictList = IF first THEN <<l>> \o @ ELSE Append(@, l),
                    !.conflictCounts = Inc(@, m)]
              /\ request' = [request EXCEPT ![l].status = "Waiting",
                                            ![l].partitioned = FALSE]
              /\ pc' = [pc EXCEPT ![l] = "Waiting"]
           \/ /\ ~MustWait(m)
              /\ lock' = [lock EXCEPT
                    !.grantedList = Append(@, l),
                    !.grantedCounts = Inc(@, m),
                    !.compatibleFirstCount = IF first THEN @ + 1 ELSE @]
              /\ request' = [request EXCEPT ![l].status = "Granted",
                                            ![l].partitioned = FALSE]
              /\ pc' = [pc EXCEPT ![l] = "Idle"]
        /\ holder' = NoLocker
        /\ UNCHANGED <<heads, newMode, scan, failed>>

-----------------------------------------------------------------------------
(* Converting *)

(* lockBegin of a resource already held and the part of                    *)
(* LockManager::convert that takes no mutex: a covered mode is granted.    *)
Convert(l, m) ==
    /\ pc[l] = "Idle" /\ request[l].status = "Granted"
    /\ request[l].recursiveCount < MaxRecursion
    /\ \/ IsModeCovered(m, request[l].mode)
       \/ IsModeCovered(request[l].mode, m)
    /\ request' = [request EXCEPT ![l].recursiveCount = @ + 1,
                                  ![l].compatibleFirst = @ \/ Priority(m)]
    /\ \/ /\ IsModeCovered(m, request[l].mode)
          /\ UNCHANGED <<pc, newMode>>
       \/ /\ ~IsModeCovered(m, request[l].mode)
          /\ pc' = [pc EXCEPT ![l] = "ConvertBucket"]
          /\ newMode' = [newMode EXCEPT ![l] = m]
    /\ UNCHANGED <<lock, heads, holder, scan, failed>>

(* The rest of convert, under the bucket's mutex.  The waiters do not      *)
(* matter; the modes to which others wait to convert do, since they are    *)
(* counted as granted.                                                     *)
ConvertRequest(l) ==
    LET m == newMode[l]
        old == request[l].mode
        counted == Inc(lock.grantedCounts, m)
    IN  /\ AtLockHead(l, "ConvertBucket", "ConvertMigrate")
        /\ \/ /\ Conflicts(m, GrantedWithout({old}))
              /\ request' = [request EXCEPT ![l].status = "Converting",
                                            ![l].convertMode = m]
              /\ lock' = [lock EXCEPT !.conversionsCount = @ + 1,
                                      !.grantedCounts = counted]
              /\ pc' = [pc EXCEPT ![l] = "Waiting"]
              /\ UNCHANGED failed
           \/ /\ ~Conflicts(m, GrantedWithout({old}))
              /\ request' = [request EXCEPT ![l].mode = m]
              /\ lock' = [lock EXCEPT !.grantedCounts = Dec(counted, old)]
              /\ pc' = [pc EXCEPT ![l] = "Idle"]
              /\ Expect(counted[old] >= 1, "granted count")
        /\ newMode' = [newMode EXCEPT ![l] = "NONE"]
        /\ holder' = NoLocker
        /\ UNCHANGED <<heads, scan>>

-----------------------------------------------------------------------------
(* Waiting: LockerImpl::lockComplete *)

(* The notification, given in the critical section that grants. *)
LockComplete(l) ==
    /\ pc[l] = "Waiting" /\ request[l].status = "Granted"
    /\ pc' = [pc EXCEPT ![l] = "Idle"]
    /\ UNCHANGED <<request, lock, heads, newMode, holder, scan, failed>>

(* The deadline passes, or the operation is interrupted, before it: the    *)
(* thread goes on to unlock, and the lock may be granted at any moment.    *)
LockTimeout(l) ==
    /\ pc[l] = "Waiting"
    /\ \/ request[l].status = "Waiting" /\ "lock" \in Cancels
       \/ request[l].status = "Converting" /\ "convert" \in Cancels
    /\ pc' = [pc EXCEPT ![l] = "TimedOut"]
    /\ UNCHANGED <<request, lock, heads, newMode, holder, scan, failed>>

-----------------------------------------------------------------------------
(* Releasing *)

(* LockManager::unlock before it takes a mutex: it counts down and looks   *)
(* at the status, which other threads write under the bucket's mutex.      *)
Unlock(l) ==
    LET left == request[l].recursiveCount - 1
        done == request[l].status = "Granted" /\ left > 0
    IN  /\ \/ pc[l] = "Idle" /\ request[l].status = "Granted"
           \/ pc[l] = "TimedOut"
        /\ Expect(/\ request[l].recursiveCount > 0
                  /\ ~done /\ request[l].partitioned =>
                        request[l].status \in {"Granted", "Converting"},
                  "released request")
        /\ request' = [request EXCEPT ![l].recursiveCount = left]
        /\ pc' = [pc EXCEPT ![l] =
              IF done THEN "Idle"
              ELSE IF request[l].partitioned THEN "UnlockPartition"
              ELSE "UnlockBucket"]
        /\ UNCHANGED <<lock, heads, newMode, holder, scan>>

(* A request that was acquired as partitioned: under the partition's       *)
(* mutex, unless it has migrated.                                          *)
UnlockPartition(l) ==
    LET p == PartitionOf[l]
        there == p \in DOMAIN heads /\ l \in Members(heads[p])
    IN  /\ pc[l] = "UnlockPartition"
        /\ \/ /\ there
              /\ heads' = [heads EXCEPT ![p] = ListRemove(@, l)]
              /\ request' = [request EXCEPT ![l] = InitNew]
              /\ pc' = [pc EXCEPT ![l] = "Idle"]
           \/ /\ ~there
              /\ pc' = [pc EXCEPT ![l] = "UnlockBucket"]
              /\ UNCHANGED <<heads, request>>
        /\ UNCHANGED <<lock, newMode, holder, scan, failed>>

(* Mutant: only conversions are looked at. *)
StartScanOfConversions(l, checkConflictQueue) ==
    /\ holder' = l
    /\ pc' = [pc EXCEPT ![l] = "ScanGranted"]
    /\ scan' = [at |-> 1, check |-> FALSE, newly |-> FALSE]

(* Enter _onLockModeChanged with the bucket's mutex. *)
StartScan(l, checkConflictQueue) ==
    /\ holder' = l
    /\ pc' = [pc EXCEPT ![l] = "ScanGranted"]
    /\ scan' = [at |-> 1, check |-> checkConflictQueue, newly |-> FALSE]

(* unlock under the bucket's mutex, by what the request's status is now:   *)
(* a granted request leaves its list,                                      *)
UnlockGranted(l) ==
    LET m == request[l].mode
        first == request[l].compatibleFirst
        granted == ListRemove(lock.grantedList, l)
        counts == Dec(lock.grantedCounts, m)
        firsts == IF first THEN lock.compatibleFirstCount - 1
                           ELSE lock.compatibleFirstCount
    IN  /\ pc[l] = "UnlockBucket" /\ holder = NoLocker
        /\ request[l].status = "Granted"
        /\ Expect(/\ lock.grantedCounts[m] >= 1
                  /\ first => /\ lock.compatibleFirstCount > 0
                              /\ firsts = 0 \/ granted # <<>>,
                  IF lock.grantedCounts[m] >= 1 THEN "compatible-first count"
                                                ELSE "granted count")
        /\ lock' = [lock EXCEPT !.grantedList = granted, !.grantedCounts = counts,
                                !.compatibleFirstCount = firsts]
        /\ StartScan(l, counts[m] = 0)
        /\ UNCHANGED <<request, heads, newMode>>

(* a waiting one the queue,                                                *)
UnlockWaiting(l) ==
    /\ pc[l] = "UnlockBucket" /\ holder = NoLocker
    /\ request[l].status = "Waiting"
    /\ Expect(request[l].recursiveCount = 0 /\ lock.conflictCounts[request[l].mode] >= 1,
              "cancelled request")
    /\ lock' = [lock EXCEPT !.conflictList = ListRemove(@, l),
                            !.conflictCounts = Dec(@, request[l].mode)]
    /\ StartScan(l, TRUE)
    /\ UNCHANGED <<request, heads, newMode>>

(* and a converting one goes back to the mode it had.  The queue is always *)
(* checked: the code looks up the count of MODE_NONE.                      *)
UnlockConverting(l) ==
    /\ pc[l] = "UnlockBucket" /\ holder = NoLocker
    /\ request[l].status = "Converting"
    /\ Expect(/\ request[l].recursiveCount > 0 /\ lock.conversionsCount > 0
              /\ lock.grantedCounts[request[l].convertMode] >= 1,
              "cancelled conversion")
    /\ request' = [request EXCEPT ![l].status = "Granted",
                                  ![l].convertMode = "NONE"]
    /\ lock' = [lock EXCEPT !.conversionsCount = @ - 1,
                            !.grantedCounts = Dec(@, request[l].convertMode)]
    /\ StartScan(l, TRUE)
    /\ UNCHANGED <<heads, newMode>>

(* LockManager::downgrade.  Its callers hold X. *)
Downgrade(l, m) ==
    /\ pc[l] = "Idle" /\ holder = NoLocker
    /\ request[l].status = "Granted" /\ request[l].mode = "X"
    /\ lock' = [lock EXCEPT !.grantedCounts = Dec(Inc(@, m), "X")]
    /\ Expect(lock.grantedCounts["X"] >= 1, "granted count")
    /\ request' = [request EXCEPT ![l].mode = m]
    /\ StartScan(l, TRUE)
    /\ UNCHANGED <<heads, newMode>>

-----------------------------------------------------------------------------
(* Granting: _onLockModeChanged *)

(* The conversions come first, front to back. *)
ScanGranted(l) ==
    LET it == lock.grantedList[scan.at]
        r == request[it]
        grant == /\ r.status = "Converting"
                 /\ ~Conflicts(r.convertMode, GrantedWithout({r.mode, r.convertMode}))
    IN  /\ holder = l /\ pc[l] = "ScanGranted"
        /\ \/ /\ scan.at <= Len(lock.grantedList) /\ lock.conversionsCount > 0
              /\ Expect(r.status = "Converting" =>
                            /\ r.convertMode \notin {"NONE", r.mode}
                            /\ grant => lock.grantedCounts[r.mode] >= 1,
                        "conversion")
              /\ \/ /\ grant
                    /\ request' = [request EXCEPT ![it].status = "Granted",
                                                  ![it].mode = r.convertMode,
                                                  ![it].convertMode = "NONE"]
                    /\ lock' = [lock EXCEPT !.conversionsCount = @ - 1,
                                            !.grantedCounts = Dec(@, r.mode)]
                 \/ ~grant /\ UNCHANGED <<request, lock>>
              /\ scan' = [scan EXCEPT !.at = @ + 1]
              /\ UNCHANGED pc
           \/ /\ ~(scan.at <= Len(lock.grantedList) /\ lock.conversionsCount > 0)
              /\ scan' = [scan EXCEPT !.at = 1]
              /\ pc' = [pc EXCEPT ![l] = "ScanConflicts"]
              /\ UNCHANGED <<request, lock, failed>>
        /\ UNCHANGED <<heads, newMode, holder>>

(* A waiter that stays blocked at the front ends the walk, so that it is   *)
(* not starved; one further back is passed over.                           *)
ScanGoesOn ==
    /\ scan.check
    /\ scan.at <= Len(lock.conflictList)
    /\ scan.at = 1 /\ ~scan.newly =>
          ~Conflicts(request[lock.conflictList[1]].mode, Mask(lock.grantedCounts))

ScanConflicts(l) ==
    LET it == lock.conflictList[scan.at]
        r == request[it]
        opens == r.compatibleFirst /\ lock.compatibleFirstCount = 0
    IN  /\ holder = l /\ pc[l] = "ScanConflicts"
        /\ ScanGoesOn
        /\ Expect(r.status = "Waiting" /\ lock.conflictCounts[r.mode] >= 1, "waiting request")
        /\ \/ /\ Conflicts(r.mode, Mask(lock.grantedCounts))
              /\ scan' = [scan EXCEPT !.at = @ + 1]
              /\ UNCHANGED <<request, lock>>
           \/ /\ ~Conflicts(r.mode, Mask(lock.grantedCounts))
              /\ request' = [request EXCEPT ![it].status = "Granted"]
              /\ lock' = [lock EXCEPT
                    !.conflictList = ListRemove(@, it),
                    !.conflictCounts = Dec(@, r.mode),
                    !.grantedList = Append(@, it),
                    !.grantedCounts = Inc(@, r.mode),
                    !.compatibleFirstCount = IF r.compatibleFirst THEN @ + 1 ELSE @]
              /\ scan' = [scan EXCEPT !.newly = @ \/ opens,
                                      !.check = r.mode # "X"]
        /\ UNCHANGED <<heads, pc, newMode, holder>>

(* The closing checks; the mutex is let go and unlock returns.  When the   *)
(* count has reached zero the Locker erases its request.                   *)
ScanFinish(l) ==
    /\ holder = l /\ pc[l] = "ScanConflicts"
    /\ ~ScanGoesOn
    /\ Expect(/\ (Mask(lock.grantedCounts) = {}) <=> (lock.grantedList = <<>>)
              /\ (Mask(lock.conflictCounts) = {}) <=> (lock.conflictList = <<>>),
              "queues out of sync with the masks")
    /\ request' = [request EXCEPT ![l] = IF @.recursiveCount = 0 THEN InitNew ELSE @]
    /\ holder' = NoLocker
    /\ pc' = [pc EXCEPT ![l] = "Idle"]
    /\ scan' = [at |-> 1, check |-> FALSE, newly |-> FALSE]
    /\ UNCHANGED <<lock, heads, newMode>>

-----------------------------------------------------------------------------
(* Deleting unused LockHeads: _cleanupUnusedLocksInBucket, which the       *)
(* periodic UnusedLockCleaner and the lockInfo command run.                *)

CleanupStart ==
    /\ holder = NoLocker
    /\ holder' = Cleaner
    /\ Expect(lock.partitions # <<>> => MayPartition, "partitioned head with conflicts")
    /\ UNCHANGED <<request, lock, heads, pc, newMode, scan>>

(* A LockHead with no granted mode is deleted; the next request for the    *)
(* resource creates another.                                               *)
CleanupFinish ==
    LET unused == Mask(lock.grantedCounts) = {}
    IN  /\ holder = Cleaner /\ lock.partitions = <<>>
        /\ Expect(unused => lock = EmptyLockHead, "deleted head in use")
        /\ lock' = IF unused THEN EmptyLockHead ELSE lock
        /\ holder' = NoLocker
        /\ UNCHANGED <<request, heads, pc, newMode, scan>>

Cleanup == CleanupStart \/ MigratePartition(Cleaner) \/ CleanupFinish

-----------------------------------------------------------------------------

Init ==
    /\ request = [l \in Lockers |-> InitNew]
    /\ lock = EmptyLockHead
    /\ heads = [p \in {} |-> <<>>]
    /\ pc = [l \in Lockers |-> "Idle"]
    /\ newMode = [l \in Lockers |-> "NONE"]
    /\ holder = NoLocker
    /\ scan = [at |-> 1, check |-> FALSE, newly |-> FALSE]
    /\ failed = "None"

(* The steps of a call under way. *)
Continue(l) ==
    \/ StartPartitioned(l) \/ StartMigration(l) \/ MigratePartition(l)
    \/ NewRequest(l) \/ ConvertRequest(l) \/ LockComplete(l)
    \/ UnlockPartition(l)
    \/ UnlockGranted(l) \/ UnlockWaiting(l) \/ UnlockConverting(l)
    \/ ScanGranted(l) \/ ScanConflicts(l) \/ ScanFinish(l)

Next ==
    /\ failed = "None"
    /\ \/ \E l \in Lockers :
             \/ \E m \in LockModes : Lock(l, m)
             \/ \E m \in ConvertModes : Convert(l, m)
             \/ \E m \in {"IX", "S"} : Downgrade(l, m)
             \/ LockTimeout(l)
             \/ Unlock(l)
             \/ Continue(l)
       \/ Cleanup

Spec == Init /\ [][Next]_vars

(* A thread whose call is under way goes on, and gets the mutex it keeps   *)
(* asking for; a locker that holds the lock releases it.                   *)
FairSpec ==
    /\ Spec
    /\ \A l \in Lockers : SF_vars(Continue(l)) /\ WF_vars(Unlock(l))
    /\ WF_vars(Cleanup)

-----------------------------------------------------------------------------
(* Properties *)

(* A request that its locker counts as held: granted, also while it waits  *)
(* to convert, and not half-way through being given up.                    *)
Held(l) == /\ request[l].status \in {"Granted", "Converting"}
           /\ request[l].recursiveCount > 0

InPartition(l) ==
    PartitionOf[l] \in DOMAIN heads /\ l \in Members(heads[PartitionOf[l]])

OnGrantedList(l) == l \in Members(lock.grantedList)

(* The values of the requests, the lists and their counts, which are never  *)
(* negative.                                                               *)
TypeOK ==
    /\ request \in [Lockers ->
          [status : {"New", "Granted", "Waiting", "Converting"},
           mode : ModesAll \union {"NONE"}, convertMode : ModesAll \union {"NONE"},
           recursiveCount : 0..MaxRecursion, partitioned : BOOLEAN,
           compatibleFirst : BOOLEAN]]
    /\ lock.grantedList \in Seq(Lockers) /\ lock.conflictList \in Seq(Lockers)
    /\ lock.grantedCounts \in [ModesAll -> Nat]
    /\ lock.conflictCounts \in [ModesAll -> Nat]
    /\ lock.partitions \in Seq(Partitions)
    /\ lock.conversionsCount \in Nat /\ lock.compatibleFirstCount \in Nat
    /\ DOMAIN heads \subseteq Partitions
    /\ \A p \in DOMAIN heads : heads[p] \in Seq(Lockers)
    /\ pc \in [Lockers -> {"Idle", "LockBucket", "LockMigrate", "ConvertBucket",
                           "ConvertMigrate", "Waiting", "TimedOut", "UnlockPartition",
                           "UnlockBucket", "ScanGranted", "ScanConflicts"}]
    /\ newMode \in [Lockers -> ModesAll \union {"NONE"}]
    /\ holder \in Lockers \union {NoLocker, Cleaner}
    /\ scan \in [at : Nat \ {0}, check : BOOLEAN, newly : BOOLEAN]

(* Whatever path granted them, through a partition, at once, from the      *)
(* queue or as a conversion, no two lockers hold conflicting modes.        *)
HeldModesCompatible ==
    \A l, k \in Lockers :
        l # k /\ Held(l) /\ Held(k)
            => ~Conflicts(request[l].mode, {request[k].mode})

(* What a locker holds the manager knows of: its request is on exactly one *)
(* list, and a partition with requests is one the LockHead will migrate.   *)
HeldIsListed ==
    /\ \A l \in Lockers : Held(l) => (InPartition(l) # OnGrantedList(l))
    /\ \A p \in DOMAIN heads : heads[p] # <<>> => p \in Members(lock.partitions)

(* "These counts should exactly match the aggregated modes" of the lists,  *)
(* the modes to convert to being on the granted one, and so do the counts  *)
(* of the conversions and of the compatible-first requests.                *)
CountsMatchLists ==
    LET Of(list, m) == Cardinality({l \in Members(list) : request[l].mode = m})
        converting == {l \in Members(lock.grantedList) : request[l].status = "Converting"}
    IN  /\ \A m \in ModesAll :
              /\ lock.grantedCounts[m] =
                    Of(lock.grantedList, m)
                      + Cardinality({l \in converting : request[l].convertMode = m})
              /\ lock.conflictCounts[m] = Of(lock.conflictList, m)
        /\ lock.conversionsCount = Cardinality(converting)
        /\ lock.compatibleFirstCount =
              Cardinality({l \in Members(lock.grantedList) : request[l].compatibleFirst})

(* The manager's lists point into the lockers' memory.  A request on a     *)
(* list has not been erased by its locker, the queue holds each waiter     *)
(* once and nobody else, and its locker is still in the call that waits    *)
(* or gives up: also when a deadline and a grant race.                     *)
ListedIsAlive ==
    /\ \A l \in Lockers :
          InPartition(l) \/ OnGrantedList(l) =>
              request[l].status \in {"Granted", "Converting"}
    /\ \A l \in Lockers :
          Cardinality({i \in DOMAIN lock.conflictList : lock.conflictList[i] = l})
              = (IF request[l].status = "Waiting" /\ ~(holder = l) THEN 1 ELSE 0)
    /\ \A l \in Members(lock.conflictList) :
          pc[l] \in {"Waiting", "TimedOut", "UnlockBucket"}

(* While the LockHead is partitioned nothing waits and nothing but intent  *)
(* modes is granted, so that the intent requests may pass it by.           *)
PartitionedHasNoConflicts ==
    lock.partitions # <<>> =>
        /\ lock.conflictList = <<>>
        /\ \A l \in Members(lock.grantedList) :
              {request[l].mode, request[l].convertMode} \subseteq IntentModes \union {"NONE"}

(* No wakeup is lost: when nobody is inside the bucket, the first waiter   *)
(* is blocked by a granted mode, and each conversion by a mode that        *)
(* another request holds or waits for.  On the global lock a full mode may *)
(* have queued in front of the waiter that made it wait.                   *)
NoLostGrant ==
    holder = NoLocker =>
        /\ lock.conflictList # <<>> =>
              LET front == request[lock.conflictList[1]]
              IN  \/ Conflicts(front.mode, Mask(lock.grantedCounts))
                  \/ /\ front.compatibleFirst
                     /\ \E k \in Members(Tail(lock.conflictList)) :
                           Conflicts(front.mode, {request[k].mode})
        /\ \A l \in Lockers : request[l].status = "Converting" =>
              Conflicts(request[l].convertMode,
                        GrantedWithout({request[l].mode, request[l].convertMode}))

(* The queue is fair: with no compatible-first policy and no conversions,  *)
(* every waiter is granted, whatever later requests ask for.               *)
WaiterIsGranted ==
    \A l \in Lockers : request[l].status = "Waiting" ~> request[l].status = "Granted"

(* None of the assertions on statuses, counts, modes and lists that        *)
(* lock_manager.cpp makes while it locks, converts, releases, grants and   *)
(* cleans up fails.  Those on what the caller passes, on pointers and on   *)
(* the masks, which are the counts here, are not stated.                   *)
NoInvariantFails == failed = "None"

=============================================================================
