-------------------------- MODULE DeadlockDetector --------------------------
(***************************************************************************)
(* The wait-for graph that a blocked locker's DeadlockDetector builds, and *)
(* what it ought to find.  The detector visits the lockers one by one and  *)
(* takes the bucket's mutex for each; the graph is stated here for a state *)
(* in which nobody moves, the only ones for which it promises an answer.   *)
(***************************************************************************)
EXTENDS LockManager, Relation

(* getWaitingResource() is valid. *)
IsWaiting(l) == request[l].status \in {"Waiting", "Converting"}

Before(list, k, l) ==
    \E i, j \in DOMAIN list : i < j /\ list[i] = k /\ list[j] = l

(* _processNextNode: the owners that l waits for.  A waiter waits for the  *)
(* conflicting requests on the granted list, held or to be converted to,   *)
(* and for the conflicting waiters before it; a conversion for the         *)
(* conflicting holders and the conflicting conversions before it.          *)
WaitsFor(l, k) ==
    LET r == request[l]
        o == request[k]
    IN  /\ k # l /\ IsWaiting(l) /\ IsWaiting(k)
        /\ \/ /\ r.status = "Waiting"
              /\ \/ /\ OnGrantedList(k)
                    /\ Conflicts(r.mode, {o.mode, o.convertMode})
                 \/ /\ Before(lock.conflictList, k, l)
                    /\ Conflicts(r.mode, {o.mode})
           \/ /\ r.status = "Converting" /\ OnGrantedList(k)
              /\ \/ Conflicts(r.convertMode, {o.mode})
                 \/ /\ Before(lock.grantedList, k, l)
                    /\ Conflicts(r.convertMode, {o.convertMode})

(* check().hasCycle(): the walk from l comes back to l. *)
HasCycle(l) ==
    TransitiveClosure([x, y \in Lockers |-> WaitsFor(x, y)], Lockers)[l, l]

(* Everybody who has a request is blocked in its wait: no locker is inside *)
(* the lock manager and none holds the lock without waiting.               *)
Deadlock ==
    /\ \E l \in Lockers : pc[l] = "Waiting"
    /\ holder \in {NoLocker, Cleaner}
    /\ \A l \in Lockers :
          \/ pc[l] = "Waiting" /\ request[l].status # "Granted"
          \/ pc[l] = "Idle" /\ request[l].status = "New"

(* "If there is a stable cycle it will be discovered" (lock_manager.h): of *)
(* the lockers that block each other for good, one finds itself in a cycle *)
(* and gives up its request.                                               *)
DeadlockDiscovered == Deadlock => \E l \in Lockers : HasCycle(l)

=============================================================================
