------------------------- MODULE PrimaryTransition -------------------------
(***************************************************************************)
(* One member's way into and out of the primary role: winning an election, *)
(* catching up, draining the oplog buffer, accepting writes, the           *)
(* replSetStepDown command, the unconditional step down, and the reconfigs *)
(* that can end a primary.                                                 *)
(*                                                                         *)
(* The threads are the replication executor (elections, heartbeats,        *)
(* _stepDownFinish, reconfigs), the step-down commands, the producer, the  *)
(* batcher and the applier.  A step is a critical section of               *)
(* ReplicationCoordinatorImpl::_mutex or of another thread's own lock; the *)
(* global lock in MODE_X is taken within a step, and held between steps    *)
(* only by signalDrainComplete.  A failed invariant() ends the process.    *)
(***************************************************************************)
EXTENDS Naturals

CONSTANTS
    Cmd,          \* concurrent replSetStepDown commands
    MaxTerm,      \* bound: highest term
    MaxBuffer,    \* bound: entries in the oplog buffer
    MaxReconfigs  \* bound: reconfigurations

ASSUME BoundAssumption == MaxTerm \in Nat /\ MaxBuffer \in Nat /\ MaxReconfigs \in Nat

VARIABLES
    leaderMode,    \* TopologyCoordinator::_leaderMode; _role is kLeader unless it is kNotLeader
    candidate,     \* the term this member stands in while _role is kCandidate, else 0
    voteRequester, \* whether _voteRequester is set
    term,          \* TopologyCoordinator::_term
    pendingTerm,   \* _pendingTermUpdateDuringStepDown, 0 for boost::none
    electionId,    \* _electionId: the term of the last election won
    firstOpTime,   \* term of _firstOpTimeOfMyTerm, 0 for "not before draining is complete"
    electable,     \* whether the installed configuration makes this member electable
    memberState,   \* _memberState, as cached by the coordinator
    canAcceptNonLocalWrites,
    catchupState,  \* whether _catchupState is set
    applierState,
    stepDown,      \* whether _stepDownFinish is scheduled
    reconfig,      \* _rsConfigState and how the running reconfig gets its lock
    reconfigs,     \* reconfigurations so far
    command,       \* the step-down commands
    producer,      \* BackgroundSync::_state
    buffer,        \* entries in the oplog buffer
    batcher,       \* the ReplBatcher thread
    slot,          \* OpQueueBatcher::_ops
    applier,       \* the oplog application thread
    failed         \* the function whose invariant() failed

electionVars == <<candidate, voteRequester>>
roleVars   == <<leaderMode, electionVars, term, pendingTerm, electionId, firstOpTime, electable>>
stateVars  == <<memberState, canAcceptNonLocalWrites, catchupState, applierState, producer>>
taskVars   == <<stepDown, reconfig, reconfigs, command>>
drainVars  == <<buffer, batcher, slot, applier>>
vars == <<roleVars, stateVars, taskVars, drainVars, failed>>

Modes == {"NotLeader", "LeaderElect", "Master", "AttemptingStepDown", "SteppingDown"}
Term == 0 .. MaxTerm
ABatch == [kind |-> "batch", term |-> 0]
NoOps == [kind |-> "none", term |-> 0]
Exhausted(t) == [kind |-> "exhausted", term |-> t]
Ops == {NoOps, ABatch} \cup {Exhausted(t) : t \in Term}
NoCommand == [pc |-> "idle", prev |-> "NotLeader", termAtStart |-> 0, late |-> FALSE]

Running == failed = "none"
Leader == leaderMode # "NotLeader"
LockFree == applier.pc # "transition"

\* invariant(cond) in the function where.  Nothing happens after a failure, so
\* what the failing step does besides does not matter.
Expect(cond, where) == failed' = IF cond THEN failed ELSE where

----------------------------------------------------------------------------
(* Member state and applier state.                                          *)

\* _updateMemberStateFromTopologyCoordinator_inlock with the leader mode at
\* newMode; leaving the primary state aborts catchup and restarts replication.
Leaving(newMode) == memberState = "PRIMARY" /\ newMode = "NotLeader"

\* Mutant of UpdateMemberState: the applier keeps its state.
UpdateMemberStateKeepsApplier(newMode) ==
    /\ leaderMode' = newMode
    /\ canAcceptNonLocalWrites' = (newMode = "Master")
    /\ memberState' = IF newMode = "NotLeader" THEN "SECONDARY" ELSE "PRIMARY"
    /\ catchupState' = (catchupState /\ ~Leaving(newMode))
    /\ applierState' = applierState
    /\ producer' = IF Leaving(newMode) /\ (catchupState \/ producer = "Stopped")
                   THEN "Starting" ELSE producer

UpdateMemberState(newMode) ==
    /\ leaderMode' = newMode
    /\ canAcceptNonLocalWrites' = (newMode = "Master")
    /\ memberState' = IF newMode = "NotLeader" THEN "SECONDARY" ELSE "PRIMARY"
    /\ catchupState' = (catchupState /\ ~Leaving(newMode))
    /\ applierState' = IF Leaving(newMode) THEN "Running" ELSE applierState
    /\ producer' = IF Leaving(newMode) /\ (catchupState \/ producer = "Stopped")
                   THEN "Starting" ELSE producer

\* The flag that allows writes changes only under the global exclusive lock.
MayUpdateMemberState(newMode, isW) == isW \/ canAcceptNonLocalWrites = (newMode = "Master")

\* Mutant of EnterDrainMode: the producer goes on.
EnterDrainModeProducing == applierState' = "Draining" /\ producer' = producer

EnterDrainMode ==
    /\ applierState' = "Draining"
    /\ producer' = "Stopped"

\* _startElectSelfV1_inlock up to the scheduled write of the last vote.  The
\* dry run's vote requester is kept until the write is done; without a dry run
\* there is none.
StandForElection(skipDryRun) ==
    /\ ~Leader /\ candidate = 0 /\ electable /\ reconfig = "Steady" /\ term < MaxTerm
    /\ term' = term + 1
    /\ candidate' = term + 1
    /\ voteRequester' = ~skipDryRun
    /\ UNCHANGED <<leaderMode, pendingTerm, electionId, firstOpTime, electable, stateVars,
                   taskVars, drainVars, failed>>

\* _startVoteRequester_inlock, once the vote for itself is stored.
StartVoteRequester ==
    /\ candidate # 0 /\ ~voteRequester
    /\ voteRequester' = TRUE
    /\ UNCHANGED <<leaderMode, candidate, term, pendingTerm, electionId, firstOpTime, electable,
                   stateVars, taskVars, drainVars, failed>>

LoseElection ==
    /\ candidate # 0
    /\ candidate' = 0
    /\ voteRequester' = FALSE
    /\ UNCHANGED <<leaderMode, term, pendingTerm, electionId, firstOpTime, electable, stateVars,
                   taskVars, drainVars, failed>>

\* _onVoteRequestComplete's success: processWinElection and
\* _postWonElectionUpdateMemberState_inlock; no catchup where it is disabled.
WinElection ==
    /\ candidate # 0 /\ candidate = term /\ voteRequester
    /\ candidate' = 0
    /\ voteRequester' = FALSE
    /\ electionId' = term
    /\ firstOpTime' = 0
    /\ leaderMode' = "LeaderElect"
    /\ memberState' = "PRIMARY"
    /\ \/ catchupState' = TRUE /\ UNCHANGED <<applierState, producer>>
       \/ catchupState' = FALSE /\ EnterDrainMode
    /\ UNCHANGED <<term, pendingTerm, electable, canAcceptNonLocalWrites, taskVars, drainVars, failed>>

\* CatchupState::abort_inlock: caught up, timed out, failed, or told to stop.
ConcludeCatchup ==
    /\ catchupState
    /\ catchupState' = FALSE
    /\ EnterDrainMode
    /\ UNCHANGED <<roleVars, memberState, canAcceptNonLocalWrites, taskVars, drainVars, failed>>

----------------------------------------------------------------------------
(* Unconditional step down.                                                 *)

\* Mutant of PrepareForUnconditionalStepDown: nothing is scheduled.
PrepareWithoutSchedule == leaderMode' = "SteppingDown" /\ stepDown' = stepDown

\* prepareForUnconditionalStepDown and _stepDownStart.
PrepareForUnconditionalStepDown ==
    /\ leaderMode' = "SteppingDown"
    /\ stepDown' = TRUE

\* _updateTerm_inlock: a heartbeat or a command brings a higher term.
UpdateTerm(t) ==
    /\ t > term
    /\ \/ /\ ~Leader
          /\ term' = t
          /\ UNCHANGED <<pendingTerm, leaderMode, stepDown>>
       \/ /\ Leader
          /\ pendingTerm' = IF pendingTerm < t THEN t ELSE pendingTerm
          /\ PrepareForUnconditionalStepDown
          /\ UNCHANGED term
    /\ UNCHANGED <<electionVars, electionId, firstOpTime, electable, stateVars, reconfig, reconfigs, command,
                   drainVars, failed>>

\* HeartbeatResponseAction::StepDownSelf, or no majority visible.
StepDownSelf ==
    /\ Leader /\ leaderMode # "SteppingDown"
    /\ PrepareForUnconditionalStepDown
    /\ UNCHANGED <<electionVars, term, pendingTerm, electionId, firstOpTime, electable, stateVars, reconfig,
                   reconfigs, command, drainVars, failed>>

\* Mutant of StepDownFinish: it does not wait for the global lock.
StepDownFinishWithoutLock ==
    /\ stepDown
    /\ Expect(leaderMode = "SteppingDown", "finishUnconditionalStepDown")
    /\ UpdateMemberState("NotLeader")
    /\ term' = IF pendingTerm > term THEN pendingTerm ELSE term
    /\ pendingTerm' = 0
    /\ stepDown' = FALSE
    /\ UNCHANGED <<electionVars, electionId, firstOpTime, electable, reconfig, reconfigs, command,
                   drainVars>>

\* _stepDownFinish, with the global lock.
StepDownFinish ==
    /\ stepDown /\ LockFree
    /\ Expect(leaderMode = "SteppingDown", "finishUnconditionalStepDown")
    /\ UpdateMemberState("NotLeader")
    /\ term' = IF pendingTerm > term THEN pendingTerm ELSE term
    /\ pendingTerm' = 0
    /\ stepDown' = FALSE
    /\ UNCHANGED <<electionVars, electionId, firstOpTime, electable, reconfig, reconfigs, command,
                   drainVars>>

----------------------------------------------------------------------------
(* The replSetStepDown command.                                             *)

SetCommand(c, x) == command' = [command EXCEPT ![c] = x]
Return(c) == SetCommand(c, NoCommand)

StepDownCommand(c) ==
    /\ command[c].pc = "idle" /\ memberState = "PRIMARY"
    /\ SetCommand(c, [NoCommand EXCEPT !.pc = "locking"])
    /\ UNCHANGED <<roleVars, stateVars, stepDown, reconfig, reconfigs, drainVars, failed>>

\* The global lock was not granted before the deadline, the operation was
\* killed, or another step down is under way or done.
StepDownRefused(c) ==
    /\ command[c].pc = "locking"
    /\ Return(c)
    /\ UNCHANGED <<roleVars, stateVars, stepDown, reconfig, reconfigs, drainVars, failed>>

\* One call of attemptStepDown, under the global lock, by a command in record
\* x.  It succeeds, fails for good (the abort function runs), or, unless the
\* time is up, lets go of the lock to wait for the secondaries.
Attempt(c, x) ==
    \/ UpdateMemberState("NotLeader") /\ Return(c)
    \/ UpdateMemberState(x.prev) /\ Return(c)
    \/ ~x.late /\ UpdateMemberState("AttemptingStepDown") /\ SetCommand(c, [x EXCEPT !.pc = "waiting"])

\* Mutant of StepDownBegin: a step down under way is no conflict.
StepDownBeginAlways(c) ==
    /\ command[c].pc = "locking" /\ LockFree /\ Leader
    /\ \E late \in BOOLEAN :
          Attempt(c, [pc |-> "locking", prev |-> leaderMode, termAtStart |-> term, late |-> late])
    /\ UNCHANGED <<electionVars, term, pendingTerm, electionId, firstOpTime, electable, stepDown, reconfig,
                   reconfigs, drainVars, failed>>

\* stepDown with the global lock: prepareForStepDownAttempt and the first attempt.
StepDownBegin(c) ==
    /\ command[c].pc = "locking" /\ LockFree
    /\ leaderMode \in {"Master", "LeaderElect"}
    /\ \E late \in BOOLEAN :
          Attempt(c, [pc |-> "locking", prev |-> leaderMode, termAtStart |-> term, late |-> late])
    /\ UNCHANGED <<electionVars, term, pendingTerm, electionId, firstOpTime, electable, stepDown, reconfig,
                   reconfigs, drainVars, failed>>

\* Mutant of StepDownWake: the wait has no deadline.
StepDownWakeOnSignal(c) ==
    /\ command[c].pc = "waiting"
    /\ \E pc \in {"retrying", "interrupted"} : SetCommand(c, [command[c] EXCEPT !.pc = pc])
    /\ UNCHANGED <<roleVars, stateVars, stepDown, reconfig, reconfigs, drainVars, failed>>

\* The waiter is signalled, the deadline passes, or the operation is killed;
\* the command then asks for the global lock again.
StepDownWake(c) ==
    /\ command[c].pc = "waiting"
    /\ \E late \in BOOLEAN, pc \in {"retrying", "interrupted"} :
          SetCommand(c, [command[c] EXCEPT !.pc = pc, !.late = @ \/ late])
    /\ UNCHANGED <<roleVars, stateVars, stepDown, reconfig, reconfigs, drainVars, failed>>

\* The function prepareForStepDownAttempt returned: back to the mode before
\* the attempt, if the node is still attempting.
AbortFn(c) ==
    /\ UpdateMemberState(IF leaderMode = "AttemptingStepDown" THEN command[c].prev ELSE leaderMode)
    /\ Return(c)

\* Mutant of SteppedDownMeanwhile: the term is not compared.
NotLeaderMeanwhile(c) == ~Leader \/ leaderMode = "SteppingDown"

SteppedDownMeanwhile(c) ==
    ~Leader \/ leaderMode = "SteppingDown" \/ term # command[c].termAtStart

StepDownRetry(c) ==
    /\ command[c].pc \in {"retrying", "interrupted"} /\ LockFree
    /\ \/ /\ command[c].pc = "interrupted" \/ SteppedDownMeanwhile(c)
          /\ AbortFn(c)
          /\ UNCHANGED failed
       \/ /\ command[c].pc = "retrying" /\ ~SteppedDownMeanwhile(c)
          /\ Expect(leaderMode = "AttemptingStepDown", "attemptStepDown")
          /\ Attempt(c, command[c])
    /\ UNCHANGED <<electionVars, term, pendingTerm, electionId, firstOpTime, electable, stepDown,
                   reconfig, reconfigs, drainVars>>

----------------------------------------------------------------------------
(* Reconfiguration, as far as it touches the primary role.                  *)

\* _cancelElectionIfNeeded_inlock: the candidate will lose, by and by.
CancelElectionIfNeeded == Expect(candidate = 0 \/ voteRequester, "cancelElectionIfNeeded")

\* A newer configuration in a heartbeat response ("heartbeat"), or a
\* replSetReconfig command: one with force waits for the global lock
\* ("locking"), one without is for primaries and takes no lock ("unlocked").
\* The one from a heartbeat cancels a running election at once.
StartReconfig(how) ==
    /\ reconfig = "Steady" /\ reconfigs < MaxReconfigs
    /\ how = "unlocked" => memberState = "PRIMARY"
    /\ IF how = "heartbeat" THEN CancelElectionIfNeeded ELSE UNCHANGED failed
    /\ reconfig' = how
    /\ reconfigs' = reconfigs + 1
    /\ UNCHANGED <<roleVars, stateVars, stepDown, command, drainVars>>

\* The new configuration is invalid or cannot be stored.
AbandonReconfig ==
    /\ reconfig # "Steady"
    /\ reconfig' = "Steady"
    /\ UNCHANGED <<roleVars, stateVars, stepDown, reconfigs, command, drainVars, failed>>

\* _heartbeatReconfigFinish on a primary lets go of the mutex to take the
\* global lock.
HeartbeatReconfigLocks ==
    /\ reconfig = "heartbeat" /\ memberState = "PRIMARY"
    /\ reconfig' = "locking"
    /\ UNCHANGED <<roleVars, stateVars, stepDown, reconfigs, command, drainVars, failed>>

\* _setCurrentRSConfig_inlock with a configuration in which this member is
\* electable, or not: a primary that is not gives up its role.
SetCurrentRSConfig(e, isW) ==
    LET newMode == IF e THEN leaderMode ELSE "NotLeader" IN
    /\ Expect(MayUpdateMemberState(newMode, isW), "updateMemberState")
    /\ electable' = e
    /\ reconfig' = "Steady"
    /\ UpdateMemberState(newMode)
    /\ UNCHANGED <<electionVars, term, pendingTerm, electionId, firstOpTime, stepDown, reconfigs, command,
                   drainVars>>

\* No election may be running when the configuration changes.
FinishReconfig ==
    \/ /\ candidate # 0 /\ reconfig # "Steady"
       /\ CancelElectionIfNeeded
       /\ UNCHANGED <<roleVars, stateVars, taskVars, drainVars>>
    \/ /\ candidate = 0 /\ reconfig = "heartbeat" /\ memberState # "PRIMARY"
       /\ \E e \in BOOLEAN : SetCurrentRSConfig(e, FALSE)
    \/ /\ candidate = 0 /\ reconfig = "locking" /\ LockFree
       /\ \E e \in BOOLEAN : SetCurrentRSConfig(e, TRUE)
    \/ /\ candidate = 0 /\ reconfig = "unlocked"
       /\ SetCurrentRSConfig(TRUE, FALSE)

----------------------------------------------------------------------------
(* The oplog pipeline: producer, buffer, batcher, applier.                  *)

\* BackgroundSync::start.
StartProducer ==
    /\ producer = "Starting"
    /\ producer' = "Running"
    /\ UNCHANGED <<roleVars, memberState, canAcceptNonLocalWrites, catchupState, applierState,
                   taskVars, drainVars, failed>>

\* BackgroundSync::_enqueueDocuments.
EnqueueDocuments ==
    /\ producer = "Running" /\ buffer < MaxBuffer
    /\ buffer' = buffer + 1
    /\ UNCHANGED <<roleVars, stateVars, taskVars, batcher, slot, applier, failed>>

BatcherAt(pc, ops) == batcher' = [pc |-> pc, ops |-> ops]

\* tryPopAndWaitForMore.
BatcherPops ==
    /\ batcher.pc = "pop"
    /\ \/ buffer > 0 /\ buffer' = buffer - 1 /\ BatcherAt("push", ABatch)
       \/ buffer = 0 /\ BatcherAt("readTerm", NoOps) /\ UNCHANGED buffer
    /\ UNCHANGED <<roleVars, stateVars, taskVars, slot, applier, failed>>

\* The batch is empty: read the term, then the applier state, then the buffer.
BatcherReadsTerm ==
    /\ batcher.pc = "readTerm"
    /\ BatcherAt("readState", Exhausted(term))
    /\ UNCHANGED <<roleVars, stateVars, taskVars, buffer, slot, applier, failed>>

BatcherReadsState ==
    /\ batcher.pc = "readState"
    /\ IF applierState = "Draining" THEN BatcherAt("readBuffer", batcher.ops) ELSE BatcherAt("pop", NoOps)
    /\ UNCHANGED <<roleVars, stateVars, taskVars, buffer, slot, applier, failed>>

BatcherReadsBuffer ==
    /\ batcher.pc = "readBuffer"
    /\ IF buffer = 0 THEN BatcherAt("push", batcher.ops) ELSE BatcherAt("pop", NoOps)
    /\ UNCHANGED <<roleVars, stateVars, taskVars, buffer, slot, applier, failed>>

BatcherPushes ==
    /\ batcher.pc = "push" /\ slot = NoOps
    /\ slot' = batcher.ops
    /\ BatcherAt("pop", NoOps)
    /\ UNCHANGED <<roleVars, stateVars, taskVars, buffer, applier, failed>>

\* getNextBatch, and the first check of signalDrainComplete.
ApplierTakes ==
    /\ applier.pc = "idle" /\ slot # NoOps
    /\ slot' = NoOps
    /\ applier' = [pc |-> IF slot.kind = "batch" THEN "applying"
                          ELSE IF applierState = "Draining" THEN "locking" ELSE "idle",
                   term |-> slot.term]
    /\ UNCHANGED <<roleVars, stateVars, taskVars, buffer, batcher, failed>>

ApplierApplies ==
    /\ applier.pc = "applying"
    /\ applier' = [applier EXCEPT !.pc = "idle"]
    /\ UNCHANGED <<roleVars, stateVars, taskVars, buffer, batcher, slot, failed>>

\* Mutant of CanCompleteTransitionToPrimary: the term is not compared.
CanCompleteInAnyTerm(t) == leaderMode \in {"LeaderElect", "AttemptingStepDown", "SteppingDown"}

CanCompleteTransitionToPrimary(t) ==
    t = term /\ leaderMode \in {"LeaderElect", "AttemptingStepDown", "SteppingDown"}

\* signalDrainComplete gets the global lock and checks again.
DrainLocks ==
    /\ applier.pc = "locking"
    /\ LET stillDraining == applierState = "Draining" /\ CanCompleteTransitionToPrimary(applier.term) IN
       \/ /\ ~stillDraining
          /\ applier' = [applier EXCEPT !.pc = "idle"]
          /\ UNCHANGED <<applierState, failed>>
       \/ /\ stillDraining
          /\ Expect(memberState = "PRIMARY" /\ ~canAcceptNonLocalWrites, "signalDrainComplete")
          /\ applierState' = "Stopped"
          /\ applier' = [applier EXCEPT !.pc = "transition"]
    /\ UNCHANGED <<roleVars, memberState, canAcceptNonLocalWrites, catchupState, producer,
                   taskVars, buffer, batcher, slot>>

\* onTransitionToPrimary has logged the new term; completeTransitionToPrimary.
DrainFinishes ==
    /\ applier.pc = "transition"
    /\ Expect(CanCompleteTransitionToPrimary(term), "completeTransitionToPrimary")
    /\ UpdateMemberState(IF leaderMode = "LeaderElect" THEN "Master" ELSE leaderMode)
    /\ firstOpTime' = term
    /\ applier' = [applier EXCEPT !.pc = "idle"]
    /\ UNCHANGED <<electionVars, term, pendingTerm, electionId, electable, taskVars, buffer, batcher, slot>>

----------------------------------------------------------------------------
Init ==
    /\ leaderMode = "NotLeader" /\ candidate = 0 /\ voteRequester = FALSE
    /\ term = 0 /\ pendingTerm = 0 /\ electionId = 0
    /\ firstOpTime = 0 /\ electable = TRUE
    /\ memberState = "SECONDARY" /\ canAcceptNonLocalWrites = FALSE
    /\ catchupState = FALSE /\ applierState = "Running"
    /\ stepDown = FALSE /\ reconfig = "Steady" /\ reconfigs = 0
    /\ command = [c \in Cmd |-> NoCommand]
    /\ producer = "Starting" /\ buffer = 0
    /\ batcher = [pc |-> "pop", ops |-> NoOps] /\ slot = NoOps
    /\ applier = [pc |-> "idle", term |-> 0]
    /\ failed = "none"

CommandStep(c) ==
    \/ StepDownCommand(c) \/ StepDownRefused(c) \/ StepDownBegin(c)
    \/ StepDownWake(c) \/ StepDownRetry(c)

ExecutorStep ==
    \/ (\E skipDryRun \in BOOLEAN : StandForElection(skipDryRun))
    \/ StartVoteRequester \/ LoseElection \/ WinElection \/ ConcludeCatchup
    \/ (\E t \in Term : UpdateTerm(t))
    \/ StepDownSelf \/ StepDownFinish
    \/ (\E how \in {"heartbeat", "locking", "unlocked"} : StartReconfig(how))
    \/ HeartbeatReconfigLocks \/ AbandonReconfig \/ FinishReconfig

BatcherStep ==
    \/ BatcherPops \/ BatcherReadsTerm \/ BatcherReadsState \/ BatcherReadsBuffer \/ BatcherPushes

ApplierStep == ApplierTakes \/ ApplierApplies \/ DrainLocks \/ DrainFinishes

Next ==
    /\ Running
    /\ \/ ExecutorStep
       \/ \E c \in Cmd : CommandStep(c)
       \/ StartProducer \/ EnqueueDocuments
       \/ BatcherStep
       \/ ApplierStep

Spec == Init /\ [][Next]_vars

----------------------------------------------------------------------------
(* Properties.                                                              *)

RoleTypes ==
    /\ leaderMode \in Modes
    /\ candidate \in Term /\ term \in Term /\ pendingTerm \in Term
    /\ electionId \in Term /\ firstOpTime \in Term
    /\ voteRequester \in BOOLEAN /\ electable \in BOOLEAN

StateTypes ==
    /\ memberState \in {"SECONDARY", "PRIMARY"}
    /\ canAcceptNonLocalWrites \in BOOLEAN /\ catchupState \in BOOLEAN
    /\ applierState \in {"Running", "Draining", "Stopped"}
    /\ producer \in {"Starting", "Running", "Stopped"}

Commands == [pc : {"idle", "locking", "waiting", "retrying", "interrupted"},
             prev : {"NotLeader", "LeaderElect", "Master"}, termAtStart : Term, late : BOOLEAN]

TaskTypes ==
    /\ stepDown \in BOOLEAN
    /\ reconfig \in {"Steady", "heartbeat", "locking", "unlocked"}
    /\ reconfigs \in 0 .. MaxReconfigs
    /\ command \in [Cmd -> Commands]

DrainTypes ==
    /\ buffer \in 0 .. MaxBuffer
    /\ batcher \in [pc : {"pop", "readTerm", "readState", "readBuffer", "push"}, ops : Ops]
    /\ slot \in Ops
    /\ applier \in [pc : {"idle", "applying", "locking", "transition"}, term : Term]

Asserting == {"finishUnconditionalStepDown", "attemptStepDown", "updateMemberState",
              "cancelElectionIfNeeded", "signalDrainComplete", "completeTransitionToPrimary"}

\* The values each field of the coordinator and each thread's state can take.
TypeOK == RoleTypes /\ StateTypes /\ TaskTypes /\ DrainTypes /\ failed \in Asserting \cup {"none"}

Drained ==
    buffer = 0 /\ batcher.ops # ABatch /\ slot # ABatch /\ applier.pc # "applying"

\* What the comment in OpQueueBatcher::run promises of the three unsynchronized
\* reads (term, applier state, buffer): when signalDrainComplete has stopped the
\* applier, no fetched entry is left unapplied, however often the node stepped
\* down and up in between.
StoppedIsDrained == applierState = "Stopped" => Drained /\ producer = "Stopped"

\* Writes come only after the drain, in the same term, although step-down
\* commands and reconfigs put the leader mode back and forth.
WritesAfterDrain ==
    canAcceptNonLocalWrites => /\ memberState = "PRIMARY" /\ applierState = "Stopped"
                               /\ firstOpTime = term /\ electionId = term

\* A node that is not primary replicates: whatever ended its term as primary,
\* and at whatever point of catchup or drain, applier and producer run again.
SecondaryReplicates ==
    memberState = "SECONDARY" => applierState = "Running" /\ ~catchupState /\ producer # "Stopped"

\* The invariants of signalDrainComplete and completeTransitionToPrimary never
\* fail, although the mutex is released between the check and the transition.
DrainInvariantsHold == failed \notin {"signalDrainComplete", "completeTransitionToPrimary"}

\* The coordinator's other invariants can fail, and each in one window only: the
\* unconditional step down finds another leader mode only after a reconfig made
\* this primary unelectable (a second one may have let it stand again since);
\* a step-down command finds another one, and signalDrainComplete finds writes
\* allowed, only if there are two commands, one of them left over from an
\* earlier term; the writes are switched off without the global lock only by a
\* reconfig without force during an unconditional step down; and an election is
\* cancelled without a vote requester only if it skipped the dry run.
InvariantsFailOnlyInWindows ==
    [][failed' # failed =>
         \/ /\ failed' = "finishUnconditionalStepDown"
            /\ (~Leader /\ ~electable /\ reconfigs > 0) \/ reconfigs > 1
         \/ failed' \in {"attemptStepDown", "signalDrainComplete"} /\ \E c, d \in Cmd : c # d
         \/ /\ failed' = "updateMemberState"
            /\ reconfig = "unlocked" /\ leaderMode = "SteppingDown" /\ stepDown
         \/ /\ failed' = "cancelElectionIfNeeded"
            /\ candidate # 0 /\ ~Leader /\ ~voteRequester]_vars

\* A step-down attempt that fails leaves a primary that has drained able to
\* accept writes: canCompleteTransitionToPrimary lets the drain complete during
\* the attempt "in case the stepdown attempt fails".
FailedAttemptLeavesMaster ==
    applierState = "Stopped" /\ LockFree => leaderMode # "LeaderElect"

\* Threads run, the global lock is granted to whoever waits for it, and a
\* command that keeps waiting wakes up past its deadline in the end.
\* Elections, heartbeats, commands and reconfigs need not come, and catchup
\* may have no timeout.
Fairness ==
    /\ WF_vars(Running /\ StepDownFinish)
    /\ WF_vars(Running /\ BatcherStep)
    /\ WF_vars(Running /\ ApplierStep)
    /\ \A c \in Cmd :
          /\ WF_vars(Running /\ (StepDownRefused(c) \/ StepDownBegin(c)))
          /\ SF_vars(Running /\ StepDownWake(c) /\ command'[c].late)
          /\ WF_vars(Running /\ StepDownRetry(c))

FairSpec == Spec /\ Fairness

\* Drain mode ends, also when the batcher's term was stale the first time (or
\* the process dies).
DrainEnds == applierState = "Draining" ~> (applierState # "Draining" \/ ~Running)

\* An unconditional step down that was announced happens, although it has to
\* wait for the global lock and a reconfig may come first (or the process dies).
StepDownHappens == leaderMode = "SteppingDown" ~> (leaderMode # "SteppingDown" \/ ~Running)

\* Every replSetStepDown command returns.
CommandsReturn == \A c \in Cmd : command[c].pc # "idle" ~> (command[c].pc = "idle" \/ ~Running)
=============================================================================
