---------------------- MODULE PrimaryTransitionProofs ----------------------
(***************************************************************************)
(* Theorems about PrimaryTransition for every bound on terms, buffer and   *)
(* reconfigurations.  What the batcher's three reads are worth holds for   *)
(* any number of step-down commands; that writes are not accepted too soon *)
(* holds for one command at a time.  The windows in which assertions fail  *)
(* are all there are, for any number of commands.                          *)
(***************************************************************************)
EXTENDS PrimaryTransition, TLAPS

----------------------------------------------------------------------------
(* The inductive invariant.                                                 *)

\* How the role, the term and the elections won or stood for relate.
RoleInv ==
    /\ memberState = "PRIMARY" <=> Leader
    /\ electionId <= term
    /\ Leader => candidate = 0 /\ electionId = term
    /\ candidate # 0 => electionId < candidate /\ candidate <= term

\* Where catchup, producer and applier stand.
ReplicationInv ==
    /\ ~Leader => applierState = "Running" /\ ~catchupState /\ producer # "Stopped"
    /\ applierState # "Running" => ~catchupState /\ producer = "Stopped"

ModeInv == TypeOK /\ RoleInv /\ ReplicationInv

\* Drain mode was seen in term t: it cannot begin again in that term.
DrainSeen(t) == t <= term /\ (t = term => electionId = term /\ ~catchupState)

\* The member still drains in the term t in which it was seen to drain.
SameDrain(t) == t = term /\ applierState # "Running"

\* What an "exhausted" signal of term t means on its way from the batcher to
\* signalDrainComplete, as long as the drain is the same: the further it gets,
\* the more of the pipeline is empty.
PipelineInv ==
    /\ batcher.pc \in {"pop", "readTerm"} => batcher.ops = NoOps
    /\ batcher.pc \in {"readState", "readBuffer"} => batcher.ops.kind = "exhausted"
    /\ batcher.ops.kind = "exhausted" => batcher.ops.term <= term
    /\ batcher.ops.kind = "exhausted" /\ batcher.pc \in {"readBuffer", "push"} => DrainSeen(batcher.ops.term)
    /\ batcher.ops.kind = "exhausted" /\ batcher.pc = "push" /\ SameDrain(batcher.ops.term) => buffer = 0
    /\ slot.kind = "exhausted" =>
          /\ DrainSeen(slot.term)
          /\ SameDrain(slot.term) => buffer = 0 /\ batcher.ops # ABatch
    /\ applier.pc = "locking" =>
          /\ DrainSeen(applier.term)
          /\ SameDrain(applier.term) => buffer = 0 /\ batcher.ops # ABatch /\ slot # ABatch
    /\ applierState = "Stopped" => Drained

\* While signalDrainComplete is without the mutex, the member stays a leader
\* whose transition is not complete.
TransitionInv ==
    /\ applier.pc = "transition" => applierState = "Stopped" /\ leaderMode \notin {"NotLeader", "Master"}
    /\ failed # "completeTransitionToPrimary"

DrainInv == ModeInv /\ PipelineInv /\ TransitionInv

OneCommand == \A c, d \in Cmd : c = d

Active(c) == command[c].pc \in {"waiting", "retrying", "interrupted"}
Writable == applierState = "Stopped" /\ firstOpTime = term

\* An attempt to step down belongs to the command under way, and the mode that
\* the command may go back to is still right.
CommandInv ==
    \A c \in Cmd : Active(c) =>
        /\ command[c].termAtStart <= term
        /\ command[c].termAtStart = term => electionId = term
        /\ Leader /\ command[c].termAtStart = term => leaderMode \in {"AttemptingStepDown", "SteppingDown"}
        /\ leaderMode = "AttemptingStepDown" => command[c].termAtStart = term
        /\ leaderMode = "AttemptingStepDown" /\ command[c].prev = "Master" => Writable

\* Writes are accepted only when the drain is complete.
WriteInv ==
    /\ leaderMode = "Master" => Writable
    /\ canAcceptNonLocalWrites => leaderMode \in {"Master", "SteppingDown"} /\ Writable
    /\ failed # "signalDrainComplete"

CommandsInv == CommandInv /\ WriteInv

----------------------------------------------------------------------------
(* What the parts of the actions do.                                        *)

\* A finished reconfig leaves the member alone, or puts it in mode m: its own, or,
\* as long as nobody holds the global lock, that of a secondary.
Reconfigured(m) ==
    /\ m = leaderMode \/ (m = "NotLeader" /\ (memberState # "PRIMARY" \/ LockFree))
    /\ UpdateMemberState(m)
    /\ UNCHANGED <<electionVars, term, pendingTerm, electionId, firstOpTime, stepDown, command,
                   drainVars>>

(* FinishReconfig does one of the two, and may fail an assertion of its own. *)
LEMMA ReconfigEffect ==
    ASSUME FinishReconfig
    PROVE  /\ \/ \E m \in {leaderMode, "NotLeader"} : Reconfigured(m)
              \/ UNCHANGED <<leaderMode, electionVars, term, pendingTerm, electionId, firstOpTime,
                             stateVars, stepDown, command, drainVars>>
           /\ failed' \in {failed, "updateMemberState", "cancelElectionIfNeeded"}
<1>1. CASE /\ CancelElectionIfNeeded
           /\ UNCHANGED <<roleVars, stateVars, taskVars, drainVars>>
  BY <1>1 DEF CancelElectionIfNeeded, Expect, roleVars, taskVars
<1>2. ASSUME NEW e \in BOOLEAN, NEW isW \in BOOLEAN, SetCurrentRSConfig(e, isW),
             e = TRUE \/ memberState # "PRIMARY" \/ LockFree
      PROVE  /\ \E m \in {leaderMode, "NotLeader"} : Reconfigured(m)
             /\ failed' \in {failed, "updateMemberState"}
  <2> DEFINE m == IF e THEN leaderMode ELSE "NotLeader"
  <2>1. m \in {leaderMode, "NotLeader"}
    OBVIOUS
  <2>2. m = leaderMode \/ (m = "NotLeader" /\ (memberState # "PRIMARY" \/ LockFree))
    BY <1>2
  <2>3. Reconfigured(m)
    BY <1>2, <2>2 DEF SetCurrentRSConfig, Reconfigured
  <2>4. failed' \in {failed, "updateMemberState"}
    BY <1>2 DEF SetCurrentRSConfig, Expect
  <2> QED
    BY <2>1, <2>3, <2>4
<1> QED
  BY <1>1, <1>2 DEF FinishReconfig

(* A command that starts, is refused or wakes up changes nothing but itself. *)
LEMMA CommandEffect ==
    ASSUME NEW c, StepDownCommand(c) \/ StepDownRefused(c) \/ StepDownWake(c)
    PROVE  UNCHANGED <<roleVars, stateVars, stepDown, reconfig, reconfigs, drainVars, failed>>
  BY DEF StepDownCommand, StepDownRefused, StepDownWake

(* A leader mode gives a member state.                                      *)
LEMMA MemberStateTypes ==
    ASSUME TypeOK, NEW m \in Modes, UpdateMemberState(m)
    PROVE  leaderMode' \in Modes /\ StateTypes'
  BY DEF TypeOK, StateTypes, UpdateMemberState

(* An attempt to step down gives a mode, a member state and commands.       *)
LEMMA AttemptTypes ==
    ASSUME TypeOK, NEW c \in Cmd, NEW x \in Commands, Attempt(c, x)
    PROVE  leaderMode' \in Modes /\ StateTypes' /\ command' \in [Cmd -> Commands]
<1>1. x.prev \in Modes /\ "NotLeader" \in Modes /\ "AttemptingStepDown" \in Modes
  BY DEF Commands, Modes
<1>2. leaderMode' \in Modes /\ StateTypes'
  BY <1>1, MemberStateTypes DEF Attempt
<1>3. NoCommand \in Commands /\ [x EXCEPT !.pc = "waiting"] \in Commands
  BY BoundAssumption DEF NoCommand, Commands, Term
<1> QED
  BY <1>2, <1>3 DEF Attempt, Return, SetCommand, TypeOK, TaskTypes

(* So does its end.                                                         *)
LEMMA AbortTypes ==
    ASSUME TypeOK, NEW c \in Cmd, AbortFn(c)
    PROVE  leaderMode' \in Modes /\ StateTypes' /\ command' \in [Cmd -> Commands]
<1>1. command[c].prev \in Modes /\ leaderMode \in Modes
  BY DEF TypeOK, RoleTypes, TaskTypes, Commands, Modes
<1>2. leaderMode' \in Modes /\ StateTypes'
  BY <1>1, MemberStateTypes DEF AbortFn
<1>3. NoCommand \in Commands
  BY BoundAssumption DEF NoCommand, Commands, Term
<1> QED
  BY <1>2, <1>3 DEF AbortFn, Return, SetCommand, TypeOK, TaskTypes

----------------------------------------------------------------------------
(* The steps.                                                               *)

(* Every step keeps the types.                                              *)
LEMMA TypeStep ==
    ASSUME TypeOK, Next
    PROVE  TypeOK'
<1> USE DEF TypeOK, RoleTypes, StateTypes, TaskTypes, DrainTypes, Asserting, roleVars,
    electionVars, stateVars, taskVars, drainVars
<1>1. ASSUME NEW s \in BOOLEAN, StandForElection(s) PROVE TypeOK'
  BY <1>1, BoundAssumption DEF StandForElection, Term
<1>2. CASE StartVoteRequester \/ LoseElection
  <2>1. voteRequester' \in BOOLEAN
    BY <1>2 DEF StartVoteRequester, LoseElection
  <2> QED
    BY <1>2, <2>1, BoundAssumption DEF StartVoteRequester, LoseElection, Term
<1>3. CASE WinElection
  <2>1. voteRequester' \in BOOLEAN /\ catchupState' \in BOOLEAN
    BY <1>3 DEF WinElection
  <2> QED
    BY <1>3, <2>1, BoundAssumption DEF WinElection, EnterDrainMode, Modes, Term
<1>4. CASE ConcludeCatchup
  <2>1. catchupState' \in BOOLEAN
    BY <1>4 DEF ConcludeCatchup
  <2> QED
    BY <1>4, <2>1 DEF ConcludeCatchup, EnterDrainMode
<1>5. ASSUME NEW t \in Term, UpdateTerm(t) PROVE TypeOK'
  <2>1. stepDown' \in BOOLEAN
    BY <1>5 DEF UpdateTerm, PrepareForUnconditionalStepDown
  <2> QED
    BY <1>5, <2>1 DEF UpdateTerm, PrepareForUnconditionalStepDown, Modes
<1>6. CASE StepDownSelf
  BY <1>6 DEF StepDownSelf, PrepareForUnconditionalStepDown, Modes
<1>7. CASE StepDownFinish
  <2>1. leaderMode' \in Modes /\ StateTypes'
    BY <1>7, MemberStateTypes DEF StepDownFinish, Modes
  <2>2. stepDown' \in BOOLEAN
    BY <1>7 DEF StepDownFinish
  <2> QED
    BY <1>7, <2>1, <2>2, BoundAssumption DEF StepDownFinish, Expect, Term
<1>8. ASSUME NEW how \in {"heartbeat", "locking", "unlocked"}, StartReconfig(how) PROVE
    TypeOK'
  BY <1>8, BoundAssumption DEF StartReconfig, CancelElectionIfNeeded, Expect
<1>9. CASE HeartbeatReconfigLocks \/ AbandonReconfig
  BY <1>9 DEF HeartbeatReconfigLocks, AbandonReconfig
<1>10. CASE FinishReconfig
  <2>1. leaderMode' \in Modes /\ StateTypes'
    <3>1. ASSUME NEW m \in {leaderMode, "NotLeader"}, Reconfigured(m)
          PROVE  leaderMode' \in Modes /\ StateTypes'
      BY <3>1, MemberStateTypes DEF Reconfigured, Modes
    <3> QED
      BY <1>10, <3>1, ReconfigEffect
  <2>2. electable' \in BOOLEAN /\ reconfig' \in {"Steady", reconfig} /\ reconfigs' = reconfigs
    BY <1>10 DEF FinishReconfig, SetCurrentRSConfig
  <2>3. UNCHANGED <<electionVars, term, pendingTerm, electionId, firstOpTime, stepDown, command,
                    drainVars>>
    BY <1>10 DEF FinishReconfig, SetCurrentRSConfig
  <2> QED
    BY <1>10, <2>1, <2>2, <2>3, ReconfigEffect
<1>11. ASSUME NEW c \in Cmd, StepDownCommand(c) \/ StepDownRefused(c) \/ StepDownWake(c)
    PROVE TypeOK'
  <2>1. NoCommand \in Commands /\ [NoCommand EXCEPT !.pc = "locking"] \in Commands
    <3>1. NoCommand \in Commands
      BY BoundAssumption DEF NoCommand, Commands, Term
    <3>2. \A x \in Commands : [x EXCEPT !.pc = "locking"] \in Commands
      BY DEF Commands
    <3> QED
      BY <3>1, <3>2
  <2>2. \A late \in BOOLEAN, pc \in {"retrying", "interrupted"} :
           [command[c] EXCEPT !.pc = pc, !.late = @ \/ late] \in Commands
    BY DEF Commands
  <2>3. PICK x \in Commands : command' = [command EXCEPT ![c] = x]
    <3>1. CASE StepDownCommand(c) \/ StepDownRefused(c)
      BY <3>1, <2>1 DEF StepDownCommand, StepDownRefused, SetCommand, Return
    <3>2. CASE StepDownWake(c)
      <4>1. PICK late \in BOOLEAN, pc \in {"retrying", "interrupted"} :
               command' = [command EXCEPT ![c] = [command[c] EXCEPT !.pc = pc, !.late = @ \/ late]]
        BY <3>2 DEF StepDownWake, SetCommand
      <4> QED
        BY <4>1, <2>2
    <3> QED
      BY <1>11, <3>1, <3>2
  <2> QED
    BY <1>11, <2>3, CommandEffect
<1>12. ASSUME NEW c \in Cmd, StepDownBegin(c) PROVE TypeOK'
  <2>1. PICK late \in BOOLEAN :
           Attempt(c, [pc |-> "locking", prev |-> leaderMode, termAtStart |-> term, late |-> late])
    BY <1>12 DEF StepDownBegin
  <2>2. [pc |-> "locking", prev |-> leaderMode, termAtStart |-> term, late |-> late] \in Commands
    BY <1>12 DEF StepDownBegin, Commands
  <2>3. leaderMode' \in Modes /\ StateTypes' /\ command' \in [Cmd -> Commands]
    BY <2>1, <2>2, AttemptTypes
  <2> QED
    BY <1>12, <2>3 DEF StepDownBegin
<1>13. ASSUME NEW c \in Cmd, StepDownRetry(c) PROVE TypeOK'
  <2>1. command[c] \in Commands
    OBVIOUS
  <2>2. leaderMode' \in Modes /\ StateTypes' /\ command' \in [Cmd -> Commands]
    BY <1>13, <2>1, AttemptTypes, AbortTypes DEF StepDownRetry
  <2> QED
    BY <1>13, <2>2 DEF StepDownRetry, Expect
<1>14. CASE StartProducer
  BY <1>14 DEF StartProducer
<1>15. CASE EnqueueDocuments
  BY <1>15, BoundAssumption DEF EnqueueDocuments
<1>16. CASE BatcherStep
  BY <1>16, BoundAssumption DEF BatcherStep, BatcherPops, BatcherReadsTerm, BatcherReadsState,
      BatcherReadsBuffer, BatcherPushes, BatcherAt, Ops, NoOps, ABatch, Exhausted, Term
<1>17. CASE ApplierTakes \/ ApplierApplies
  BY <1>17, BoundAssumption DEF ApplierTakes, ApplierApplies, Ops, NoOps, ABatch, Exhausted, Term
<1>18. CASE DrainLocks
  BY <1>18 DEF DrainLocks, CanCompleteTransitionToPrimary, Expect
<1>19. CASE DrainFinishes
  <2>1. leaderMode' \in Modes /\ StateTypes'
    BY <1>19, MemberStateTypes DEF DrainFinishes, Modes
  <2> QED
    BY <1>19, <2>1 DEF DrainFinishes, Expect
<1> QED
  BY <1>1, <1>2, <1>3, <1>4, <1>5, <1>6, <1>7, <1>8, <1>9, <1>10, <1>11, <1>12, <1>13,
      <1>14, <1>15, <1>16, <1>17, <1>18, <1>19 DEF Next, ExecutorStep, CommandStep,
      ApplierStep

(* Every step keeps the role invariant.                                     *)
LEMMA RoleStep ==
    ASSUME TypeOK, RoleInv, Next
    PROVE  RoleInv'
<1> USE DEF RoleInv, TypeOK, RoleTypes, StateTypes, Term, Modes, Leader, roleVars,
    electionVars, stateVars, taskVars, drainVars
<1>1. ASSUME NEW s \in BOOLEAN, StandForElection(s) PROVE RoleInv'
  BY <1>1 DEF StandForElection
<1>2. CASE StartVoteRequester \/ LoseElection
  BY <1>2 DEF StartVoteRequester, LoseElection
<1>3. CASE WinElection
  BY <1>3 DEF WinElection, EnterDrainMode
<1>4. CASE ConcludeCatchup
  BY <1>4 DEF ConcludeCatchup, EnterDrainMode
<1>5. ASSUME NEW t \in Term, UpdateTerm(t) PROVE RoleInv'
  BY <1>5 DEF UpdateTerm, PrepareForUnconditionalStepDown
<1>6. CASE StepDownSelf
  BY <1>6 DEF StepDownSelf, PrepareForUnconditionalStepDown
<1>7. CASE StepDownFinish
  BY <1>7 DEF StepDownFinish, LockFree, Expect, UpdateMemberState, Leaving
<1>8. ASSUME NEW how \in {"heartbeat", "locking", "unlocked"}, StartReconfig(how) PROVE
    RoleInv'
  BY <1>8 DEF StartReconfig, CancelElectionIfNeeded, Expect
<1>9. CASE HeartbeatReconfigLocks \/ AbandonReconfig
  BY <1>9 DEF HeartbeatReconfigLocks, AbandonReconfig
<1>10. CASE FinishReconfig
  BY <1>10, ReconfigEffect DEF Reconfigured, LockFree, UpdateMemberState, Leaving
<1>11. ASSUME NEW c \in Cmd, StepDownCommand(c) \/ StepDownRefused(c) \/ StepDownWake(c)
    PROVE RoleInv'
  BY <1>11, CommandEffect
<1>12. ASSUME NEW c \in Cmd, StepDownBegin(c) PROVE RoleInv'
  BY <1>12 DEF StepDownBegin, Attempt, LockFree, SetCommand, Return, NoCommand,
      UpdateMemberState, Leaving
<1>13. ASSUME NEW c \in Cmd, StepDownRetry(c) PROVE RoleInv'
  BY <1>13 DEF StepDownRetry, Attempt, AbortFn, SteppedDownMeanwhile, LockFree, Expect,
      SetCommand, Return, NoCommand, UpdateMemberState, Leaving
<1>14. CASE StartProducer
  BY <1>14 DEF StartProducer
<1>15. CASE EnqueueDocuments
  BY <1>15 DEF EnqueueDocuments
<1>16. CASE BatcherStep
  BY <1>16 DEF BatcherStep, BatcherPops, BatcherReadsTerm, BatcherReadsState,
      BatcherReadsBuffer, BatcherPushes, BatcherAt
<1>17. CASE ApplierTakes \/ ApplierApplies
  BY <1>17 DEF ApplierTakes, ApplierApplies
<1>18. CASE DrainLocks
  BY <1>18 DEF DrainLocks, CanCompleteTransitionToPrimary, Expect
<1>19. CASE DrainFinishes
  BY <1>19 DEF DrainFinishes, CanCompleteTransitionToPrimary, Expect, UpdateMemberState,
      Leaving
<1> QED
  BY <1>1, <1>2, <1>3, <1>4, <1>5, <1>6, <1>7, <1>8, <1>9, <1>10, <1>11, <1>12, <1>13,
      <1>14, <1>15, <1>16, <1>17, <1>18, <1>19 DEF Next, ExecutorStep, CommandStep,
      ApplierStep

(* Every step keeps the replication invariant.                              *)
LEMMA ReplicationStep ==
    ASSUME TypeOK, RoleInv, ReplicationInv, Next
    PROVE  ReplicationInv'
<1> USE DEF RoleInv, ReplicationInv, TypeOK, RoleTypes, StateTypes, Term, Modes, Leader,
    roleVars, electionVars, stateVars, taskVars, drainVars
<1>1. ASSUME NEW s \in BOOLEAN, StandForElection(s) PROVE ReplicationInv'
  BY <1>1 DEF StandForElection
<1>2. CASE StartVoteRequester \/ LoseElection
  BY <1>2 DEF StartVoteRequester, LoseElection
<1>3. CASE WinElection
  BY <1>3 DEF WinElection, EnterDrainMode
<1>4. CASE ConcludeCatchup
  BY <1>4 DEF ConcludeCatchup, EnterDrainMode
<1>5. ASSUME NEW t \in Term, UpdateTerm(t) PROVE ReplicationInv'
  BY <1>5 DEF UpdateTerm, PrepareForUnconditionalStepDown
<1>6. CASE StepDownSelf
  BY <1>6 DEF StepDownSelf, PrepareForUnconditionalStepDown
<1>7. CASE StepDownFinish
  BY <1>7 DEF StepDownFinish, LockFree, Expect, UpdateMemberState, Leaving
<1>8. ASSUME NEW how \in {"heartbeat", "locking", "unlocked"}, StartReconfig(how) PROVE
    ReplicationInv'
  BY <1>8 DEF StartReconfig, CancelElectionIfNeeded, Expect
<1>9. CASE HeartbeatReconfigLocks \/ AbandonReconfig
  BY <1>9 DEF HeartbeatReconfigLocks, AbandonReconfig
<1>10. CASE FinishReconfig
  <2>1. ASSUME NEW m \in {leaderMode, "NotLeader"}, Reconfigured(m) PROVE ReplicationInv'
    <3>1. CASE m = "NotLeader"
      BY <2>1, <3>1 DEF Reconfigured, UpdateMemberState, Leaving
    <3>2. CASE m = leaderMode
      BY <2>1, <3>2 DEF Reconfigured, UpdateMemberState, Leaving
    <3> QED
      BY <2>1, <3>1, <3>2
  <2> QED
    BY <1>10, <2>1, ReconfigEffect
<1>11. ASSUME NEW c \in Cmd, StepDownCommand(c) \/ StepDownRefused(c) \/ StepDownWake(c)
    PROVE ReplicationInv'
  BY <1>11, CommandEffect
<1>12. ASSUME NEW c \in Cmd, StepDownBegin(c) PROVE ReplicationInv'
  BY <1>12 DEF StepDownBegin, Attempt, LockFree, SetCommand, Return, NoCommand,
      UpdateMemberState, Leaving
<1>13. ASSUME NEW c \in Cmd, StepDownRetry(c) PROVE ReplicationInv'
  BY <1>13 DEF StepDownRetry, Attempt, AbortFn, SteppedDownMeanwhile, LockFree, Expect,
      SetCommand, Return, NoCommand, UpdateMemberState, Leaving
<1>14. CASE StartProducer
  BY <1>14 DEF StartProducer
<1>15. CASE EnqueueDocuments
  BY <1>15 DEF EnqueueDocuments
<1>16. CASE BatcherStep
  BY <1>16 DEF BatcherStep, BatcherPops, BatcherReadsTerm, BatcherReadsState,
      BatcherReadsBuffer, BatcherPushes, BatcherAt
<1>17. CASE ApplierTakes \/ ApplierApplies
  BY <1>17 DEF ApplierTakes, ApplierApplies
<1>18. CASE DrainLocks
  BY <1>18 DEF DrainLocks, CanCompleteTransitionToPrimary, Expect
<1>19. CASE DrainFinishes
  BY <1>19 DEF DrainFinishes, CanCompleteTransitionToPrimary, Expect, UpdateMemberState,
      Leaving
<1> QED
  BY <1>1, <1>2, <1>3, <1>4, <1>5, <1>6, <1>7, <1>8, <1>9, <1>10, <1>11, <1>12, <1>13,
      <1>14, <1>15, <1>16, <1>17, <1>18, <1>19 DEF Next, ExecutorStep, CommandStep,
      ApplierStep

(* Every step keeps the pipeline invariant.                                 *)
LEMMA PipelineStep ==
    ASSUME ModeInv, TypeOK', PipelineInv, Next
    PROVE  PipelineInv'
<1> USE DEF PipelineInv, DrainSeen, SameDrain, Drained, DrainTypes, Ops, NoOps, ABatch,
    Exhausted, ModeInv, RoleInv, ReplicationInv, TypeOK, RoleTypes, StateTypes, Term, Modes,
    Leader, roleVars, electionVars, stateVars, taskVars, drainVars
<1>1. ASSUME NEW s \in BOOLEAN, StandForElection(s) PROVE PipelineInv'
  BY <1>1 DEF StandForElection
<1>2. CASE StartVoteRequester \/ LoseElection
  BY <1>2 DEF StartVoteRequester, LoseElection
<1>3. CASE WinElection
  BY <1>3 DEF WinElection, EnterDrainMode
<1>4. CASE ConcludeCatchup
  BY <1>4 DEF ConcludeCatchup, EnterDrainMode
<1>5. ASSUME NEW t \in Term, UpdateTerm(t) PROVE PipelineInv'
  BY <1>5 DEF UpdateTerm, PrepareForUnconditionalStepDown
<1>6. CASE StepDownSelf
  BY <1>6 DEF StepDownSelf, PrepareForUnconditionalStepDown
<1>7. CASE StepDownFinish
  BY <1>7 DEF StepDownFinish, LockFree, Expect, UpdateMemberState, Leaving
<1>8. ASSUME NEW how \in {"heartbeat", "locking", "unlocked"}, StartReconfig(how) PROVE
    PipelineInv'
  BY <1>8 DEF StartReconfig, CancelElectionIfNeeded, Expect
<1>9. CASE HeartbeatReconfigLocks \/ AbandonReconfig
  BY <1>9 DEF HeartbeatReconfigLocks, AbandonReconfig
<1>10. CASE FinishReconfig
  BY <1>10, ReconfigEffect DEF Reconfigured, LockFree, UpdateMemberState, Leaving
<1>11. ASSUME NEW c \in Cmd, StepDownCommand(c) \/ StepDownRefused(c) \/ StepDownWake(c)
    PROVE PipelineInv'
  BY <1>11, CommandEffect
<1>12. ASSUME NEW c \in Cmd, StepDownBegin(c) PROVE PipelineInv'
  BY <1>12 DEF StepDownBegin, Attempt, LockFree, SetCommand, Return, NoCommand,
      UpdateMemberState, Leaving
<1>13. ASSUME NEW c \in Cmd, StepDownRetry(c) PROVE PipelineInv'
  BY <1>13 DEF StepDownRetry, Attempt, AbortFn, SteppedDownMeanwhile, LockFree, Expect,
      SetCommand, Return, NoCommand, UpdateMemberState, Leaving
<1>14. CASE StartProducer
  BY <1>14 DEF StartProducer
<1>15. CASE EnqueueDocuments
  BY <1>15 DEF EnqueueDocuments
<1>16. CASE BatcherPops
  BY <1>16 DEF BatcherPops, BatcherAt
<1>17. CASE BatcherReadsTerm
  BY <1>17 DEF BatcherReadsTerm, BatcherAt
<1>18. CASE BatcherReadsState
  BY <1>18 DEF BatcherReadsState, BatcherAt
<1>19. CASE BatcherReadsBuffer
  BY <1>19 DEF BatcherReadsBuffer, BatcherAt
<1>20. CASE BatcherPushes
  BY <1>20 DEF BatcherPushes, BatcherAt
<1>21. CASE ApplierTakes \/ ApplierApplies
  BY <1>21 DEF ApplierTakes, ApplierApplies
<1>22. CASE DrainLocks
  BY <1>22 DEF DrainLocks, CanCompleteTransitionToPrimary, Expect
<1>23. CASE DrainFinishes
  BY <1>23 DEF DrainFinishes, CanCompleteTransitionToPrimary, Expect, UpdateMemberState,
      Leaving
<1> QED
  BY <1>1, <1>2, <1>3, <1>4, <1>5, <1>6, <1>7, <1>8, <1>9, <1>10, <1>11, <1>12, <1>13,
      <1>14, <1>15, <1>16, <1>17, <1>18, <1>19, <1>20, <1>21, <1>22, <1>23 DEF Next,
      ExecutorStep, CommandStep, BatcherStep, ApplierStep

(* Every step keeps the transition invariant.                               *)
LEMMA TransitionStep ==
    ASSUME ModeInv, TransitionInv, Next
    PROVE  TransitionInv'
<1> USE DEF TransitionInv, Running, DrainTypes, ModeInv, RoleInv, ReplicationInv, TypeOK,
    RoleTypes, StateTypes, Term, Modes, Leader, roleVars, electionVars, stateVars, taskVars,
    drainVars
<1>1. ASSUME NEW s \in BOOLEAN, StandForElection(s) PROVE TransitionInv'
  BY <1>1 DEF StandForElection
<1>2. CASE StartVoteRequester \/ LoseElection
  BY <1>2 DEF StartVoteRequester, LoseElection
<1>3. CASE WinElection
  BY <1>3 DEF WinElection, EnterDrainMode
<1>4. CASE ConcludeCatchup
  BY <1>4 DEF ConcludeCatchup, EnterDrainMode
<1>5. ASSUME NEW t \in Term, UpdateTerm(t) PROVE TransitionInv'
  BY <1>5 DEF UpdateTerm, PrepareForUnconditionalStepDown
<1>6. CASE StepDownSelf
  BY <1>6 DEF StepDownSelf, PrepareForUnconditionalStepDown
<1>7. CASE StepDownFinish
  BY <1>7 DEF StepDownFinish, LockFree, Expect, UpdateMemberState, Leaving
<1>8. ASSUME NEW how \in {"heartbeat", "locking", "unlocked"}, StartReconfig(how) PROVE
    TransitionInv'
  BY <1>8 DEF StartReconfig, CancelElectionIfNeeded, Expect
<1>9. CASE HeartbeatReconfigLocks \/ AbandonReconfig
  BY <1>9 DEF HeartbeatReconfigLocks, AbandonReconfig
<1>10. CASE FinishReconfig
  BY <1>10, ReconfigEffect DEF Reconfigured, LockFree, UpdateMemberState, Leaving
<1>11. ASSUME NEW c \in Cmd, StepDownCommand(c) \/ StepDownRefused(c) \/ StepDownWake(c)
    PROVE TransitionInv'
  BY <1>11, CommandEffect
<1>12. ASSUME NEW c \in Cmd, StepDownBegin(c) PROVE TransitionInv'
  BY <1>12 DEF StepDownBegin, Attempt, LockFree, SetCommand, Return, NoCommand,
      UpdateMemberState, Leaving
<1>13. ASSUME NEW c \in Cmd, StepDownRetry(c) PROVE TransitionInv'
  BY <1>13 DEF StepDownRetry, Attempt, AbortFn, SteppedDownMeanwhile, LockFree, Expect,
      SetCommand, Return, NoCommand, UpdateMemberState, Leaving
<1>14. CASE StartProducer
  BY <1>14 DEF StartProducer
<1>15. CASE EnqueueDocuments
  BY <1>15 DEF EnqueueDocuments
<1>16. CASE BatcherStep
  BY <1>16 DEF BatcherStep, BatcherPops, BatcherReadsTerm, BatcherReadsState,
      BatcherReadsBuffer, BatcherPushes, BatcherAt
<1>17. CASE ApplierTakes \/ ApplierApplies
  BY <1>17 DEF ApplierTakes, ApplierApplies
<1>18. CASE DrainLocks
  BY <1>18 DEF DrainLocks, CanCompleteTransitionToPrimary, Expect
<1>19. CASE DrainFinishes
  BY <1>19 DEF DrainFinishes, CanCompleteTransitionToPrimary, Expect, UpdateMemberState,
      Leaving
<1> QED
  BY <1>1, <1>2, <1>3, <1>4, <1>5, <1>6, <1>7, <1>8, <1>9, <1>10, <1>11, <1>12, <1>13,
      <1>14, <1>15, <1>16, <1>17, <1>18, <1>19 DEF Next, ExecutorStep, CommandStep,
      ApplierStep

(* With one command, every step keeps the command invariant.                *)
LEMMA CommandInvStep ==
    ASSUME OneCommand, DrainInv, TypeOK', CommandsInv, Next
    PROVE  CommandInv'
<1> USE DEF OneCommand, CommandsInv, CommandInv, WriteInv, Active, Writable, DrainInv,
    TransitionInv, DrainTypes, TaskTypes, Commands, ModeInv, RoleInv, ReplicationInv,
    TypeOK, RoleTypes, StateTypes, Term, Modes, Leader, roleVars, electionVars, stateVars,
    taskVars, drainVars
<1>1. ASSUME NEW s \in BOOLEAN, StandForElection(s) PROVE CommandInv'
  BY <1>1 DEF StandForElection
<1>2. CASE StartVoteRequester \/ LoseElection
  BY <1>2 DEF StartVoteRequester, LoseElection
<1>3. CASE WinElection
  BY <1>3 DEF WinElection, EnterDrainMode
<1>4. CASE ConcludeCatchup
  BY <1>4 DEF ConcludeCatchup, EnterDrainMode
<1>5. ASSUME NEW t \in Term, UpdateTerm(t) PROVE CommandInv'
  BY <1>5 DEF UpdateTerm, PrepareForUnconditionalStepDown
<1>6. CASE StepDownSelf
  BY <1>6 DEF StepDownSelf, PrepareForUnconditionalStepDown
<1>7. CASE StepDownFinish
  BY <1>7 DEF StepDownFinish, LockFree, Expect, UpdateMemberState, Leaving
<1>8. ASSUME NEW how \in {"heartbeat", "locking", "unlocked"}, StartReconfig(how) PROVE
    CommandInv'
  BY <1>8 DEF StartReconfig, CancelElectionIfNeeded, Expect
<1>9. CASE HeartbeatReconfigLocks \/ AbandonReconfig
  BY <1>9 DEF HeartbeatReconfigLocks, AbandonReconfig
<1>10. CASE FinishReconfig
  BY <1>10, ReconfigEffect DEF Reconfigured, LockFree, UpdateMemberState, Leaving
<1>11. ASSUME NEW c \in Cmd, StepDownCommand(c) PROVE CommandInv'
  BY <1>11 DEF StepDownCommand, SetCommand, NoCommand
<1>12. ASSUME NEW c \in Cmd, StepDownRefused(c) PROVE CommandInv'
  BY <1>12 DEF StepDownRefused, SetCommand, Return, NoCommand
<1>13. ASSUME NEW c \in Cmd, StepDownWake(c) PROVE CommandInv'
  BY <1>13 DEF StepDownWake, SetCommand
<1>14. ASSUME NEW c \in Cmd, StepDownBegin(c) PROVE CommandInv'
  BY <1>14 DEF StepDownBegin, Attempt, LockFree, SetCommand, Return, NoCommand,
      UpdateMemberState, Leaving
<1>15. ASSUME NEW c \in Cmd, StepDownRetry(c) PROVE CommandInv'
  BY <1>15 DEF StepDownRetry, Attempt, AbortFn, SteppedDownMeanwhile, LockFree, Expect,
      SetCommand, Return, NoCommand, UpdateMemberState, Leaving
<1>16. CASE StartProducer
  BY <1>16 DEF StartProducer
<1>17. CASE EnqueueDocuments
  BY <1>17 DEF EnqueueDocuments
<1>18. CASE BatcherStep
  BY <1>18 DEF BatcherStep, BatcherPops, BatcherReadsTerm, BatcherReadsState,
      BatcherReadsBuffer, BatcherPushes, BatcherAt
<1>19. CASE ApplierTakes \/ ApplierApplies
  BY <1>19 DEF ApplierTakes, ApplierApplies
<1>20. CASE DrainLocks
  BY <1>20 DEF DrainLocks, CanCompleteTransitionToPrimary, Expect
<1>21. CASE DrainFinishes
  BY <1>21 DEF DrainFinishes, CanCompleteTransitionToPrimary, Expect, UpdateMemberState,
      Leaving
<1> QED
  BY <1>1, <1>2, <1>3, <1>4, <1>5, <1>6, <1>7, <1>8, <1>9, <1>10, <1>11, <1>12, <1>13,
      <1>14, <1>15, <1>16, <1>17, <1>18, <1>19, <1>20, <1>21 DEF Next, ExecutorStep,
      CommandStep, ApplierStep

(* With one command, every step keeps the write invariant.                  *)
LEMMA WriteInvStep ==
    ASSUME OneCommand, DrainInv, CommandsInv, Next
    PROVE  WriteInv'
<1> USE DEF OneCommand, CommandsInv, CommandInv, WriteInv, Active, Writable, DrainInv,
    TransitionInv, DrainTypes, TaskTypes, Commands, Running, ModeInv, RoleInv,
    ReplicationInv, TypeOK, RoleTypes, StateTypes, Term, Modes, Leader, roleVars,
    electionVars, stateVars, taskVars, drainVars
<1>1. ASSUME NEW s \in BOOLEAN, StandForElection(s) PROVE WriteInv'
  BY <1>1 DEF StandForElection
<1>2. CASE StartVoteRequester \/ LoseElection
  BY <1>2 DEF StartVoteRequester, LoseElection
<1>3. CASE WinElection
  BY <1>3 DEF WinElection, EnterDrainMode
<1>4. CASE ConcludeCatchup
  BY <1>4 DEF ConcludeCatchup, EnterDrainMode
<1>5. ASSUME NEW t \in Term, UpdateTerm(t) PROVE WriteInv'
  BY <1>5 DEF UpdateTerm, PrepareForUnconditionalStepDown
<1>6. CASE StepDownSelf
  BY <1>6 DEF StepDownSelf, PrepareForUnconditionalStepDown
<1>7. CASE StepDownFinish
  BY <1>7 DEF StepDownFinish, LockFree, Expect, UpdateMemberState, Leaving
<1>8. ASSUME NEW how \in {"heartbeat", "locking", "unlocked"}, StartReconfig(how) PROVE
    WriteInv'
  BY <1>8 DEF StartReconfig, CancelElectionIfNeeded, Expect
<1>9. CASE HeartbeatReconfigLocks \/ AbandonReconfig
  BY <1>9 DEF HeartbeatReconfigLocks, AbandonReconfig
<1>10. CASE FinishReconfig
  BY <1>10, ReconfigEffect DEF Reconfigured, LockFree, UpdateMemberState, Leaving
<1>11. ASSUME NEW c \in Cmd, StepDownCommand(c) \/ StepDownRefused(c) \/ StepDownWake(c)
    PROVE WriteInv'
  BY <1>11, CommandEffect
<1>12. ASSUME NEW c \in Cmd, StepDownBegin(c) PROVE WriteInv'
  BY <1>12 DEF StepDownBegin, Attempt, LockFree, SetCommand, Return, NoCommand,
      UpdateMemberState, Leaving
<1>13. ASSUME NEW c \in Cmd, StepDownRetry(c) PROVE WriteInv'
  BY <1>13 DEF StepDownRetry, Attempt, AbortFn, SteppedDownMeanwhile, LockFree, Expect,
      SetCommand, Return, NoCommand, UpdateMemberState, Leaving
<1>14. CASE StartProducer
  BY <1>14 DEF StartProducer
<1>15. CASE EnqueueDocuments
  BY <1>15 DEF EnqueueDocuments
<1>16. CASE BatcherStep
  BY <1>16 DEF BatcherStep, BatcherPops, BatcherReadsTerm, BatcherReadsState,
      BatcherReadsBuffer, BatcherPushes, BatcherAt
<1>17. CASE ApplierTakes \/ ApplierApplies
  BY <1>17 DEF ApplierTakes, ApplierApplies
<1>18. CASE DrainLocks
  BY <1>18 DEF DrainLocks, CanCompleteTransitionToPrimary, Expect
<1>19. CASE DrainFinishes
  BY <1>19 DEF DrainFinishes, CanCompleteTransitionToPrimary, Expect, UpdateMemberState,
      Leaving
<1> QED
  BY <1>1, <1>2, <1>3, <1>4, <1>5, <1>6, <1>7, <1>8, <1>9, <1>10, <1>11, <1>12, <1>13,
      <1>14, <1>15, <1>16, <1>17, <1>18, <1>19 DEF Next, ExecutorStep, CommandStep,
      ApplierStep

----------------------------------------------------------------------------
(* The theorems.                                                            *)

(* The invariant holds at the start.                                        *)
LEMMA DrainInvInit == Init => DrainInv
<1> SUFFICES ASSUME Init PROVE DrainInv
  OBVIOUS
<1>1. NoCommand \in Commands
  BY BoundAssumption DEF NoCommand, Commands, Term
<1>2. TypeOK
  <2> voteRequester \in BOOLEAN /\ electable \in BOOLEAN /\ stepDown \in BOOLEAN
    BY DEF Init
  <2>1. RoleTypes
    BY BoundAssumption DEF Init, RoleTypes, Modes, Term
  <2>2. StateTypes
    BY DEF Init, StateTypes
  <2>3. TaskTypes
    BY <1>1, BoundAssumption DEF Init, TaskTypes
  <2>4. DrainTypes /\ failed = "none"
    BY BoundAssumption DEF Init, DrainTypes, Ops, Term
  <2> QED
    BY <2>1, <2>2, <2>3, <2>4 DEF TypeOK
<1>3. RoleInv /\ ReplicationInv
  BY DEF Init, RoleInv, ReplicationInv, Leader
<1>4. PipelineInv /\ TransitionInv
  BY DEF Init, PipelineInv, TransitionInv, NoOps
<1> QED
  BY <1>2, <1>3, <1>4 DEF DrainInv, ModeInv

(* Every step keeps it.                                                     *)
LEMMA DrainInvStep == DrainInv /\ [Next]_vars => DrainInv'
<1> SUFFICES ASSUME DrainInv, [Next]_vars PROVE DrainInv'
  OBVIOUS
<1>1. CASE Next
  <2>1. ModeInv'
    BY <1>1, TypeStep, RoleStep, ReplicationStep DEF DrainInv, ModeInv
  <2> QED
    BY <1>1, <2>1, PipelineStep, TransitionStep DEF DrainInv, ModeInv
<1>2. CASE UNCHANGED vars
  BY <1>2 DEF vars, roleVars, electionVars, stateVars, taskVars, drainVars, DrainInv, ModeInv,
      TypeOK, RoleTypes, StateTypes, TaskTypes, DrainTypes, RoleInv, ReplicationInv, Leader,
      PipelineInv, DrainSeen, SameDrain, Drained, TransitionInv
<1> QED
  BY <1>1, <1>2

(* The invariant of every behaviour, whatever the number of commands.       *)
LEMMA DrainInvariant == Spec => []DrainInv
  BY DrainInvInit, DrainInvStep, PTL DEF Spec

(* Every field of the coordinator and every thread keeps its type.          *)
THEOREM TypeCorrect == Spec => []TypeOK
<1>1. DrainInv => TypeOK
  BY DEF DrainInv, ModeInv
<1> QED
  BY <1>1, DrainInvariant, PTL

(* Whatever ends a term as primary, and wherever catchup or drain stood, the *)
(* member replicates again: _updateMemberStateFromTopologyCoordinator_inlock *)
(* restarts everything that the transition had stopped.                      *)
THEOREM Replicates == Spec => []SecondaryReplicates
<1>1. DrainInv => SecondaryReplicates
  BY DEF DrainInv, ModeInv, RoleInv, ReplicationInv, SecondaryReplicates, Leader
<1> QED
  BY <1>1, DrainInvariant, PTL

(* The three unsynchronized reads of OpQueueBatcher::run, in that order, are *)
(* enough: when signalDrainComplete stops the applier nothing fetched is left *)
(* unapplied, with any number of step-down commands.                         *)
THEOREM Drains == Spec => []StoppedIsDrained
<1>1. DrainInv => StoppedIsDrained
  BY DEF DrainInv, ModeInv, ReplicationInv, PipelineInv, StoppedIsDrained
<1> QED
  BY <1>1, DrainInvariant, PTL

(* The rest of the invariant, with one step-down command at a time.         *)
LEMMA CommandsInvariant == ASSUME OneCommand PROVE Spec => []CommandsInv
<1>1. Init => CommandsInv
  BY DEF Init, CommandsInv, CommandInv, WriteInv, Active, NoCommand
<1>2. DrainInv /\ DrainInv' /\ CommandsInv /\ [Next]_vars => CommandsInv'
  <2> SUFFICES ASSUME DrainInv, DrainInv', CommandsInv, [Next]_vars PROVE CommandsInv'
    OBVIOUS
  <2>1. CASE Next
    BY <2>1, OneCommand, CommandInvStep, WriteInvStep DEF CommandsInv, DrainInv, ModeInv
  <2>2. CASE UNCHANGED vars
    BY <2>2 DEF vars, roleVars, electionVars, stateVars, taskVars, drainVars, CommandsInv,
        CommandInv, WriteInv, Active, Writable, Leader
  <2> QED
    BY <2>1, <2>2
<1> QED
  BY <1>1, <1>2, DrainInvariant, PTL DEF Spec

(* As long as there is one replSetStepDown command at a time, writes are     *)
(* accepted only after the drain of the same term.  With two, the abort      *)
(* function of one from an earlier term can end the attempt of the other.    *)
THEOREM WritesWait == ASSUME OneCommand PROVE Spec => []WritesAfterDrain
<1>1. DrainInv /\ CommandsInv => WritesAfterDrain
  BY DEF DrainInv, ModeInv, RoleInv, CommandsInv, WriteInv, Writable, Leader, WritesAfterDrain
<1> QED
  BY <1>1, OneCommand, DrainInvariant, CommandsInvariant, PTL

(* Under the same condition the assertions of signalDrainComplete and        *)
(* completeTransitionToPrimary never fail.                                   *)
THEOREM DrainAssertionsHold == ASSUME OneCommand PROVE Spec => []DrainInvariantsHold
<1>1. DrainInv /\ CommandsInv => DrainInvariantsHold
  BY DEF DrainInv, TransitionInv, CommandsInv, WriteInv, DrainInvariantsHold
<1> QED
  BY <1>1, OneCommand, DrainInvariant, CommandsInvariant, PTL

----------------------------------------------------------------------------
(* Where the other assertions of the coordinator fail.                      *)

\* The write flag follows the leader mode, except that an announced step down
\* leaves it; such a step down is scheduled, and only a reconfig that makes the
\* member unelectable takes its mode away before it is finished.
FlagInv ==
    /\ leaderMode = "Master" => canAcceptNonLocalWrites
    /\ canAcceptNonLocalWrites => leaderMode \in {"Master", "SteppingDown"}
    /\ leaderMode = "SteppingDown" => stepDown
ReconfigInv ==
    /\ candidate # 0 => electable
    /\ reconfig # "Steady" => reconfigs > 0
    /\ ~electable => reconfigs > 0 /\ (reconfig # "Steady" => reconfigs > 1)
    /\ stepDown => leaderMode = "SteppingDown" \/ (~Leader /\ ~electable) \/ reconfigs > 1
WindowInv == FlagInv /\ ReconfigInv

(* Every step keeps what the write flag says.                               *)
LEMMA FlagStep ==
    ASSUME ModeInv, FlagInv, Next
    PROVE  FlagInv'
<1> USE DEF FlagInv, ModeInv, RoleInv, TypeOK, RoleTypes, StateTypes, TaskTypes, Commands, Modes, Leader,
    roleVars, electionVars, stateVars, taskVars, drainVars
<1>1. ASSUME NEW s \in BOOLEAN, StandForElection(s) PROVE FlagInv'
  BY <1>1 DEF StandForElection
<1>2. CASE StartVoteRequester \/ LoseElection
  BY <1>2 DEF StartVoteRequester, LoseElection
<1>3. CASE WinElection
  BY <1>3 DEF WinElection, EnterDrainMode
<1>4. CASE ConcludeCatchup
  BY <1>4 DEF ConcludeCatchup, EnterDrainMode
<1>5. ASSUME NEW t \in Term, UpdateTerm(t) PROVE FlagInv'
  BY <1>5 DEF UpdateTerm, PrepareForUnconditionalStepDown
<1>6. CASE StepDownSelf
  BY <1>6 DEF StepDownSelf, PrepareForUnconditionalStepDown
<1>7. CASE StepDownFinish
  BY <1>7 DEF StepDownFinish, UpdateMemberState
<1>8. ASSUME NEW how \in {"heartbeat", "locking", "unlocked"}, StartReconfig(how) PROVE FlagInv'
  BY <1>8 DEF StartReconfig
<1>9. CASE HeartbeatReconfigLocks \/ AbandonReconfig
  BY <1>9 DEF HeartbeatReconfigLocks, AbandonReconfig
<1>10. CASE FinishReconfig
  <2>1. ASSUME NEW m \in {leaderMode, "NotLeader"}, Reconfigured(m) PROVE FlagInv'
    <3>1. leaderMode' = m /\ canAcceptNonLocalWrites' = (m = "Master") /\ stepDown' = stepDown
      BY <2>1 DEF Reconfigured, UpdateMemberState
    <3> QED
      BY <3>1
  <2>2. CASE UNCHANGED <<leaderMode, stateVars, stepDown>>
    BY <2>2
  <2> QED
    BY <1>10, <2>1, <2>2, ReconfigEffect
<1>11. ASSUME NEW c \in Cmd, StepDownCommand(c) \/ StepDownRefused(c) \/ StepDownWake(c) PROVE FlagInv'
  BY <1>11, CommandEffect
<1>12. ASSUME NEW c \in Cmd, StepDownBegin(c) PROVE FlagInv'
  BY <1>12 DEF StepDownBegin, Attempt, UpdateMemberState
<1>13. ASSUME NEW c \in Cmd, StepDownRetry(c) PROVE FlagInv'
  BY <1>13 DEF StepDownRetry, Attempt, AbortFn, UpdateMemberState
<1>14. CASE StartProducer \/ EnqueueDocuments
  BY <1>14 DEF StartProducer, EnqueueDocuments
<1>15. CASE BatcherStep
  BY <1>15 DEF BatcherStep, BatcherPops, BatcherReadsTerm, BatcherReadsState, BatcherReadsBuffer, BatcherPushes
<1>16. CASE ApplierTakes \/ ApplierApplies \/ DrainLocks
  BY <1>16 DEF ApplierTakes, ApplierApplies, DrainLocks
<1>17. CASE DrainFinishes
  BY <1>17 DEF DrainFinishes, UpdateMemberState
<1> QED
  BY <1>1, <1>2, <1>3, <1>4, <1>5, <1>6, <1>7, <1>8, <1>9, <1>10, <1>11, <1>12, <1>13,
      <1>14, <1>15, <1>16, <1>17 DEF Next, ExecutorStep, CommandStep, ApplierStep

(* Every step keeps what is known of reconfigs and the announced step down.  *)
LEMMA ReconfigStep ==
    ASSUME ModeInv, WindowInv, Next
    PROVE  ReconfigInv'
<1> USE DEF WindowInv, ReconfigInv, ModeInv, RoleInv, TypeOK, RoleTypes, StateTypes, TaskTypes, Modes,
    Leader, roleVars, electionVars, stateVars, taskVars, drainVars
<1>0. reconfigs \in Nat
  BY BoundAssumption
<1>1. ASSUME NEW s \in BOOLEAN, StandForElection(s) PROVE ReconfigInv'
  BY <1>1 DEF StandForElection
<1>2. CASE StartVoteRequester \/ LoseElection
  BY <1>2 DEF StartVoteRequester, LoseElection
<1>3. CASE WinElection
  BY <1>3 DEF WinElection, EnterDrainMode
<1>4. CASE ConcludeCatchup
  BY <1>4 DEF ConcludeCatchup, EnterDrainMode
<1>5. ASSUME NEW t \in Term, UpdateTerm(t) PROVE ReconfigInv'
  BY <1>5 DEF UpdateTerm, PrepareForUnconditionalStepDown
<1>6. CASE StepDownSelf
  BY <1>6 DEF StepDownSelf, PrepareForUnconditionalStepDown
<1>7. CASE StepDownFinish
  BY <1>7 DEF StepDownFinish, UpdateMemberState
<1>8. ASSUME NEW how \in {"heartbeat", "locking", "unlocked"}, StartReconfig(how) PROVE ReconfigInv'
  BY <1>0, <1>8 DEF StartReconfig
<1>9. CASE HeartbeatReconfigLocks \/ AbandonReconfig
  BY <1>9 DEF HeartbeatReconfigLocks, AbandonReconfig
<1>10. CASE FinishReconfig
  <2>1. CASE UNCHANGED <<roleVars, stateVars, taskVars, drainVars>>
    BY <2>1
  <2>2. ASSUME NEW e \in BOOLEAN, NEW isW \in BOOLEAN, candidate = 0, reconfig # "Steady", SetCurrentRSConfig(e, isW)
        PROVE  ReconfigInv'
    BY <1>0, <2>2 DEF SetCurrentRSConfig, UpdateMemberState
  <2> QED
    BY <1>10, <2>1, <2>2 DEF FinishReconfig
<1>11. ASSUME NEW c \in Cmd, StepDownCommand(c) \/ StepDownRefused(c) \/ StepDownWake(c) PROVE ReconfigInv'
  BY <1>11, CommandEffect
<1>12. ASSUME NEW c \in Cmd, StepDownBegin(c) PROVE ReconfigInv'
  BY <1>12 DEF StepDownBegin, Attempt, UpdateMemberState
<1>13. ASSUME NEW c \in Cmd, StepDownRetry(c) PROVE ReconfigInv'
  BY <1>13 DEF StepDownRetry, SteppedDownMeanwhile, Attempt, AbortFn, UpdateMemberState
<1>14. CASE StartProducer \/ EnqueueDocuments
  BY <1>14 DEF StartProducer, EnqueueDocuments
<1>15. CASE BatcherStep
  BY <1>15 DEF BatcherStep, BatcherPops, BatcherReadsTerm, BatcherReadsState, BatcherReadsBuffer, BatcherPushes
<1>16. CASE ApplierTakes \/ ApplierApplies \/ DrainLocks
  BY <1>16 DEF ApplierTakes, ApplierApplies, DrainLocks
<1>17. CASE DrainFinishes
  <2>1. leaderMode = "SteppingDown" => leaderMode' = "SteppingDown"
    BY <1>17 DEF DrainFinishes, UpdateMemberState
  <2>2. ~Leader => ~Leader'
    BY <1>17 DEF DrainFinishes, UpdateMemberState
  <2> QED
    BY <1>17, <2>1, <2>2 DEF DrainFinishes
<1> QED
  BY <1>1, <1>2, <1>3, <1>4, <1>5, <1>6, <1>7, <1>8, <1>9, <1>10, <1>11, <1>12, <1>13,
      <1>14, <1>15, <1>16, <1>17 DEF Next, ExecutorStep, CommandStep, ApplierStep

(* The invariant of the windows, whatever the number of commands.           *)
LEMMA WindowInvariant == Spec => []WindowInv
<1>1. Init => WindowInv
  BY DEF Init, WindowInv, FlagInv, ReconfigInv
<1>2. DrainInv /\ WindowInv /\ [Next]_vars => WindowInv'
  <2> SUFFICES ASSUME DrainInv, WindowInv, [Next]_vars PROVE WindowInv'
    OBVIOUS
  <2>1. CASE Next
    BY <2>1, FlagStep, ReconfigStep DEF DrainInv, WindowInv
  <2>2. CASE UNCHANGED vars
    BY <2>2 DEF vars, roleVars, electionVars, stateVars, taskVars, WindowInv, FlagInv, ReconfigInv, Leader
  <2> QED
    BY <2>1, <2>2
<1> QED
  BY <1>1, <1>2, DrainInvariant, PTL DEF Spec

\* The ways in which an assertion may fail, for one command and for more.
Window(more) ==
    \/ /\ failed' = "finishUnconditionalStepDown"
       /\ (~Leader /\ ~electable /\ reconfigs > 0) \/ reconfigs > 1
    \/ failed' \in {"attemptStepDown", "signalDrainComplete"} /\ more
    \/ /\ failed' = "updateMemberState"
       /\ reconfig = "unlocked" /\ leaderMode = "SteppingDown" /\ stepDown
    \/ /\ failed' = "cancelElectionIfNeeded"
       /\ candidate # 0 /\ ~Leader /\ ~voteRequester

(* A reconfig fails in its windows.                                         *)
LEMMA ReconfigFails ==
    ASSUME ModeInv, WindowInv, FinishReconfig, failed' # failed
    PROVE  Window(FALSE)
<1>1. CASE candidate # 0 /\ CancelElectionIfNeeded
  BY <1>1 DEF CancelElectionIfNeeded, Expect, Window, ModeInv, RoleInv
<1>2. ASSUME NEW e \in BOOLEAN, candidate = 0, reconfig = "heartbeat", memberState # "PRIMARY", SetCurrentRSConfig(e, FALSE)
      PROVE  FALSE
  <2>1. leaderMode = "NotLeader" /\ canAcceptNonLocalWrites = FALSE
    BY <1>2 DEF ModeInv, RoleInv, TypeOK, StateTypes, Leader, WindowInv, FlagInv
  <2>2. MayUpdateMemberState(IF e THEN leaderMode ELSE "NotLeader", FALSE)
    BY <2>1 DEF MayUpdateMemberState
  <2> QED
    BY <1>2, <2>2 DEF SetCurrentRSConfig, Expect
<1>3. ASSUME NEW e \in BOOLEAN, SetCurrentRSConfig(e, TRUE) PROVE FALSE
  BY <1>3 DEF SetCurrentRSConfig, MayUpdateMemberState, Expect
<1>4. CASE reconfig = "unlocked" /\ SetCurrentRSConfig(TRUE, FALSE)
  <2>1. failed' = "updateMemberState" /\ ~(canAcceptNonLocalWrites = (leaderMode = "Master"))
    BY <1>4 DEF SetCurrentRSConfig, MayUpdateMemberState, Expect
  <2>2. leaderMode = "SteppingDown" /\ stepDown
    BY <2>1 DEF WindowInv, FlagInv, ModeInv, TypeOK, StateTypes
  <2> QED
    BY <1>4, <2>1, <2>2 DEF Window
<1> QED
  BY <1>1, <1>2, <1>3, <1>4 DEF FinishReconfig

(* Every failure is in a window.                                            *)
LEMMA FailsInWindow ==
    ASSUME DrainInv, DrainInv', WindowInv, OneCommand => CommandsInv /\ CommandsInv', Next, failed' # failed
    PROVE  Window(~OneCommand)
<1> USE DEF DrainInv, ModeInv
<1>1. CASE StepDownFinish
  <2>1. failed' = "finishUnconditionalStepDown" /\ stepDown /\ leaderMode # "SteppingDown"
    BY <1>1 DEF StepDownFinish, Expect
  <2>2. (~Leader /\ ~electable /\ reconfigs > 0) \/ reconfigs > 1
    BY <2>1 DEF WindowInv, ReconfigInv
  <2> QED
    BY <2>1, <2>2 DEF Window
<1>2. ASSUME NEW how \in {"heartbeat", "locking", "unlocked"}, StartReconfig(how) PROVE Window(~OneCommand)
  BY <1>2 DEF StartReconfig, CancelElectionIfNeeded, Expect, Window, RoleInv
<1>3. CASE FinishReconfig
  BY <1>3, ReconfigFails DEF Window
<1>4. ASSUME NEW c \in Cmd, StepDownRetry(c) PROVE Window(~OneCommand)
  <2>1. /\ failed' = "attemptStepDown" /\ command[c].pc = "retrying" /\ ~SteppedDownMeanwhile(c)
        /\ leaderMode # "AttemptingStepDown"
    BY <1>4 DEF StepDownRetry, Expect
  <2>2. ~OneCommand
    BY <2>1 DEF CommandsInv, CommandInv, Active, SteppedDownMeanwhile, Leader
  <2> QED
    BY <2>1, <2>2 DEF Window
<1>5. CASE DrainLocks
  <2>1. failed' = "signalDrainComplete"
    BY <1>5 DEF DrainLocks, Expect
  <2>2. ~OneCommand
    BY <2>1 DEF CommandsInv, WriteInv
  <2> QED
    BY <2>1, <2>2 DEF Window
<1>6. CASE DrainFinishes
  BY <1>6 DEF DrainFinishes, Expect, TransitionInv
<1>7. ASSUME NEW s \in BOOLEAN, StandForElection(s) PROVE FALSE
  BY <1>7 DEF StandForElection
<1>8. ASSUME NEW t \in Term, UpdateTerm(t) PROVE FALSE
  BY <1>8 DEF UpdateTerm
<1>9. CASE \/ StartVoteRequester \/ LoseElection \/ WinElection \/ ConcludeCatchup \/ StepDownSelf
           \/ HeartbeatReconfigLocks \/ AbandonReconfig
  BY <1>9 DEF StartVoteRequester, LoseElection, WinElection, ConcludeCatchup, StepDownSelf,
      HeartbeatReconfigLocks, AbandonReconfig
<1>10. ASSUME NEW c \in Cmd, StepDownCommand(c) \/ StepDownRefused(c) \/ StepDownWake(c) PROVE FALSE
  BY <1>10, CommandEffect
<1>11. ASSUME NEW c \in Cmd, StepDownBegin(c) PROVE FALSE
  BY <1>11 DEF StepDownBegin
<1>12. CASE StartProducer \/ EnqueueDocuments \/ BatcherStep \/ ApplierTakes \/ ApplierApplies
  BY <1>12 DEF StartProducer, EnqueueDocuments, BatcherStep, BatcherPops, BatcherReadsTerm, BatcherReadsState,
      BatcherReadsBuffer, BatcherPushes, ApplierTakes, ApplierApplies
<1> QED
  BY <1>1, <1>2, <1>3, <1>4, <1>5, <1>6, <1>7, <1>8, <1>9, <1>10, <1>11, <1>12
      DEF Next, ExecutorStep, CommandStep, ApplierStep

(* With any number of commands and reconfigs the coordinator's assertions    *)
(* fail in the known windows and nowhere else, and that of                   *)
(* completeTransitionToPrimary never fails.                                  *)
THEOREM AssertionsFailInWindows == Spec => InvariantsFailOnlyInWindows
<1>1. DrainInv /\ DrainInv' /\ WindowInv /\ (OneCommand => CommandsInv /\ CommandsInv') /\ [Next]_vars =>
        [failed' # failed => Window(~OneCommand)]_vars
  BY FailsInWindow DEF vars
<1>2. [failed' # failed => Window(~OneCommand)]_vars =>
        [failed' # failed =>
         \/ /\ failed' = "finishUnconditionalStepDown"
            /\ (~Leader /\ ~electable /\ reconfigs > 0) \/ reconfigs > 1
         \/ failed' \in {"attemptStepDown", "signalDrainComplete"} /\ \E c, d \in Cmd : c # d
         \/ /\ failed' = "updateMemberState"
            /\ reconfig = "unlocked" /\ leaderMode = "SteppingDown" /\ stepDown
         \/ /\ failed' = "cancelElectionIfNeeded"
            /\ candidate # 0 /\ ~Leader /\ ~voteRequester]_vars
  BY DEF Window, OneCommand
<1>3. CASE OneCommand
  BY <1>1, <1>2, <1>3, DrainInvariant, WindowInvariant, CommandsInvariant, PTL DEF Spec, InvariantsFailOnlyInWindows
<1>4. CASE ~OneCommand
  BY <1>1, <1>2, <1>4, DrainInvariant, WindowInvariant, PTL DEF Spec, InvariantsFailOnlyInWindows
<1> QED
  BY <1>3, <1>4
=============================================================================
