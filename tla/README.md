# TLA+ models of MongoDB replication and locking

This directory holds TLA+ modules that model parts of the server under
`src/src/mongo`, TLC configurations that check them on small instances, and TLAPS
proofs. The code is a 4.0-series server with replication protocol version 1.
Paths in this file are relative to `src/src/mongo/db` unless they say otherwise.
`PROJECT.json` lists the components, the runs, which definition models which
lines, the hazards and the findings.

## 1. The system and what we chose

mongod is a document database. Clients' operations take hierarchical locks
(`concurrency/`), change data in a storage engine (`storage/`) and write an oplog;
secondaries fetch and apply the oplog (`repl/bgsync.cpp`, `repl/sync_tail.cpp`);
the members of a replica set elect a primary (`repl/*elect_v1*`,
`repl/vote_requester.cpp`, `repl/topology_coordinator.cpp`). Several replica sets
form a sharded cluster (`s/`, `../s/`). The server's own hard logic is where these
parts run concurrently and fail independently.

| part | state | operations | what is hard | what makes it correct |
|---|---|---|---|---|
| Elections | term, role, leader mode, last vote in memory and on disk, vote requester, requests in flight | stand, dry run, vote, store the vote, count, win or lose, learn a term, step down, restart | requests delayed over terms, crashes between memory and disk, terms deferred while stepping down | one leader per term; a vote is never forgotten; elections end |
| Primary transition (one member) | leader mode, applier state, producer state, buffer, step-down attempts, configuration state, write flag | win, catch up, drain, step down (unconditional, commanded), reconfig | five threads, the mutex released to take the global lock, unsynchronised reads | no writes before the drain; a secondary replicates; drain, step down and commands end |
| Lock manager | requests, lock head with two lists and counts, partitions | lock, convert, unlock, downgrade, cancel, grant scan, migration, clean-up | many mutexes for one logical lock, a fast path without a mutex, deadlines racing grants | no conflicting holders; no lost request; no lost wakeup; no starvation |
| Deadlock detector | wait-for graph | walk from a blocked locker | deadlocks it cannot see | every stable deadlock has a discoverer |
| Oplog replication and the commit point | oplogs with their journaled and visible parts, fetched documents, positions of others, commit point, stable optime candidates, committed snapshot | write, journal, fetch, apply, report, count, learn the commit point, roll back, restart | responses and reports that are late over terms, a callback that outlives the producer, critical sections that split one response, loss of what was not journaled | committed entries survive in every primary and are never rolled back; majority reads and acknowledgements see committed entries only |
| Recovery, initial sync | data files, consistency markers | recover to the stable timestamp, reapply, clone | crash at each step | the result equals the sync source |
| Oplog application | batches | batch, apply in parallel | order of dependent entries | state equals sequential application |
| Sharding | chunk versions, migration state, orphan ranges | move chunk, commit, delete range, refresh | three processes and failover in each | each document has one owner |
| Sessions, transactions | checked-out sessions, statement history | check out, retry, commit, abort | retries after failover | a retried statement executes once |
| Storage, query, network, auth, shell | — | — | data transformation, vendored libraries, I/O | out of scope |

How they interact in the models: a voter's decision and a candidate's result change
terms, which make a primary step down (`Election`); winning an election starts
catchup and drain in the same process, and stepping down undoes them
(`PrimaryTransition`); elections, drain and step down bound what a primary may commit and what
the others have to roll back (`CommitPoint`); step down, drain and forced reconfig serialise through the
global exclusive lock, a resource of the lock manager (`LockManager`, with
`Global = TRUE`), whose waiters the detector examines (`DeadlockDetector`).

## 2. Modules

### Election

One step is what a thread does while it holds `ReplicationCoordinatorImpl::_mutex`,
or one storage write. The variables are the fields of the same names in
`TopologyCoordinator` (`term`, `role`, `leaderMode`, `lastVote`, `pendingTerm`) per
member, the document in `local.replset.election` (`diskVote`), the vote requester and
the commands under way. `votes`, `elected` and `regressed` are history variables;
nothing reads them but the properties.

| actions | code |
|---|---|
| `StartElection`, `ProcessDryRunResult`, `WriteLastVoteForMyElection`, `OnVoteRequestComplete`, `LoseElection` | `repl/replication_coordinator_impl_elect_v1.cpp`; every early return ends in `LoseElectionGuardV1` |
| `ProcessResponse`, `RequestsFail` | the vote requester and scatter-gather: responses are ignored after the requester is done, and the rest are cancelled |
| `RequestStartsStepDown`, `RequestResumes`, `RequestVote`, `StoreLastVote` | `processReplSetRequestVotes`: update the term, wait for a step down that it caused, decide, store, reply |
| `LearnTerm`, `StepDownSelf`, `StepDown`, `StepDownFinish` | terms in heartbeats and the three ways a primary ends; the newer term is pending until it has |
| `SignalDrainComplete`, `Write`, `Replicate` | enough of the oplog for candidates to be more or less up to date |
| `Crash`, `LoadLocalConfig`, `FinishLoadLocalConfig` | memory is lost, the document stays; the configuration is installed before the term is restored |

Requests stay in `rpcs` until they are answered, so each may be delayed for ever or
overtaken by others (the requester may count it as failed at any time: timeout and
lost reply); nothing is delivered twice, because a command's connection does not
repeat it. Every member has one vote, and the configuration is fixed.

### PrimaryTransition

One member. `Expect` stands for the code's `invariant()`: the process ends, and
`failed` says where. The global lock is taken within a step, except by
`signalDrainComplete`, which holds it over two (`applier.pc = "transition"`).
Executor: `StandForElection`, `StartVoteRequester`, `LoseElection`, `WinElection`, `ConcludeCatchup`, `UpdateTerm`,
`StepDownSelf`, `StepDownFinish`, the reconfig actions. Command threads:
`StepDownCommand`, `StepDownRefused`, `StepDownBegin`, `StepDownWake`,
`StepDownRetry`. Producer: `StartProducer`, `EnqueueDocuments`. Batcher: a step for
each of its unsynchronised reads. Applier: `ApplierTakes`, `ApplierApplies`,
`DrainLocks`, `DrainFinishes`. An action that enters or leaves the primary state
performs the whole of `_updateMemberStateFromTopologyCoordinator_inlock`.

### CommitPoint and MajorityLog

All members. An oplog is the sequence of its entries' terms; the place of an entry is
its timestamp. One step is a critical section of `_mutex`, or what a thread does alone
between two of them.

| actions | code |
|---|---|
| `Elect`, `EnterDrainMode`, `SignalDrainComplete`, `StepDownSelf`, `StepDownFinish`, `LearnTerm` | elections and terms as far as replication sees them. An election that is won is one step; a voter flushes its oplog with its vote (`storeLocalLastVoteDocument`). |
| `Write`, `Journal`, `ApplyBatch` | `setMyLastAppliedOpTimeForward`, `setMyLastDurableOpTimeForward`; a batch is all that is buffered or a beginning of it (`BatchLimits`); on a primary entries become visible when they are journaled, on a secondary when they are applied |
| `Find`, `GetMore` | a response of the sync source, with all it shows or a beginning of it (`batchSize`); the source may instead learn a term (`StaleTerm`), and the check of its start |
| `AdvanceCommitPoint`, `ProcessBatch` | the two critical sections of `processMetadata`, then `_enqueueDocuments`; both may come after the producer has stopped |
| `StartProducer` | the producer goes on once it has joined the fetcher |
| `Rollback` | the common point, the assertion on the commit point (role `"Aborted"` if it fails), optimes, candidates and snapshot afterwards |
| `ReceivePosition`, `ArbiterHeartbeat` | progress reports and heartbeats |
| `Crash` | memory and what was not journaled are lost; the term is that of the last vote or the last entry |

`committed` is a history variable: the entries some primary has counted on a majority.

What is simplified, and what that leaves out:

- A position is kept only where it can count: at a primary, in its own term. The check
  against `_firstOpTimeOfMyTerm` keeps older ones from counting, and a newer one comes
  with its term, which makes the primary step down first. `reported` holds what a member
  has sent in terms it has left, so that a report, direct or passed on by another
  member, can arrive at any later time.
- A response whose commit point the member has already skips `AdvanceCommitPoint`; one
  with nothing else in it ends there. If its term makes a primary step down, the
  callback waits for that, and finds the producer in `Starting`, which drops the documents.
- The term of a response and its documents are taken in one step; `LearnTerm` may bring
  the term earlier.
- `Find` stands for the first batch of a new cursor. Later batches with documents are
  like it, because their start is the last document fetched.
- A step-down command changes nothing in replication until it succeeds (a primary that
  attempts it still commits); then it is `StepDownSelf` and `StepDownFinish` at once.
- `Elect` is a whole election that is won: the votes are given, stored and counted in one step. The interleavings of
  voting itself are `Election`'s part. Two things are therefore seen only in part: elections that are lost, whose term some
  members have taken and voted in, and the vote of a primary that the request itself has made step down
  (`topology_coordinator.cpp:3353-3431` after `updateTerm`). Here a primary votes only once it is stepping down, which without a
  newer primary it does by `StepDownSelf`. Its bound is 1 in `commit_arbiter` and 0 in `commit_point`, where a
  step down exceeds what TLC can exhaust; the theorems hold for any bound.
- `Elect` asks of every voter, and of the candidate, that its last vote is of an older term. This leaves
  out finding 1: with two leaders in a term no property of this module would hold.

`MajorityLog` is what clients are promised: one log of committed entries that only grows at its end,
of which a majority read at any member sees a prefix; the prefix grows until the
member restarts or rolls back. `CommitPoint` implements it under
`log <- committed`, `shown <-` the place of the committed snapshot
(`ImplementsMajorityLog`). A snapshot that a late response has misplaced (section 4, observations) counts as none in
this mapping; `OnlyLateResponsesMislead` says where those come from.

### LockManager and DeadlockDetector

One resource. `lock` is the `LockHead` with its lists, counts and partitions,
`heads` the `PartitionedLockHead`s, `request` each locker's `LockRequest`. A thread
that keeps the bucket's mutex over several steps is `holder`: the migration takes
one partition per step, the grant scan visits one list entry per step, so that
lockers on the partition paths run in between. `Unlock` reads the status without a
mutex, as the code does; what it read decides the next step, and the step tests
again. `Expect` stands for the `invariant()`s on statuses, counts, modes and lists, and
`failed` says which one did not hold; those on what the caller passes, on pointers and on the
masks (here the counts themselves) are left out. `LockTimeout` and the later unlock steps are the cancelled wait: the
guard in `lockComplete` unlocks whatever the request has become. `Global` turns on
what `lockBegin` does for `RESOURCE_GLOBAL`: S and X requests queue at the front
(`Priority`) and are compatible-first.

`DeadlockDetector` adds to a state of `LockManager` the edges `_processNextNode`
follows and asks whether a locker of a stable deadlock is on a cycle.

### MC modules

`MCElection`, `MCPrimaryTransition`, `MCCommitPoint`, `MCLockManager`, `MCDeadlockDetector` give the
constants model values and define the symmetry sets. Symmetry is used for safety
runs only: data-bearing members of `Election` and of `CommitPoint` are interchangeable, and so
are the two lockers that share a partition.

## 3. Runs

| run | instance | properties | result |
|---|---|---|---|
| `election` | 2 members, 2 terms, catchup takeovers (with a dry run) and step up requests (without), failing stores, 2 writes per term, 1 crash | `TypeOK`, `ElectionSafety`, `DurableVotes`, `TermCoversVote`, `LeaderKeepsTerm`, `VoteRegressesOnlyInLimbo`, `ElectionsEnd`, `PendingTermTakesEffect` | hold |
| `election_limbo` | 3 members, 2 terms, no crash | `OneLeaderPerTerm` | violated |
| `primary` | 2 terms, 1 command, 1 reconfig, buffer of 1 | `TypeOK`, `StoppedIsDrained`, `WritesAfterDrain`, `SecondaryReplicates`, `DrainInvariantsHold`, `InvariantsFailOnlyInWindows`, `DrainEnds`, `StepDownHappens`, `CommandsReturn` | hold |
| `primary_failed_attempt` | 1 term, 1 command | `FailedAttemptLeavesMaster` | violated |
| `commit_point` | 3 data-bearing members, 2 terms, oplogs of 3, 1 crash while no oplog has more than 2 | `TypeOK`, `LogMatching`, `LeaderCompleteness`, `AcknowledgedIsCommitted`, `SnapshotOnBranch`, `SnapshotTimestamp`, `CommittedOnMajority`, `RollbackKeepsCommitted`, `OnlyLateResponsesMislead`, `ImplementsMajorityLog` | hold |
| `commit_arbiter` | 2 data-bearing members and an arbiter, durable optimes count, lagging journal, 2 terms, oplogs of 4, 1 crash while no oplog has more than 2, 1 step down | `LeaderCompleteness`, `CommittedOnMajority`, `ImplementsMajorityLog` | hold |
| `commit_limbo` | 3 data-bearing members, 3 terms, oplogs of 2, no crash | `LeaderCompleteness` | violated |
| `lock_safety` | 3 lockers, 2 partitions, all modes, conversions to IX, S, X, cancelled requests | `TypeOK`, `HeldModesCompatible`, `HeldIsListed`, `CountsMatchLists`, `PartitionedHasNoConflicts`, `NoLostGrant`, `NoInvariantFails` | hold |
| `lock_global` | the same on the global resource, conversions to IX, cancelled requests and conversions | `NoLostGrant`, `ListedIsAlive` | hold |
| `lock_live` | 3 lockers, all modes, no conversions | `WaiterIsGranted` | hold |
| `lock_convert_timeout` | 3 lockers, S and X, cancelled conversions | `HeldModesCompatible` | violated |
| `deadlock_missed` | 3 lockers, IS, IX, S, conversions to IX and S | `DeadlockDiscovered` | violated |

**Bounds.** Two terms are the least in which a request of one term can be overtaken
by an election of the next. In `election` both members are needed for a majority, so each
leader depends on every vote, and a crash falls between any two steps of an election;
`election_limbo` has a majority that leaves a member out. More members, terms and
crashes are the proofs' part (section 5). One buffer entry separates an empty from a non-empty
buffer, which is all the batcher distinguishes. In `commit_point` three members have a
majority that leaves one out, which is what an old primary, a lagging member and a
member that has diverged need; oplogs of three hold the entry that initiated the set, the
first entry of a term and one more. `CrashOplog` places the crash before the third
entry, so that everything a later term does may follow it. In `commit_point` what is applied is journaled, and a crash loses
memory only; in `commit_arbiter` the journal lags, and a crash can lose the first entry of a term. The loss of what was reported
before it was journaled (hazard 35 of `PROJECT.json`) is thus checked by `commit_arbiter`, whose properties fail when applied
optimes count, and rollback to different sources (`RollbackKeepsCommitted`, hazard 36) by `commit_point`. `commit_point` has two terms because with three `LeaderCompleteness` fails, which is what `commit_limbo` shows
(finding 5). With two members an election timeout differs from a catchup takeover only in the
member whose dry-run vote is required, so `election` has the latter. In `commit_arbiter` a primary and
an arbiter elect, but only both data-bearing members commit. An arbiter whose position counts (applied optimes count)
is in no run; the theorems of section 5 cover it (hazard 34). `primary` has one command and one reconfig: what takes a second
command (hazard 15) or a second reconfig (the end of hazard 16) is not reached by it. That no assertion fails in any other
way is there the theorem `AssertionsFailInWindows`, for any number of either; that two commands break `WritesAfterDrain` is an
observation of section 4. Three lockers are a
holder, a waiter and one who overtakes it; two of them share a partition, so
partitions with one and with two requests occur. A recursive count of two
distinguishes the first from a nested acquisition.

**Deadlock checking** is off where the bound ends every behaviour (the terms are used
up), where a failed `invariant()` ends the process, and where conversions can
deadlock, which is what the detector is for. `lock_live` checks deadlock.

**Fairness.** `Election`: the executor runs what is scheduled, remote commands time
out (`RequestsFail`), and `_stepDownFinish` gets the global lock because operations
are killed when a step down is announced. There is no fairness for messages,
heartbeats, restarts or elections. `PrimaryTransition`: the same for step down, weak
fairness of the batcher and applier threads, which are loops, and strong fairness
for the deadline of a waiting command: `waitForConditionOrInterruptUntil` has one.
Catchup needs none. `LockManager`: a thread in a call goes on and eventually gets
a mutex it asks for again and again (`Continue` is strongly fair), and holders
release. The liveness properties of `PrimaryTransition` hold "or the process dies",
because the assertions listed under observations can fail.

**Mutants.** Every property of a passing run has a mutant in `PROJECT.json`: a
definition whose name says what was changed, next to the original in the module,
for which TLC finds the property violated.

## 4. Findings

1. *A stepping-down primary votes for two leaders of one term* (`election_limbo`;
   `repl/topology_coordinator.cpp:3407`). A primary of term 1 that has learned of term 2 keeps
   `_term = 1` until it has stepped down. Meanwhile a second request of term 2 does
   not wait and gets its vote, which replaces the vote of term 1; a delayed request
   of term 1 then passes both tests. `VoteRegressesOnlyInLimbo` shows that this window
   and the one between installing the configuration and restoring the term at
   startup (`repl/replication_coordinator_impl.cpp:617-635`) are the only ones, and
   `ElectionSafety` that without a vote in them there is one leader per term.
2. *A failed step-down attempt undoes a completed drain*
   (`primary_failed_attempt`; `repl/topology_coordinator.cpp:1923`). The attempt restores
   `kLeaderElect`, seen before the drain completed; nothing completes it again.
3. *A conversion granted while it is cancelled is forgotten*
   (`lock_convert_timeout`; `concurrency/lock_manager.cpp:620`). The status is tested without the
   mutex and again with it.
4. *The detector misses deadlocks of conversions* (`deadlock_missed`;
   `concurrency/lock_manager.cpp:1128`). Conversions wait for pending conversions behind
   them, too; the detector follows only those before.
5. *A member that is stepping down votes in the newest term and then acknowledges an older one*
   (`commit_limbo`; `repl/replication_coordinator_impl.cpp:3732`). A member elected in term 1 is in catchup,
   its fetcher working on a response of the primary of term 2, when it learns of term 2 and starts to step down.
   A vote request of term 3 finds the step down under way, so there is nothing to wait for, and gets
   the vote of a member whose oplog has nothing of term 2. `processMetadata` does not wait for the same reason, the
   producer is still running, and the entry of term 2 is enqueued, applied and reported in a heartbeat
   response, which carries term 1 and so tells the primary of term 2 nothing of term 3. That primary counts the entry on
   a majority: at once if another member passes the position on, otherwise with its next update of the
   commit point (`repl/replication_coordinator_impl_heartbeat.cpp:222` does none for a sender in state PRIMARY). The
   primary of term 3, elected with that vote, does not have it, and the others will roll it back.

Observations that follow from the models and have no run of their own.

`InvariantsFailOnlyInWindows`, checked for one command and one reconfig and proved for any number (section 5), says that the
first four are the only ways in which the coordinator's assertions in `PrimaryTransition` fail:

- a reconfig that makes the primary unelectable resets the leader mode under a
  scheduled step down, whose assertion then fails (`topology_coordinator.cpp:2491`, `3034`). The
  step down stays scheduled when a second reconfig makes the member electable again, so that it may even meet
  the mode of the next election. `primary` has one reconfig and does not reach the second case; it was found by the proof;
- a step-down command that outlives its term as primary resets the attempt of a
  later one (`topology_coordinator.cpp:1922`, `2889`; needs two commands, so that in
  `primary`, with one, it may not happen at all). With two commands TLC also finds `WritesAfterDrain`
  violated: the first began as master of term 1 and is still waiting for the global lock
  when the second tries to step down during the catchup of term 2; the abort function of the
  first ends that attempt in the mode it remembers, master, and writes are
  accepted before the drain, which the assertion of `signalDrainComplete` then finds;
- a reconfig without force finishes without the global lock on a primary that has
  begun to step down (`replication_coordinator_impl.cpp:2471`, `2640`);
- a reconfig finds a candidate without vote requester between the start of an election
  without dry run and the store of its vote (`replication_coordinator_impl.cpp:3938`).

With three data-bearing members, `ShouldJournal`, a lagging journal, four terms and one crash `LeaderCompleteness` is
violated after 32 steps, which TLC confirms along that sequence of actions. A secondary shows entries before they are journaled (`wiredtiger_record_store.cpp:1932`).
`p`, the primary of term 1, commits an entry `e` with the acknowledgement of
`n`; `n` is elected in term 2 before it has heard of that commit, and writes `f`; `p` is elected in term 3 and writes `g`;
the third member, `s`, fetches `e` and `g` and has not journaled them; `n` finds that it has diverged from `s`; `s` crashes
and restarts without `e` and `g`; `n` now searches the common point with `s`, finds it before `e`, and rolls `e` back, the step that
violates `RollbackKeepsCommitted`; `n` and `s`
elect `n` in term 4, which does not have the committed `e`. Nothing in `BackgroundSync::_runRollback` (`bgsync.cpp:603-690`),
`syncRollBackLocalOperations` and `RollbackImpl::_findCommonPoint` (`rollback_impl.cpp:661-684`) checks that the source is
still the one, and as far ahead, as when the divergence was found. If `n` knows the commit point, the assertion at `rollback_impl.cpp:674`
ends its process instead (two terms suffice for that). This is the default configuration: three data-bearing members, journaled positions,
one crash. It contradicts `replication_coordinator.h:726-727`, which says of committed operations "This implies such ops will never be rolled
back", and the comment at `rollback_impl.cpp:672`, "Rollback common point should be >= the replication commit point". It has no run of its own,
because the shortest behaviours (three terms for `RollbackKeepsCommitted`) are far deeper than breadth-first search reaches with three members, a lagging journal and three terms. The condition `CrashKeepsCounted` of section 5 excludes it.
`commit_point` therefore has no lag and `commit_arbiter` only one possible source.

That assertion (`rollback_impl.cpp:672-677`) can fail without any crash, at a member whose commit point is right but which lacks a later
committed entry. With five members and four terms TLC finds such a behaviour of 39 steps: `q` writes `e` in term 1; `y`, elected in term 2 by
members without `e`, writes `f`; `n`, which has `e`, is elected in term 3 and is in catchup; `p`, which has `e` too, is elected in
term 4, writes `g` and commits it, and `e` with it, with two others. `n` is given a response of `p` with the commit point `g`; it
learns of term 4 and starts to step down, and cuts that commit point down to its last applied optime, `e`, which is committed. The documents of the response are
dropped. `n` then chooses `y`, whose `f` is of a later term than `e`, as its source, finds that it has diverged, and the common point
is before `e`. Nothing is lost: the process ends before `n` rolls back, and the majority with `g` remains. `RollbackKeepsCommitted` is
therefore about members that have everything committed: those never find such a source.

A late response can turn an entry nobody else has into a commit point (`repl/data_replicator_external_state_impl.cpp:104`).
During catchup a member elected in term 1 is given a response of the primary of term 2; it passes the checks. Before its
metadata is processed, catchup ends without waiting for the fetcher, the drain completes and the member writes the first
entry of its term, which diverges from the source. The response's commit point is of a newer term, so it is cut down to
the last applied optime, that very entry. Majority reads at this member then see it until it rolls back,
which the assertion of `RollbackImpl::_findCommonPoint` turns into an abort. `OnlyLateResponsesMislead` shows that commit
points go wrong in no other way, and `AcknowledgedIsCommitted` that no majority write is acknowledged because of
it: `_doneWaitingForReplication_inlock` counts the positions as well.

Converting a global lock to S or X would set `compatibleFirst` without counting it (`lock_state.cpp:817`,
`lock_manager.cpp:630`); no caller in the server converts it so, and `lock_global` leaves it out.

## 5. Proofs

`ElectionProofs` proves, for every set of members, every choice of arbiters, every
bound and every choice of failures:

| theorem | property |
|---|---|
| `TypeCorrect` | `TypeOK` |
| `LeaderTerm` | `LeaderKeepsTerm` |
| `VoteCovered` | `TermCoversVote` |
| `VotesAscend` | `VoteRegressesOnlyInLimbo` |
| `VotesDurable` | `DurableVotes` |
| `OneLeader` | `ElectionSafety` |

Assumptions on the constants: the members are a finite set that contains the arbiters
and not `NoNode`; the bounds are natural numbers; reasons and store results are among
the code's. All three are `ASSUME`s that TLC evaluates.

None of the properties is inductive. The invariant has four layers:

1. `Inv1` = types, the shape of one member (a candidate has a requester, a leader has a
   mode, a member that is down is neither) and of one request (a waiting or
   updated request implies a running voter, one being stored is real).
2. `Inv2` adds `TermInv` (a leader has its term in `elected`, a pending term
   is above the term, the term covers the last vote, also on disk at startup) and
   `RpcCoverInv`: once a request has updated its voter's term, that term, or the
   pending one, covers it until the decision. Without the second, the first is not
   preserved by the vote, because the term is updated in an earlier step.
3. `Inv3` adds, while no vote has regressed, that memory answers for every vote
   *recorded* (not only for those stored), that a member recorded at most one vote per
   term, and that the document answers for every vote stored. "Recorded" spans
   the candidate between memory and disk, requests being stored and the stored votes
   (`Cast`). It also says that a document holds a vote that was cast, which makes a
   restart harmless.
4. `TallyInv` and `QuorumInv`: votes a requester counts, and granted replies in flight,
   are stored votes; each election won has the stored votes of a majority. Two
   majorities meet (`MajoritiesMeet`), the common member stored two votes in one
   term, and `SingleVoteInv` makes them equal.

Each layer's step lemma goes through lemmas that say what any action can do to one
piece of state (`VoteEffect`, `StoreEffect`, `RequesterEffect`, `RpcOrigin`,
`ElectedEffect`, `RestartEffect`), each proved with one step per action.

`PrimaryTransitionProofs` proves, for every bound on terms, buffer and reconfigurations:

| theorem | property | condition |
|---|---|---|
| `TypeCorrect` | `TypeOK` | |
| `Replicates` | `SecondaryReplicates` | |
| `Drains` | `StoppedIsDrained` | |
| `WritesWait` | `WritesAfterDrain` | at most one step-down command at a time |
| `DrainAssertionsHold` | `DrainInvariantsHold` | at most one step-down command at a time |
| `AssertionsFailInWindows` | `InvariantsFailOnlyInWindows` | |

The only assumption on the constants is that the bounds are natural numbers (`BoundAssumption`). The condition
of the two on writes and drain, `OneCommand`, is a hypothesis of the theorems; without it they are false (section 4,
observations). The invariant has three layers:

1. `DrainInv`: `RoleInv` says that a leader keeps the term it was elected in (`electionId`) and that a
   candidate's term has no winner yet, so a term is won once; `ReplicationInv` where
   producer and applier stand in and outside of drain mode. On them rests `PipelineInv`: an "exhausted" signal of term t
   means that drain mode was seen in term t (`DrainSeen`), and if the member drains in that term
   still (`SameDrain`), then it is the same drain, the producer has been stopped all the time, and what is
   behind the signal in the pipeline is empty. The further the signal gets, from the
   batcher over the slot to the applier, the more that is. `TransitionInv` says that the leader mode stays
   fit for the transition while `signalDrainComplete` is without the mutex.
2. `CommandsInv`, with one command: an attempt to step down belongs to the command under way, was
   begun in the current term, and the mode to go back to is master only if the drain is
   complete.
3. `WindowInv`, with any number of commands: the write flag follows the leader mode except during an announced step down
   (`FlagInv`); a step down that is scheduled has the mode `SteppingDown` unless a reconfig has made the member
   unelectable since, and the member can stand again only after a second one (`ReconfigInv`). An action property follows
   from it by one case per assertion: what was true before the step in which it failed.

Each part has a lemma with one step per action.

`LockManagerProofs` proves, for any number of lockers and partitions, any assignment of lockers to
partitions, any choice of modes and any bound on recursion:

| theorem | property | conditions |
|---|---|---|
| `HeldModesAreCompatible` | `HeldModesCompatible` | no cancelled conversion |
| `HeldRequestsAreListed` | `HeldIsListed` | no cancelled conversion |
| `PartitionedLockHasNoConflicts` | `PartitionedHasNoConflicts` | no cancelled conversion |
| `NoGrantIsLost` | `NoLostGrant` | no cancelled conversion |
| `ListedRequestsAreAlive` | `ListedIsAlive` | no cancelled conversion |
| `CountsAgreeWithLists` | `CountsMatchLists` | and no priority conversion |
| `TypeCorrect` | `TypeOK` | and no priority conversion |
| `NoAssertionFails` | `NoInvariantFails` | and no priority conversion |

The conditions are hypotheses on the constants. `NoCancelledConversion` (no wait for a conversion ends at a
deadline) is what finding 3 shows to be necessary: without it the first two are false. `NoLostGrant` and `ListedIsAlive`
are checked without it by `lock_global`, but the invariant below is not inductive then. `NoPriorityConversion`
(the global lock is not converted to S or X) is the last observation of section 4: no caller does it, and without it
`compatibleFirst` is not counted. The assumption on the constants is `ConstantAssumption`.

The inductive invariant `LockInv` is in `LockManagerInvariant`, and TLC has checked it on the instances of `lock_safety` and
`lock_global`. Its parts, each with a lemma that a step preserves it:

1. `TypeInv`, `HolderInv` (who has the bucket's mutex), `LockerInv` (what a thread knows of its request at each place in
   the code: a thread that gives up a conversion cannot exist, one in `unlock` has a count of 0).
2. `DistinctInv`, `ListInv`, `HeadsInv`, `PartitionInv`: which list a request is on, as a function of its status, and that
   migration finds every partition in use.
3. `CountInv` (in `LockManagerCounts`): each count is the cardinality of a set of requests, and thus, by
   `ConflictsGranted` and `ConflictsWithout`, a mask conflicts with a mode exactly if some listed request does
   (`BlockedBy`). The counts change by one request's share (`CountFrame`), so the proof needs no induction.
4. `PartitionedHasNoConflicts` and `CompatibleInv`: a grant is made only against the mask of all the
   other requests; what is granted in a partition meets only intent modes.
5. `ConversionInv` and `FrontInv`: what a scan of `_onLockModeChanged` has passed is blocked, and what it has not
   passed is still ahead of it; outside of a scan everything counts as passed. This is what `NoLostGrant` needs: a release frees
   several waiters, and between two grants of the scan the invariant of the free mutex does not hold.
6. `FirstInv`, with no priority conversion: `compatibleFirstCount` is the number of such requests granted.

Steps are first classified by what they do to the lists (`StepKinds`: a migration, a new request granted or queued, a conversion
granted or pending, a release, a grant by a scan, or nothing), and the parts 2 to 6 are proved by kind and not by action.

`CommitPointInvariant` proves, for any members and arbiters, either way of counting, a lagging journal or
not, and any number of terms, entries, crashes and step downs:

| theorem | property |
|---|---|
| `TypeCorrect` | `TypeOK` |
| `LogsMatch` | `LogMatching` |

There are no conditions besides `MemberAssumption` (finitely many members, one of them with data) and
`BoundAssumption` (the bounds are natural numbers). The inductive invariant `OplogInv` is needed because an entry
is not only in oplogs: `Coming(n)` is the oplog of `n`, what is buffered behind it and the response that is being processed, and
all of it can still become oplog. Its parts:

1. `TypeInv` and `BeginInv`: shapes; every data-bearing member keeps the first entry; arbiters keep nothing.
2. `ElectedInv`: a majority has voted in the term of every primary and of everything coming. Hence a new
   primary's term is new to everybody (`ElectedBelow`), which gives `PrimaryInv`, one primary per term.
3. `OwnInv`: a primary has every entry of its term that is coming anywhere. `DrainInv`: it writes only when nothing is buffered and
   the producer has stopped, so its own entries are at the end of its oplog.
4. `AgreeInv`, from which `LogMatching` follows: whenever two members have, at any places, entries of one term coming, they
   agree up to the earlier of the two. It is stronger than `LogMatching`, because a response is checked against the last
   document fetched and used when the oplog may have moved.
5. `HeardInv`: every optime in a position, report, commit point or response is an entry of the primary of its
   term, if that is still primary.

Steps are classified by what they do to what is coming (`StepKinds`: shorten it, write an entry, fetch, or elect), and the parts
are proved by kind. `CommitIs` says what the code's two tests make of the commit point: it moves only to an entry of
the primary's own term.

`CommitPointProofs` and `CommitPointRefinement` prove, for the same constants:

| theorem | property | conditions |
|---|---|---|
| `LeadersComplete` | `LeaderCompleteness` | `NoFetchInLimbo`, `CrashKeepsCounted` |
| `CommittedGrows` | `committed` changes only at its end | the same |
| `AcknowledgedStays` | `AcknowledgedIsCommitted` | the same |
| `MajorityLogImplemented` | `ImplementsMajorityLog` | the same |
| `CommittedStaysOnMajority` | `CommittedOnMajority` | the same |
| `RollbacksKeepCommitted` | `RollbackKeepsCommitted` | the same |
| `MisledOnlyByLateResponses` | `OnlyLateResponsesMislead` | the same |
| `BelowInvariant` | `SeenInv /\ BelowInv` | the same |
| `SnapshotTimestamps` | `SnapshotTimestamp` | the same |
| `SnapshotsOnBranch` | `SnapshotOnBranch` | `NoFetchInLimbo` |
| `SnapshotsRise` | `SnapshotRises`, the assertion at `replication_coordinator_impl.cpp:3793` | `NoFetchInLimbo` |

The conditions are hypotheses of the theorems, on every step (`Spec /\ [][Careful]_vars => ...`). Each excludes a behaviour that the code has:

- `NoFetchInLimbo`: nothing is enqueued while a member steps down. Without it `LeaderCompleteness` is false (finding 5). The
  theorems on the snapshot need it for another reason: a member in this window may append an entry of an older term behind one of a
  newer, and `KeptCandidates` finds the candidates to be dropped by comparing optimes, which is right only where terms ascend.
  `commit_point` and `commit_arbiter` do not have the condition: with two terms the window does no harm.
- `CrashKeepsCounted`: a crash loses nothing, or it loses only what does not count (durable optimes count) and does not hit
  a member that another one has found to have diverged from and is about to roll back to. Without its last part
  `LeaderCompleteness` is false by the 32-step behaviour of section 4; without the first, an acknowledged entry is
  simply lost, which is what a configuration with `writeConcernMajorityJournalDefault: false` accepts.

The inductive invariant `CommitInv` adds to `OplogInv`:

1. `TermInv` (nobody has an entry of a term it does not know of, and terms ascend in what is coming), `VoteInv`, `PositionInv`.
2. `SafeInv`, the argument of the proof. A member that has voted in a later term acknowledges nothing more (`MayAck`), so it is decided
   early which entries can still be counted: `Choosable(e)`, a majority has acknowledged `e` or may do so. Such an `e`, and the last
   committed entry, is `Protected`: it is before every entry of a later term anywhere (`FollowsEntry`), in every later primary
   (`InPrimaries`), in what counts at those who acknowledged it (`InAcknowledging`), and in the source of whoever has
   it and has to roll back (`InSource`). `InSource` is why rollback keeps what is committed although nothing in the code
   compares the source with the majority.
   An election is the step in which votes make entries unchoosable: what is choosable after it was known to a voter that the candidate's
   last optime covers.
3. `CommittedInv`: a majority has the committed entries among what counts.
4. `PassedInv`: each commit point, also one under way in a response, is committed or of a term before the last
   committed one, for a late response may mislead a member (section 4) and only to its own last entry.

Part 4 is needed for arbiters. Where applied optimes count, an arbiter reports the commit point it has heard of as its position
(`LastApplied`), and primaries count it, although it has no oplog. By `PassedInv` what it acknowledges is committed already, or passed by,
so an entry for which an arbiter is needed in a majority adds nothing to what is committed (`ArbiterAddsNothing`), and a candidate that an arbiter
votes for has what the arbiter acknowledged because every winner has what is committed (`CommittedToWinner`, `ArbiterToWinner`). `Acceptors`, those
among whom acknowledgements are counted, are all members; where `WriteMajority` is all data-bearing members and fewer than elect,
they are the data-bearing members only, and every one of these has what is committed (`AllHaveCommitted`).
The new `committed` is proved an extension of the old first (`CoreStep`, `DeclaredExtends`), then `PassedInv` (`PassedStep`).

`LeaderCompleteness` is not inductive without 2, because an entry that is about to be counted when a new primary is elected has
to be in that primary before it is committed.

`CommitPointRefinement` has two more invariants. `ShownInv`: the candidates are on the member's own branch and the
snapshot is one of them. With `PassedInv`, `Acknowledged` then shows that the second test of
`_doneWaitingForReplication_inlock`, the positions, makes up for a misled snapshot.
`BelowInv`: everything that a member has from terms before that of its commit point, or of the one in a response it has checked,
is committed and at a smaller timestamp than it, except entries the member wrote itself after the check. It is what
`SnapshotTimestamp` needs, since the snapshot and a misled commit point are compared by timestamp although they need not be on one
branch; the exception is the late response again. For the refinement steps are classified by
what they do to a member's snapshot (`Untouched`, `Drops`, `Raises`) and to `committed`; a step of `CommitPoint` is then a
`Commit`, `Show` or `Drop` of `MajorityLog`, or stutters (`RefineStep`).

Every safety property of the passing runs is thus the subject of a theorem. Only model-checked: the liveness properties (out of the
prover's reach, as is `ENABLED`) and `DeadlockDetector`, whose only property is a finding.

## 6. Not modelled

`PROJECT.json` lists every part with its reason. Within the modelled parts:
priorities, election and catchup timeouts as clock values, members without a vote,
changes of the set of members during an election, protocol version 0; how operations
are applied; the choice of a sync source, oplogs that are truncated at their beginning, rollback via
refetch, the data a rollback restores; write concerns other than majority and the wake-up of their waiters; several resources in one locker and two-phase release, tickets,
saving and restoring lock state, statistics and the MMAPv1 flush lock. A request of a
locker that is cancelled because of a deadlock takes the path of a deadline.

## 7. Plan

Order of the next work:

1. Heartbeats in the topology coordinator: which heartbeat leads to a step down, a takeover or an
   election; the choice of a sync source, and that members do not fetch from each other in a circle.
2. Waiters of write concern and of oplog reads: a waiter is woken.
3. A composition of several resources of the lock manager with the detector.
4. Chunk migration with its critical section and range deletion.
5. Check-out of sessions and retryable writes.
