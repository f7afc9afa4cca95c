--------------------------- MODULE ElectionProofs ---------------------------
(***************************************************************************)
(* Theorems about Election for every configuration, every number of        *)
(* crashes and every bound on terms.                                       *)
(***************************************************************************)
EXTENDS Election, FiniteSetTheorems, TLAPS

(* How role, leader mode, election phase and status of one member relate.  *)
ShapeInv ==
    \A n \in Node :
        /\ status[n] # "up" => role[n] = "follower"
        /\ role[n] = "candidate" <=> requester[n].phase # "none"
        /\ role[n] = "leader" <=> leaderMode[n] # "NotLeader"
        /\ requester[n].phase \in {"writing", "real"} => requester[n].term > 0
        /\ status[n] = "up" => term[n] >= 0

(* What a request in each stage implies.                                   *)
RpcInv ==
    \A r \in rpcs :
        /\ ~r.dry => r.term > 0
        /\ r.stage \in {"waiting", "updated"} => status[r.to] = "up"
        /\ r.stage = "storing" => ~r.dry /\ status[r.to] # "down"

Inv1 == TypeOK /\ ShapeInv /\ RpcInv

(* q is request r in stage s.                                              *)
SameRequest(q, r, s) ==
    /\ q \in Rpc /\ q.stage = s
    /\ q.from = r.from /\ q.to = r.to /\ q.term = r.term /\ q.dry = r.dry

(* A request moved to another stage is the same request.                   *)
LEMMA RpcUpdates ==
    ASSUME NEW r \in Rpc, NEW s \in Stages, NEW g \in BOOLEAN, NEW t \in Nat
    PROVE  SameRequest(InStage(r, s, g, t), r, s) /\ InStage(r, s, g, t).granted = g
  BY DEF Rpc, Term, SameRequest, InStage

(* An answer adds at most a reply to the request it answers.               *)
LEMMA ReplyEffect ==
    ASSUME rpcs \subseteq Rpc, NEW r \in rpcs, NEW g \in BOOLEAN, NEW t \in Nat, Reply(r, g, t)
    PROVE  \A q \in rpcs' : q \in rpcs \/ (SameRequest(q, r, "replied") /\ q.granted = g)
<1> DEFINE x == InStage(r, "replied", g, t)
<1>1. SameRequest(x, r, "replied") /\ x.granted = g
  BY RpcUpdates DEF Stages
<1>2. \A q \in rpcs' : q \in rpcs \/ q = x
  BY DEF Reply
<1> QED
  BY <1>1, <1>2

(* A decision: a reply that is not a real vote, or a vote recorded in      *)
(* memory and about to be stored.                                          *)
Recorded(r, t) ==
    /\ MayGrant(r, t) /\ ~r.dry
    /\ lastVote' = [lastVote EXCEPT ![r.to] = [term |-> r.term, cand |-> r.from]]
    /\ regressed' = (regressed \/ r.term < lastVote[r.to].term)
    /\ \A q \in rpcs' : q \in rpcs \/ SameRequest(q, r, "storing")

Answered(r) ==
    /\ UNCHANGED <<lastVote, regressed>>
    /\ \A q \in rpcs' :
          q \in rpcs \/ (SameRequest(q, r, "replied") /\ (q.granted = TRUE => r.dry))

(* processReplSetRequestVotes does one of the two.                         *)
LEMMA DecideEffect ==
    ASSUME rpcs \subseteq Rpc, NEW r \in rpcs, NEW t \in Nat, Decide(r, t)
    PROVE  Recorded(r, t) \/ Answered(r)
<1>1. CASE /\ MayGrant(r, t) /\ r.dry
           /\ Reply(r, TRUE, t)
           /\ UNCHANGED <<lastVote, regressed>>
  BY <1>1, ReplyEffect DEF Answered
<1>2. CASE /\ Reply(r, FALSE, t)
           /\ UNCHANGED <<lastVote, regressed>>
  <2>1. \A q \in rpcs' : q \in rpcs \/ (SameRequest(q, r, "replied") /\ q.granted = FALSE)
    BY <1>2, ReplyEffect
  <2> QED
    BY <1>2, <2>1 DEF Answered
<1>3. CASE /\ MayGrant(r, t) /\ ~r.dry
           /\ lastVote' = [lastVote EXCEPT ![r.to] = [term |-> r.term, cand |-> r.from]]
           /\ regressed' = (regressed \/ r.term < lastVote[r.to].term)
           /\ Advance(r, "storing", t)
  <2>1. SameRequest(InStage(r, "storing", FALSE, t), r, "storing")
    BY RpcUpdates DEF Stages
  <2>2. \A q \in rpcs' : q \in rpcs \/ q = InStage(r, "storing", FALSE, t)
    BY <1>3 DEF Advance
  <2> QED
    BY <1>3, <2>1, <2>2 DEF Recorded
<1> QED
  BY <1>1, <1>2, <1>3 DEF Decide

(* What a dry run sends.                                                   *)
LEMMA DryRunRequests ==
    ASSUME TypeOK, NEW n \in Node, NEW t \in Nat
    PROVE  \A q \in Requests(n, t, TRUE) : q \in Rpc /\ q.stage = "sent" /\ q.dry = TRUE
<1> TAKE q \in Requests(n, t, TRUE)
<1>1. PICK m \in Node :
         q = [from |-> n, to |-> m, term |-> t, dry |-> TRUE, op |-> lastApplied[n],
              stage |-> "sent", granted |-> FALSE, rterm |-> InitialTerm]
  BY DEF Requests, Targets
<1>2. lastApplied[n] \in OpTime
  BY DEF TypeOK
<1> QED
  BY <1>1, <1>2 DEF Rpc, Stages, Term, InitialTerm

(* What a real election sends.                                             *)
LEMMA RealRequests ==
    ASSUME TypeOK, NEW n \in Node, NEW t \in Nat
    PROVE  \A q \in Requests(n, t, FALSE) :
              q \in Rpc /\ q.stage = "sent" /\ q.from = n /\ q.term = t /\ ~q.dry
<1> TAKE q \in Requests(n, t, FALSE)
<1>1. PICK m \in Node :
         q = [from |-> n, to |-> m, term |-> t, dry |-> FALSE, op |-> lastApplied[n],
              stage |-> "sent", granted |-> FALSE, rterm |-> InitialTerm]
  BY DEF Requests, Targets
<1>2. lastApplied[n] \in OpTime
  BY DEF TypeOK
<1> QED
  BY <1>1, <1>2 DEF Rpc, Stages, Term, InitialTerm

(* The first layer of the invariant holds initially.                       *)
LEMMA Inv1Init == Init => Inv1
<1> SUFFICES ASSUME Init PROVE Inv1
  OBVIOUS
<1> USE NodeAssumption DEF Init, InitialTerm, UninitializedTerm, Term
<1>1. Idle \in Requester /\ Idle.phase = "none"
  BY DEF Idle, NewRequester, Requester, Phases
<1>2. lastApplied \in [Node -> OpTime]
  BY DEF OpTime, NullOpTime
<1>3. lastVote \in [Node -> Vote]
  BY DEF Vote
<1>4. TypeOK
  BY <1>1, <1>2, <1>3 DEF TypeOK
<1>5. ShapeInv /\ RpcInv
  BY <1>1 DEF ShapeInv, RpcInv
<1> QED
  BY <1>4, <1>5 DEF Inv1

(* Every action preserves the first layer.                                 *)
LEMMA Inv1Step == Inv1 /\ [Next]_vars => Inv1'
<1> SUFFICES ASSUME Inv1, [Next]_vars PROVE Inv1'
  OBVIOUS
<1> USE NodeAssumption DEF InitialTerm, UninitializedTerm, Term, Inv1
<1>0. Idle \in Requester /\ Idle.phase = "none"
  BY DEF Idle, NewRequester, Requester, Phases
<1>1. CASE UNCHANGED vars
  BY <1>1 DEF TypeOK, ShapeInv, RpcInv, vars, coordVars, voteVars
<1>2. ASSUME NEW n \in Node, NEW t \in 1 .. MaxTerm, LearnTerm(n, t) PROVE Inv1'
  BY <1>2, BoundAssumption DEF LearnTerm, UpdateTerm, TriggersStepDown, TypeOK, ShapeInv, RpcInv, voteVars
<1>3. ASSUME NEW n \in Node, StepDownFinish(n) PROVE Inv1'
  <2>1. \A q \in rpcs' : q \in rpcs \/ \E r \in rpcs : SameRequest(q, r, "updated") /\ r.stage = "waiting"
    <3> SUFFICES ASSUME NEW q \in rpcs', q \notin rpcs
                 PROVE  \E r \in rpcs : SameRequest(q, r, "updated") /\ r.stage = "waiting"
      OBVIOUS
    <3>1. PICK r \in rpcs : r.stage = "waiting" /\ q = InStage(r, "updated", FALSE, 0)
      BY <1>3 DEF StepDownFinish
    <3> QED
      BY <3>1, RpcUpdates DEF Stages, TypeOK
  <2>2. TypeOK'
    BY <1>3, <2>1 DEF StepDownFinish, StepDownSelfAndReplaceWith, SameRequest, TypeOK, voteVars
  <2>3. ShapeInv'
    BY <1>3 DEF StepDownFinish, StepDownSelfAndReplaceWith, ShapeInv, TypeOK
  <2>4. RpcInv'
    <3>1. UNCHANGED status
      BY <1>3 DEF StepDownFinish
    <3> QED
      BY <2>1, <3>1 DEF SameRequest, RpcInv
  <2> QED
    BY <2>2, <2>3, <2>4
<1>4. ASSUME NEW n \in Node, Crash(n) PROVE Inv1'
  BY <1>4 DEF Crash, TypeOK, ShapeInv, RpcInv, voteVars, Idle, NewRequester, Requester, Phases, Vote, Rpc,
     Cancelled
<1>5. ASSUME NEW r \in rpcs, NEW t \in Nat, status[r.to] # "down",
             Decide(r, t), UNCHANGED status
      PROVE  /\ lastVote' \in [Node -> Vote] /\ regressed' \in BOOLEAN
             /\ rpcs' \subseteq Rpc /\ RpcInv'
  <2>1. r \in Rpc /\ r.to \in Node /\ r.term \in Nat /\ r.from \in Node
    BY DEF TypeOK, Rpc
  <2>2. CASE Recorded(r, t)
    <3>1. lastVote' \in [Node -> Vote]
      BY <2>1, <2>2 DEF Recorded, TypeOK, Vote
    <3>2. regressed' \in BOOLEAN
      BY <2>2 DEF Recorded
    <3>3. rpcs' \subseteq Rpc /\ RpcInv'
      BY <1>5, <2>2 DEF Recorded, SameRequest, RpcInv, TypeOK
    <3> QED
      BY <3>1, <3>2, <3>3
  <2>3. CASE Answered(r)
    BY <1>5, <2>3 DEF Answered, SameRequest, RpcInv, TypeOK
  <2> QED
    BY <1>5, <2>2, <2>3, DecideEffect DEF TypeOK
<1>6. ASSUME NEW r \in rpcs, RequestVote(r) PROVE Inv1'
  <2> DEFINE n == r.to
  <2>1. r \in Rpc /\ n \in Node /\ r.term \in Nat
    BY DEF TypeOK, Rpc
  <2>2. /\ term' \in [Node -> Nat \cup {-1}] /\ term'[n] \in Nat
        /\ pendingTerm' \in [Node -> Nat]
        /\ leaderMode' \in [Node -> {"NotLeader", "LeaderElect", "Master", "SteppingDown"}]
    BY <1>6, <2>1 DEF RequestVote, UpdateTerm, TriggersStepDown, TypeOK, ShapeInv
  <2>3. ShapeInv'
    BY <1>6, <2>1 DEF RequestVote, UpdateTerm, TriggersStepDown, TypeOK, ShapeInv
  <2> QED
    BY <1>6, <1>5, <2>2, <2>3 DEF RequestVote, TypeOK
<1>7. ASSUME NEW r \in rpcs, RequestResumes(r) PROVE Inv1'
  <2>1. r \in Rpc /\ r.to \in Node /\ status[r.to] = "up"
    BY <1>7 DEF TypeOK, Rpc, RequestResumes, RpcInv
  <2>2. term[r.to] \in Nat
    BY <2>1 DEF TypeOK, ShapeInv
  <2> QED
    BY <1>7, <1>5, <2>1, <2>2 DEF RequestResumes, TypeOK, ShapeInv, coordVars
<1>8. ASSUME NEW r \in rpcs, RequestStartsStepDown(r) PROVE Inv1'
  <2>1. r \in Rpc /\ r.to \in Node /\ r.term \in Nat
    BY DEF TypeOK, Rpc
  <2>2. \A q \in rpcs' : q \in rpcs \/ SameRequest(q, r, "waiting")
    BY <1>8, <2>1, RpcUpdates DEF RequestStartsStepDown, Advance, Stages
  <2>3. status[r.to] = "up"
    BY <1>8, <2>1 DEF RequestStartsStepDown, StartsStepDown, TriggersStepDown, ShapeInv
  <2>4. TypeOK' /\ ShapeInv'
    BY <1>8, <2>1, <2>2 DEF RequestStartsStepDown, UpdateTerm, TriggersStepDown, TypeOK,
       ShapeInv, SameRequest, voteVars
  <2>5. RpcInv'
    BY <1>8, <2>2, <2>3 DEF RequestStartsStepDown, RpcInv, SameRequest
  <2> QED
    BY <2>4, <2>5
<1>9. ASSUME NEW r \in rpcs, NEW ok \in StoreResult, StoreLastVote(r, ok) PROVE Inv1'
  <2>1. /\ r \in Rpc /\ r.to \in Node /\ r.term \in Nat /\ r.from \in Node /\ r.rterm \in Nat
    BY DEF TypeOK, Rpc
  <2>2. \A q \in rpcs' : q \in rpcs \/ SameRequest(q, r, "replied")
    BY <1>9, <2>1, ReplyEffect DEF StoreLastVote, TypeOK
  <2>3. diskVote' \in [Node -> Vote] /\ votes' \subseteq CastVote
    <3>1. /\ [term |-> r.term, cand |-> r.from] \in Vote
          /\ [voter |-> r.to, term |-> r.term, cand |-> r.from] \in CastVote
      BY <2>1 DEF Vote, CastVote
    <3>2. StoredVote(r.to, [term |-> r.term, cand |-> r.from]) \in Vote
      BY <2>1, <3>1 DEF StoredVote, TypeOK
    <3>3. CASE ok
      BY <1>9, <2>1, <3>1, <3>2, <3>3 DEF StoreLastVote, TypeOK
    <3>4. CASE ~ok
      BY <1>9, <3>4 DEF StoreLastVote, TypeOK
    <3> QED
      BY <3>3, <3>4
  <2> QED
    BY <1>9, <2>2, <2>3 DEF StoreLastVote, TypeOK, ShapeInv, RpcInv, SameRequest, coordVars
<1>10. ASSUME NEW r \in rpcs, ProcessResponse(r) PROVE Inv1'
  <2>1. r.from \in Node /\ r.to \in Node /\ r.granted \in BOOLEAN /\ r.rterm \in Nat /\ r.term \in Nat
    BY DEF TypeOK, Rpc
  <2>2. /\ requester' \in [Node -> Requester]
        /\ \A n \in Node : /\ requester'[n].phase = requester[n].phase
                            /\ requester'[n].term = requester[n].term
    BY <1>10, <2>1 DEF ProcessResponse, Responses, TypeOK, Requester
  <2>3. rpcs' \subseteq rpcs /\ UNCHANGED <<coordVars, voteVars, lastApplied, crashes, elected>>
    BY <1>10 DEF ProcessResponse
  <2> QED
    BY <2>2, <2>3 DEF TypeOK, ShapeInv, RpcInv, coordVars, voteVars
<1>11. ASSUME NEW n \in Node, RequestsFail(n) PROVE Inv1'
  <2>1. /\ requester' \in [Node -> Requester]
        /\ \A m \in Node : /\ requester'[m].phase = requester[m].phase
                            /\ requester'[m].term = requester[m].term
    BY <1>11 DEF RequestsFail, Responses, TypeOK, Requester, Targets
  <2> QED
    BY <1>11, <2>1 DEF RequestsFail, TypeOK, ShapeInv, RpcInv, coordVars, voteVars
<1>12. ASSUME NEW n \in Node, NEW reason \in Reason, NEW p \in Node \cup {NoNode},
              StartElection(n, reason, p)
       PROVE  Inv1'
  <2>1. /\ status[n] = "up" /\ role[n] = "follower" /\ term[n] \in Nat
        /\ role' = [role EXCEPT ![n] = "candidate"]
        /\ UNCHANGED <<status, diskVote, votes, regressed, lastApplied, crashes, elected>>
    BY <1>12 DEF StartElection, BecomeCandidateIfElectable, Electable, TypeOK, ShapeInv
  <2>2. CASE StartRealElection(n, term[n] + 1) /\ rpcs' = rpcs \ Cancelled(n)
    <3>1. [term |-> term[n] + 1, cand |-> n] \in Vote
      BY <2>1 DEF Vote
    <3>2. requester' \in [Node -> Requester]
      BY <2>1, <2>2 DEF StartRealElection, NewRequester, Requester, Phases, TypeOK
    <3>3. TypeOK'
      BY <2>1, <2>2, <3>1, <3>2 DEF StartRealElection, UpdateTerm, TriggersStepDown, VoteForMyselfV1, TypeOK
    <3>4. ShapeInv'
      BY <2>1, <2>2 DEF StartRealElection, UpdateTerm, TriggersStepDown, NewRequester, TypeOK, ShapeInv
    <3>5. RpcInv'
      BY <2>1, <2>2 DEF RpcInv
    <3> QED
      BY <3>3, <3>4, <3>5
  <2>3. CASE /\ requester' = [requester EXCEPT ![n] = NewRequester("dryRun", term[n], p)]
             /\ rpcs' = (rpcs \ Cancelled(n)) \cup Requests(n, term[n], TRUE)
             /\ UNCHANGED <<term, pendingTerm, leaderMode, lastVote>>
    <3>1. \A q \in Requests(n, term[n], TRUE) : q \in Rpc /\ q.stage = "sent" /\ q.dry = TRUE
      BY <2>1, DryRunRequests, Zenon
    <3>2. requester' \in [Node -> Requester]
      BY <2>1, <2>3 DEF NewRequester, Requester, Phases, TypeOK
    <3>3. TypeOK'
      BY <2>1, <2>3, <3>1, <3>2 DEF TypeOK
    <3>4. ShapeInv'
      BY <2>1, <2>3 DEF NewRequester, TypeOK, ShapeInv
    <3>5. RpcInv'
      BY <2>1, <2>3, <3>1 DEF RpcInv
    <3> QED
      BY <3>3, <3>4, <3>5
  <2> QED
    BY <1>12, <2>2, <2>3 DEF StartElection
<1>13. ASSUME NEW n \in Node, ProcessDryRunResult(n) PROVE Inv1'
  <2>1. /\ requester[n].phase = "dryRun" /\ role[n] = "candidate" /\ term[n] \in Nat
        /\ rpcs' \subseteq rpcs /\ leaderMode[n] = "NotLeader"
        /\ UNCHANGED <<status, diskVote, votes, regressed, lastApplied, crashes, elected>>
    BY <1>13 DEF ProcessDryRunResult, ShapeInv, TypeOK
  <2>2. CASE /\ term[n] = requester[n].term
             /\ StartRealElection(n, requester[n].term + 1) /\ UNCHANGED role
    <3>1. [term |-> term[n] + 1, cand |-> n] \in Vote
      BY <2>1 DEF Vote
    <3>2. requester' \in [Node -> Requester]
      BY <2>1, <2>2 DEF StartRealElection, NewRequester, Requester, Phases, TypeOK
    <3>3. TypeOK'
      BY <2>1, <2>2, <3>1, <3>2 DEF StartRealElection, UpdateTerm, TriggersStepDown, VoteForMyselfV1, TypeOK
    <3>4. ShapeInv'
      BY <2>1, <2>2 DEF StartRealElection, UpdateTerm, TriggersStepDown, NewRequester, TypeOK, ShapeInv
    <3>5. RpcInv'
      BY <2>1, <2>2 DEF RpcInv
    <3> QED
      BY <3>3, <3>4, <3>5
  <2>3. CASE LoseElection(n) /\ UNCHANGED <<term, pendingTerm, leaderMode, lastVote>>
    BY <1>0, <2>1, <2>3 DEF LoseElection, ProcessLoseElection, TypeOK, ShapeInv, RpcInv
  <2> QED
    BY <1>13, <2>2, <2>3 DEF ProcessDryRunResult
<1>14. ASSUME NEW n \in Node, NEW ok \in StoreResult, WriteLastVoteForMyElection(n, ok) PROVE Inv1'
  <2> DEFINE t == requester[n].term
  <2>1. /\ requester[n].phase = "writing" /\ role[n] = "candidate" /\ t \in Nat /\ t > 0
        /\ UNCHANGED <<status, leaderMode, term, pendingTerm, lastVote, regressed,
                       lastApplied, crashes, elected>>
    BY <1>14 DEF WriteLastVoteForMyElection, ShapeInv, TypeOK, Requester
  <2>2. [term |-> t, cand |-> n] \in Vote /\ [voter |-> n, term |-> t, cand |-> n] \in CastVote
    BY <2>1 DEF Vote, CastVote
  <2>3. diskVote' \in [Node -> Vote] /\ votes' \subseteq CastVote
    BY <1>14, <2>2 DEF WriteLastVoteForMyElection, StoredVote, TypeOK
  <2>4. CASE /\ requester' = [requester EXCEPT ![n] = NewRequester("real", t, NoNode)]
             /\ rpcs' = rpcs \cup Requests(n, t, FALSE) /\ UNCHANGED role
    <3>1. \A q \in Requests(n, t, FALSE) :
             q \in Rpc /\ q.stage = "sent" /\ ~q.dry /\ q.term = t
      <4>1. TypeOK /\ t \in Nat
        BY <2>1
      <4> HIDE DEF t, Inv1
      <4>2. \A q \in Requests(n, t, FALSE) :
               q \in Rpc /\ q.stage = "sent" /\ q.from = n /\ q.term = t /\ ~q.dry
        BY ONLY <4>1, RealRequests, n \in Node, Zenon
      <4> QED
        BY <4>2, Zenon
    <3>2. requester' \in [Node -> Requester]
      BY <2>1, <2>4 DEF NewRequester, Requester, Phases, TypeOK
    <3>3. TypeOK'
      BY <2>1, <2>3, <2>4, <3>1, <3>2 DEF TypeOK
    <3>4. ShapeInv'
      BY <2>1, <2>4 DEF NewRequester, TypeOK, ShapeInv
    <3>5. RpcInv'
      BY <2>1, <2>4, <3>1 DEF RpcInv
    <3> QED
      BY <3>3, <3>4, <3>5
  <2>5. CASE LoseElection(n) /\ UNCHANGED rpcs
    BY <1>0, <2>1, <2>3, <2>5 DEF LoseElection, ProcessLoseElection, TypeOK, ShapeInv, RpcInv
  <2> QED
    BY <1>14, <2>4, <2>5 DEF WriteLastVoteForMyElection
<1>15. ASSUME NEW n \in Node, OnVoteRequestComplete(n) PROVE Inv1'
  <2>1. /\ requester[n].phase = "real" /\ role[n] = "candidate" /\ status[n] = "up" /\ term[n] \in Nat
        /\ rpcs' \subseteq rpcs /\ requester' = [requester EXCEPT ![n] = Idle]
        /\ UNCHANGED <<status, term, pendingTerm, voteVars, lastApplied, crashes>>
    BY <1>15 DEF OnVoteRequestComplete, ShapeInv, TypeOK
  <2>2. elected' \subseteq [term : Nat, node : Node]
    <3>1. [term |-> term[n], node |-> n] \in [term : Nat, node : Node]
      BY <2>1
    <3> QED
      BY <1>15, <3>1 DEF OnVoteRequestComplete, TypeOK
  <2>3. \/ ProcessWinElection(n)
        \/ ProcessLoseElection(n) /\ UNCHANGED leaderMode
    BY <1>15 DEF OnVoteRequestComplete
  <2> QED
    BY <1>0, <2>1, <2>2, <2>3 DEF ProcessWinElection, ProcessLoseElection, voteVars, TypeOK, ShapeInv, RpcInv
<1>16. ASSUME NEW n \in Node, SignalDrainComplete(n) PROVE Inv1'
  <2>1. term[n] \in Nat
    BY <1>16 DEF SignalDrainComplete, ShapeInv, TypeOK
  <2>2. [term |-> term[n], inc |-> 1] \in OpTime
    BY <2>1 DEF OpTime
  <2> QED
    BY <1>16, <2>2 DEF SignalDrainComplete, voteVars, TypeOK, ShapeInv, RpcInv
<1>17. ASSUME NEW n \in Node, Write(n) PROVE Inv1'
  <2>1. lastApplied' \in [Node -> OpTime]
    BY <1>17 DEF Write, OpTime, TypeOK
  <2> QED
    BY <1>17, <2>1 DEF Write, voteVars, coordVars, TypeOK, ShapeInv, RpcInv
<1>18. ASSUME NEW n \in Node, NEW m \in Node, Replicate(n, m) PROVE Inv1'
  BY <1>18 DEF Replicate, voteVars, coordVars, TypeOK, ShapeInv, RpcInv
<1>19. ASSUME NEW n \in Node, StepDownSelf(n) PROVE Inv1'
  BY <1>19 DEF StepDownSelf, voteVars, TypeOK, ShapeInv, RpcInv
<1>20. ASSUME NEW n \in Node, StepDown(n) PROVE Inv1'
  BY <1>20 DEF StepDown, StepDownSelfAndReplaceWith, voteVars, TypeOK, ShapeInv, RpcInv
<1>21. ASSUME NEW n \in Node, LoadLocalConfig(n) PROVE Inv1'
  BY <1>21 DEF LoadLocalConfig, TypeOK, ShapeInv, RpcInv
<1>22. ASSUME NEW n \in Node, FinishLoadLocalConfig(n) PROVE Inv1'
  <2>1. RestoredTerm(n) \in Nat
    BY DEF RestoredTerm, TypeOK, Vote, OpTime
  <2> QED
    BY <1>22, <2>1 DEF FinishLoadLocalConfig, UpdateTerm, TriggersStepDown, voteVars, TypeOK, ShapeInv, RpcInv
<1> QED
  BY <1>1, <1>2, <1>3, <1>4, <1>6, <1>7, <1>8, <1>9, <1>10, <1>11, <1>12, <1>13, <1>14, <1>15,
     <1>16, <1>17, <1>18, <1>19, <1>20, <1>21, <1>22 DEF Next, NodeStep, RpcStep

(* The types of Election's variables: term bookkeeping never leaves the     *)
(* naturals except on a member that has not restored its term.             *)
THEOREM TypeCorrect == Spec => []TypeOK
<1>1. Spec => []Inv1
  BY Inv1Init, Inv1Step, PTL DEF Spec
<1>2. Inv1 => TypeOK
  BY DEF Inv1
<1> QED
  BY <1>1, <1>2, PTL

----------------------------------------------------------------------------
(* Terms and votes of one member.                                          *)

(* While the term is not restored, the last vote is the stored one or was  *)
(* cast in a request that raised the term.                                 *)
StartingInv ==
    \A n \in Node : status[n] = "starting" =>
        lastVote[n].term <= term[n] \/ lastVote[n].term <= diskVote[n].term

TermInv == LeaderKeepsTerm /\ TermCoversVote /\ StartingInv

(* The second layer holds initially.                                       *)
LEMMA TermInvInit == Init => TermInv
  BY DEF Init, TermInv, LeaderKeepsTerm, TermCoversVote, StartingInv, InitialTerm

(* Steps that change nothing TermInv speaks of.                            *)
LEMMA TermInvFrame ==
    ASSUME TermInv, UNCHANGED <<status, leaderMode, term, pendingTerm, lastVote, diskVote>>,
           elected \subseteq elected', \A n \in Node : role'[n] = "leader" => role[n] = "leader"
    PROVE  TermInv'
  BY DEF TermInv, LeaderKeepsTerm, TermCoversVote, StartingInv

(* updateTerm of a member that is not primary takes the term at once.      *)
LEMMA UpdateTermFollower ==
    ASSUME TypeOK, NEW n \in Node, NEW t \in Nat, role[n] # "leader", t > term[n], UpdateTerm(n, t)
    PROVE  term' = [term EXCEPT ![n] = t] /\ leaderMode' = leaderMode /\ pendingTerm' = pendingTerm
  BY DEF UpdateTerm, TriggersStepDown, TypeOK

(* Member n's term, or the one it is about to take over, covers t.         *)
Covered(n, t) ==
    t <= term[n] \/ (leaderMode[n] = "SteppingDown" /\ t <= pendingTerm[n])

CoveredNext(n, t) ==
    t <= term'[n] \/ (leaderMode'[n] = "SteppingDown" /\ t <= pendingTerm'[n])

(* A request that updated its voter's term decides with that term covered.  *)
RpcCoverInv ==
    \A r \in rpcs : r.stage \in {"waiting", "updated"} => Covered(r.to, r.term)

(* What a running member covers it keeps covering until it crashes.        *)
LEMMA CoveredStable ==
    ASSUME Inv1, LeaderKeepsTerm, [Next]_vars,
           NEW n \in Node, status[n] = "up", status'[n] # "down",
           NEW t \in Nat, Covered(n, t)
    PROVE  CoveredNext(n, t)
<1>0. /\ term \in [Node -> Nat \cup {-1}] /\ pendingTerm \in [Node -> Nat]
      /\ role \in [Node -> {"follower", "candidate", "leader"}]
      /\ leaderMode \in [Node -> {"NotLeader", "LeaderElect", "Master", "SteppingDown"}]
      /\ status \in [Node -> {"down", "starting", "up"}]
      /\ ShapeInv /\ rpcs \subseteq Rpc
  BY DEF Inv1, TypeOK, Term, UninitializedTerm
<1>00. \A r \in rpcs : r.to \in Node /\ r.from \in Node /\ r.term \in Nat
  BY <1>0 DEF Rpc, Term
<1>1. ASSUME UNCHANGED <<term, pendingTerm, leaderMode>> PROVE CoveredNext(n, t)
  BY <1>1 DEF Covered, CoveredNext
<1>2. ASSUME NEW m \in Node, NEW u \in Nat, UpdateTerm(m, u) PROVE CoveredNext(n, t)
  BY <1>0, <1>2 DEF UpdateTerm, TriggersStepDown, Covered, CoveredNext
<1>3. ASSUME NEW m \in Node, StepDownFinish(m) PROVE CoveredNext(n, t)
  BY <1>0, <1>3 DEF StepDownFinish, StepDownSelfAndReplaceWith, Covered, CoveredNext
<1>4. ASSUME NEW m \in Node, StepDown(m) PROVE CoveredNext(n, t)
  BY <1>0, <1>4 DEF StepDown, StepDownSelfAndReplaceWith, Covered, CoveredNext
<1>5. ASSUME NEW m \in Node, StepDownSelf(m) \/ SignalDrainComplete(m) PROVE CoveredNext(n, t)
  BY <1>0, <1>5 DEF StepDownSelf, SignalDrainComplete, Covered, CoveredNext
<1>6. ASSUME NEW m \in Node, OnVoteRequestComplete(m) PROVE CoveredNext(n, t)
  <2>1. leaderMode[m] = "NotLeader" /\ UNCHANGED <<term, pendingTerm>>
    BY <1>0, <1>6 DEF OnVoteRequestComplete, ShapeInv
  <2>2. \A k \in Node \ {m} : leaderMode'[k] = leaderMode[k]
    BY <1>0, <1>6 DEF OnVoteRequestComplete, ProcessWinElection
  <2> QED
    BY <2>1, <2>2 DEF Covered, CoveredNext
<1>7. ASSUME NEW m \in Node, Crash(m) PROVE CoveredNext(n, t)
  <2>1. m # n /\ term'[n] = term[n] /\ pendingTerm'[n] = pendingTerm[n] /\ leaderMode'[n] = leaderMode[n]
    BY <1>0, <1>7 DEF Crash
  <2> QED
    BY <2>1 DEF Covered, CoveredNext
<1>8. ASSUME NEW m \in Node, FinishLoadLocalConfig(m) PROVE CoveredNext(n, t)
  <2>1. RestoredTerm(m) \in Nat
    BY DEF Inv1, TypeOK, RestoredTerm, Vote, OpTime, Term
  <2> QED
    BY <1>2, <1>8, <2>1 DEF FinishLoadLocalConfig
<1>9. ASSUME NEW m \in Node, NEW reason \in Reason, NEW p \in Node \cup {NoNode},
             StartElection(m, reason, p)
      PROVE  CoveredNext(n, t)
  <2>1. term[m] + 1 \in Nat
    BY <1>0, <1>9 DEF StartElection, BecomeCandidateIfElectable, Electable, ShapeInv
  <2> QED
    BY <1>1, <1>2, <1>9, <2>1 DEF StartElection, StartRealElection
<1>10. ASSUME NEW m \in Node, ProcessDryRunResult(m) PROVE CoveredNext(n, t)
  <2>1. requester[m].term + 1 \in Nat
    BY DEF Inv1, TypeOK, Requester, Term
  <2> QED
    BY <1>1, <1>2, <1>10, <2>1 DEF ProcessDryRunResult, StartRealElection
<1>11. ASSUME NEW m \in Node,
              \/ \E ok \in StoreResult : WriteLastVoteForMyElection(m, ok)
              \/ RequestsFail(m) \/ Write(m)
              \/ \E k \in Node : Replicate(m, k)
       PROVE  CoveredNext(n, t)
  BY <1>1, <1>11 DEF WriteLastVoteForMyElection, RequestsFail, Write, Replicate, coordVars
<1>11a. ASSUME NEW m \in Node, LoadLocalConfig(m) PROVE CoveredNext(n, t)
  <2>1. m # n /\ term'[n] = term[n] /\ UNCHANGED <<pendingTerm, leaderMode>>
    BY <1>0, <1>11a DEF LoadLocalConfig
  <2> QED
    BY <2>1 DEF Covered, CoveredNext
<1>12. ASSUME NEW m \in Node, NEW u \in 1 .. MaxTerm, LearnTerm(m, u) PROVE CoveredNext(n, t)
  BY <1>2, <1>12, BoundAssumption DEF LearnTerm
<1>13. ASSUME NEW r \in rpcs, RpcStep(r) PROVE CoveredNext(n, t)
  <2>1. CASE RequestStartsStepDown(r) \/ RequestVote(r)
    BY <1>00, <1>2, <2>1 DEF RequestStartsStepDown, RequestVote
  <2>2. CASE RequestResumes(r) \/ (\E ok \in StoreResult : StoreLastVote(r, ok)) \/ ProcessResponse(r)
    BY <1>1, <2>2 DEF RequestResumes, StoreLastVote, ProcessResponse, coordVars
  <2> QED
    BY <1>13, <2>1, <2>2 DEF RpcStep
<1>14. CASE UNCHANGED vars
  BY <1>1, <1>14 DEF vars, coordVars
<1> QED
  BY <1>3, <1>4, <1>5, <1>6, <1>7, <1>8, <1>9, <1>10, <1>11, <1>11a, <1>12, <1>13, <1>14
  DEF Next, NodeStep


(* Every action preserves the terms' part of the second layer.             *)
LEMMA TermInvStep == Inv1 /\ TermInv /\ RpcCoverInv /\ [Next]_vars => TermInv'
<1> SUFFICES ASSUME Inv1, TermInv, RpcCoverInv, [Next]_vars PROVE TermInv'
  OBVIOUS
<1>0. /\ term \in [Node -> Nat \cup {-1}] /\ pendingTerm \in [Node -> Nat]
      /\ role \in [Node -> {"follower", "candidate", "leader"}]
      /\ leaderMode \in [Node -> {"NotLeader", "LeaderElect", "Master", "SteppingDown"}]
      /\ status \in [Node -> {"down", "starting", "up"}]
      /\ lastVote \in [Node -> Vote] /\ diskVote \in [Node -> Vote]
      /\ \A n \in Node : lastVote[n].term \in Nat /\ diskVote[n].term \in Nat
      /\ ShapeInv /\ rpcs \subseteq Rpc
  BY DEF Inv1, TypeOK, Term, UninitializedTerm, Vote
<1>00. \A r \in rpcs : r.to \in Node /\ r.from \in Node /\ r.term \in Nat
  BY <1>0 DEF Rpc, Term
<1>1. CASE UNCHANGED vars
  BY <1>1, TermInvFrame DEF vars, coordVars, voteVars
<1>2. ASSUME NEW n \in Node, NEW t \in Nat, UpdateTerm(n, t), UNCHANGED <<status, role, elected>>
      PROVE  /\ LeaderKeepsTerm'
             /\ \A m \in Node : status[m] = "up" => CoveredNext(m, lastVote[m].term)
             /\ \A m \in Node : status[m] = "starting" =>
                    lastVote[m].term <= term'[m] \/ lastVote[m].term <= diskVote[m].term
             /\ status[n] = "up" => CoveredNext(n, t)
             /\ status[n] = "starting" => t <= term'[n]
  <2>1. CASE t > term[n] /\ role[n] = "leader"
    <3>1. /\ term' = term /\ leaderMode' = [leaderMode EXCEPT ![n] = "SteppingDown"]
          /\ pendingTerm' = [pendingTerm EXCEPT ![n] = IF @ < t THEN t ELSE @]
      BY <1>0, <1>2, <2>1 DEF UpdateTerm, TriggersStepDown
    <3>2. status[n] = "up"
      BY <1>0, <2>1 DEF ShapeInv
    <3> QED
      BY <1>0, <1>2, <2>1, <3>1, <3>2
      DEF TermInv, LeaderKeepsTerm, TermCoversVote, StartingInv, CoveredNext
  <2>2. CASE t > term[n] /\ role[n] # "leader"
    <3>1. /\ term' = [term EXCEPT ![n] = t] /\ leaderMode' = leaderMode /\ pendingTerm' = pendingTerm
      BY <1>2, <2>2, UpdateTermFollower DEF Inv1
    <3>2. leaderMode[n] = "NotLeader" /\ pendingTerm[n] = 0
      BY <1>0, <2>2 DEF ShapeInv, TermInv, LeaderKeepsTerm
    <3> QED
      BY <1>0, <1>2, <2>2, <3>1, <3>2
      DEF TermInv, LeaderKeepsTerm, TermCoversVote, StartingInv, CoveredNext
  <2>3. CASE ~(t > term[n])
    <3>1. UNCHANGED <<term, leaderMode, pendingTerm>> /\ t <= term[n]
      BY <1>0, <1>2, <2>3 DEF UpdateTerm, TriggersStepDown
    <3> QED
      BY <1>2, <3>1 DEF TermInv, LeaderKeepsTerm, TermCoversVote, StartingInv, CoveredNext
  <2> QED
    BY <2>1, <2>2, <2>3
<1>2a. ASSUME NEW n \in Node, NEW t \in Nat, UpdateTerm(n, t),
              UNCHANGED <<status, role, lastVote, diskVote, elected>>
       PROVE  TermInv'
  BY <1>2, <1>2a DEF TermInv, TermCoversVote, StartingInv, CoveredNext
<1>3. ASSUME NEW n \in Node, NEW t \in 1 .. MaxTerm, LearnTerm(n, t) PROVE TermInv'
  BY <1>3, <1>2a, BoundAssumption DEF LearnTerm, voteVars
<1>4. ASSUME NEW n \in Node, StartRealElection(n, term[n] + 1), role[n] # "leader", status[n] = "up",
             UNCHANGED <<status, diskVote, elected>>,
             \A m \in Node : role'[m] = "leader" <=> role[m] = "leader"
      PROVE  TermInv'
  <2>1. /\ term[n] \in Nat /\ leaderMode[n] = "NotLeader" /\ pendingTerm[n] = 0
    <3>1. term[n] \in Nat
      BY <1>0, <1>4 DEF ShapeInv
    <3>2. leaderMode[n] = "NotLeader"
      BY <1>0, <1>4 DEF ShapeInv
    <3>3. pendingTerm[n] = 0
      BY <3>2 DEF TermInv, LeaderKeepsTerm
    <3> QED
      BY <3>1, <3>2, <3>3
  <2>2. /\ term' = [term EXCEPT ![n] = term[n] + 1] /\ leaderMode' = leaderMode
        /\ pendingTerm' = pendingTerm
        /\ lastVote' = [lastVote EXCEPT ![n] = [term |-> term[n] + 1, cand |-> n]]
    <3>1. UpdateTerm(n, term[n] + 1) /\ VoteForMyselfV1(n, term[n] + 1)
      BY <1>4 DEF StartRealElection
    <3>2. term[n] + 1 \in Nat /\ term[n] + 1 > term[n]
      BY <2>1
    <3> QED
      BY <1>4, <3>1, <3>2, UpdateTermFollower DEF VoteForMyselfV1, Inv1
  <2> QED
    BY <1>0, <1>4, <2>1, <2>2 DEF TermInv, LeaderKeepsTerm, TermCoversVote, StartingInv
<1>5. ASSUME NEW n \in Node, NEW reason \in Reason, NEW p \in Node \cup {NoNode},
             StartElection(n, reason, p)
      PROVE  TermInv'
  <2>1. /\ status[n] = "up" /\ role[n] = "follower"
        /\ role' = [role EXCEPT ![n] = "candidate"]
        /\ UNCHANGED <<status, diskVote, votes, regressed, lastApplied, crashes, elected>>
    BY <1>5 DEF StartElection, BecomeCandidateIfElectable, Electable
  <2>2. CASE StartRealElection(n, term[n] + 1)
    BY <1>0, <1>4, <2>1, <2>2
  <2>3. CASE UNCHANGED <<term, pendingTerm, leaderMode, lastVote>>
    BY <1>0, <2>1, <2>3, TermInvFrame
  <2> QED
    BY <1>5, <2>2, <2>3 DEF StartElection
<1>6. ASSUME NEW n \in Node, ProcessDryRunResult(n) PROVE TermInv'
  <2>1. /\ status[n] = "up" /\ role[n] = "candidate"
        /\ UNCHANGED <<status, diskVote, votes, regressed, lastApplied, crashes, elected>>
    BY <1>0, <1>6 DEF ProcessDryRunResult, ShapeInv
  <2>2. CASE term[n] = requester[n].term /\ StartRealElection(n, requester[n].term + 1) /\ UNCHANGED role
    BY <1>0, <1>4, <2>1, <2>2
  <2>3. CASE LoseElection(n) /\ UNCHANGED <<term, pendingTerm, leaderMode, lastVote>>
    BY <1>0, <2>1, <2>3, TermInvFrame DEF LoseElection, ProcessLoseElection
  <2> QED
    BY <1>6, <2>2, <2>3 DEF ProcessDryRunResult
<1>7. ASSUME NEW n \in Node, NEW v \in Vote, diskVote' = [diskVote EXCEPT ![n] = StoredVote(n, v)],
             UNCHANGED <<status, leaderMode, term, pendingTerm, lastVote, elected>>,
             \A m \in Node : role'[m] = "leader" => role[m] = "leader"
      PROVE  TermInv'
  <2>1. \A m \in Node : diskVote'[m].term \in Nat /\ diskVote'[m].term >= diskVote[m].term
    BY <1>0, <1>7 DEF StoredVote, Vote, Term
  <2> QED
    BY <1>0, <1>7, <2>1 DEF TermInv, LeaderKeepsTerm, TermCoversVote, StartingInv
<1>8. ASSUME NEW n \in Node, NEW ok \in StoreResult, WriteLastVoteForMyElection(n, ok) PROVE TermInv'
  <2>1. [term |-> requester[n].term, cand |-> n] \in Vote
    BY DEF Inv1, TypeOK, Vote, Requester
  <2>2. /\ UNCHANGED <<status, leaderMode, term, pendingTerm, lastVote, elected>>
        /\ \A m \in Node : role'[m] = "leader" => role[m] = "leader"
    BY <1>0, <1>8 DEF WriteLastVoteForMyElection, LoseElection, ProcessLoseElection
  <2>3. CASE ok
    BY <1>7, <1>8, <2>1, <2>2, <2>3 DEF WriteLastVoteForMyElection
  <2>4. CASE ~ok
    BY <1>8, <2>2, <2>4, TermInvFrame DEF WriteLastVoteForMyElection
  <2> QED
    BY <2>3, <2>4
<1>9. ASSUME NEW r \in rpcs, NEW ok \in StoreResult, StoreLastVote(r, ok) PROVE TermInv'
  <2>1. [term |-> r.term, cand |-> r.from] \in Vote
    BY <1>00 DEF Vote, Term
  <2>2. UNCHANGED <<status, role, leaderMode, term, pendingTerm, lastVote, elected>>
    BY <1>9 DEF StoreLastVote, coordVars
  <2>3. CASE ok
    BY <1>00, <1>7, <1>9, <2>1, <2>2, <2>3 DEF StoreLastVote
  <2>4. CASE ~ok
    BY <1>9, <2>2, <2>4, TermInvFrame DEF StoreLastVote
  <2> QED
    BY <2>3, <2>4
<1>10. ASSUME NEW n \in Node, OnVoteRequestComplete(n) PROVE TermInv'
  <2>1. /\ status[n] = "up" /\ role[n] = "candidate" /\ leaderMode[n] = "NotLeader" /\ pendingTerm[n] = 0
        /\ lastVote[n].term <= term[n]
        /\ UNCHANGED <<status, term, pendingTerm, lastVote, diskVote>>
    BY <1>0, <1>10 DEF OnVoteRequestComplete, ShapeInv, TermInv, LeaderKeepsTerm, TermCoversVote, voteVars
  <2>2. CASE ProcessWinElection(n) /\ elected' = elected \cup {[term |-> term[n], node |-> n]}
    BY <1>0, <2>1, <2>2 DEF ProcessWinElection, TermInv, LeaderKeepsTerm, TermCoversVote, StartingInv
  <2>3. CASE ProcessLoseElection(n) /\ UNCHANGED <<leaderMode, elected>>
    BY <1>0, <2>1, <2>3, TermInvFrame DEF ProcessLoseElection
  <2> QED
    BY <1>10, <2>2, <2>3 DEF OnVoteRequestComplete
<1>11. ASSUME NEW r \in rpcs, RequestStartsStepDown(r) PROVE TermInv'
  BY <1>00, <1>2a, <1>11 DEF RequestStartsStepDown, voteVars
<1>12. ASSUME NEW r \in rpcs, NEW t \in Nat, Decide(r, t), LeaderKeepsTerm',
              UNCHANGED <<status, diskVote>>,
              \A m \in Node : status[m] = "up" => CoveredNext(m, lastVote[m].term),
              \A m \in Node : status[m] = "starting" =>
                    lastVote[m].term <= term'[m] \/ lastVote[m].term <= diskVote[m].term,
              status[r.to] = "up" => CoveredNext(r.to, r.term),
              status[r.to] = "starting" => r.term <= term'[r.to]
       PROVE  TermInv'
  <2>1. CASE lastVote' = lastVote
    BY <1>0, <1>12, <2>1 DEF TermInv, TermCoversVote, StartingInv, CoveredNext
  <2>2. CASE lastVote' = [lastVote EXCEPT ![r.to] = [term |-> r.term, cand |-> r.from]]
    <3>1. \A m \in Node : lastVote'[m].term = IF m = r.to THEN r.term ELSE lastVote[m].term
      BY <1>0, <2>2
    <3> QED
      BY <1>0, <1>12, <3>1 DEF TermInv, TermCoversVote, StartingInv, CoveredNext
  <2> QED
    BY <1>0, <1>12, <2>1, <2>2, DecideEffect DEF Recorded, Answered
<1>13. ASSUME NEW r \in rpcs, RequestVote(r) PROVE TermInv'
  <2>1. /\ UpdateTerm(r.to, r.term) /\ Decide(r, term'[r.to]) /\ status[r.to] # "down"
        /\ UNCHANGED <<status, role, diskVote, elected>>
    BY <1>13 DEF RequestVote
  <2>2. term'[r.to] \in Nat
    BY <1>0, <1>00, <2>1 DEF UpdateTerm, ShapeInv
  <2> QED
    BY <1>00, <1>2, <1>12, <2>1, <2>2
<1>14. ASSUME NEW r \in rpcs, RequestResumes(r) PROVE TermInv'
  <2>1. /\ Decide(r, term[r.to]) /\ status[r.to] = "up"
        /\ UNCHANGED <<status, role, leaderMode, term, pendingTerm, diskVote, elected>>
    BY <1>14 DEF RequestResumes, coordVars, Inv1, RpcInv
  <2>2. term[r.to] \in Nat
    BY <1>0, <1>00, <2>1 DEF ShapeInv
  <2>3. LeaderKeepsTerm'
    BY <2>1 DEF TermInv, LeaderKeepsTerm
  <2>4. /\ \A m \in Node : status[m] = "up" => CoveredNext(m, lastVote[m].term)
        /\ \A m \in Node : status[m] = "starting" =>
                    lastVote[m].term <= term'[m] \/ lastVote[m].term <= diskVote[m].term
    BY <2>1 DEF TermInv, TermCoversVote, StartingInv, CoveredNext
  <2>5. CoveredNext(r.to, r.term)
    BY <1>14, <2>1 DEF RequestResumes, RpcCoverInv, Covered, CoveredNext
  <2> QED
    BY <1>00, <1>12, <2>1, <2>2, <2>3, <2>4, <2>5
<1>15. ASSUME NEW r \in rpcs, ProcessResponse(r) PROVE TermInv'
  BY <1>15, TermInvFrame DEF ProcessResponse, coordVars, voteVars
<1>16. ASSUME NEW n \in Node, RequestsFail(n) PROVE TermInv'
  BY <1>16, TermInvFrame DEF RequestsFail, coordVars, voteVars
<1>17. ASSUME NEW n \in Node, SignalDrainComplete(n) PROVE TermInv'
  BY <1>0, <1>17 DEF SignalDrainComplete, voteVars, TermInv, LeaderKeepsTerm, TermCoversVote, StartingInv
<1>18. ASSUME NEW n \in Node, Write(n) PROVE TermInv'
  BY <1>18, TermInvFrame DEF Write, coordVars, voteVars
<1>19. ASSUME NEW n \in Node, NEW m \in Node, Replicate(n, m) PROVE TermInv'
  BY <1>19, TermInvFrame DEF Replicate, coordVars, voteVars
<1>20. ASSUME NEW n \in Node, StepDownSelf(n) PROVE TermInv'
  BY <1>0, <1>20 DEF StepDownSelf, voteVars, TermInv, LeaderKeepsTerm, TermCoversVote, StartingInv
<1>21. ASSUME NEW n \in Node, StepDown(n) PROVE TermInv'
  BY <1>0, <1>21 DEF StepDown, StepDownSelfAndReplaceWith, voteVars, TermInv, LeaderKeepsTerm,
     TermCoversVote, StartingInv
<1>22. ASSUME NEW n \in Node, StepDownFinish(n) PROVE TermInv'
  <2>1. /\ role' = [role EXCEPT ![n] = "follower"]
        /\ leaderMode' = [leaderMode EXCEPT ![n] = "NotLeader"]
        /\ term' = [term EXCEPT ![n] = IF pendingTerm[n] > @ THEN pendingTerm[n] ELSE @]
        /\ pendingTerm' = [pendingTerm EXCEPT ![n] = 0]
        /\ UNCHANGED <<status, lastVote, diskVote, elected>>
    BY <1>22 DEF StepDownFinish, StepDownSelfAndReplaceWith, voteVars
  <2> QED
    BY <1>0, <2>1 DEF TermInv, LeaderKeepsTerm, TermCoversVote, StartingInv
<1>23. ASSUME NEW n \in Node, Crash(n) PROVE TermInv'
  <2>1. /\ status' = [status EXCEPT ![n] = "down"] /\ role' = [role EXCEPT ![n] = "follower"]
        /\ leaderMode' = [leaderMode EXCEPT ![n] = "NotLeader"]
        /\ \A m \in Node \ {n} : term'[m] = term[m] /\ pendingTerm'[m] = pendingTerm[m]
                                 /\ lastVote'[m] = lastVote[m]
        /\ pendingTerm'[n] = 0
        /\ UNCHANGED <<diskVote, elected>>
    BY <1>0, <1>23 DEF Crash
  <2> QED
    BY <1>0, <2>1 DEF TermInv, LeaderKeepsTerm, TermCoversVote, StartingInv
<1>24. ASSUME NEW n \in Node, LoadLocalConfig(n) PROVE TermInv'
  <2>1. /\ status[n] = "down" /\ role[n] = "follower" /\ leaderMode[n] = "NotLeader" /\ pendingTerm[n] = 0
        /\ status' = [status EXCEPT ![n] = "starting"]
        /\ UNCHANGED <<role, leaderMode, pendingTerm, diskVote, elected>>
    BY <1>0, <1>24 DEF LoadLocalConfig, ShapeInv, TermInv, LeaderKeepsTerm
  <2>2. /\ \A m \in Node \ {n} : term'[m] = term[m] /\ lastVote'[m] = lastVote[m]
        /\ lastVote'[n] = diskVote[n]
    BY <1>0, <1>24 DEF LoadLocalConfig
  <2> QED
    BY <1>0, <2>1, <2>2 DEF TermInv, LeaderKeepsTerm, TermCoversVote, StartingInv
<1>25. ASSUME NEW n \in Node, FinishLoadLocalConfig(n) PROVE TermInv'
  <2>1. /\ status[n] = "starting" /\ role[n] = "follower" /\ leaderMode[n] = "NotLeader"
        /\ status' = [status EXCEPT ![n] = "up"]
        /\ UNCHANGED <<role, lastVote, diskVote, elected>>
    BY <1>0, <1>25 DEF FinishLoadLocalConfig, voteVars, ShapeInv
  <2>2. RestoredTerm(n) \in Nat /\ RestoredTerm(n) >= diskVote[n].term
    BY DEF Inv1, TypeOK, RestoredTerm, Vote, OpTime, Term
  <2>3. /\ term' = [term EXCEPT ![n] = IF RestoredTerm(n) > @ THEN RestoredTerm(n) ELSE @]
        /\ UNCHANGED <<leaderMode, pendingTerm>>
    BY <1>0, <1>25, <2>1 DEF FinishLoadLocalConfig, UpdateTerm, TriggersStepDown
  <2>4. pendingTerm[n] = 0 /\ (lastVote[n].term <= term[n] \/ lastVote[n].term <= diskVote[n].term)
    BY <2>1 DEF TermInv, LeaderKeepsTerm, StartingInv
  <2>5. lastVote[n].term <= term'[n]
    BY <1>0, <2>2, <2>3, <2>4
  <2> QED
    BY <1>0, <2>1, <2>3, <2>4, <2>5 DEF TermInv, LeaderKeepsTerm, TermCoversVote, StartingInv
<1> QED
  BY <1>1, <1>3, <1>5, <1>6, <1>8, <1>9, <1>10, <1>11, <1>13, <1>14, <1>15, <1>16, <1>17, <1>18,
     <1>19, <1>20, <1>21, <1>22, <1>23, <1>24, <1>25 DEF Next, NodeStep, RpcStep

(* Where a request that is new in its stage comes from.                    *)
Origin(q) ==
    \/ q.stage = "sent"
    \/ \E r \in rpcs : RequestStartsStepDown(r) /\ SameRequest(q, r, "waiting")
    \/ \E r \in rpcs : r.stage = "waiting" /\ SameRequest(q, r, "updated")
    \/ \E r \in rpcs : /\ Recorded(r, term'[r.to]) /\ SameRequest(q, r, "storing")
                       /\ status[r.to] # "down"
    \/ \E r \in rpcs :
          /\ SameRequest(q, r, "replied")
          /\ q.granted = TRUE /\ ~q.dry =>
                [voter |-> q.to, term |-> q.term, cand |-> q.from] \in votes'

(* A request that was not there before came about in one of these ways.    *)
LEMMA RpcOrigin ==
    ASSUME Inv1, [Next]_vars, NEW q \in rpcs', q \notin rpcs
    PROVE  Origin(q)
<1>0. TypeOK /\ ShapeInv /\ RpcInv /\ rpcs \subseteq Rpc
  BY DEF Inv1, TypeOK
<1>00. \A r \in rpcs : r \in Rpc /\ r.to \in Node /\ r.from \in Node /\ r.term \in Nat /\ r.rterm \in Nat
  BY <1>0 DEF Rpc, Term
<1>1. ASSUME rpcs' \subseteq rpcs PROVE Origin(q)
  BY <1>1
<1>2. ASSUME NEW n \in Node, NEW reason \in Reason, NEW p \in Node \cup {NoNode},
             StartElection(n, reason, p)
      PROVE  Origin(q)
  <2>1. term[n] \in Nat
    BY <1>0, <1>2 DEF StartElection, BecomeCandidateIfElectable, Electable, ShapeInv, TypeOK,
       Term, UninitializedTerm
  <2>2. q \in Requests(n, term[n], TRUE)
    BY <1>2 DEF StartElection
  <2>3. q.stage = "sent"
    BY <1>0, <2>1, <2>2, DryRunRequests, Zenon
  <2> QED
    BY <2>3 DEF Origin
<1>3. ASSUME NEW n \in Node, NEW ok \in StoreResult, WriteLastVoteForMyElection(n, ok)
      PROVE  Origin(q)
  <2>1. requester[n].term \in Nat
    BY <1>0 DEF TypeOK, Requester, Term
  <2>2. q \in Requests(n, requester[n].term, FALSE)
    BY <1>3 DEF WriteLastVoteForMyElection
  <2>3. q.stage = "sent"
    BY <1>0, <2>1, <2>2, RealRequests, Zenon
  <2> QED
    BY <2>3 DEF Origin
<1>4. ASSUME NEW n \in Node, StepDownFinish(n) PROVE Origin(q)
  <2>1. PICK r \in rpcs : r.stage = "waiting" /\ q = InStage(r, "updated", FALSE, 0)
    BY <1>4 DEF StepDownFinish, InitialTerm
  <2>2. SameRequest(q, r, "updated")
    BY <1>00, <2>1, RpcUpdates DEF Stages
  <2> QED
    BY <2>1, <2>2 DEF Origin
<1>5. ASSUME NEW r \in rpcs, RequestStartsStepDown(r) PROVE Origin(q)
  <2>1. q = InStage(r, "waiting", FALSE, 0)
    BY <1>5 DEF RequestStartsStepDown, Advance, InitialTerm
  <2>2. SameRequest(q, r, "waiting")
    BY <1>00, <2>1, RpcUpdates DEF Stages
  <2> QED
    BY <1>5, <2>2 DEF Origin
<1>6. ASSUME NEW r \in rpcs, term'[r.to] \in Nat, Decide(r, term'[r.to]), status[r.to] # "down"
      PROVE  Origin(q)
  <2>1. CASE Recorded(r, term'[r.to])
    BY <1>6, <2>1 DEF Recorded, Origin
  <2>2. CASE Answered(r)
    BY <2>2 DEF Answered, Origin, SameRequest
  <2> QED
    BY <1>0, <1>6, <2>1, <2>2, DecideEffect
<1>7. ASSUME NEW r \in rpcs, RequestVote(r) PROVE Origin(q)
  <2>1. term'[r.to] \in Nat
    BY <1>0, <1>00, <1>7 DEF RequestVote, UpdateTerm, ShapeInv, TypeOK, Term, UninitializedTerm
  <2> QED
    BY <1>6, <1>7, <2>1 DEF RequestVote
<1>8. ASSUME NEW r \in rpcs, RequestResumes(r) PROVE Origin(q)
  <2>1. term' = term /\ term[r.to] \in Nat /\ status[r.to] # "down"
    BY <1>0, <1>00, <1>8 DEF RequestResumes, RpcInv, ShapeInv, TypeOK, Term, UninitializedTerm, coordVars
  <2> QED
    BY <1>6, <1>8, <2>1 DEF RequestResumes
<1>9. ASSUME NEW r \in rpcs, NEW ok \in StoreResult, StoreLastVote(r, ok) PROVE Origin(q)
  <2>1. Reply(r, TRUE, r.rterm) /\ [voter |-> r.to, term |-> r.term, cand |-> r.from] \in votes'
    BY <1>9 DEF StoreLastVote
  <2>2. SameRequest(q, r, "replied")
    BY <1>0, <1>00, <2>1, ReplyEffect
  <2> QED
    BY <2>1, <2>2 DEF Origin, SameRequest
<1>10. ASSUME NEW r \in rpcs, ProcessResponse(r) PROVE Origin(q)
  BY <1>1, <1>10 DEF ProcessResponse
<1>11. ASSUME NEW n \in Node,
              \/ ProcessDryRunResult(n) \/ RequestsFail(n) \/ OnVoteRequestComplete(n)
              \/ (\E t \in 1 .. MaxTerm : LearnTerm(n, t)) \/ SignalDrainComplete(n) \/ Write(n)
              \/ (\E m \in Node : Replicate(n, m)) \/ StepDownSelf(n) \/ StepDown(n)
              \/ Crash(n) \/ LoadLocalConfig(n) \/ FinishLoadLocalConfig(n)
       PROVE  Origin(q)
  BY <1>1, <1>11 DEF ProcessDryRunResult, RequestsFail, OnVoteRequestComplete, LearnTerm,
     SignalDrainComplete, Write, Replicate, StepDownSelf, StepDown, Crash, LoadLocalConfig,
     FinishLoadLocalConfig
<1>12. CASE UNCHANGED vars
  BY <1>1, <1>12 DEF vars
<1> QED
  BY <1>2, <1>3, <1>4, <1>5, <1>7, <1>8, <1>9, <1>10, <1>11, <1>12 DEF Next, NodeStep, RpcStep

(* Every action preserves the requests' part of the second layer.          *)
LEMMA RpcCoverStep ==
    Inv1 /\ TermInv /\ RpcCoverInv /\ [Next]_vars => RpcCoverInv'
<1> SUFFICES ASSUME Inv1, TermInv, RpcCoverInv, [Next]_vars,
                    NEW q \in rpcs', q.stage \in {"waiting", "updated"}
             PROVE  CoveredNext(q.to, q.term)
  BY DEF RpcCoverInv, Covered, CoveredNext
<1>0. /\ RpcInv /\ RpcInv' /\ rpcs \subseteq Rpc /\ rpcs' \subseteq Rpc
  BY Inv1Step DEF Inv1, TypeOK
<1>1. q.to \in Node /\ q.term \in Nat /\ status'[q.to] = "up"
  BY <1>0 DEF Rpc, Term, RpcInv
<1>2. ASSUME NEW r \in rpcs, r.stage \in {"waiting", "updated"}, r.to = q.to, r.term = q.term
      PROVE  CoveredNext(q.to, q.term)
  <2>1. status[q.to] = "up" /\ Covered(q.to, q.term)
    BY <1>0, <1>2 DEF RpcInv, RpcCoverInv
  <2> QED
    BY <1>1, <2>1, CoveredStable DEF TermInv
<1>3. CASE q \in rpcs
  BY <1>2, <1>3
<1>4. CASE \E r \in rpcs : r.stage = "waiting" /\ SameRequest(q, r, "updated")
  BY <1>2, <1>4 DEF SameRequest
<1>5. CASE \E r \in rpcs : RequestStartsStepDown(r) /\ SameRequest(q, r, "waiting")
  <2>1. PICK r \in rpcs : RequestStartsStepDown(r) /\ SameRequest(q, r, "waiting")
    BY <1>5
  <2>2. UpdateTerm(q.to, q.term) /\ TriggersStepDown(q.to, q.term)
    BY <2>1 DEF RequestStartsStepDown, StartsStepDown, SameRequest
  <2>3. /\ pendingTerm \in [Node -> Nat]
        /\ leaderMode \in [Node -> {"NotLeader", "LeaderElect", "Master", "SteppingDown"}]
    BY DEF Inv1, TypeOK, Term
  <2> QED
    BY <1>1, <2>2, <2>3 DEF UpdateTerm, CoveredNext
<1>6. CASE q \notin rpcs
  <2>1. Origin(q)
    BY <1>6, RpcOrigin
  <2> QED
    BY <1>4, <1>5, <2>1 DEF Origin, SameRequest
<1> QED
  BY <1>3, <1>6

(* The inductive invariant for terms.                                      *)
Inv2 == Inv1 /\ TermInv /\ RpcCoverInv

(* The first two layers hold throughout.                                   *)
LEMMA Inv2Holds == Spec => []Inv2
<1>1. Init => Inv2
  BY Inv1Init, TermInvInit DEF Inv2, RpcCoverInv, Init
<1>2. Inv2 /\ [Next]_vars => Inv2'
  BY Inv1Step, TermInvStep, RpcCoverStep DEF Inv2
<1> QED
  BY <1>1, <1>2, PTL DEF Spec

(* A primary keeps the term it won (updateTerm never changes the term of a *)
(* leader), and only a primary that steps down has a pending term.         *)
THEOREM LeaderTerm == Spec => []LeaderKeepsTerm
<1>1. Inv2 => LeaderKeepsTerm
  BY DEF Inv2, TermInv
<1> QED
  BY <1>1, Inv2Holds, PTL

(* A running member's term covers its last vote: processReplSetRequestVotes *)
(* updates the term before it votes, and a restart restores it.            *)
THEOREM VoteCovered == Spec => []TermCoversVote
<1>1. Inv2 => TermCoversVote
  BY DEF Inv2, TermInv
<1> QED
  BY <1>1, Inv2Holds, PTL

----------------------------------------------------------------------------
(* What a step can do to the last vote in memory.                          *)

VoteForSelf(n) ==
    /\ status[n] = "up" /\ role[n] # "leader"
    /\ lastVote'[n] = [term |-> term[n] + 1, cand |-> n]

VoteForOther(n) ==
    \E r \in rpcs : r.to = n /\ Recorded(r, term'[n]) /\ term'[n] \in Nat /\ term'[n] >= term[n]

(* The last vote changes by a vote for oneself or by a granted request.    *)
LEMMA VoteEffect ==
    ASSUME Inv1, [Next]_vars, NEW n \in Node, status[n] # "down", status'[n] # "down"
    PROVE  lastVote'[n] = lastVote[n] \/ VoteForSelf(n) \/ VoteForOther(n)
<1> DEFINE P == lastVote'[n] = lastVote[n] \/ VoteForSelf(n) \/ VoteForOther(n)
<1>0. /\ TypeOK /\ ShapeInv /\ RpcInv /\ rpcs \subseteq Rpc /\ lastVote \in [Node -> Vote]
      /\ term \in [Node -> Nat \cup {-1}] /\ status \in [Node -> {"down", "starting", "up"}]
  BY DEF Inv1, TypeOK, Term, UninitializedTerm
<1>00. \A r \in rpcs : r \in Rpc /\ r.to \in Node /\ r.from \in Node /\ r.term \in Nat
  BY <1>0 DEF Rpc, Term
<1>1. ASSUME UNCHANGED lastVote PROVE P
  BY <1>1
<1>2. ASSUME NEW m \in Node, status[m] = "up", role[m] # "leader", VoteForMyselfV1(m, term[m] + 1)
      PROVE  P
  BY <1>0, <1>2 DEF VoteForMyselfV1, VoteForSelf
<1>3. ASSUME NEW r \in rpcs, term'[r.to] \in Nat, term'[r.to] >= term[r.to], Decide(r, term'[r.to])
      PROVE  P
  <2>1. CASE Recorded(r, term'[r.to])
    <3>1. CASE r.to = n
      BY <1>3, <2>1, <3>1 DEF VoteForOther
    <3>2. CASE r.to # n
      BY <1>0, <2>1, <3>2 DEF Recorded
    <3> QED
      BY <3>1, <3>2
  <2>2. CASE Answered(r)
    BY <1>1, <2>2 DEF Answered
  <2> QED
    BY <1>0, <1>3, <2>1, <2>2, DecideEffect
<1>4. ASSUME NEW m \in Node, NEW reason \in Reason, NEW p \in Node \cup {NoNode},
             StartElection(m, reason, p)
      PROVE  P
  <2>1. status[m] = "up" /\ role[m] # "leader"
    BY <1>4 DEF StartElection, BecomeCandidateIfElectable, Electable
  <2> QED
    BY <1>1, <1>2, <1>4, <2>1 DEF StartElection, StartRealElection
<1>5. ASSUME NEW m \in Node, ProcessDryRunResult(m) PROVE P
  <2>1. status[m] = "up" /\ role[m] # "leader"
    BY <1>0, <1>5 DEF ProcessDryRunResult, ShapeInv
  <2> QED
    BY <1>1, <1>2, <1>5, <2>1 DEF ProcessDryRunResult, StartRealElection
<1>6. ASSUME NEW r \in rpcs, RequestVote(r) PROVE P
  <2>1. term'[r.to] \in Nat /\ term'[r.to] >= term[r.to]
    BY <1>0, <1>00, <1>6 DEF RequestVote, UpdateTerm, ShapeInv
  <2> QED
    BY <1>3, <1>6, <2>1 DEF RequestVote
<1>7. ASSUME NEW r \in rpcs, RequestResumes(r) PROVE P
  <2>1. term' = term /\ term[r.to] \in Nat
    BY <1>0, <1>00, <1>7 DEF RequestResumes, RpcInv, ShapeInv, coordVars
  <2> QED
    BY <1>3, <1>7, <2>1 DEF RequestResumes
<1>8. ASSUME NEW m \in Node, Crash(m) \/ LoadLocalConfig(m) PROVE P
  <2>1. m # n
    BY <1>0, <1>8 DEF Crash, LoadLocalConfig
  <2> QED
    BY <1>0, <1>8, <2>1 DEF Crash, LoadLocalConfig
<1>9. ASSUME NEW m \in Node,
             \/ (\E ok \in StoreResult : WriteLastVoteForMyElection(m, ok))
             \/ RequestsFail(m) \/ OnVoteRequestComplete(m)
             \/ (\E t \in 1 .. MaxTerm : LearnTerm(m, t)) \/ SignalDrainComplete(m) \/ Write(m)
             \/ (\E k \in Node : Replicate(m, k)) \/ StepDownSelf(m) \/ StepDown(m)
             \/ StepDownFinish(m) \/ FinishLoadLocalConfig(m)
      PROVE  P
  BY <1>1, <1>9 DEF WriteLastVoteForMyElection, RequestsFail, OnVoteRequestComplete, LearnTerm,
     SignalDrainComplete, Write, Replicate, StepDownSelf, StepDown, StepDownFinish,
     FinishLoadLocalConfig, voteVars
<1>10. ASSUME NEW r \in rpcs,
              \/ RequestStartsStepDown(r) \/ ProcessResponse(r)
              \/ \E ok \in StoreResult : StoreLastVote(r, ok)
       PROVE  P
  BY <1>1, <1>10 DEF RequestStartsStepDown, ProcessResponse, StoreLastVote, voteVars
<1>11. CASE UNCHANGED vars
  BY <1>1, <1>11 DEF vars, voteVars
<1> QED
  BY <1>4, <1>5, <1>6, <1>7, <1>8, <1>9, <1>10, <1>11 DEF Next, NodeStep, RpcStep

(* A running member that is no primary on its way out only votes in terms  *)
(* beyond its last vote.                                                   *)
LEMMA VoteGrows ==
    ASSUME Inv2, NEW n \in Node, status[n] = "up", leaderMode[n] # "SteppingDown",
           VoteForSelf(n) \/ VoteForOther(n)
    PROVE  lastVote'[n].term > lastVote[n].term
<1>0. /\ term \in [Node -> Nat \cup {-1}] /\ lastVote \in [Node -> Vote] /\ rpcs \subseteq Rpc
      /\ lastVote[n].term \in Nat /\ lastVote[n].term <= term[n] /\ term[n] \in Nat
  BY DEF Inv2, Inv1, TypeOK, Term, UninitializedTerm, TermInv, TermCoversVote, ShapeInv, Vote
<1>1. CASE VoteForSelf(n)
  BY <1>0, <1>1 DEF VoteForSelf
<1>2. CASE VoteForOther(n)
  <2>1. PICK r \in rpcs : r.to = n /\ Recorded(r, term'[n]) /\ term'[n] \in Nat /\ term'[n] >= term[n]
    BY <1>2 DEF VoteForOther
  <2>2. r.term \in Nat /\ r.term >= term'[n] /\ lastVote[n].term # r.term
        /\ lastVote'[n].term = r.term
    BY <1>0, <2>1 DEF Recorded, MayGrant, Rpc, Term
  <2> QED
    BY <1>0, <2>1, <2>2
<1> QED
  BY <1>1, <1>2

(* processReplSetRequestVotes and an election of one's own go back behind  *)
(* the last vote only in a primary that is stepping down or before startup *)
(* has restored the term.                                                  *)
THEOREM VotesAscend == Spec => VoteRegressesOnlyInLimbo
<1>1. Inv2 /\ [Next]_vars =>
         [\A n \in Node :
             /\ status[n] # "down" /\ status'[n] # "down"
             /\ lastVote'[n].term < lastVote[n].term
             => leaderMode[n] = "SteppingDown" \/ status[n] = "starting"]_vars
  <2> SUFFICES ASSUME Inv2, [Next]_vars, NEW n \in Node, status[n] # "down", status'[n] # "down",
                      lastVote'[n].term < lastVote[n].term,
                      leaderMode[n] # "SteppingDown", status[n] # "starting"
               PROVE  FALSE
    OBVIOUS
  <2>1. status[n] = "up" /\ lastVote[n].term \in Nat
    BY DEF Inv2, Inv1, TypeOK, Vote, Term
  <2>2. lastVote'[n] = lastVote[n] \/ VoteForSelf(n) \/ VoteForOther(n)
    BY VoteEffect DEF Inv2
  <2>3. Inv2' /\ lastVote'[n].term \in Nat
    BY Inv1Step, TermInvStep, RpcCoverStep DEF Inv2, Inv1, TypeOK, Vote, Term
  <2>4. CASE lastVote'[n] = lastVote[n]
    BY <2>1, <2>4
  <2>5. CASE VoteForSelf(n) \/ VoteForOther(n)
    BY <2>1, <2>3, <2>5, VoteGrows
  <2> QED
    BY <2>2, <2>4, <2>5
<1> QED
  BY <1>1, Inv2Holds, PTL DEF Spec, VoteRegressesOnlyInLimbo

----------------------------------------------------------------------------
(* What a step can do to the stored votes, the vote requesters, and the    *)
(* winners.                                                                *)

(* n recorded a vote for c in term t: it is stored or about to be.         *)
Cast(n, t, c) ==
    \/ [voter |-> n, term |-> t, cand |-> c] \in votes
    \/ \E r \in rpcs : r.stage = "storing" /\ r.to = n /\ r.term = t /\ r.from = c
    \/ c = n /\ requester[n].phase = "writing" /\ requester[n].term = t

Stores(n, v) ==
    /\ Cast(n, v.term, v.cand) /\ v.cand \in Node /\ v.term > 0
    /\ diskVote' = [diskVote EXCEPT ![n] = StoredVote(n, v)]
    /\ votes' = votes \cup {[voter |-> n, term |-> v.term, cand |-> v.cand]}

(* The last-vote documents change by storing one vote that was cast.       *)
LEMMA StoreEffect ==
    ASSUME Inv1, [Next]_vars
    PROVE  UNCHANGED <<diskVote, votes>> \/ \E n \in Node, v \in Vote : Stores(n, v)
<1> DEFINE P == UNCHANGED <<diskVote, votes>> \/ \E n \in Node, v \in Vote : Stores(n, v)
<1>0. /\ TypeOK /\ ShapeInv /\ RpcInv /\ rpcs \subseteq Rpc /\ requester \in [Node -> Requester]
  BY DEF Inv1, TypeOK
<1>00. \A r \in rpcs : r.to \in Node /\ r.from \in Node /\ r.term \in Nat
  BY <1>0 DEF Rpc, Term
<1>1. ASSUME UNCHANGED <<diskVote, votes>> PROVE P
  BY <1>1
<1>2. ASSUME NEW n \in Node, NEW ok \in StoreResult, WriteLastVoteForMyElection(n, ok) PROVE P
  <2> DEFINE v == [term |-> requester[n].term, cand |-> n]
  <2>1. v \in Vote /\ v.term = requester[n].term /\ v.cand = n
    BY <1>0 DEF Vote, Requester
  <2>2. Cast(n, v.term, v.cand) /\ v.term > 0
    BY <1>0, <1>2 DEF Cast, WriteLastVoteForMyElection, ShapeInv
  <2>3. CASE ok
    <3>1. Stores(n, v)
      BY <1>2, <2>1, <2>2, <2>3 DEF Stores, WriteLastVoteForMyElection
    <3> QED
      BY <2>1, <3>1
  <2>4. CASE ~ok
    BY <1>1, <1>2, <2>4 DEF WriteLastVoteForMyElection
  <2> QED
    BY <2>3, <2>4
<1>3. ASSUME NEW r \in rpcs, NEW ok \in StoreResult, StoreLastVote(r, ok) PROVE P
  <2> DEFINE v == [term |-> r.term, cand |-> r.from]
  <2>1. v \in Vote /\ v.term = r.term /\ v.cand = r.from
    BY <1>00 DEF Vote, Term
  <2>2. Cast(r.to, v.term, v.cand) /\ v.term > 0
    BY <1>0, <1>3 DEF Cast, StoreLastVote, RpcInv
  <2>3. CASE ok
    <3>1. Stores(r.to, v)
      BY <1>00, <1>3, <2>1, <2>2, <2>3 DEF Stores, StoreLastVote
    <3> QED
      BY <1>00, <2>1, <3>1
  <2>4. CASE ~ok
    BY <1>1, <1>3, <2>4 DEF StoreLastVote
  <2> QED
    BY <2>3, <2>4
<1>4. ASSUME NEW m \in Node,
             \/ (\E reason \in Reason, p \in Node \cup {NoNode} : StartElection(m, reason, p))
             \/ ProcessDryRunResult(m) \/ RequestsFail(m) \/ OnVoteRequestComplete(m)
             \/ (\E t \in 1 .. MaxTerm : LearnTerm(m, t)) \/ SignalDrainComplete(m) \/ Write(m)
             \/ (\E k \in Node : Replicate(m, k)) \/ StepDownSelf(m) \/ StepDown(m)
             \/ StepDownFinish(m) \/ Crash(m) \/ LoadLocalConfig(m) \/ FinishLoadLocalConfig(m)
      PROVE  P
  BY <1>1, <1>4 DEF StartElection, ProcessDryRunResult, RequestsFail, OnVoteRequestComplete,
     LearnTerm, SignalDrainComplete, Write, Replicate, StepDownSelf, StepDown, StepDownFinish,
     Crash, LoadLocalConfig, FinishLoadLocalConfig, voteVars
<1>5. ASSUME NEW r \in rpcs,
             \/ RequestStartsStepDown(r) \/ RequestResumes(r) \/ RequestVote(r) \/ ProcessResponse(r)
      PROVE  P
  BY <1>1, <1>5 DEF RequestStartsStepDown, RequestResumes, RequestVote, ProcessResponse, voteVars
<1>6. CASE UNCHANGED vars
  BY <1>1, <1>6 DEF vars, voteVars
<1> QED
  BY <1>2, <1>3, <1>4, <1>5, <1>6 DEF Next, NodeStep, RpcStep

(* A real election begins, its first write is done, or answers come in.    *)
Writes(n) ==
    /\ requester'[n].phase = "writing" /\ requester'[n].term = term[n] + 1
    /\ VoteForSelf(n) /\ status' = status

Asks(n) ==
    /\ requester'[n].phase = "real" /\ requester'[n].yes = {}
    /\ [voter |-> n, term |-> requester'[n].term, cand |-> n] \in votes'

Counts(n) ==
    /\ requester'[n].phase = requester[n].phase /\ requester'[n].term = requester[n].term
    /\ \A m \in requester'[n].yes :
          \/ m \in requester[n].yes
          \/ \E r \in rpcs : /\ r.from = n /\ r.to = m /\ r.term = requester[n].term
                             /\ r.stage = "replied" /\ r.granted = TRUE
                             /\ requester[n].phase = "real" => ~r.dry

(* How a candidate's vote requester can change.                            *)
LEMMA RequesterEffect ==
    ASSUME Inv1, [Next]_vars, NEW n \in Node
    PROVE  \/ requester'[n] = requester[n] \/ requester'[n].phase \in {"none", "dryRun"}
           \/ Writes(n) \/ Asks(n) \/ Counts(n)
<1> DEFINE P == \/ requester'[n] = requester[n] \/ requester'[n].phase \in {"none", "dryRun"}
                \/ Writes(n) \/ Asks(n) \/ Counts(n)
<1>0. /\ TypeOK /\ ShapeInv /\ RpcInv /\ rpcs \subseteq Rpc /\ requester \in [Node -> Requester]
      /\ lastVote \in [Node -> Vote]
  BY DEF Inv1, TypeOK
<1>00. \A r \in rpcs : r.to \in Node /\ r.from \in Node /\ r.term \in Nat
  BY <1>0 DEF Rpc, Term
<1>1. ASSUME UNCHANGED requester PROVE P
  BY <1>1
<1>2. Idle.phase = "none"
  BY DEF Idle, NewRequester
<1>3. ASSUME NEW m \in Node, status[m] = "up", role[m] # "leader",
             StartRealElection(m, term[m] + 1), UNCHANGED status
      PROVE  P
  <2>1. CASE m = n
    BY <1>0, <1>3, <2>1 DEF StartRealElection, VoteForMyselfV1, NewRequester, Writes, VoteForSelf
  <2>2. CASE m # n
    BY <1>0, <1>3, <2>2 DEF StartRealElection
  <2> QED
    BY <2>1, <2>2
<1>4. ASSUME NEW m \in Node, LoseElection(m) \/ requester' = [requester EXCEPT ![m] = Idle] PROVE P
  BY <1>0, <1>2, <1>4 DEF LoseElection
<1>5. ASSUME NEW m \in Node, NEW reason \in Reason, NEW p \in Node \cup {NoNode},
             StartElection(m, reason, p)
      PROVE  P
  <2>1. status[m] = "up" /\ role[m] # "leader" /\ UNCHANGED status
    BY <1>5 DEF StartElection, BecomeCandidateIfElectable, Electable
  <2>2. CASE requester' = [requester EXCEPT ![m] = NewRequester("dryRun", term[m], p)]
    BY <1>0, <2>2 DEF NewRequester
  <2> QED
    BY <1>3, <1>5, <2>1, <2>2 DEF StartElection
<1>6. ASSUME NEW m \in Node, ProcessDryRunResult(m) PROVE P
  <2>1. status[m] = "up" /\ role[m] # "leader" /\ UNCHANGED status
    BY <1>0, <1>6 DEF ProcessDryRunResult, ShapeInv
  <2> QED
    BY <1>3, <1>4, <1>6, <2>1 DEF ProcessDryRunResult
<1>7. ASSUME NEW m \in Node, NEW ok \in StoreResult, WriteLastVoteForMyElection(m, ok) PROVE P
  <2>1. CASE ok /\ requester' = [requester EXCEPT ![m] = NewRequester("real", requester[m].term, NoNode)]
    <3>1. [voter |-> m, term |-> requester[m].term, cand |-> m] \in votes'
      BY <1>7, <2>1 DEF WriteLastVoteForMyElection
    <3>2. CASE m = n
      BY <1>0, <2>1, <3>1, <3>2 DEF NewRequester, Asks
    <3>3. CASE m # n
      BY <1>0, <2>1, <3>3
    <3> QED
      BY <3>2, <3>3
  <2> QED
    BY <1>4, <1>7, <2>1 DEF WriteLastVoteForMyElection
<1>8. ASSUME NEW r \in rpcs, ProcessResponse(r) PROVE P
  <2>1. CASE r.from = n
    <3> DEFINE y == IF r.granted THEN {r.to} ELSE {}
               no == IF r.granted THEN {} ELSE {r.to}
    <3>1. requester'[n] = Responses(requester[n], y, no, {}, r.rterm > r.term)
      BY <1>0, <1>8, <2>1 DEF ProcessResponse
    <3>2. /\ requester'[n].phase = requester[n].phase /\ requester'[n].term = requester[n].term
          /\ requester'[n].yes = requester[n].yes \cup y
      BY <3>1 DEF Responses
    <3>3. r.granted \in BOOLEAN /\ r.dry \in BOOLEAN
      BY <1>0 DEF Rpc
    <3>4. /\ r.stage = "replied" /\ requester[n].term = r.term
          /\ requester[n].phase = "real" => ~r.dry
      BY <1>8, <2>1, <3>3 DEF ProcessResponse, Awaiting
    <3>5. Counts(n)
      BY <2>1, <3>2, <3>3, <3>4 DEF Counts
    <3> QED
      BY <3>5
  <2>2. CASE r.from # n
    BY <1>0, <1>8, <2>2 DEF ProcessResponse
  <2> QED
    BY <2>1, <2>2
<1>9. ASSUME NEW m \in Node, RequestsFail(m) PROVE P
  <2>1. /\ requester'[n].phase = requester[n].phase /\ requester'[n].term = requester[n].term
        /\ requester'[n].yes = requester[n].yes
    BY <1>0, <1>9 DEF RequestsFail, Responses
  <2> QED
    BY <2>1 DEF Counts
<1>10. ASSUME NEW m \in Node, OnVoteRequestComplete(m) \/ Crash(m) PROVE P
  BY <1>4, <1>10 DEF OnVoteRequestComplete, Crash
<1>11. ASSUME NEW m \in Node,
             \/ (\E t \in 1 .. MaxTerm : LearnTerm(m, t)) \/ SignalDrainComplete(m) \/ Write(m)
             \/ (\E k \in Node : Replicate(m, k)) \/ StepDownSelf(m) \/ StepDown(m)
             \/ StepDownFinish(m) \/ LoadLocalConfig(m) \/ FinishLoadLocalConfig(m)
      PROVE  P
  BY <1>1, <1>11 DEF LearnTerm, SignalDrainComplete, Write, Replicate, StepDownSelf, StepDown,
     StepDownFinish, LoadLocalConfig, FinishLoadLocalConfig
<1>12. ASSUME NEW r \in rpcs,
             \/ RequestStartsStepDown(r) \/ RequestResumes(r) \/ RequestVote(r)
             \/ \E ok \in StoreResult : StoreLastVote(r, ok)
      PROVE  P
  BY <1>1, <1>12 DEF RequestStartsStepDown, RequestResumes, RequestVote, StoreLastVote
<1>13. CASE UNCHANGED vars
  BY <1>1, <1>13 DEF vars
<1> QED
  BY <1>5, <1>6, <1>7, <1>8, <1>9, <1>10, <1>11, <1>12, <1>13 DEF Next, NodeStep, RpcStep

Wins(n) ==
    /\ requester[n].phase = "real" /\ term[n] = requester[n].term /\ Enough(requester[n], n)
    /\ elected' = elected \cup {[term |-> term[n], node |-> n]}

(* Who enters the history of elections has won one.                        *)
LEMMA ElectedEffect ==
    ASSUME [Next]_vars
    PROVE  UNCHANGED elected \/ \E n \in Node : Wins(n)
<1>1. ASSUME NEW n \in Node, OnVoteRequestComplete(n) PROVE UNCHANGED elected \/ Wins(n)
  BY <1>1 DEF OnVoteRequestComplete, SuccessfullyElected, Wins
<1>2. ASSUME NEW m \in Node,
             \/ (\E reason \in Reason, p \in Node \cup {NoNode} : StartElection(m, reason, p))
             \/ ProcessDryRunResult(m) \/ RequestsFail(m)
             \/ (\E ok \in StoreResult : WriteLastVoteForMyElection(m, ok))
             \/ (\E t \in 1 .. MaxTerm : LearnTerm(m, t)) \/ SignalDrainComplete(m) \/ Write(m)
             \/ (\E k \in Node : Replicate(m, k)) \/ StepDownSelf(m) \/ StepDown(m)
             \/ StepDownFinish(m) \/ Crash(m) \/ LoadLocalConfig(m) \/ FinishLoadLocalConfig(m)
      PROVE  UNCHANGED elected
  BY <1>2 DEF StartElection, ProcessDryRunResult, RequestsFail, WriteLastVoteForMyElection,
     LearnTerm, SignalDrainComplete, Write, Replicate, StepDownSelf, StepDown, StepDownFinish,
     Crash, LoadLocalConfig, FinishLoadLocalConfig
<1>3. ASSUME NEW r \in rpcs, RpcStep(r) PROVE UNCHANGED elected
  BY <1>3 DEF RpcStep, RequestStartsStepDown, RequestResumes, RequestVote, StoreLastVote, ProcessResponse
<1>4. CASE UNCHANGED vars
  BY <1>4 DEF vars
<1> QED
  BY <1>1, <1>2, <1>3, <1>4 DEF Next, NodeStep

(* A restarted member takes its last vote from the document.               *)
LEMMA RestartEffect ==
    ASSUME Inv1, [Next]_vars, NEW n \in Node, status[n] = "down", status'[n] # "down"
    PROVE  lastVote'[n] = diskVote[n]
<1>0. /\ TypeOK /\ status \in [Node -> {"down", "starting", "up"}] /\ lastVote \in [Node -> Vote]
  BY DEF Inv1, TypeOK
<1>1. ASSUME NEW m \in Node, LoadLocalConfig(m) PROVE lastVote'[n] = diskVote[n]
  BY <1>0, <1>1 DEF LoadLocalConfig
<1>2. ASSUME NEW m \in Node, Crash(m) \/ FinishLoadLocalConfig(m) PROVE FALSE
  BY <1>0, <1>2 DEF Crash, FinishLoadLocalConfig
<1>3. ASSUME NEW m \in Node,
             \/ (\E reason \in Reason, p \in Node \cup {NoNode} : StartElection(m, reason, p))
             \/ ProcessDryRunResult(m) \/ RequestsFail(m) \/ OnVoteRequestComplete(m)
             \/ (\E ok \in StoreResult : WriteLastVoteForMyElection(m, ok))
             \/ (\E t \in 1 .. MaxTerm : LearnTerm(m, t)) \/ SignalDrainComplete(m) \/ Write(m)
             \/ (\E k \in Node : Replicate(m, k)) \/ StepDownSelf(m) \/ StepDown(m)
             \/ StepDownFinish(m)
      PROVE  UNCHANGED status
  BY <1>3 DEF StartElection, ProcessDryRunResult, RequestsFail, OnVoteRequestComplete,
     WriteLastVoteForMyElection, LearnTerm, SignalDrainComplete, Write, Replicate, StepDownSelf,
     StepDown, StepDownFinish, coordVars
<1>4. ASSUME NEW r \in rpcs, RpcStep(r) PROVE UNCHANGED status
  BY <1>4 DEF RpcStep, RequestStartsStepDown, RequestResumes, RequestVote, StoreLastVote,
     ProcessResponse, coordVars
<1>5. CASE UNCHANGED vars
  BY <1>5 DEF vars, coordVars
<1> QED
  BY <1>1, <1>2, <1>3, <1>4, <1>5 DEF Next, NodeStep

(* Once a vote has regressed, that is remembered.                          *)
LEMMA RegressedEffect ==
    ASSUME [Next]_vars, ~regressed'
    PROVE  ~regressed
<1>1. ASSUME NEW r \in rpcs, NEW t, Decide(r, t) PROVE regressed => regressed'
  BY <1>1, Zenon DEF Decide
<1>2. ASSUME NEW m \in Node, NodeStep(m) PROVE regressed' = regressed
  BY <1>2 DEF NodeStep, StartElection, ProcessDryRunResult, RequestsFail, OnVoteRequestComplete,
     WriteLastVoteForMyElection, LearnTerm, SignalDrainComplete, Write, Replicate, StepDownSelf,
     StepDown, StepDownFinish, Crash, LoadLocalConfig, FinishLoadLocalConfig, voteVars
<1>3. ASSUME NEW r \in rpcs, RequestResumes(r) \/ RequestVote(r) PROVE regressed => regressed'
  BY <1>1, <1>3, Zenon DEF RequestResumes, RequestVote
<1>4. ASSUME NEW r \in rpcs,
             \/ RequestStartsStepDown(r) \/ ProcessResponse(r)
             \/ \E ok \in StoreResult : StoreLastVote(r, ok)
      PROVE  regressed' = regressed
  BY <1>4 DEF RequestStartsStepDown, ProcessResponse, StoreLastVote, voteVars
<1>5. CASE UNCHANGED vars
  <2>1. regressed' = regressed
    BY <1>5 DEF vars, voteVars
  <2> QED
    BY <2>1
<1> QED
  BY <1>2, <1>3, <1>4, <1>5 DEF Next, RpcStep

----------------------------------------------------------------------------
(* One vote per member and term, as long as no vote regresses.             *)

(* v answers for a vote for c in term t.                                   *)
Dom(v, t, c) == v.term > t \/ (v.term = t /\ v.cand = c)

(* Memory answers for every vote a running member recorded.                *)
MemoryInv ==
    \A n \in Node, t \in Nat, c \in Node :
        Cast(n, t, c) /\ status[n] # "down" => Dom(lastVote[n], t, c)

SingleVoteInv ==
    \A n \in Node, t \in Nat, c, d \in Node : Cast(n, t, c) /\ Cast(n, t, d) => c = d

DiskInv == \A v \in votes : Dom(diskVote[v.voter], v.term, v.cand)

VoteInv == ~regressed => MemoryInv /\ SingleVoteInv /\ DiskInv

(* The document holds a vote that was cast.                                *)
DocumentInv ==
    \A n \in Node :
        \/ diskVote[n].term = 0
        \/ [voter |-> n, term |-> diskVote[n].term, cand |-> diskVote[n].cand] \in votes

Inv3 == Inv2 /\ VoteInv /\ DocumentInv

(* A vote newly recorded is the last vote, and in a later term than the    *)
(* one before.                                                             *)
LEMMA CastStep ==
    ASSUME Inv2, [Next]_vars, ~regressed',
           NEW n \in Node, NEW t \in Nat, NEW c \in Node, Cast(n, t, c)', ~Cast(n, t, c)
    PROVE  /\ status[n] # "down" /\ status'[n] # "down"
           /\ lastVote[n].term < t
           /\ lastVote'[n] = [term |-> t, cand |-> c]
<1> DEFINE P == /\ status[n] # "down" /\ status'[n] # "down"
                /\ lastVote[n].term < t
                /\ lastVote'[n] = [term |-> t, cand |-> c]
<1>0. /\ TypeOK /\ ShapeInv /\ RpcInv /\ rpcs \subseteq Rpc /\ requester \in [Node -> Requester]
      /\ term \in [Node -> Nat \cup {-1}] /\ lastVote \in [Node -> Vote] /\ lastVote[n].term \in Nat
      /\ votes \subseteq CastVote /\ TermCoversVote /\ Inv1
  BY DEF Inv2, Inv1, TypeOK, Term, UninitializedTerm, Vote, TermInv
<1>1. CASE [voter |-> n, term |-> t, cand |-> c] \in votes'
  <2>1. CASE UNCHANGED <<diskVote, votes>>
    BY <1>1, <2>1 DEF Cast
  <2>2. CASE \E m \in Node, v \in Vote : Stores(m, v)
    <3>1. PICK m \in Node, v \in Vote : Stores(m, v)
      BY <2>2
    <3>2. [voter |-> n, term |-> t, cand |-> c] \notin votes
      BY DEF Cast
    <3>3. n = m /\ t = v.term /\ c = v.cand
      BY <1>1, <3>1, <3>2 DEF Stores
    <3> QED
      BY <3>1, <3>3 DEF Stores
  <2> QED
    BY <1>0, <2>1, <2>2, StoreEffect
<1>2. CASE \E q \in rpcs' : q.stage = "storing" /\ q.to = n /\ q.term = t /\ q.from = c
  <2>1. PICK q \in rpcs' : q.stage = "storing" /\ q.to = n /\ q.term = t /\ q.from = c
    BY <1>2
  <2>2. q \notin rpcs
    BY <2>1 DEF Cast
  <2>3. Origin(q)
    BY <1>0, <2>2, RpcOrigin
  <2>4. PICK r \in rpcs : /\ Recorded(r, term'[r.to]) /\ SameRequest(q, r, "storing")
                          /\ status[r.to] # "down"
    BY <2>1, <2>3 DEF Origin, SameRequest
  <2>5. r.to = n /\ r.term = t /\ r.from = c
    BY <2>1, <2>4 DEF SameRequest
  <2>6. lastVote[n].term # t /\ ~(t < lastVote[n].term)
    BY <2>4, <2>5 DEF Recorded, MayGrant
  <2>7. lastVote'[n] = [term |-> t, cand |-> c]
    BY <1>0, <2>4, <2>5 DEF Recorded
  <2>8. status'[n] # "down"
    BY <1>0, <2>1, Inv1Step DEF Inv1, RpcInv
  <2> QED
    BY <1>0, <2>4, <2>5, <2>6, <2>7, <2>8
<1>3. CASE c = n /\ requester'[n].phase = "writing" /\ requester'[n].term = t
  <2>1. Writes(n)
    <3>1. ~(requester[n].phase = "writing" /\ requester[n].term = t)
      BY <1>3 DEF Cast
    <3> QED
      BY <1>0, <1>3, <3>1, RequesterEffect DEF Asks, Counts
  <2>2. /\ status[n] = "up" /\ status'[n] = "up" /\ role[n] # "leader" /\ t = term[n] + 1
        /\ lastVote'[n] = [term |-> t, cand |-> c]
    BY <1>3, <2>1 DEF Writes, VoteForSelf
  <2>3. leaderMode[n] = "NotLeader" /\ term[n] \in Nat
    BY <1>0, <2>2 DEF ShapeInv
  <2>4. lastVote[n].term <= term[n]
    BY <1>0, <2>2, <2>3 DEF TermCoversVote
  <2> QED
    BY <1>0, <2>2, <2>3, <2>4
<1> QED
  BY <1>1, <1>2, <1>3 DEF Cast

(* Every action preserves the third layer's part on votes.                 *)
LEMMA VoteInvStep ==
    ASSUME Inv3, [Next]_vars, ~regressed'
    PROVE  (MemoryInv /\ SingleVoteInv /\ DiskInv)'
<1>0. /\ Inv1 /\ Inv2 /\ DocumentInv /\ ~regressed /\ MemoryInv /\ SingleVoteInv /\ DiskInv
  BY RegressedEffect DEF Inv3, Inv2, VoteInv
<1>00. /\ \A n \in Node : /\ lastVote[n].term \in Nat /\ diskVote[n].term \in Nat
                          /\ diskVote[n].cand \in Node \cup {NoNode}
       /\ diskVote \in [Node -> Vote] /\ votes \subseteq CastVote /\ rpcs \subseteq Rpc
       /\ ShapeInv /\ RpcInv
  BY <1>0 DEF Inv1, TypeOK, Vote, Term
<1>1. MemoryInv'
  <2> SUFFICES ASSUME NEW n \in Node, NEW t \in Nat, NEW c \in Node, Cast(n, t, c)', status'[n] # "down"
               PROVE  Dom(lastVote'[n], t, c)
    BY DEF MemoryInv, Dom
  <2>1. CASE ~Cast(n, t, c)
    <3>1. lastVote'[n] = [term |-> t, cand |-> c]
      BY <1>0, <2>1, CastStep
    <3> QED
      BY <3>1 DEF Dom
  <2>2. CASE Cast(n, t, c) /\ status[n] = "down"
    <3>1. [voter |-> n, term |-> t, cand |-> c] \in votes
      BY <1>00, <2>2 DEF Cast, RpcInv, ShapeInv
    <3>2. Dom(diskVote[n], t, c)
      BY <1>0, <3>1 DEF DiskInv
    <3>3. lastVote'[n] = diskVote[n]
      BY <1>0, <2>2, RestartEffect
    <3> QED
      BY <3>2, <3>3
  <2>3. CASE Cast(n, t, c) /\ status[n] # "down"
    <3>1. Dom(lastVote[n], t, c)
      BY <1>0, <2>3 DEF MemoryInv
    <3>2. CASE lastVote'[n] = lastVote[n]
      BY <3>1, <3>2
    <3>3. CASE VoteForSelf(n)
      <4>1. leaderMode[n] = "NotLeader"
        BY <1>00, <3>3 DEF VoteForSelf, ShapeInv
      <4>2. lastVote'[n].term > lastVote[n].term /\ lastVote'[n].term \in Nat
        <5>1. term[n] \in Nat
          BY <1>0, <3>3 DEF VoteForSelf, Inv1, TypeOK, ShapeInv, Term, UninitializedTerm
        <5> QED
          BY <1>0, <3>3, <4>1, <5>1, VoteGrows DEF VoteForSelf
      <4> QED
        BY <1>00, <3>1, <4>2 DEF Dom
    <3>4. CASE VoteForOther(n)
      <4>1. PICK r \in rpcs : r.to = n /\ Recorded(r, term'[n])
        BY <3>4 DEF VoteForOther
      <4>2. r.term \in Nat /\ lastVote[n].term # r.term /\ ~(r.term < lastVote[n].term)
        BY <1>00, <4>1 DEF Recorded, MayGrant, Rpc, Term
      <4>3. lastVote'[n].term = r.term
        BY <1>0, <4>1 DEF Recorded, Inv1, TypeOK
      <4> QED
        BY <1>00, <3>1, <4>2, <4>3 DEF Dom
    <3> QED
      BY <1>0, <2>3, <3>2, <3>3, <3>4, VoteEffect
  <2> QED
    BY <2>1, <2>2, <2>3
<1>2. SingleVoteInv'
  <2> SUFFICES ASSUME NEW n \in Node, NEW t \in Nat, NEW c \in Node, NEW d \in Node,
                      Cast(n, t, c)', Cast(n, t, d)'
               PROVE  c = d
    BY DEF SingleVoteInv
  <2>1. ASSUME NEW x \in Node, NEW y \in Node, Cast(n, t, x), Cast(n, t, y)', ~Cast(n, t, y)
        PROVE  FALSE
    <3>1. status[n] # "down" /\ lastVote[n].term < t
      BY <1>0, <2>1, CastStep
    <3>2. Dom(lastVote[n], t, x)
      BY <1>0, <2>1, <3>1 DEF MemoryInv
    <3> QED
      BY <1>00, <3>1, <3>2 DEF Dom
  <2>2. CASE Cast(n, t, c) /\ Cast(n, t, d)
    BY <1>0, <2>2 DEF SingleVoteInv
  <2>3. CASE ~Cast(n, t, c) /\ ~Cast(n, t, d)
    <3>1. lastVote'[n] = [term |-> t, cand |-> c]
      BY <1>0, <2>3, CastStep
    <3>2. lastVote'[n] = [term |-> t, cand |-> d]
      BY <1>0, <2>3, CastStep
    <3> QED
      BY <3>1, <3>2
  <2> QED
    BY <2>1, <2>2, <2>3
<1>3. DiskInv'
  <2>1. CASE UNCHANGED <<diskVote, votes>>
    BY <1>0, <2>1 DEF DiskInv
  <2>2. ASSUME NEW m \in Node, NEW w \in Vote, Stores(m, w) PROVE DiskInv'
    <3> SUFFICES ASSUME NEW v \in votes' PROVE Dom(diskVote'[v.voter], v.term, v.cand)
      BY DEF DiskInv, Dom
    <3>0. w.term \in Nat /\ w.term > 0 /\ w.cand \in Node /\ Cast(m, w.term, w.cand)
      BY <2>2 DEF Stores, Vote, Term
    <3>1. diskVote'[m] = IF w.term > diskVote[m].term THEN w ELSE diskVote[m]
      BY <1>00, <2>2 DEF Stores, StoredVote
    <3>2. \A k \in Node \ {m} : diskVote'[k] = diskVote[k]
      BY <1>00, <2>2 DEF Stores
    <3>3. CASE v \in votes
      <4>1. Dom(diskVote[v.voter], v.term, v.cand) /\ v.voter \in Node /\ v.term \in Nat
        BY <1>0, <1>00, <3>3 DEF DiskInv, CastVote, Term
      <4> QED
        BY <1>00, <3>0, <3>1, <3>2, <4>1 DEF Dom
    <3>4. CASE v = [voter |-> m, term |-> w.term, cand |-> w.cand]
      <4>1. CASE w.term = diskVote[m].term
        <5>1. [voter |-> m, term |-> w.term, cand |-> diskVote[m].cand] \in votes
          BY <1>0, <3>0, <4>1 DEF DocumentInv
        <5>2. diskVote[m].cand \in Node
          BY <1>00, <5>1 DEF CastVote
        <5>3. Cast(m, w.term, diskVote[m].cand)
          BY <5>1 DEF Cast
        <5>4. diskVote[m].cand = w.cand
          BY <1>0, <3>0, <5>2, <5>3 DEF SingleVoteInv
        <5> QED
          BY <3>0, <3>1, <3>4, <4>1, <5>4 DEF Dom
      <4>2. CASE w.term # diskVote[m].term
        BY <1>00, <3>0, <3>1, <3>4, <4>2 DEF Dom
      <4> QED
        BY <4>1, <4>2
    <3> QED
      BY <2>2, <3>3, <3>4 DEF Stores
  <2> QED
    BY <1>0, <2>1, <2>2, StoreEffect
<1> QED
  BY <1>1, <1>2, <1>3

(* Every action preserves its part on documents; votes are only added.     *)
LEMMA DocumentInvStep ==
    ASSUME Inv1, DocumentInv, [Next]_vars
    PROVE  DocumentInv' /\ votes \subseteq votes'
<1>0. diskVote \in [Node -> Vote]
  BY DEF Inv1, TypeOK
<1>1. CASE UNCHANGED <<diskVote, votes>>
  BY <1>1 DEF DocumentInv
<1>2. ASSUME NEW m \in Node, NEW w \in Vote, Stores(m, w) PROVE DocumentInv' /\ votes \subseteq votes'
  <2>1. votes' = votes \cup {[voter |-> m, term |-> w.term, cand |-> w.cand]}
    BY <1>2 DEF Stores
  <2>2. diskVote'[m] = w \/ diskVote'[m] = diskVote[m]
    BY <1>0, <1>2 DEF Stores, StoredVote
  <2>3. \A k \in Node \ {m} : diskVote'[k] = diskVote[k]
    BY <1>0, <1>2 DEF Stores
  <2> QED
    BY <2>1, <2>2, <2>3 DEF DocumentInv
<1> QED
  BY <1>1, <1>2, StoreEffect

(* The inductive invariant for votes.                                      *)
LEMMA Inv3Holds == Spec => []Inv3
<1>1. Init => Inv3
  <2> SUFFICES ASSUME Init PROVE Inv3
    OBVIOUS
  <2>1. Inv2
    BY Inv1Init, TermInvInit DEF Inv2, RpcCoverInv, Init
  <2>2. DocumentInv
    BY DEF Init, DocumentInv, InitialTerm
  <2>3. \A n \in Node, t \in Nat, c \in Node : ~Cast(n, t, c)
    BY DEF Init, Cast, Idle, NewRequester
  <2>4. VoteInv
    BY <2>3 DEF VoteInv, MemoryInv, SingleVoteInv, DiskInv, Init
  <2> QED
    BY <2>1, <2>2, <2>4 DEF Inv3
<1>2. Inv3 /\ [Next]_vars => Inv3'
  <2> SUFFICES ASSUME Inv3, [Next]_vars PROVE Inv3'
    OBVIOUS
  <2>1. Inv2'
    BY Inv1Step, TermInvStep, RpcCoverStep DEF Inv3, Inv2
  <2>2. VoteInv'
    BY VoteInvStep DEF VoteInv
  <2>3. DocumentInv'
    BY DocumentInvStep DEF Inv3, Inv2
  <2> QED
    BY <2>1, <2>2, <2>3 DEF Inv3
<1> QED
  BY <1>1, <1>2, PTL DEF Spec

(* storeLocalLastVoteDocument never loses a vote, in whatever order votes  *)
(* reach the disk, as long as no vote regresses.                           *)
THEOREM VotesDurable == Spec => []DurableVotes
<1>1. Inv3 => DurableVotes
  BY DEF Inv3, VoteInv, DiskInv, Dom, DurableVotes
<1> QED
  BY <1>1, Inv3Holds, PTL

----------------------------------------------------------------------------
(* A winner has the stored votes of a majority.                            *)

Backed(n, t, S) == \A m \in S : [voter |-> m, term |-> t, cand |-> n] \in votes

TallyInv ==
    /\ \A n \in Node : requester[n].phase = "real" =>
           Backed(n, requester[n].term, requester[n].yes \cup {n})
    /\ \A r \in rpcs : r.stage = "replied" /\ r.granted = TRUE /\ ~r.dry =>
           [voter |-> r.to, term |-> r.term, cand |-> r.from] \in votes

QuorumInv ==
    \A e \in elected : \E Q \in SUBSET Node : IsMajority(Q) /\ Backed(e.node, e.term, Q)

(* Votes that are counted, or on their way, have been stored.              *)
LEMMA TallyInvStep ==
    ASSUME Inv1, DocumentInv, TallyInv, [Next]_vars
    PROVE  TallyInv'
<1>0. votes \subseteq votes'
  BY DocumentInvStep
<1>1. ASSUME NEW n \in Node, requester'[n].phase = "real"
      PROVE  \A m \in requester'[n].yes \cup {n} :
                [voter |-> m, term |-> requester'[n].term, cand |-> n] \in votes'
  <2>1. CASE requester'[n] = requester[n]
    BY <1>0, <1>1, <2>1 DEF TallyInv, Backed
  <2>2. CASE Asks(n)
    BY <2>2 DEF Asks
  <2>3. CASE Counts(n)
    <3>1. requester[n].phase = "real" /\ requester'[n].term = requester[n].term
      BY <1>1, <2>3 DEF Counts
    <3> TAKE m \in requester'[n].yes \cup {n}
    <3>2. CASE m \in requester[n].yes \cup {n}
      BY <1>0, <3>1, <3>2 DEF TallyInv, Backed
    <3>3. CASE m \notin requester[n].yes \cup {n}
      <4>1. PICK r \in rpcs : /\ r.from = n /\ r.to = m /\ r.term = requester[n].term
                              /\ r.stage = "replied" /\ r.granted = TRUE
                              /\ requester[n].phase = "real" => ~r.dry
        BY <2>3, <3>3 DEF Counts
      <4> QED
        BY <1>0, <3>1, <4>1 DEF TallyInv
    <3> QED
      BY <3>2, <3>3
  <2> QED
    BY <1>1, <2>1, <2>2, <2>3, RequesterEffect DEF Writes
<1>2. ASSUME NEW q \in rpcs', q.stage = "replied", q.granted = TRUE, ~q.dry
      PROVE  [voter |-> q.to, term |-> q.term, cand |-> q.from] \in votes'
  <2>1. CASE q \in rpcs
    BY <1>0, <1>2, <2>1 DEF TallyInv
  <2>2. CASE q \notin rpcs
    BY <1>2, <2>2, RpcOrigin DEF Origin, SameRequest
  <2> QED
    BY <2>1, <2>2
<1> QED
  BY <1>1, <1>2 DEF TallyInv, Backed

(* A new leader has the stored votes of a majority.                        *)
LEMMA QuorumInvStep ==
    ASSUME Inv1, DocumentInv, TallyInv, QuorumInv, [Next]_vars
    PROVE  QuorumInv'
<1>0. votes \subseteq votes'
  BY DocumentInvStep
<1> SUFFICES ASSUME NEW e \in elected'
             PROVE  \E Q \in SUBSET Node :
                       /\ IsMajority(Q)
                       /\ \A m \in Q : [voter |-> m, term |-> e.term, cand |-> e.node] \in votes'
  BY DEF QuorumInv, Backed, IsMajority, MajorityVoteCount
<1>1. CASE e \in elected
  BY <1>0, <1>1 DEF QuorumInv, Backed
<1>2. ASSUME NEW n \in Node, Wins(n), e \notin elected
      PROVE  \E Q \in SUBSET Node :
                       /\ IsMajority(Q)
                       /\ \A m \in Q : [voter |-> m, term |-> e.term, cand |-> e.node] \in votes'
  <2>1. e = [term |-> term[n], node |-> n]
    BY <1>2 DEF Wins
  <2>2. requester[n].yes \cup {n} \in SUBSET Node
    BY DEF Inv1, TypeOK, Requester
  <2>3. IsMajority(requester[n].yes \cup {n})
    BY <1>2 DEF Wins, Enough
  <2>4. Backed(n, term[n], requester[n].yes \cup {n})
    BY <1>2 DEF Wins, TallyInv
  <2> QED
    BY <1>0, <2>1, <2>2, <2>3, <2>4 DEF Backed
<1> QED
  BY <1>1, <1>2, ElectedEffect

(* Two majorities have a member in common.                                 *)
LEMMA MajoritiesMeet ==
    ASSUME NEW P \in SUBSET Node, NEW Q \in SUBSET Node, IsMajority(P), IsMajority(Q)
    PROVE  P \cap Q # {}
<1>1. /\ IsFiniteSet(Node) /\ IsFiniteSet(P) /\ IsFiniteSet(Q)
  BY NodeAssumption, FS_Subset
<1>2. /\ Cardinality(Node) \in Nat /\ Cardinality(P) \in Nat /\ Cardinality(Q) \in Nat
      /\ Cardinality(P \cup Q) <= Cardinality(Node)
  <2>1. P \cup Q \subseteq Node
    OBVIOUS
  <2> QED
    BY <1>1, <2>1, FS_Subset, FS_CardinalityType
<1>3. SUFFICES ASSUME P \cap Q = {} PROVE FALSE
  OBVIOUS
<1>4. Cardinality(P \cup Q) = Cardinality(P) + Cardinality(Q) - Cardinality(P \cap Q)
  BY <1>1, FS_Union
<1>5. Cardinality(P \cap Q) = 0
  BY <1>3, FS_EmptySet
<1> QED
  BY <1>2, <1>4, <1>5 DEF IsMajority, MajorityVoteCount

(* One leader per term, through crashes, lost and late replies, failed     *)
(* writes and restarts, as long as no member votes behind its last vote:   *)
(* processReplSetRequestVotes grants one real vote per term, the vote is   *)
(* stored before it is sent, and a majority of stored votes elects.        *)
THEOREM OneLeader == Spec => []ElectionSafety
<1>1. Init => TallyInv /\ QuorumInv
  BY DEF Init, TallyInv, QuorumInv, Idle, NewRequester
<1>2. Inv3 /\ TallyInv /\ QuorumInv /\ [Next]_vars => (TallyInv /\ QuorumInv)'
  BY TallyInvStep, QuorumInvStep DEF Inv3, Inv2
<1>3. Inv3 /\ QuorumInv => ElectionSafety
  <2> SUFFICES ASSUME Inv3, QuorumInv, ~regressed,
                      NEW e \in elected, NEW f \in elected, e.term = f.term
               PROVE  e.node = f.node
    BY DEF ElectionSafety, OneLeaderPerTerm
  <2>1. PICK P \in SUBSET Node : IsMajority(P) /\ Backed(e.node, e.term, P)
    BY DEF QuorumInv
  <2>2. PICK Q \in SUBSET Node : IsMajority(Q) /\ Backed(f.node, f.term, Q)
    BY DEF QuorumInv
  <2>3. PICK m : m \in P \cap Q
    BY <2>1, <2>2, MajoritiesMeet
  <2>4. Cast(m, e.term, e.node) /\ Cast(m, e.term, f.node) /\ m \in Node
    BY <2>1, <2>2, <2>3 DEF Cast, Backed
  <2>5. e.term \in Nat /\ e.node \in Node /\ f.node \in Node
    BY DEF Inv3, Inv2, Inv1, TypeOK, Term
  <2> QED
    BY <2>4, <2>5 DEF Inv3, VoteInv, SingleVoteInv
<1> QED
  BY <1>1, <1>2, <1>3, Inv3Holds, PTL DEF Spec

=============================================================================
