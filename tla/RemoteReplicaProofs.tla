------------------------- MODULE RemoteReplicaProofs -------------------------
(***************************************************************************)
(* Proofs about RemoteReplica, for every number of replicas, requests,     *)
(* recoveries, commands and faults:                                        *)
(*                                                                         *)
(*   - every variable keeps its shape;                                     *)
(*   - the handlers use the command table as CommandContract allows, so    *)
(*     that what CommandContractProofs shows of the table carries over;    *)
(*   - a replica shown as running has a tunnel handler that will withdraw  *)
(*     it, unless since its last tunnel the control plane restarted or a   *)
(*     deploy declared it running without one;                             *)
(*   - while nothing fails, a stopped replica stays down on both sides.    *)
(*                                                                         *)
(* The first three need no more than where each result is on its way; the  *)
(* last needs the order in which commands reach the agent and come back.   *)
(***************************************************************************)
EXTENDS RemoteReplica, TLAPS

Operation == {"start", "stop"}
Ended == {"done", "failed"}
Message == [cmd: Cmd, status: Ended]
Begun == {"running", "done", "failed"}

\* A queued command names its replica and what to do with it.
Known ==
    \A c \in Cmd : phase[c] # "absent" => target[c] \in Replicas /\ kind[c] \in Operation

\* The command the agent carries out was started, and its websocket may be
\* lost since.
Executing == exec # NoExec => phase[exec.cmd] \in {"running", "lost"}

(***************************************************************************)
(* A result on its way is the only one of its command, which the agent has *)
(* finished and the control plane still counts as running.                 *)
(***************************************************************************)
Carried ==
    /\ \A i \in 1..Len(wire) : phase[wire[i].cmd] = "running" /\ wire[i].cmd # exec.cmd
    /\ \A i, j \in 1..Len(wire) : i # j => wire[i].cmd # wire[j].cmd

IInv == TypeOK /\ Known /\ Executing /\ Carried

-----------------------------------------------------------------------------
(***************************************************************************)
(* The command table                                                       *)
(***************************************************************************)

\* A step of the contract keeps the phases of the contract.
LEMMA MoveType ==
    ASSUME phase \in [Cmd -> Contract!Phase], NEW S, NEW to \in Contract!Phase,
           Contract!Move(S, to)
    PROVE  phase' \in [Cmd -> Contract!Phase]
BY DEF Contract!Move, Contract!Cmd, Cmd

\* Nothing but a command's own row is written when it is queued.
LEMMA EnqueueEffect ==
    ASSUME IInv, NEW k \in Operation, NEW r \in Replicas, Enqueue(k, r)
    PROVE  \E c \in Cmd :
              /\ Contract!Submit(c)
              /\ phase[c] = "absent"
              /\ phase' = [phase EXCEPT ![c] = "queued"]
              /\ kind' = [kind EXCEPT ![c] = k]
              /\ target' = [target EXCEPT ![c] = r]
<1>1. PICK c \in Cmd : /\ Contract!Submit(c)
                       /\ kind' = [kind EXCEPT ![c] = k]
                       /\ target' = [target EXCEPT ![c] = r]
  BY DEF Enqueue
<1>2. /\ phase[c] = "absent"
      /\ phase' = [phase EXCEPT ![c] = "queued"]
  BY <1>1 DEF Contract!Submit, Contract!Move, Contract!Cmd, Cmd, IInv, TypeOK
<1> QED
  BY <1>1, <1>2

(***************************************************************************)
(* Claiming and losing commands: what a step does to a set of them.  A     *)
(* queued command has no result and is not being carried out.              *)
(***************************************************************************)
LEMMA ClaimEffect ==
    ASSUME IInv, NEW S \in SUBSET Cmd, Contract!Claim(S)
    PROVE  /\ phase' \in [Cmd -> Contract!Phase]
           /\ \A c \in Cmd : phase'[c] = IF c \in S THEN "claimed" ELSE phase[c]
           /\ \A c \in S : phase[c] = "queued"
<1>1. /\ Contract!Move(S, "claimed")
      /\ \A c \in S : phase[c] = "queued"
  BY DEF Contract!Claim
<1>2. phase' \in [Cmd -> Contract!Phase]
  BY <1>1, MoveType DEF IInv, TypeOK, Contract!Phase
<1>3. \A c \in Cmd : phase'[c] = IF c \in S THEN "claimed" ELSE phase[c]
  BY <1>1 DEF Contract!Move, Contract!Cmd, Cmd
<1> QED
  BY <1>1, <1>2, <1>3

LEMMA LoseEffect ==
    ASSUME IInv, LoseCommands
    PROVE  /\ phase' \in [Cmd -> Contract!Phase]
           /\ \A c \in Cmd : phase'[c] = IF phase[c] \in {"claimed", "running"}
                                           THEN "lost" ELSE phase[c]
           /\ wire' = <<>>
<1>1. Contract!Move(InFlight, "lost") /\ wire' = <<>>
  BY DEF LoseCommands, Contract!Lose
<1>2. phase' \in [Cmd -> Contract!Phase]
  BY <1>1, MoveType DEF IInv, TypeOK, Contract!Phase
<1>3. \A c \in Cmd : phase'[c] = IF phase[c] \in {"claimed", "running"}
                                   THEN "lost" ELSE phase[c]
  BY <1>1 DEF Contract!Move, Contract!Cmd, Cmd, InFlight
<1> QED
  BY <1>1, <1>2, <1>3

\* The results on their way are messages of the agent.
LEMMA WireMessages ==
    ASSUME wire \in Seq([cmd: Cmd, status: {"done", "failed"}])
    PROVE  /\ wire \in Seq(Message)
           /\ Len(wire) \in Nat
           /\ \A i \in 1..Len(wire) : wire[i] \in Message /\ wire[i].cmd \in Cmd
<1>1. wire \in Seq(Message)
  BY DEF Message, Ended
<1>2. /\ Len(wire) \in Nat
      /\ \A i \in 1..Len(wire) : wire[i] \in Message
  BY <1>1
<1>3. \A m \in Message : m.cmd \in Cmd
  BY DEF Message
<1> QED
  BY <1>1, <1>2, <1>3

\* What the agent carries out is a command, for a replica it knows.
LEMMA ExecKnown ==
    ASSUME IInv, exec # NoExec
    PROVE  /\ exec \in [cmd: Cmd, at: {"start", "stop", "remove", "done", "failed"}]
           /\ phase[exec.cmd] \in {"running", "lost"}
           /\ target[exec.cmd] \in Replicas
           /\ kind[exec.cmd] \in Operation
<1>1. exec \in [cmd: Cmd, at: {"start", "stop", "remove", "done", "failed"}]
  BY DEF IInv, TypeOK
<1>2. phase[exec.cmd] \in {"running", "lost"}
  BY DEF IInv, Executing
<1> QED
  BY <1>1, <1>2 DEF IInv, Known

\* The result that arrives next.
LEMMA HeadKnown ==
    ASSUME IInv, wire # <<>>
    PROVE  /\ Head(wire) \in [cmd: Cmd, status: Ended]
           /\ phase[Head(wire).cmd] = "running"
           /\ target[Head(wire).cmd] \in Replicas
           /\ kind[Head(wire).cmd] \in Operation
           /\ Head(wire) = wire[1]
           /\ Len(wire) \in Nat \ {0}
<1>1. wire \in Seq(Message) /\ \A i \in 1..Len(wire) : wire[i] \in Message
  BY WireMessages DEF IInv, TypeOK
<1>2. Len(wire) \in Nat \ {0}
  BY <1>1
<1>3. Head(wire) = wire[1] /\ Head(wire) \in [cmd: Cmd, status: Ended]
  BY <1>1, <1>2 DEF Message
<1>4. phase[Head(wire).cmd] = "running"
  BY <1>2, <1>3 DEF IInv, Carried
<1> QED
  BY <1>2, <1>3, <1>4 DEF IInv, Known

-----------------------------------------------------------------------------
(***************************************************************************)
(* What a step does to the commands, the execution and the results         *)
(***************************************************************************)

\* A step of cmd_start_replica or cmd_stop_replica.
Works == StartReplica \/ StopTunnelTask \/ RemoveContainer

Queues ==
    /\ \E k \in Operation, r \in Replicas : Enqueue(k, r)
    /\ UNCHANGED execVars

Claims ==
    /\ \E S \in SUBSET Cmd : Contract!Claim(S)
    /\ UNCHANGED <<kind, target, execVars>>

Loses ==
    /\ LoseCommands
    /\ exec' \in {exec, NoExec}
    /\ UNCHANGED <<kind, target>>

\* A step of a zero-downtime deploy.
Deploys == \E d \in Deployers : BeginDeploy(d) \/ DeployStep(d)

\* A deploy queues commands, writes rows, and touches nothing of the node.
LEMMA DeployKinds ==
    ASSUME IInv, Deploys
    PROVE  /\ UNCHANGED <<nstat, users, recov, link, registered, tunnel, agent, exec, wire,
                           container, task, sweep, faults>>
           /\ UNCHANGED cmdVars \/ Queues
<1> USE DEF rowVars, planeVars, linkVars, execVars, nodeVars
<1>1. PICK d \in Deployers : BeginDeploy(d) \/ DeployStep(d)
  BY DEF Deploys
<1>2. ASSUME NEW r \in Replicas, ZdStop(d, r) \/ ZdUndo(d, r)
      PROVE  /\ UNCHANGED <<nstat, users, recov, link, registered, tunnel, agent, exec, wire,
                             container, task, sweep, faults>>
             /\ UNCHANGED cmdVars \/ Queues
  BY <1>2 DEF ZdStop, ZdUndo, Queues, Operation
<1>3. ASSUME ZdQueue(d)
      PROVE  /\ UNCHANGED <<nstat, users, recov, link, registered, tunnel, agent, exec, wire,
                             container, task, sweep, faults>>
             /\ Queues
  <2>1. deploys[d].rid \in Replicas
    BY <1>3 DEF ZdQueue, IInv, TypeOK
  <2> QED
    BY <1>3, <2>1 DEF ZdQueue, Queues, Operation
<1>4. CASE BeginDeploy(d) \/ ZdNoPort(d) \/ ZdFails(d) \/ ZdRetire(d) \/ ZdEnd(d) \/ ZdUndone(d)
  BY <1>4 DEF BeginDeploy, ZdNoPort, ZdFails, ZdRetire, ZdEnd, ZdUndone
<1>5. ASSUME NEW r \in Replicas, ZdInsert(d, r) \/ ZdCheck(d, r) \/ ZdMark(d, r)
      PROVE  UNCHANGED <<nstat, users, recov, link, registered, tunnel, agent, exec, wire,
                         container, task, sweep, faults, cmdVars>>
  BY <1>5 DEF ZdInsert, ZdCheck, ZdMark
<1> QED
  BY <1>1, <1>2, <1>3, <1>4, <1>5 DEF DeployStep

\* Every step of the system is one of these, or touches none of them.
LEMMA StepKinds ==
    ASSUME IInv, [Next]_vars
    PROVE  \/ UNCHANGED <<cmdVars, execVars>>
           \/ Queues \/ Claims \/ Loses \/ Works \/ SendResult \/ ApplyResult
           \/ \E c \in Cmd : TakeCommand(c) \/ DrainDiscard(c)
<1> USE DEF rowVars, cmdVars, planeVars, linkVars, execVars, nodeVars
<1>1. ASSUME NEW u \in Users, RequestStep(u)
      PROVE  UNCHANGED <<cmdVars, execVars>> \/ Queues
  <2>1. CASE CommitRequest(u)
    BY <2>1 DEF CommitRequest
  <2>2. CASE QueueRequested(u)
    <3>1. users[u] \in Request
      BY <2>2 DEF QueueRequested, IInv, TypeOK
    <3> QED
      BY <2>2, <3>1 DEF QueueRequested, Queues, Request, Operation
  <2> QED
    BY <1>1, <2>1, <2>2 DEF RequestStep
<1>2. ASSUME NEW t \in Tasks, RecoverStep(t)
      PROVE  UNCHANGED <<cmdVars, execVars>> \/ Queues
  BY <1>2 DEF RecoverStep, RecoverRead, RecoverQueue, RecoverSkip, RecoverMark, Queues, Operation
<1>3. ASSUME HandlerStep
      PROVE  UNCHANGED <<cmdVars, execVars>> \/ Claims \/ ApplyResult
  <2>1. CASE ClaimCommands
    <3> DEFINE S == {c \in Cmd : phase[c] = "queued"}
    <3>1. S \in SUBSET Cmd /\ Contract!Claim(S)
      BY <2>1 DEF ClaimCommands
    <3> QED
      BY <2>1, <3>1 DEF ClaimCommands, Claims
  <2> QED
    BY <1>3, <2>1 DEF HandlerStep, SocketClosed, MarkStale
<1>4. ASSUME AgentStep
      PROVE  \/ UNCHANGED <<cmdVars, execVars>> \/ Claims
             \/ \E c \in Cmd : DrainDiscard(c)
  <2>1. CASE DrainClaim
    <3> DEFINE S == {c \in Cmd : phase[c] = "queued"}
    <3>1. UNCHANGED phase \/ (S \in SUBSET Cmd /\ Contract!Claim(S))
      BY <2>1 DEF DrainClaim
    <3> QED
      BY <2>1, <3>1 DEF DrainClaim, Claims
  <2> QED
    BY <1>4, <2>1 DEF AgentStep, AgentConnect, DrainDone
<1>5. ASSUME FaultStep
      PROVE  UNCHANGED <<cmdVars, execVars>> \/ Loses
  BY <1>5 DEF FaultStep, LinkDrops, AgentCrash, ServerRestart, EvictSocket, TunnelDrops,
     Loses, LoseCommands
<1>6. CASE ExecStep
  BY <1>6 DEF ExecStep, Works
<1>7. ASSUME NEW r \in Replicas, TunnelStep(r)
      PROVE  UNCHANGED <<cmdVars, execVars>>
  BY <1>7 DEF TunnelStep, TunnelOpens, TunnelCloses
<1>8. ASSUME NEW u \in Users, NEW r \in Replicas, NEW op \in {"start", "stop"},
             BeginRequest(u, r, op)
      PROVE  UNCHANGED <<cmdVars, execVars>>
  BY <1>8 DEF BeginRequest
<1>9. CASE Heartbeat \/ MarkUnregistered \/ SweepAsk \/ SweepRemove \/ UNCHANGED vars
  BY <1>9 DEF Heartbeat, MarkUnregistered, SweepAsk, SweepRemove, vars
<1>10. CASE Deploys
  BY <1>10, DeployKinds
<1> QED
  BY <1>1, <1>2, <1>3, <1>4, <1>5, <1>6, <1>7, <1>8, <1>9, <1>10 DEF Next, Deploys

-----------------------------------------------------------------------------
(***************************************************************************)
(* The shape of the variables                                              *)
(***************************************************************************)

CommandShape ==
    /\ kind \in [Cmd -> {"start", "stop", None}]
    /\ target \in [Cmd -> Replicas \cup {None}]
    /\ phase \in [Cmd -> Contract!Phase]
    /\ exec \in {NoExec} \cup [cmd: Cmd, at: {"start", "stop", "remove", "done", "failed"}]
    /\ wire \in Seq([cmd: Cmd, status: {"done", "failed"}])

CInv == CommandShape /\ Known /\ Executing /\ Carried

\* Results stay on their way while their commands run and the agent is busy
\* with none of them.
LEMMA CarriedStays ==
    ASSUME IInv, UNCHANGED wire,
           \A d \in Cmd : phase[d] = "running" => phase'[d] = "running",
           \A i \in 1..Len(wire) : wire[i].cmd # exec'.cmd
    PROVE  Carried'
<1>3. \A i \in 1..Len(wire) : wire[i].cmd \in Cmd
  BY WireMessages DEF IInv, TypeOK
<1>4. \A i \in 1..Len(wire) : phase'[wire[i].cmd] = "running"
  BY <1>3 DEF IInv, Carried
<1>5. \A i, j \in 1..Len(wire) : i # j => wire[i].cmd # wire[j].cmd
  BY DEF IInv, Carried
<1> QED
  BY <1>4, <1>5 DEF Carried

\* A queued command is neither carried out nor reported.
LEMMA QueuesKept == ASSUME IInv, Queues PROVE CInv'
<1>1. PICK k \in Operation, r \in Replicas : Enqueue(k, r) /\ UNCHANGED execVars
  BY DEF Queues
<1>2. PICK c \in Cmd : /\ phase[c] = "absent"
                       /\ phase' = [phase EXCEPT ![c] = "queued"]
                       /\ kind' = [kind EXCEPT ![c] = k]
                       /\ target' = [target EXCEPT ![c] = r]
  BY <1>1, EnqueueEffect
<1>3. UNCHANGED <<exec, wire>>
  BY <1>1 DEF execVars
<1>4. CommandShape'
  BY <1>2, <1>3 DEF IInv, TypeOK, CommandShape, Contract!Phase, Operation
<1>5. \A d \in Cmd : phase[d] # "absent" => phase'[d] = phase[d]
  BY <1>2 DEF IInv, TypeOK
<1>6. Known'
  BY <1>2 DEF Known, IInv, TypeOK
<1>7. Executing'
  BY <1>3, <1>5, ExecKnown DEF Executing
<1>8. Carried'
  <2>1. \A i \in 1..Len(wire) : wire[i].cmd # exec.cmd
    BY DEF IInv, Carried
  <2> QED
    BY <1>3, <1>5, <2>1, CarriedStays
<1> QED
  BY <1>4, <1>6, <1>7, <1>8 DEF CInv

LEMMA ClaimsKept == ASSUME IInv, Claims PROVE CInv'
<1>1. PICK S \in SUBSET Cmd : Contract!Claim(S)
  BY DEF Claims
<1>2. UNCHANGED <<kind, target, exec, wire>>
  BY DEF Claims, execVars
<1>3. /\ phase' \in [Cmd -> Contract!Phase]
      /\ \A c \in Cmd : phase'[c] = IF c \in S THEN "claimed" ELSE phase[c]
      /\ \A c \in S : phase[c] = "queued"
  BY <1>1, ClaimEffect
<1>4. CommandShape'
  BY <1>2, <1>3 DEF IInv, TypeOK, CommandShape
<1>5. \A d \in Cmd : /\ phase[d] \in {"running", "lost"} => phase'[d] = phase[d]
                     /\ phase'[d] # "absent" => phase[d] # "absent"
  BY <1>3
<1>6. Known'
  BY <1>2, <1>5 DEF Known, IInv
<1>7. Executing'
  BY <1>2, <1>5, ExecKnown DEF Executing
<1>8. Carried'
  <2>1. \A i \in 1..Len(wire) : wire[i].cmd # exec.cmd
    BY DEF IInv, Carried
  <2> QED
    BY <1>2, <1>5, <2>1, CarriedStays
<1> QED
  BY <1>4, <1>6, <1>7, <1>8 DEF CInv

\* Lost results leave nothing on the way; the agent goes on with its command.
LEMMA LosesKept == ASSUME IInv, Loses PROVE CInv'
<1>1. UNCHANGED <<kind, target>> /\ exec' \in {exec, NoExec}
  BY DEF Loses
<1>2. /\ phase' \in [Cmd -> Contract!Phase]
      /\ \A c \in Cmd : phase'[c] = IF phase[c] \in {"claimed", "running"}
                                      THEN "lost" ELSE phase[c]
      /\ wire' = <<>>
  BY LoseEffect DEF Loses
<1>3. CommandShape'
  BY <1>1, <1>2 DEF IInv, TypeOK, CommandShape
<1>4. Known'
  BY <1>1, <1>2 DEF Known, IInv
<1>5. Executing'
  BY <1>1, <1>2, ExecKnown DEF Executing
<1>6. Carried'
  BY <1>2 DEF Carried
<1> QED
  BY <1>3, <1>4, <1>5, <1>6 DEF CInv

\* The agent starts a command that was claimed, hence has no result yet.
LEMMA TakeKept == ASSUME IInv, NEW c \in Cmd, TakeCommand(c) PROVE CInv'
<1>1. /\ exec = NoExec /\ phase[c] = "claimed"
      /\ exec' = [cmd |-> c, at |-> kind[c]]
      /\ UNCHANGED <<kind, target, wire>>
  BY DEF TakeCommand
<1>2. phase' = [phase EXCEPT ![c] = "running"]
  BY DEF TakeCommand, Contract!Start, Contract!Move, Contract!Cmd, Cmd, IInv, TypeOK
<1>3. kind[c] \in Operation /\ target[c] \in Replicas
  BY <1>1 DEF IInv, Known
<1>4. CommandShape'
  BY <1>1, <1>2, <1>3 DEF IInv, TypeOK, CommandShape, Contract!Phase, Operation
<1>5. phase \in [Cmd -> Contract!Phase]
  BY DEF IInv, TypeOK
<1>6. Known'
  BY <1>1, <1>2, <1>5 DEF Known, IInv
<1>7. Executing'
  BY <1>1, <1>2, <1>5 DEF Executing
<1>8. Carried'
  <2>1. \A i \in 1..Len(wire) : phase[wire[i].cmd] = "running"
    BY DEF IInv, Carried
  <2>2. \A d \in Cmd : phase[d] = "running" => phase'[d] = "running"
    BY <1>1, <1>2, <1>5
  <2> QED
    BY <1>1, <2>1, <2>2, CarriedStays
<1> QED
  BY <1>4, <1>6, <1>7, <1>8 DEF CInv

\* Carrying a command out changes how far it is.
LEMMA WorksKept == ASSUME IInv, Works PROVE CInv'
<1>1. exec # NoExec
  <2>1. exec.at \in {"start", "stop", "remove"}
    BY DEF Works, StartReplica, StopTunnelTask, RemoveContainer
  <2> QED
    BY <2>1, ReplicaAssumption DEF NoExec
<1>2. exec \in [cmd: Cmd, at: {"start", "stop", "remove", "done", "failed"}]
  BY <1>1, ExecKnown
<1>3. UNCHANGED <<kind, target, phase, wire>>
  BY DEF Works, StartReplica, StopTunnelTask, RemoveContainer, cmdVars
<1>4. PICK a \in {"remove", "done", "failed"} : exec' = [exec EXCEPT !.at = a]
  BY DEF Works, StartReplica, StopTunnelTask, RemoveContainer
<1>5. exec' \in [cmd: Cmd, at: {"start", "stop", "remove", "done", "failed"}] /\ exec'.cmd = exec.cmd
  BY <1>2, <1>4
<1>6. CommandShape'
  BY <1>3, <1>5 DEF IInv, TypeOK, CommandShape
<1>7. Known' /\ Executing' /\ Carried'
  BY <1>1, <1>3, <1>5 DEF IInv, Known, Executing, Carried
<1> QED
  BY <1>6, <1>7 DEF CInv

\* A finished execution leaves its result behind the others.
LEMMA SendKept == ASSUME IInv, SendResult PROVE CInv'
<1>1. exec # NoExec /\ exec.at \in {"done", "failed"}
  BY ReplicaAssumption DEF SendResult, NoExec
<1>2. exec \in [cmd: Cmd, at: {"start", "stop", "remove", "done", "failed"}]
  BY <1>1, ExecKnown
<1>3. exec' = NoExec /\ UNCHANGED <<kind, target, phase>>
  BY DEF SendResult, cmdVars
<1> DEFINE m == [cmd |-> exec.cmd, status |-> exec.at]
<1>4. /\ wire \in Seq(Message) /\ Len(wire) \in Nat
      /\ \A i \in 1..Len(wire) : wire[i].cmd \in Cmd
  BY WireMessages DEF IInv, TypeOK
<1>5. m \in Message
  BY <1>1, <1>2 DEF Message, Ended
<1>6. \/ wire' = wire
      \/ wire' = Append(wire, m) /\ phase[exec.cmd] = "running"
  BY DEF SendResult
<1> HIDE DEF m
<1>7. wire' \in Seq(Message)
  BY <1>4, <1>5, <1>6
<1>8. CommandShape'
  BY <1>3, <1>7 DEF IInv, TypeOK, CommandShape, Message, Ended
<1>9. Known' /\ Executing'
  BY <1>3 DEF IInv, Known, Executing
<1>10. m.cmd = exec.cmd
  BY DEF m
<1>11. \A i \in 1..Len(wire') :
         \/ i \in 1..Len(wire) /\ wire'[i] = wire[i]
         \/ i = Len(wire) + 1 /\ i \notin 1..Len(wire) /\ wire'[i] = m /\ phase[exec.cmd] = "running"
  BY <1>4, <1>5, <1>6
<1>12. \A i \in 1..Len(wire') : wire'[i].cmd \in Cmd /\ phase[wire'[i].cmd] = "running"
  BY <1>2, <1>4, <1>10, <1>11 DEF IInv, Carried
<1>13. \A i \in 1..Len(wire') : phase[wire'[i].cmd] = "running" /\ wire'[i].cmd # None
  BY <1>12, ReplicaAssumption
<1>14. \A i, j \in 1..Len(wire') : i # j => wire'[i].cmd # wire'[j].cmd
  BY <1>10, <1>11 DEF IInv, Carried
<1>15. Carried'
  BY <1>3, <1>13, <1>14 DEF Carried, NoExec
<1> QED
  BY <1>8, <1>9, <1>15 DEF CInv

\* The rest of the results, once the first has arrived.
LEMMA TailKnown ==
    ASSUME IInv, wire # <<>>
    PROVE  /\ Tail(wire) \in Seq(Message)
           /\ \A i \in 1..Len(Tail(wire)) :
                 /\ i \in 1..Len(wire) /\ i + 1 \in 1..Len(wire)
                 /\ Tail(wire)[i] = wire[i + 1]
<1>1. wire \in Seq(Message)
  BY WireMessages DEF IInv, TypeOK
<1> QED
  BY <1>1

\* The first result ends its command, and no other is its result.
LEMMA ApplyKept == ASSUME IInv, ApplyResult PROVE CInv'
<1> DEFINE m == Head(wire)
<1>1. /\ wire # <<>>
      /\ phase' = [phase EXCEPT ![m.cmd] = m.status]
      /\ wire' = Tail(wire)
      /\ UNCHANGED <<kind, target, exec>>
  BY DEF ApplyResult
<1>2. m \in [cmd: Cmd, status: Ended] /\ phase[m.cmd] = "running" /\ m = wire[1] /\ 1 \in 1..Len(wire)
  BY <1>1, HeadKnown
<1>3. /\ wire' \in Seq(Message)
      /\ \A i \in 1..Len(wire') :
            /\ i \in 1..Len(wire) /\ i + 1 \in 1..Len(wire)
            /\ wire'[i] = wire[i + 1]
  BY <1>1, TailKnown
<1> HIDE DEF m
<1>4. phase \in [Cmd -> Contract!Phase] /\ m.cmd \in Cmd /\ m.status \in Ended
  BY <1>2 DEF IInv, TypeOK
<1>5. CommandShape'
  BY <1>1, <1>3, <1>4 DEF IInv, TypeOK, CommandShape, Contract!Phase, Message, Ended
<1>6. Known'
  BY <1>1, <1>2, <1>4 DEF IInv, Known
<1>7. exec # NoExec => exec.cmd # m.cmd
  BY <1>2 DEF IInv, Carried
<1>8. Executing'
  BY <1>1, <1>4, <1>7, ExecKnown DEF Executing
<1>9. \A i \in 1..Len(wire') : /\ wire'[i].cmd \in Cmd /\ wire'[i].cmd # m.cmd
                               /\ phase[wire'[i].cmd] = "running" /\ wire'[i].cmd # exec.cmd
  <2>1. \A i \in 1..Len(wire') : wire'[i].cmd \in Cmd
    BY <1>3, WireMessages DEF IInv, TypeOK
  <2>2. \A i \in 1..Len(wire') : i + 1 # 1
    BY <1>3
  <2> QED
    BY <1>2, <1>3, <2>1, <2>2 DEF IInv, Carried
<1>10. \A i \in 1..Len(wire') : phase'[wire'[i].cmd] = "running" /\ wire'[i].cmd # exec'.cmd
  BY <1>1, <1>4, <1>9
<1>11. \A i, j \in 1..Len(wire') : i # j => wire'[i].cmd # wire'[j].cmd
  <2>1. ASSUME NEW i \in 1..Len(wire'), NEW j \in 1..Len(wire'), i # j
        PROVE  wire'[i].cmd # wire'[j].cmd
    <3>1. i + 1 # j + 1
      BY <2>1
    <3> QED
      BY <1>3, <3>1 DEF IInv, Carried
  <2> QED
    BY <2>1
<1>12. Carried'
  BY <1>10, <1>11 DEF Carried
<1> QED
  BY <1>5, <1>6, <1>8, <1>12 DEF CInv

LEMMA DiscardKept == ASSUME IInv, NEW c \in Cmd, DrainDiscard(c) PROVE CInv'
<1>1. phase[c] = "claimed" /\ UNCHANGED <<kind, target, exec, wire>>
  BY DEF DrainDiscard, execVars
<1>2. phase \in [Cmd -> Contract!Phase]
  BY DEF IInv, TypeOK
<1>3. phase' = [phase EXCEPT ![c] = "failed"]
  BY <1>2 DEF DrainDiscard, Contract!Discard, Contract!Move, Contract!Cmd, Cmd
<1>4. CommandShape'
  BY <1>1, <1>3 DEF IInv, TypeOK, CommandShape, Contract!Phase
<1>5. Known'
  BY <1>1, <1>2, <1>3 DEF IInv, Known
<1>6. Executing'
  BY <1>1, <1>2, <1>3, ExecKnown DEF Executing
<1>7. Carried'
  <2>1. \A i \in 1..Len(wire) : wire[i].cmd # exec'.cmd
    BY <1>1 DEF IInv, Carried
  <2>2. \A d \in Cmd : phase[d] = "running" => phase'[d] = "running"
    BY <1>1, <1>2, <1>3
  <2> QED
    BY <1>1, <2>1, <2>2, CarriedStays
<1> QED
  BY <1>4, <1>5, <1>6, <1>7 DEF CInv

LEMMA CommandsKept == ASSUME IInv, [Next]_vars PROVE CInv'
<1>1. CASE UNCHANGED <<cmdVars, execVars>>
  <2>1. CInv
    BY DEF IInv, CInv, TypeOK, CommandShape
  <2> QED
    BY <1>1, <2>1 DEF CInv, CommandShape, Known, Executing, Carried, cmdVars, execVars
<1> QED
  BY <1>1, StepKinds, QueuesKept, ClaimsKept, LosesKept, WorksKept, SendKept, ApplyKept,
     TakeKept, DiscardKept

(***************************************************************************)
(* The rest of the state, action by action.                                *)
(***************************************************************************)
RestShape ==
    /\ row \in [Replicas -> RowState]
    /\ nstat \in {"online", "offline"}
    /\ users \in [Users -> Request \cup {None}]
    /\ recov \in [Tasks -> [at: {"idle", "read", "next"} \cup Replicas, todo: SUBSET Replicas]]
    /\ deploys \in [Deployers -> Deploy]
    /\ \A d \in Deployers : deploys[d].at = "queue" => deploys[d].rid \in Replicas
    /\ link \in {"none", "up", "lost"}
    /\ registered \in BOOLEAN
    /\ tunnel \in [Replicas -> {"down", "up", "lost"}]
    /\ agent \in {"down", "draining", "up"}
    /\ container \in SUBSET Replicas
    /\ task \in SUBSET Replicas
    /\ sweep \in (SUBSET Replicas) \cup {None}
    /\ stranded \in SUBSET Replicas
    /\ faults \in Nat

\* Every status a handler writes is one of the column.
LEMMA RowsKept ==
    ASSUME row \in [Replicas -> RowState]
    PROVE  /\ RowsOffline \in [Replicas -> RowState]
           /\ \A c, s : Outcome(c, s) \in Status
           /\ \A r \in Replicas, s \in Status : SetRow(r, s) => row' \in [Replicas -> RowState]
<1>1. RowsOffline \in [Replicas -> RowState]
  BY DEF RowsOffline, RowState, Status
<1>2. \A c, s : Outcome(c, s) \in Status
  BY DEF Outcome, Status
<1>3. \A r \in Replicas, s \in Status : SetRow(r, s) => row' \in [Replicas -> RowState]
  BY DEF SetRow, RowState
<1> QED
  BY <1>1, <1>2, <1>3

\* A request writes the row it read, with a status of the column.
LEMMA RequestShape ==
    ASSUME RestShape, NEW u \in Users,
           RequestStep(u) \/ \E r \in Replicas, op \in {"start", "stop"} : BeginRequest(u, r, op)
    PROVE  RestShape'
<1> USE DEF rowVars, cmdVars, planeVars, linkVars, execVars, nodeVars
<1>1. ASSUME NEW r \in Replicas, NEW op \in {"start", "stop"}, BeginRequest(u, r, op)
      PROVE  RestShape'
  <2>1. users' \in [Users -> Request \cup {None}]
    <3>1. row[r] \in Status /\ users \in [Users -> Request \cup {None}]
      BY <1>1 DEF RestShape, BeginRequest, Status
    <3>2. PICK a \in {"queue", "offline"} :
            users' = [users EXCEPT ![u] = [op |-> op, rid |-> r, seen |-> row[r], at |-> a]]
      BY <1>1 DEF BeginRequest
    <3>3. [op |-> op, rid |-> r, seen |-> row[r], at |-> a] \in Request
      BY <3>1 DEF Request
    <3> QED
      BY <3>1, <3>2, <3>3
  <2> QED
    BY <1>1, <2>1 DEF BeginRequest, RestShape
<1>2. ASSUME QueueRequested(u) PROVE RestShape'
  <2>1. users' \in [Users -> Request \cup {None}]
    <3>1. users[u] \in Request /\ users \in [Users -> Request \cup {None}]
      BY <1>2 DEF QueueRequested, RestShape
    <3>2. [users[u] EXCEPT !.at = "commit"] \in Request
      BY <3>1 DEF Request
    <3>3. users' = [users EXCEPT ![u] = [users[u] EXCEPT !.at = "commit"]]
      BY <1>2, <3>1 DEF QueueRequested
    <3> QED
      BY <3>1, <3>2, <3>3
  <2> QED
    BY <1>2, <2>1 DEF QueueRequested, RestShape
<1>3. ASSUME CommitRequest(u) PROVE RestShape'
  <2>1. users[u] \in Request /\ users[u].at \in {"commit", "offline"}
    BY <1>3 DEF CommitRequest, RestShape
  <2>2. NewStatus(users[u]) \in Status /\ users[u].rid \in Replicas
    BY <2>1 DEF NewStatus, Request, Status
  <2>3. UNCHANGED row \/ SetRow(users[u].rid, NewStatus(users[u]))
    BY <1>3 DEF CommitRequest
  <2>4. row' \in [Replicas -> RowState]
    BY <2>2, <2>3, RowsKept DEF RestShape
  <2> QED
    BY <1>3, <2>4 DEF CommitRequest, RestShape
<1> QED
  BY <1>1, <1>2, <1>3 DEF RequestStep

\* A recovery task stays where it can be.
LEMMA RecoverShape ==
    ASSUME RestShape, NEW t \in Tasks, RecoverStep(t)
    PROVE  RestShape'
<1> USE DEF rowVars, cmdVars, planeVars, linkVars, execVars, nodeVars
<1> DEFINE Task == [at: {"idle", "read", "next"} \cup Replicas, todo: SUBSET Replicas]
<1>1. recov \in [Tasks -> Task] /\ recov[t] \in Task
  BY DEF RestShape
<1>2. \A r \in Replicas : Without(t, r) \in Task
  BY <1>1 DEF Without
<1>3. \A r \in Replicas : [recov[t] EXCEPT !.at = r] \in Task
  BY <1>1
<1>4. CASE RecoverRead(t)
  <2>1. recov' \in [Tasks -> Task]
    BY <1>1, <1>4 DEF RecoverRead
  <2> QED
    BY <1>4, <2>1 DEF RecoverRead, RestShape
<1>5. CASE RecoverQueue(t)
  <2>1. recov' \in [Tasks -> Task]
    BY <1>1, <1>2, <1>5 DEF RecoverQueue
  <2> QED
    BY <1>5, <2>1 DEF RecoverQueue, RestShape
<1>6. ASSUME NEW r \in Replicas, RecoverSkip(t, r) PROVE RestShape'
  <2>1. recov' \in [Tasks -> Task]
    BY <1>1, <1>2, <1>6 DEF RecoverSkip
  <2> QED
    BY <1>6, <2>1 DEF RecoverSkip, RestShape
<1>7. ASSUME NEW r \in Replicas, RecoverMark(t, r) PROVE RestShape'
  <2>1. \/ recov' = [recov EXCEPT ![t] = [recov[t] EXCEPT !.at = r]]
        \/ recov' = [recov EXCEPT ![t] = [at |-> "idle", todo |-> {}]]
    BY <1>1, <1>7 DEF RecoverMark
  <2>2. recov' \in [Tasks -> Task]
    BY <1>1, <1>3, <2>1
  <2>3. row' \in [Replicas -> RowState]
    BY <1>7, RowsKept DEF RecoverMark, Status, RestShape
  <2> QED
    BY <1>7, <2>2, <2>3 DEF RecoverMark, RestShape
<1> QED
  BY <1>4, <1>5, <1>6, <1>7 DEF RecoverStep

LEMMA HandlerShape ==
    ASSUME IInv, RestShape, HandlerStep \/ AgentStep \/ Heartbeat \/ MarkUnregistered
    PROVE  RestShape'
<1> USE DEF rowVars, cmdVars, planeVars, linkVars, execVars, nodeVars
<1>1. /\ RowsOffline \in [Replicas -> RowState]
      /\ \A c, s : Outcome(c, s) \in Status
      /\ \A r \in Replicas, s \in Status : SetRow(r, s) => row' \in [Replicas -> RowState]
  BY RowsKept DEF RestShape
<1>2. CASE ClaimCommands \/ SocketClosed \/ DrainClaim \/ DrainDone \/ Heartbeat
  BY <1>2 DEF ClaimCommands, SocketClosed, DrainClaim, DrainDone, Heartbeat, RestShape
<1>3. CASE MarkStale \/ MarkUnregistered
  <2>1. row' = RowsOffline
    BY <1>3 DEF MarkStale, MarkUnregistered
  <2> QED
    BY <1>1, <1>3, <2>1 DEF MarkStale, MarkUnregistered, RestShape
<1>4. CASE ApplyResult
  <2>1. target[Head(wire).cmd] \in Replicas
    BY <1>4, HeadKnown DEF ApplyResult
  <2>2. SetRow(target[Head(wire).cmd], Outcome(Head(wire).cmd, Head(wire).status))
    BY <1>4 DEF ApplyResult
  <2>3. row' \in [Replicas -> RowState]
    BY <1>1, <2>1, <2>2
  <2> QED
    BY <1>4, <2>3 DEF ApplyResult, RestShape
<1>5. ASSUME NEW c \in Cmd, DrainDiscard(c) PROVE RestShape'
  <2>1. target[c] \in Replicas
    BY <1>5 DEF DrainDiscard, IInv, Known
  <2>2. SetRow(target[c], "error") /\ "error" \in Status
    BY <1>5 DEF DrainDiscard, Status
  <2>3. row' \in [Replicas -> RowState]
    BY <1>1, <2>1, <2>2
  <2> QED
    BY <1>5, <2>3 DEF DrainDiscard, RestShape
<1>6. CASE AgentConnect
  <2>1. ASSUME NEW t \in Tasks, recov' = [recov EXCEPT ![t].at = "read"]
        PROVE  recov' \in [Tasks -> [at: {"idle", "read", "next"} \cup Replicas, todo: SUBSET Replicas]]
    <3> DEFINE Task == [at: {"idle", "read", "next"} \cup Replicas, todo: SUBSET Replicas]
    <3>1. recov \in [Tasks -> Task] /\ recov[t] \in Task
      BY DEF RestShape
    <3>2. recov' = [recov EXCEPT ![t] = [recov[t] EXCEPT !.at = "read"]]
      BY <2>1, <3>1
    <3>3. [recov[t] EXCEPT !.at = "read"] \in Task
      BY <3>1
    <3> QED
      BY <3>1, <3>2, <3>3
  <2>2. recov' \in [Tasks -> [at: {"idle", "read", "next"} \cup Replicas, todo: SUBSET Replicas]]
    BY <1>6, <2>1 DEF AgentConnect, RestShape
  <2> QED
    BY <1>6, <2>2 DEF AgentConnect, RestShape
<1> QED
  BY <1>2, <1>3, <1>4, <1>5, <1>6 DEF HandlerStep, AgentStep

\* A tunnel that goes away was up and is noticed later.
LEMMA UntunnelKept ==
    ASSUME tunnel \in [Replicas -> {"down", "up", "lost"}], NEW S, Untunnel(S)
    PROVE  /\ tunnel' \in [Replicas -> {"down", "up", "lost"}]
           /\ \A r \in Replicas : tunnel'[r] = "down" <=> tunnel[r] = "down"
BY DEF Untunnel

LEMMA AgentShape ==
    ASSUME IInv, RestShape,
           ExecStep \/ SweepAsk \/ SweepRemove \/ \E r \in Replicas : TunnelStep(r)
    PROVE  RestShape'
<1> USE DEF rowVars, cmdVars, planeVars, linkVars, execVars, nodeVars
<1>1. ASSUME NEW r \in Replicas, TunnelStep(r) PROVE RestShape'
  <2>1. PICK s \in Status : SetRow(r, s)
    BY <1>1 DEF TunnelStep, TunnelOpens, TunnelCloses, Status
  <2>2. row' \in [Replicas -> RowState]
    BY <2>1, RowsKept DEF RestShape
  <2> QED
    BY <1>1, <2>2 DEF TunnelStep, TunnelOpens, TunnelCloses, RestShape
<1>2. CASE SweepAsk \/ SweepRemove
  BY <1>2 DEF SweepAsk, SweepRemove, RestShape
<1>3. CASE SendResult \/ \E c \in Cmd : TakeCommand(c)
  BY <1>3 DEF SendResult, TakeCommand, RestShape
<1>4. CASE Works
  <2>1. target[exec.cmd] \in Replicas
    <3>1. exec.at \in {"start", "stop", "remove"}
      BY <1>4 DEF Works, StartReplica, StopTunnelTask, RemoveContainer
    <3>2. exec # NoExec
      BY <3>1, ReplicaAssumption DEF NoExec
    <3> QED
      BY <3>2, ExecKnown
  <2>2. UNCHANGED tunnel \/ Untunnel({target[exec.cmd]})
    BY <1>4 DEF Works, StartReplica, StopTunnelTask, RemoveContainer
  <2>3. tunnel' \in [Replicas -> {"down", "up", "lost"}]
    BY <2>2, UntunnelKept DEF RestShape
  <2>4. /\ container' \in {container, container \cup {target[exec.cmd]}, container \ {target[exec.cmd]}}
        /\ task' \in {task, task \cup {target[exec.cmd]}, task \ {target[exec.cmd]}}
    BY <1>4 DEF Works, StartReplica, StopTunnelTask, RemoveContainer
  <2>5. container' \in SUBSET Replicas /\ task' \in SUBSET Replicas
    BY <2>1, <2>4 DEF RestShape
  <2>6. UNCHANGED <<rowVars, planeVars, link, registered, agent, sweep, stranded, faults>>
    BY <1>4 DEF Works, StartReplica, StopTunnelTask, RemoveContainer
  <2> QED
    BY <2>3, <2>5, <2>6 DEF RestShape
<1> QED
  BY <1>1, <1>2, <1>3, <1>4 DEF ExecStep, Works

LEMMA FaultShape ==
    ASSUME IInv, RestShape, FaultStep
    PROVE  RestShape'
<1> USE DEF rowVars, cmdVars, planeVars, linkVars, execVars, nodeVars, Fault
<1>1. CASE LinkDrops
  <2>1. tunnel' \in [Replicas -> {"down", "up", "lost"}]
    BY <1>1, UntunnelKept DEF LinkDrops, RestShape
  <2> QED
    BY <1>1, <2>1 DEF LinkDrops, RestShape
<1>2. CASE AgentCrash
  <2>1. tunnel' \in [Replicas -> {"down", "up", "lost"}]
    BY <1>2, UntunnelKept DEF AgentCrash, RestShape
  <2> QED
    BY <1>2, <2>1 DEF AgentCrash, RestShape
<1>3. CASE ServerRestart
  <2>1. users' \in [Users -> Request \cup {None}]
    BY <1>3 DEF ServerRestart
  <2>2. recov' \in [Tasks -> [at: {"idle", "read", "next"} \cup Replicas, todo: SUBSET Replicas]]
    BY <1>3 DEF ServerRestart
  <2>3. tunnel' \in [Replicas -> {"down", "up", "lost"}]
    BY <1>3 DEF ServerRestart
  <2>8. /\ deploys' \in [Deployers -> Deploy]
        /\ \A d \in Deployers : deploys'[d].at = "queue" => deploys'[d].rid \in Replicas
    BY <1>3 DEF ServerRestart, NoDeploy, Deploy
  <2>4. link' \in {"none", "up", "lost"} /\ faults' \in Nat
    BY <1>3 DEF ServerRestart, RestShape
  <2>6. stranded' \in SUBSET Replicas
    BY <1>3 DEF ServerRestart
  <2>7. registered' \in BOOLEAN
    <3>1. registered' = FALSE
      BY <1>3 DEF ServerRestart
    <3> QED
      BY <3>1
  <2>5. sweep' \in (SUBSET Replicas) \cup {None}
    BY <1>3 DEF ServerRestart
  <2> QED
    BY <1>3, <2>1, <2>2, <2>3, <2>4, <2>5, <2>6, <2>7, <2>8 DEF ServerRestart, RestShape
<1>4. CASE EvictSocket
  <2>1. faults' \in Nat
    BY <1>4 DEF EvictSocket, RestShape
  <2>2. registered' \in BOOLEAN
    BY <1>4 DEF EvictSocket
  <2>3. nstat' \in {"online", "offline"}
    BY <1>4 DEF EvictSocket
  <2>4. UNCHANGED <<row, planeVars, link, tunnel, agent, nodeVars, stranded>>
    BY <1>4 DEF EvictSocket
  <2> QED
    BY <2>1, <2>2, <2>3, <2>4 DEF RestShape
<1>5. ASSUME NEW r \in Replicas, TunnelDrops(r) PROVE RestShape'
  <2>1. tunnel' \in [Replicas -> {"down", "up", "lost"}]
    BY <1>5, UntunnelKept DEF TunnelDrops, RestShape
  <2> QED
    BY <1>5, <2>1 DEF TunnelDrops, RestShape
<1> QED
  BY <1>1, <1>2, <1>3, <1>4, <1>5 DEF FaultStep

\* A deploy stays a deploy, and knows the replica whose start it is to queue.
LEMMA DeployShape ==
    ASSUME IInv, RestShape, Deploys
    PROVE  RestShape'
<1>1. PICK d \in Deployers : BeginDeploy(d) \/ DeployStep(d)
  BY DEF Deploys
<1>2. deploys \in [Deployers -> Deploy] /\ deploys[d] \in Deploy /\ NoDeploy \in Deploy
  BY DEF RestShape, NoDeploy, Deploy
<1>3. ASSUME NEW x \in Deploy, deploys' = [deploys EXCEPT ![d] = x],
             x.at = "queue" => x.rid \in Replicas
      PROVE  /\ deploys' \in [Deployers -> Deploy]
             /\ \A e \in Deployers : deploys'[e].at = "queue" => deploys'[e].rid \in Replicas
  BY <1>2, <1>3 DEF RestShape
<1> DEFINE Becomes(x) == /\ deploys' = [deploys EXCEPT ![d] = x]
                         /\ x \in Deploy
                         /\ x.at = "queue" => x.rid \in Replicas
<1>4. \E x : Becomes(x)
  <2> DEFINE D == deploys[d]
  <2>1. D \in Deploy /\ D.new \in SUBSET Replicas /\ D.todo \in SUBSET Replicas
    BY <1>2 DEF Deploy
  <2>2. CASE BeginDeploy(d)
    <3>1. PICK S \in SUBSET Replicas, a \in {"retire", "insert"} :
            deploys' = [deploys EXCEPT ![d] = [NoDeploy EXCEPT !.at = a, !.left = S]]
      BY <2>2 DEF BeginDeploy
    <3>2. /\ [NoDeploy EXCEPT !.at = a, !.left = S] \in Deploy
          /\ [NoDeploy EXCEPT !.at = a, !.left = S].at # "queue"
      BY <1>2 DEF Deploy
    <3> QED
      BY <3>1, <3>2
  <2>3. ASSUME NEW r \in Replicas, ZdInsert(d, r) PROVE \E x : Becomes(x)
    <3>1. PICK slot : deploys' = [deploys EXCEPT ![d] =
            [D EXCEPT !.at = "queue", !.rid = r, !.new = D.new \cup {r}, !.left = D.left \ {slot}]]
      BY <2>3 DEF ZdInsert
    <3>2. /\ [D EXCEPT !.at = "queue", !.rid = r, !.new = D.new \cup {r}, !.left = D.left \ {slot}]
                \in Deploy
          /\ [D EXCEPT !.at = "queue", !.rid = r, !.new = D.new \cup {r}, !.left = D.left \ {slot}].rid = r
      BY <2>1 DEF Deploy
    <3> QED
      BY <3>1, <3>2
  <2>4. CASE deploys' = [deploys EXCEPT ![d] = NoDeploy]
    <3>1. NoDeploy \in Deploy /\ NoDeploy.at # "queue"
      BY <1>2 DEF NoDeploy
    <3> QED
      BY <2>4, <3>1
  <2>5. CASE ZdQueue(d)
    <3>1. CASE D.left # {}
      <4>1. deploys' = [deploys EXCEPT ![d] = [D EXCEPT !.at = "insert", !.rid = None]]
        BY <2>5, <3>1 DEF ZdQueue
      <4>2. /\ [D EXCEPT !.at = "insert", !.rid = None] \in Deploy
            /\ [D EXCEPT !.at = "insert", !.rid = None].at # "queue"
        BY <2>1 DEF Deploy
      <4> QED
        BY <4>1, <4>2
    <3>2. CASE D.left = {}
      <4>1. deploys' = [deploys EXCEPT ![d] = [D EXCEPT !.at = "check", !.rid = None, !.todo = D.new]]
        BY <2>5, <3>2 DEF ZdQueue
      <4>2. /\ [D EXCEPT !.at = "check", !.rid = None, !.todo = D.new] \in Deploy
            /\ [D EXCEPT !.at = "check", !.rid = None, !.todo = D.new].at # "queue"
        BY <2>1 DEF Deploy
      <4> QED
        BY <4>1, <4>2
    <3> QED
      BY <3>1, <3>2
  <2>6. CASE ZdFails(d) /\ D.new # {}
    <3>1. deploys' = [deploys EXCEPT ![d] = [D EXCEPT !.at = "undo", !.left = {}, !.todo = D.new]]
      BY <2>6 DEF ZdFails
    <3>2. /\ [D EXCEPT !.at = "undo", !.left = {}, !.todo = D.new] \in Deploy
          /\ [D EXCEPT !.at = "undo", !.left = {}, !.todo = D.new].at # "queue"
      BY <2>1 DEF Deploy
    <3> QED
      BY <3>1, <3>2
  <2>7. ASSUME NEW T \in SUBSET Replicas, NEW a \in {"mark", "stop"},
               deploys' = [deploys EXCEPT ![d] = [D EXCEPT !.at = a, !.todo = T]]
        PROVE  \E x : Becomes(x)
    <3>1. [D EXCEPT !.at = a, !.todo = T] \in Deploy /\ [D EXCEPT !.at = a, !.todo = T].at # "queue"
      BY <2>1 DEF Deploy
    <3> QED
      BY <2>7, <3>1
  <2>8. ASSUME NEW r \in Replicas, ZdCheck(d, r) PROVE \E x : Becomes(x)
    <3>1. CASE D.todo # {r}
      <4>1. deploys' = [deploys EXCEPT ![d] = [D EXCEPT !.todo = D.todo \ {r}]] /\ D.at = "check"
        BY <2>8, <3>1 DEF ZdCheck
      <4>2. /\ [D EXCEPT !.todo = D.todo \ {r}] \in Deploy
            /\ [D EXCEPT !.todo = D.todo \ {r}].at = D.at
        BY <2>1 DEF Deploy
      <4> QED
        BY <4>1, <4>2
    <3>2. CASE D.todo = {r}
      BY <2>1, <2>7, <2>8, <3>2 DEF ZdCheck
    <3> QED
      BY <3>1, <3>2
  <2>9. CASE ZdRetire(d)
    <3> DEFINE old == {r \in Replicas \ deploys[d].new : row[r] = "running"}
    <3>1. /\ old \in SUBSET Replicas
          /\ \/ deploys' = [deploys EXCEPT ![d] = NoDeploy]
             \/ deploys' = [deploys EXCEPT ![d] = [D EXCEPT !.at = "stop", !.todo = old]]
      BY <2>9 DEF ZdRetire
    <3> HIDE DEF old
    <3> QED
      BY <2>4, <2>7, <3>1
  <2>10. CASE ZdUndone(d) /\ D.todo # {}
    <3>1. deploys' = [deploys EXCEPT ![d] = [D EXCEPT !.at = "undo", !.rid = None]]
      BY <2>10 DEF ZdUndone
    <3>2. /\ [D EXCEPT !.at = "undo", !.rid = None] \in Deploy
          /\ [D EXCEPT !.at = "undo", !.rid = None].at # "queue"
      BY <2>1 DEF Deploy
    <3> QED
      BY <3>1, <3>2
  <2>11. ASSUME NEW r \in Replicas, ZdMark(d, r) PROVE \E x : Becomes(x)
    <3>1. PICK a \in {"mark", "retire"} :
            deploys' = [deploys EXCEPT ![d] = [D EXCEPT !.at = a, !.todo = D.todo \ {r}]]
      BY <2>11 DEF ZdMark
    <3>2. /\ [D EXCEPT !.at = a, !.todo = D.todo \ {r}] \in Deploy
          /\ [D EXCEPT !.at = a, !.todo = D.todo \ {r}].at # "queue"
      BY <2>1 DEF Deploy
    <3> QED
      BY <3>1, <3>2
  <2>12. ASSUME NEW r \in Replicas, ZdStop(d, r) PROVE \E x : Becomes(x)
    <3>1. deploys' = [deploys EXCEPT ![d] = [D EXCEPT !.todo = D.todo \ {r}, !.rid = r]] /\ D.at = "stop"
      BY <2>12 DEF ZdStop
    <3>2. /\ [D EXCEPT !.todo = D.todo \ {r}, !.rid = r] \in Deploy
          /\ [D EXCEPT !.todo = D.todo \ {r}, !.rid = r].rid = r
      BY <2>1 DEF Deploy
    <3> QED
      BY <3>1, <3>2
  <2>13. ASSUME NEW r \in Replicas, ZdUndo(d, r) PROVE \E x : Becomes(x)
    <3>1. PICK i \in Replicas \cup {None} :
            deploys' = [deploys EXCEPT ![d] =
                          [D EXCEPT !.at = "undone", !.todo = D.todo \ {r}, !.rid = i]]
      BY <2>13 DEF ZdUndo
    <3>2. /\ [D EXCEPT !.at = "undone", !.todo = D.todo \ {r}, !.rid = i] \in Deploy
          /\ [D EXCEPT !.at = "undone", !.todo = D.todo \ {r}, !.rid = i].at # "queue"
      BY <2>1 DEF Deploy
    <3> QED
      BY <3>1, <3>2
  <2> HIDE DEF D, Becomes
  <2>14. /\ ZdNoPort(d) \/ ZdEnd(d) => \E x : Becomes(x)
         /\ ZdFails(d) /\ D.new = {} => \E x : Becomes(x)
         /\ ZdUndone(d) /\ D.todo = {} => \E x : Becomes(x)
    <3> USE DEF D
    <3> QED
      BY <2>4 DEF ZdNoPort, ZdEnd, ZdFails, ZdUndone
  <2> QED
    BY <1>1, <2>2, <2>3, <2>5, <2>6, <2>8, <2>9, <2>10, <2>11, <2>12, <2>13, <2>14 DEF DeployStep
<1>5. row' \in [Replicas -> RowState] /\ stranded' \in SUBSET Replicas
  <2>1. CASE UNCHANGED <<row, stranded>>
    BY <2>1 DEF RestShape
  <2>2. ASSUME NEW r \in Replicas, ZdInsert(d, r)
        PROVE  row' \in [Replicas -> RowState] /\ stranded' \in SUBSET Replicas
    BY <2>2 DEF ZdInsert, RestShape, RowState, Status
  <2>3. ASSUME NEW r \in Replicas, ZdMark(d, r)
        PROVE  row' \in [Replicas -> RowState] /\ stranded' \in SUBSET Replicas
    BY <2>3 DEF ZdMark, SetRow, RestShape, RowState, Status
  <2>4. ASSUME DeleteInHand(d), UNCHANGED stranded
        PROVE  row' \in [Replicas -> RowState] /\ stranded' \in SUBSET Replicas
    BY <2>4 DEF DeleteInHand, RestShape, RowState
  <2>5. ASSUME NEW r \in Replicas, ZdStop(d, r)
        PROVE  row' \in [Replicas -> RowState] /\ stranded' \in SUBSET Replicas
    BY <2>4, <2>5 DEF ZdStop
  <2>6. CASE ZdEnd(d) \/ ZdUndone(d)
    BY <2>4, <2>6 DEF ZdEnd, ZdUndone
  <2>7. ASSUME NEW r \in Replicas, ZdCheck(d, r) \/ ZdUndo(d, r)
        PROVE  row' \in [Replicas -> RowState] /\ stranded' \in SUBSET Replicas
    BY <2>1, <2>7 DEF ZdCheck, ZdUndo, rowVars
  <2>8. CASE BeginDeploy(d) \/ ZdNoPort(d) \/ ZdQueue(d) \/ ZdFails(d) \/ ZdRetire(d)
    BY <2>1, <2>8 DEF BeginDeploy, ZdNoPort, ZdQueue, ZdFails, ZdRetire, rowVars
  <2> QED
    BY <1>1, <2>2, <2>3, <2>5, <2>6, <2>7, <2>8 DEF DeployStep
<1> QED
  BY <1>3, <1>4, <1>5, DeployKinds DEF RestShape

-----------------------------------------------------------------------------
\* Nothing is on its way when the node is observed first.
LEMMA InitInv == ASSUME Init PROVE IInv
<1> USE ReplicaAssumption DEF Init, NoExec
<1>1. RestShape
  <2>1. PICK R \in SUBSET Replicas, S \in SUBSET Replicas :
          /\ row = [r \in Replicas |-> IF r \in R THEN "running"
                                     ELSE IF r \in S THEN "stopped" ELSE "absent"]
          /\ tunnel = [r \in Replicas |-> IF r \in R THEN "up" ELSE "down"]
          /\ container = R
          /\ task = R
    BY DEF Init
  <2>2. row \in [Replicas -> RowState] /\ tunnel \in [Replicas -> {"down", "up", "lost"}]
    BY <2>1 DEF RowState, Status
  <2>7. /\ deploys \in [Deployers -> Deploy]
        /\ \A d \in Deployers : deploys[d].at = "queue" => deploys[d].rid \in Replicas
    BY DEF Init, NoDeploy, Deploy
  <2>3. recov \in [Tasks -> [at: {"idle", "read", "next"} \cup Replicas, todo: SUBSET Replicas]]
    BY DEF Init
  <2>4. users \in [Users -> Request \cup {None}] /\ sweep \in (SUBSET Replicas) \cup {None}
    BY DEF Init
  <2>5. /\ nstat \in {"online", "offline"} /\ link \in {"none", "up", "lost"}
        /\ agent \in {"down", "draining", "up"} /\ faults \in Nat
        /\ stranded \in SUBSET Replicas
    BY DEF Init
  <2>6. registered \in BOOLEAN
    <3>1. registered = TRUE
      BY DEF Init
    <3> QED
      BY <3>1
  <2> QED
    BY <2>1, <2>2, <2>3, <2>4, <2>5, <2>6, <2>7 DEF RestShape
<1>2. CommandShape
  BY DEF CommandShape, Contract!Phase
<1>3. Known /\ Executing /\ Carried
  BY DEF Known, Executing, Carried
<1> QED
  BY <1>1, <1>2, <1>3 DEF IInv, TypeOK, RestShape, CommandShape

LEMMA StepKeepsInv == ASSUME IInv, [Next]_vars PROVE IInv'
<1>1. CInv'
  BY CommandsKept
<1>2. RestShape
  BY DEF IInv, TypeOK, RestShape
<1>3. RestShape'
  <2>1. CASE UNCHANGED vars
    BY <1>2, <2>1 DEF vars, rowVars, planeVars, linkVars, nodeVars, RestShape
  <2> QED
    BY <1>2, <2>1, RequestShape, RecoverShape, HandlerShape, AgentShape, FaultShape,
       DeployShape DEF Next, Deploys
<1> QED
  BY <1>1, <1>3 DEF IInv, CInv, TypeOK, CommandShape, RestShape

LEMMA Invariant == Spec => []IInv
BY InitInv, StepKeepsInv, PTL DEF Spec

(***************************************************************************)
(* Every variable keeps its shape: no handler acts on a command whose      *)
(* replica it does not know, and each result ends a command once.          *)
(***************************************************************************)
THEOREM TypeCorrect == Spec => []TypeOK
<1>1. IInv => TypeOK
  BY DEF IInv
<1> QED
  BY <1>1, Invariant, PTL

-----------------------------------------------------------------------------
(***************************************************************************)
(* The command table is used as its contract allows.                       *)
(***************************************************************************)

\* The result that arrives ends a command that is running.
LEMMA ApplyIsFinish == ASSUME IInv, ApplyResult PROVE \E c \in Cmd : Contract!Finish(c)
<1> DEFINE m == Head(wire)
<1>1. m \in [cmd: Cmd, status: Ended] /\ phase[m.cmd] = "running"
  BY HeadKnown DEF ApplyResult
<1>2. phase' = [phase EXCEPT ![m.cmd] = m.status]
  BY DEF ApplyResult
<1> HIDE DEF m
<1>3. m.cmd \in Cmd /\ m.status \in Ended
  BY <1>1
<1>4. Contract!Move({m.cmd}, m.status)
  BY <1>2, <1>3 DEF Contract!Move, Contract!Cmd, Cmd, IInv, TypeOK
<1> QED
  BY <1>1, <1>3, <1>4 DEF Contract!Finish, Ended

\* Whatever is claimed or running is lost, and nothing else.
LEMMA LosesIsLose == ASSUME Loses PROVE \E S \in SUBSET Cmd : Contract!Lose(S)
BY DEF Loses, LoseCommands, InFlight

LEMMA StepIsContract == ASSUME IInv, [Next]_vars PROVE [Contract!Next]_phase
<1> USE DEF Contract!Next, Contract!Cmd, Cmd
<1>1. CASE UNCHANGED <<cmdVars, execVars>>
  BY <1>1 DEF cmdVars
<1>2. CASE Queues
  <2>1. \E c \in Cmd : Contract!Submit(c)
    BY <1>2, EnqueueEffect DEF Queues
  <2> QED
    BY <2>1
<1>3. CASE Claims
  BY <1>3 DEF Claims
<1>4. CASE Loses
  BY <1>4, LosesIsLose
<1>5. CASE Works \/ SendResult
  BY <1>5 DEF Works, StartReplica, StopTunnelTask, RemoveContainer, SendResult, cmdVars
<1>6. CASE ApplyResult
  <2>1. \E c \in Cmd : Contract!Finish(c)
    BY <1>6, ApplyIsFinish
  <2> QED
    BY <2>1
<1>7. ASSUME NEW c \in Cmd, TakeCommand(c) \/ DrainDiscard(c) PROVE Contract!Next
  <2>1. Contract!Start(c) \/ Contract!Discard(c)
    BY <1>7 DEF TakeCommand, DrainDiscard
  <2> QED
    BY <2>1
<1> QED
  BY <1>1, <1>2, <1>3, <1>4, <1>5, <1>6, <1>7, StepKinds

(***************************************************************************)
(* Requests, recovery, agent websockets and agents use the command table   *)
(* as CommandContract says: what arrives from an agent ends a command that *)
(* agent was given, once, whatever links, agents and servers failed.       *)
(***************************************************************************)
THEOREM UsesContract == Spec => KeepsContract
<1>1. Init => Contract!Init
  BY DEF Init, Contract!Init, Contract!Cmd, Cmd
<1> QED
  BY <1>1, Invariant, StepIsContract, PTL DEF Spec, KeepsContract, Contract!Spec

-----------------------------------------------------------------------------
(***************************************************************************)
(* A row that says "running" has a tunnel handler                          *)
(***************************************************************************)

LEMMA NewStatusIsTransitional ==
    ASSUME NEW q \in Request, q.at \in {"commit", "offline"}
    PROVE  NewStatus(q) # "running"
BY DEF NewStatus, Request

\* Only a tunnel that opens and a deploy make a row running, and only a tunnel
\* handler that notices the loss, or a restart, takes the handler away.
LEMMA WatchKept == ASSUME IInv, RunningIsWatched, [Next]_vars PROVE RunningIsWatched'
<1> USE DEF rowVars, cmdVars, planeVars, linkVars, execVars, nodeVars
<1> DEFINE Quiet == /\ \A r \in Replicas : row'[r] = "running" => row[r] = "running"
                    /\ \A r \in Replicas : tunnel'[r] = "down" <=> tunnel[r] = "down"
                    /\ UNCHANGED stranded
<1>1. ASSUME Quiet PROVE RunningIsWatched'
  BY <1>1 DEF RunningIsWatched
<1>2. row \in [Replicas -> RowState] /\ tunnel \in [Replicas -> {"down", "up", "lost"}]
  BY DEF IInv, TypeOK
<1>3. ASSUME NEW u \in Users, RequestStep(u) PROVE Quiet
  <2>1. CASE QueueRequested(u)
    BY <2>1 DEF QueueRequested
  <2>2. CASE CommitRequest(u)
    <3>1. users[u] \in Request /\ users[u].at \in {"commit", "offline"}
      BY <2>2 DEF CommitRequest, IInv, TypeOK
    <3>2. NewStatus(users[u]) # "running"
      BY <3>1, NewStatusIsTransitional
    <3>3. UNCHANGED row \/ SetRow(users[u].rid, NewStatus(users[u]))
      BY <2>2 DEF CommitRequest
    <3> QED
      BY <1>2, <2>2, <3>2, <3>3 DEF CommitRequest, SetRow
  <2> QED
    BY <1>3, <2>1, <2>2 DEF RequestStep
<1>4. ASSUME NEW t \in Tasks, RecoverStep(t) PROVE Quiet
  BY <1>2, <1>4 DEF RecoverStep, RecoverRead, RecoverQueue, RecoverSkip, RecoverMark, SetRow
<1>5. CASE HandlerStep \/ AgentStep \/ Heartbeat \/ MarkUnregistered
  <2>1. CASE ClaimCommands \/ SocketClosed \/ AgentConnect \/ DrainClaim \/ DrainDone \/ Heartbeat
    BY <2>1, <1>1 DEF ClaimCommands, SocketClosed, AgentConnect, DrainClaim, DrainDone, Heartbeat
  <2>2. CASE MarkStale \/ MarkUnregistered
    BY <1>1, <1>2, <2>2 DEF MarkStale, MarkUnregistered, RowsOffline
  <2>3. CASE ApplyResult
    <3>1. \E r, c, s : SetRow(r, Outcome(c, s))
      BY <2>3 DEF ApplyResult
    <3>2. \A r \in Replicas : row'[r] = "running" => row[r] = "running"
      BY <1>2, <3>1 DEF SetRow, Outcome
    <3> QED
      BY <1>1, <2>3, <3>2 DEF ApplyResult
  <2>4. ASSUME NEW c \in Cmd, DrainDiscard(c) PROVE Quiet
    BY <1>2, <2>4 DEF DrainDiscard, SetRow
  <2> QED
    BY <1>1, <1>5, <2>1, <2>2, <2>3, <2>4 DEF HandlerStep, AgentStep
<1>6. CASE ExecStep
  <2>1. UNCHANGED tunnel \/ \E S : Untunnel(S)
    BY <1>6 DEF ExecStep, TakeCommand, StartReplica, StopTunnelTask, RemoveContainer, SendResult
  <2>2. \A r \in Replicas : tunnel'[r] = "down" <=> tunnel[r] = "down"
    BY <1>2, <2>1, UntunnelKept
  <2>3. UNCHANGED <<row, stranded>>
    BY <1>6 DEF ExecStep, TakeCommand, StartReplica, StopTunnelTask, RemoveContainer, SendResult
  <2> QED
    BY <1>1, <2>2, <2>3
<1>7. ASSUME NEW r \in Replicas, TunnelStep(r) PROVE RunningIsWatched'
  <2>1. CASE TunnelOpens(r)
    BY <1>2, <2>1 DEF TunnelOpens, SetRow, RunningIsWatched
  <2>2. CASE TunnelCloses(r)
    BY <1>2, <2>2 DEF TunnelCloses, SetRow, RunningIsWatched
  <2> QED
    BY <1>7, <2>1, <2>2 DEF TunnelStep
<1>8. CASE FaultStep
  <2>1. CASE ServerRestart
    BY <2>1 DEF ServerRestart, RunningIsWatched
  <2>2. CASE EvictSocket
    BY <1>1, <2>2 DEF EvictSocket
  <2>3. ASSUME NEW S, Untunnel(S), UNCHANGED <<row, stranded>> PROVE Quiet
    BY <1>2, <2>3, UntunnelKept
  <2>4. CASE LinkDrops \/ AgentCrash \/ \E r \in Replicas : TunnelDrops(r)
    <3>1. \E S : Untunnel(S) /\ UNCHANGED <<row, stranded>>
      BY <2>4 DEF LinkDrops, AgentCrash, TunnelDrops
    <3> QED
      BY <1>1, <2>3, <3>1
  <2> QED
    BY <1>8, <2>1, <2>2, <2>4 DEF FaultStep
<1>9. CASE SweepAsk \/ SweepRemove \/ UNCHANGED vars
  BY <1>1, <1>9 DEF SweepAsk, SweepRemove, vars
<1>10. ASSUME NEW u \in Users, NEW r \in Replicas, NEW op \in {"start", "stop"},
              BeginRequest(u, r, op)
       PROVE  Quiet
  BY <1>10 DEF BeginRequest
<1>11. ASSUME NEW d \in Deployers, BeginDeploy(d) \/ DeployStep(d) PROVE RunningIsWatched'
  <2>1. UNCHANGED tunnel
    BY <1>11, DeployKinds DEF Deploys
  <2>2. ASSUME UNCHANGED stranded, \A r \in Replicas : row'[r] = "running" => row[r] = "running"
        PROVE  RunningIsWatched'
    BY <1>1, <2>1, <2>2
  <2>3. CASE BeginDeploy(d) \/ ZdNoPort(d) \/ ZdQueue(d) \/ ZdFails(d) \/ ZdRetire(d)
    BY <2>2, <2>3 DEF BeginDeploy, ZdNoPort, ZdQueue, ZdFails, ZdRetire
  <2>4. CASE ZdEnd(d) \/ ZdUndone(d)
    BY <2>2, <2>4 DEF ZdEnd, ZdUndone, DeleteInHand
  <2>5. ASSUME NEW r \in Replicas, ZdCheck(d, r) \/ ZdUndo(d, r) PROVE RunningIsWatched'
    BY <2>2, <2>5 DEF ZdCheck, ZdUndo
  <2>6. ASSUME NEW r \in Replicas, ZdStop(d, r) PROVE RunningIsWatched'
    BY <2>2, <2>6 DEF ZdStop, DeleteInHand
  <2>7. ASSUME NEW r \in Replicas, ZdInsert(d, r) PROVE RunningIsWatched'
    BY <1>2, <2>2, <2>7 DEF ZdInsert
  <2>8. ASSUME NEW r \in Replicas, ZdMark(d, r) PROVE RunningIsWatched'
    BY <1>2, <2>1, <2>8 DEF ZdMark, SetRow, RunningIsWatched
  <2> QED
    BY <1>11, <2>3, <2>4, <2>5, <2>6, <2>7, <2>8 DEF DeployStep
<1> QED
  BY <1>1, <1>3, <1>4, <1>5, <1>6, <1>7, <1>8, <1>9, <1>10, <1>11 DEF Next

(***************************************************************************)
(* A replica the table shows as running has a tunnel handler that will     *)
(* withdraw it, or since its last tunnel the control plane restarted or a  *)
(* deploy declared it running after its tunnel had gone: no request,       *)
(* result, recovery or sweep, and no other step of a deploy, makes a row   *)
(* running that nobody watches.                                            *)
(***************************************************************************)
THEOREM RunningReplicasAreWatched == Spec => []RunningIsWatched
<1>1. Init => RunningIsWatched
  BY DEF Init, RunningIsWatched
<1> QED
  BY <1>1, Invariant, WatchKept, PTL DEF Spec

-----------------------------------------------------------------------------
(***************************************************************************)
(* While nothing fails                                                     *)
(*                                                                         *)
(* StopSticks says nothing of commands on their way, and is not inductive. *)
(* It is once the model is known to treat the commands of a node in turn:  *)
(* they begin in the order they were queued, and their results arrive in   *)
(* that order, so that the last command of a replica has the last word.    *)
(***************************************************************************)

\* The node is never offline, so nothing is recovered and nothing is lost.
Calm ==
    /\ link = "up" /\ agent = "up" /\ nstat = "online"
    /\ registered
    /\ \A t \in Tasks : recov[t].at = "idle"
    /\ \A c \in Cmd : phase[c] # "lost"
    /\ \A u \in Users : users[u] # None => users[u].at \in {"queue", "commit"}

\* A request that is still to commit its status has a command that has not
\* begun: the agent is not faster than the request.
Announced ==
    \A u \in Users : (users[u] # None /\ users[u].at = "commit") =>
        \E c \in Cmd : target[c] = users[u].rid /\ phase[c] \in {"queued", "claimed"}

\* Commands pass through their phases in the order they were queued.
Ordered ==
    \A c, d \in Cmd : c < d =>
        /\ phase[d] \in Ended => phase[c] \in Ended
        /\ phase[d] = "running" => phase[c] \in Begun
        /\ phase[d] = "claimed" => phase[c] \in Begun \cup {"claimed"}
        /\ phase[d] = "queued" => phase[c] # "absent"

\* The results on their way are in that order too, before the command the
\* agent carries out, and no other command runs.
ResultsOrdered ==
    /\ \A i, j \in 1..Len(wire) : i < j => wire[i].cmd < wire[j].cmd
    /\ exec # NoExec => \A i \in 1..Len(wire) : wire[i].cmd < exec.cmd
    /\ \A c \in Cmd : phase[c] = "running" =>
          exec.cmd = c \/ \E i \in 1..Len(wire) : wire[i].cmd = c

\* The agent does what the command says, the tunnel before the container.
Doing ==
    /\ exec.at = "start" => kind[exec.cmd] = "start"
    /\ exec.at \in {"stop", "remove"} => kind[exec.cmd] = "stop"
    /\ exec.at = "remove" => target[exec.cmd] \notin task

\* The agent succeeded with command c, whether or not the result has arrived.
Succeeded(c) ==
    \/ phase[c] = "done"
    \/ exec = [cmd |-> c, at |-> "done"]
    \/ \E i \in 1..Len(wire) : wire[i] = [cmd |-> c, status |-> "done"]

\* No later command of the same replica has begun.
Latest(c) == \A d \in Cmd : (d > c /\ target[d] = target[c]) => phase[d] \notin Begun

\* What the latest stop took down stays down.
Gone ==
    \A c \in Cmd :
        (phase[c] \in Begun /\ kind[c] = "stop" /\ Succeeded(c) /\ Latest(c)) =>
            target[c] \notin container \cup task

\* A tunnel is up only as long as its task runs.
Tasked == \A r \in Replicas : tunnel[r] = "up" => r \in task

\* The row follows, once nothing is to come.
Down(r) == row[r] \in {"stopped", "absent"} \/ r \in stranded

RowStopped ==
    \A r \in Replicas : (~Busy(r) /\ LastDone("stop", r)) => Down(r)

QInv ==
    /\ Calm /\ Announced /\ Ordered /\ ResultsOrdered /\ Doing /\ Gone
    /\ Tasked /\ RowStopped

QuietStep ==
    \/ \E u \in Users, r \in Replicas, op \in {"start", "stop"} : BeginRequest(u, r, op)
    \/ \E u \in Users : RequestStep(u)
    \/ ClaimCommands \/ ApplyResult \/ ExecStep
    \/ \E r \in Replicas : TunnelStep(r)
    \/ Deploys
    \/ Heartbeat \/ SweepAsk \/ SweepRemove \/ UNCHANGED vars

\* Faults are counted and never forgotten.
LEMMA FaultsStay ==
    ASSUME IInv, [Next]_vars, faults' = 0
    PROVE  faults = 0 /\ ~FaultStep
<1>1. faults \in Nat
  BY DEF IInv, TypeOK
<1>2. FaultStep => faults' = faults + 1
  BY DEF FaultStep, LinkDrops, AgentCrash, ServerRestart, EvictSocket, TunnelDrops, Fault
<1>3. \A t \in Tasks : RecoverStep(t) => faults' = faults
  BY DEF RecoverStep, RecoverRead, RecoverQueue, RecoverSkip, RecoverMark
<1>4. AgentStep \/ HandlerStep \/ MarkUnregistered => faults' = faults
  BY DEF AgentStep, AgentConnect, DrainClaim, DrainDone, DrainDiscard, HandlerStep,
     ClaimCommands, ApplyResult, SocketClosed, MarkStale, MarkUnregistered
<1>5. ExecStep => faults' = faults
  BY DEF ExecStep, TakeCommand, StartReplica, StopTunnelTask, RemoveContainer, SendResult
<1>6. \A u \in Users : RequestStep(u) => faults' = faults
  BY DEF RequestStep, QueueRequested, CommitRequest
<1>7. ~FaultStep
  BY <1>1, <1>2
<1>8. Deploys => faults' = faults
  BY DeployKinds
<1> QED
  BY <1>3, <1>4, <1>5, <1>6, <1>7, <1>8 DEF Next, Deploys, TunnelStep, TunnelOpens, TunnelCloses,
     BeginRequest, Heartbeat, SweepAsk, SweepRemove, vars

\* A node that is never offline recovers nothing and drains nothing.
LEMMA OnlyQuietSteps ==
    ASSUME IInv, Calm, faults' = 0, [Next]_vars
    PROVE  QuietStep
<1>1. ~FaultStep
  BY FaultsStay
<1>2. \A t \in Tasks : ~RecoverStep(t)
  <2>1. \A t \in Tasks : recov[t].at \notin {"read", "next"} \cup Replicas
    BY ReplicaAssumption DEF Calm
  <2> QED
    BY <2>1 DEF RecoverStep, RecoverRead, RecoverQueue, RecoverSkip, RecoverMark
<1>3. ~AgentStep /\ ~SocketClosed /\ ~MarkStale /\ ~MarkUnregistered
  BY DEF Calm, AgentStep, AgentConnect, DrainClaim, DrainDone, DrainDiscard,
     SocketClosed, MarkStale, MarkUnregistered
<1> QED
  BY <1>1, <1>2, <1>3 DEF Next, QuietStep, HandlerStep, Deploys

LEMMA RequestQueues ==
    ASSUME IInv, NEW u \in Users, QueueRequested(u)
    PROVE  Queues /\ UNCHANGED nodeVars
<1>1. users[u] \in Request
  BY DEF QueueRequested, IInv, TypeOK
<1> QED
  BY <1>1 DEF QueueRequested, Queues, Request, Operation

\* What a quiet step does to the commands and their results.
LEMMA QuietKinds ==
    ASSUME IInv, QuietStep
    PROVE  \/ UNCHANGED <<cmdVars, execVars>>
           \/ Queues \/ ClaimCommands \/ ApplyResult \/ Works \/ SendResult
           \/ \E c \in Cmd : TakeCommand(c)
<1>1. ASSUME NEW u \in Users, RequestStep(u)
      PROVE  UNCHANGED <<cmdVars, execVars>> \/ Queues
  <2>1. CASE CommitRequest(u)
    BY <2>1 DEF CommitRequest
  <2>2. CASE QueueRequested(u)
    <3>1. users[u] \in Request
      BY <2>2 DEF QueueRequested, IInv, TypeOK
    <3> QED
      BY <2>2, <3>1 DEF QueueRequested, Queues, Request, Operation
  <2> QED
    BY <1>1, <2>1, <2>2 DEF RequestStep
<1>2. ASSUME NEW r \in Replicas, TunnelStep(r)
      PROVE  UNCHANGED <<cmdVars, execVars>>
  BY <1>2 DEF TunnelStep, TunnelOpens, TunnelCloses
<1>3. ASSUME NEW u \in Users, NEW r \in Replicas, NEW op \in {"start", "stop"},
             BeginRequest(u, r, op)
      PROVE  UNCHANGED <<cmdVars, execVars>>
  BY <1>3 DEF BeginRequest
<1>4. CASE Heartbeat \/ SweepAsk \/ SweepRemove \/ UNCHANGED vars
  BY <1>4 DEF Heartbeat, SweepAsk, SweepRemove, vars
<1>5. CASE Deploys
  BY <1>5, DeployKinds DEF execVars
<1> QED
  BY <1>1, <1>2, <1>3, <1>4, <1>5 DEF QuietStep, ExecStep, Works

\* All that is queued is claimed.
LEMMA ClaimAllEffect ==
    ASSUME IInv, ClaimCommands
    PROVE  /\ \A c \in Cmd : phase'[c] = IF phase[c] = "queued" THEN "claimed" ELSE phase[c]
           /\ UNCHANGED <<kind, target, exec, wire>>
<1> DEFINE S == {c \in Cmd : phase[c] = "queued"}
<1>1. Contract!Claim(S)
  BY DEF ClaimCommands
<1>2. \A c \in Cmd : phase'[c] = IF c \in S THEN "claimed" ELSE phase[c]
  BY <1>1, ClaimEffect
<1> QED
  BY <1>2 DEF ClaimCommands, execVars

\* The agent takes the claimed command that was queued first, if it is idle.
LEMMA TakeEffect ==
    ASSUME IInv, NEW c \in Cmd, TakeCommand(c)
    PROVE  /\ phase[c] = "claimed" /\ \A d \in Cmd : phase[d] = "claimed" => c <= d
           /\ phase' = [phase EXCEPT ![c] = "running"]
           /\ exec = NoExec /\ exec' = [cmd |-> c, at |-> kind[c]]
           /\ kind[c] \in Operation /\ target[c] \in Replicas
           /\ UNCHANGED <<kind, target, wire, container, task>>
           /\ phase \in [Cmd -> Contract!Phase]
<1>1. phase' = [phase EXCEPT ![c] = "running"]
  BY DEF TakeCommand, Contract!Start, Contract!Move, Contract!Cmd, Cmd, IInv, TypeOK
<1>2. kind[c] \in Operation /\ target[c] \in Replicas
  BY DEF TakeCommand, IInv, Known
<1> QED
  BY <1>1, <1>2 DEF TakeCommand, nodeVars, IInv, TypeOK

\* A step of an execution leaves the commands and the results alone.
LEMMA WorksEffect ==
    ASSUME IInv, Works
    PROVE  /\ exec # NoExec
           /\ exec \in [cmd: Cmd, at: {"start", "stop", "remove", "done", "failed"}]
           /\ exec' \in [cmd: Cmd, at: {"remove", "done", "failed"}]
           /\ exec'.cmd = exec.cmd
           /\ target[exec.cmd] \in Replicas
           /\ UNCHANGED <<kind, target, phase, wire>>
<1>1. exec # NoExec
  <2>1. exec.at \in {"start", "stop", "remove"}
    BY DEF Works, StartReplica, StopTunnelTask, RemoveContainer
  <2> QED
    BY <2>1, ReplicaAssumption DEF NoExec
<1>2. /\ exec \in [cmd: Cmd, at: {"start", "stop", "remove", "done", "failed"}]
      /\ target[exec.cmd] \in Replicas
  BY <1>1, ExecKnown
<1>3. PICK a \in {"remove", "done", "failed"} : exec' = [exec EXCEPT !.at = a]
  BY DEF Works, StartReplica, StopTunnelTask, RemoveContainer
<1>4. exec' \in [cmd: Cmd, at: {"remove", "done", "failed"}] /\ exec'.cmd = exec.cmd
  BY <1>2, <1>3
<1>5. UNCHANGED <<kind, target, phase, wire>>
  BY DEF Works, StartReplica, StopTunnelTask, RemoveContainer, cmdVars
<1> QED
  BY <1>1, <1>2, <1>4, <1>5

LEMMA ApplyEffect ==
    ASSUME IInv, ApplyResult
    PROVE  \E m \in Message :
             /\ m = wire[1] /\ 1 \in 1..Len(wire)
             /\ phase[m.cmd] = "running" /\ target[m.cmd] \in Replicas
             /\ phase' = [phase EXCEPT ![m.cmd] = m.status]
             /\ SetRow(target[m.cmd], Outcome(m.cmd, m.status))
             /\ wire' \in Seq(Message)
             /\ \A i \in 1..Len(wire') :
                   /\ i \in 1..Len(wire) /\ i + 1 \in 1..Len(wire)
                   /\ wire'[i] = wire[i + 1]
             /\ UNCHANGED <<kind, target, exec, users, recov, deploys, container, task, stranded>>
<1>1. wire # <<>> /\ wire' = Tail(wire)
  BY DEF ApplyResult
<1>2. /\ Head(wire) \in Message /\ Head(wire) = wire[1] /\ 1 \in 1..Len(wire)
      /\ phase[Head(wire).cmd] = "running" /\ target[Head(wire).cmd] \in Replicas
  BY <1>1, HeadKnown DEF Message
<1>3. /\ phase' = [phase EXCEPT ![Head(wire).cmd] = Head(wire).status]
      /\ SetRow(target[Head(wire).cmd], Outcome(Head(wire).cmd, Head(wire).status))
      /\ UNCHANGED <<kind, target, exec, users, recov, deploys, container, task, stranded>>
  BY DEF ApplyResult, planeVars, nodeVars
<1>4. /\ wire' \in Seq(Message)
      /\ \A i \in 1..Len(wire') :
            /\ i \in 1..Len(wire) /\ i + 1 \in 1..Len(wire)
            /\ wire'[i] = wire[i + 1]
  BY <1>1, TailKnown
<1> QED
  BY <1>2, <1>3, <1>4

\* A result leaves behind all others, and the agent is idle.
LEMMA SendEffect ==
    ASSUME IInv, SendResult
    PROVE  /\ exec # NoExec
           /\ exec \in [cmd: Cmd, at: {"start", "stop", "remove", "done", "failed"}]
           /\ exec' = NoExec
           /\ wire \in Seq(Message) /\ wire' \in Seq(Message)
           /\ wire' = IF phase[exec.cmd] = "running"
                        THEN Append(wire, [cmd |-> exec.cmd, status |-> exec.at]) ELSE wire
           /\ exec.at \in Ended
           /\ UNCHANGED <<kind, target, phase, container, task>>
<1>1. exec # NoExec /\ exec.at \in {"done", "failed"}
  BY ReplicaAssumption DEF SendResult, NoExec
<1>2. exec \in [cmd: Cmd, at: {"start", "stop", "remove", "done", "failed"}]
  BY <1>1, ExecKnown
<1>3. wire \in Seq(Message)
  BY WireMessages DEF IInv, TypeOK
<1>4. [cmd |-> exec.cmd, status |-> exec.at] \in Message
  BY <1>1, <1>2 DEF Message, Ended
<1>5. wire' = IF phase[exec.cmd] = "running"
                THEN Append(wire, [cmd |-> exec.cmd, status |-> exec.at]) ELSE wire
  BY DEF SendResult
<1>6. wire' \in Seq(Message)
  <2> DEFINE m == [cmd |-> exec.cmd, status |-> exec.at]
  <2>1. m \in Message /\ (wire' = Append(wire, m) \/ wire' = wire)
    BY <1>4, <1>5
  <2> HIDE DEF m
  <2> QED
    BY <1>3, <2>1
<1>7. UNCHANGED <<kind, target, phase, container, task>> /\ exec' = NoExec
  BY DEF SendResult, cmdVars, nodeVars
<1> QED
  BY <1>1, <1>2, <1>3, <1>5, <1>6, <1>7 DEF Ended

-----------------------------------------------------------------------------
\* No quiet step takes the node or its websocket away.
LEMMA CalmKept ==
    ASSUME IInv, Calm, QuietStep
    PROVE  Calm'
<1> USE DEF rowVars, cmdVars, planeVars, linkVars, execVars, nodeVars
<1>1. /\ UNCHANGED <<link, agent, registered, recov>>
      /\ nstat' = "online"
  BY DeployKinds DEF Calm, QuietStep, BeginRequest, RequestStep, QueueRequested, CommitRequest,
     ClaimCommands, ApplyResult, ExecStep, TakeCommand, StartReplica, StopTunnelTask,
     RemoveContainer, SendResult, TunnelStep, TunnelOpens, TunnelCloses, Heartbeat,
     SweepAsk, SweepRemove, vars
<1>2. \A c \in Cmd : phase'[c] # "lost"
  <2>1. \A c \in Cmd : phase[c] # "lost"
    BY DEF Calm
  <2>2. phase \in [Cmd -> Contract!Phase]
    BY DEF IInv, TypeOK
  <2>3. CASE UNCHANGED phase
    BY <2>1, <2>3
  <2>4. CASE Queues
    <3>1. PICK c \in Cmd : phase' = [phase EXCEPT ![c] = "queued"]
      BY <2>4, EnqueueEffect DEF Queues
    <3> QED
      BY <2>1, <2>2, <3>1
  <2>5. CASE ClaimCommands
    BY <2>1, <2>5, ClaimAllEffect
  <2>6. ASSUME NEW c \in Cmd, TakeCommand(c) PROVE \A d \in Cmd : phase'[d] # "lost"
    BY <2>1, <2>6, TakeEffect
  <2>7. CASE ApplyResult
    <3>1. PICK m \in Message : phase' = [phase EXCEPT ![m.cmd] = m.status]
      BY <2>7, ApplyEffect
    <3>2. m.status # "lost"
      BY DEF Message, Ended
    <3> QED
      BY <2>1, <2>2, <3>1, <3>2
  <2> QED
    BY <2>3, <2>4, <2>5, <2>6, <2>7, QuietKinds, WorksEffect, SendEffect DEF cmdVars
<1>3. \A u \in Users : users'[u] # None => users'[u].at \in {"queue", "commit"}
  <2>1. \A u \in Users : users[u] # None => users[u].at \in {"queue", "commit"}
    BY DEF Calm
  <2>2. users \in [Users -> Request \cup {None}] /\ nstat = "online"
    BY DEF IInv, TypeOK, Calm
  <2>3. ASSUME NEW u \in Users, NEW r \in Replicas, NEW op \in {"start", "stop"},
               BeginRequest(u, r, op)
        PROVE  users' = [users EXCEPT ![u] = [op |-> op, rid |-> r, seen |-> row[r], at |-> "queue"]]
    BY <2>2, <2>3 DEF BeginRequest
  <2>4. ASSUME NEW u \in Users, RequestStep(u)
        PROVE  \A v \in Users : users'[v] # None => users'[v].at \in {"queue", "commit"}
    <3>1. CASE QueueRequested(u)
      <4>1. users[u] \in Request /\ users' = [users EXCEPT ![u].at = "commit"]
        BY <2>2, <3>1 DEF QueueRequested
      <4>2. users'[u].at = "commit" /\ \A v \in Users : v # u => users'[v] = users[v]
        BY <2>2, <4>1 DEF Request
      <4> QED
        BY <2>1, <4>2
    <3>2. CASE CommitRequest(u)
      BY <2>1, <2>2, <3>2 DEF CommitRequest
    <3> QED
      BY <2>4, <3>1, <3>2 DEF RequestStep
  <2>5. \/ UNCHANGED users
        \/ \E u \in Users : RequestStep(u)
        \/ \E u \in Users, r \in Replicas, op \in {"start", "stop"} : BeginRequest(u, r, op)
    BY DeployKinds DEF QuietStep, ClaimCommands, ApplyResult, ExecStep, TakeCommand, StartReplica,
       StopTunnelTask, RemoveContainer, SendResult, TunnelStep, TunnelOpens, TunnelCloses,
       Heartbeat, SweepAsk, SweepRemove, vars
  <2> QED
    BY <2>1, <2>2, <2>3, <2>4, <2>5
<1> QED
  BY <1>1, <1>2, <1>3 DEF Calm

\* A command whose request is still to commit is not begun, as an agent is not
\* faster than the request.
LEMMA AnnouncedKept ==
    ASSUME ~Overtake, IInv, Calm, Announced, QuietStep
    PROVE  Announced'
<1> USE DEF rowVars, cmdVars, planeVars, linkVars, execVars, nodeVars
<1>1. users \in [Users -> Request \cup {None}] /\ phase \in [Cmd -> Contract!Phase]
  BY DEF IInv, TypeOK
<1>2. ASSUME \A c \in Cmd : phase[c] \in {"queued", "claimed"} =>
                 phase'[c] \in {"queued", "claimed"} /\ target'[c] = target[c],
             \A v \in Users : (users'[v] # None /\ users'[v].at = "commit") =>
                 users'[v] = users[v]
      PROVE  Announced'
  BY <1>2 DEF Announced
<1>3. ASSUME NEW u \in Users, NEW r \in Replicas, NEW op \in {"start", "stop"},
             BeginRequest(u, r, op)
      PROVE  Announced'
  <2>1. \A v \in Users : (users'[v] # None /\ users'[v].at = "commit") => users'[v] = users[v]
    <3>1. PICK a \in {"queue", "offline"} :
            users' = [users EXCEPT ![u] = [op |-> op, rid |-> r, seen |-> row[r], at |-> a]]
      BY <1>3 DEF BeginRequest
    <3> QED
      BY <1>1, <3>1
  <2> QED
    BY <1>2, <1>3, <2>1 DEF BeginRequest
<1>4. ASSUME NEW u \in Users, CommitRequest(u) PROVE Announced'
  BY <1>1, <1>2, <1>4 DEF CommitRequest
<1>5. ASSUME NEW u \in Users, QueueRequested(u) PROVE Announced'
  <2>1. users[u] \in Request /\ users' = [users EXCEPT ![u].at = "commit"]
    BY <1>1, <1>5 DEF QueueRequested
  <2>2. PICK c \in Cmd : /\ phase[c] = "absent"
                         /\ phase' = [phase EXCEPT ![c] = "queued"]
                         /\ target' = [target EXCEPT ![c] = users[u].rid]
    BY <1>5, <2>1, EnqueueEffect DEF QueueRequested, Request, Operation
  <2>3. target \in [Cmd -> Replicas \cup {None}]
    BY DEF IInv, TypeOK
  <2>4. phase'[c] = "queued" /\ target'[c] = users[u].rid
    BY <1>1, <2>2, <2>3
  <2>5. \A d \in Cmd : phase[d] \in {"queued", "claimed"} => phase'[d] = phase[d] /\ target'[d] = target[d]
    BY <1>1, <2>2, <2>3
  <2>6. users'[u].rid = users[u].rid /\ \A v \in Users : v # u => users'[v] = users[v]
    BY <1>1, <2>1 DEF Request
  <2> QED
    BY <2>4, <2>5, <2>6 DEF Announced
<1>6. CASE ClaimCommands
  <2>1. UNCHANGED users
    BY <1>6 DEF ClaimCommands
  <2> QED
    BY <1>2, <1>6, <2>1, ClaimAllEffect
<1>7. CASE ApplyResult
  <2>1. PICK m \in Message : /\ phase[m.cmd] = "running"
                             /\ phase' = [phase EXCEPT ![m.cmd] = m.status]
                             /\ UNCHANGED <<target, users>>
    BY <1>7, ApplyEffect
  <2>2. \A c \in Cmd : phase[c] \in {"queued", "claimed"} => phase'[c] = phase[c]
    BY <1>1, <2>1
  <2> QED
    BY <1>2, <2>1, <2>2
<1>8. ASSUME NEW c \in Cmd, TakeCommand(c) PROVE Announced'
  <2>1. \A u \in Users : users[u] # None => users[u].rid # target[c]
    BY <1>8 DEF TakeCommand, RequestDone
  <2>2. UNCHANGED <<users, target>> /\ \A d \in Cmd : d # c => phase'[d] = phase[d]
    BY <1>1, <1>8, TakeEffect DEF TakeCommand
  <2> QED
    BY <2>1, <2>2 DEF Announced
<1>9. ASSUME UNCHANGED <<users, phase, target>> PROVE Announced'
  BY <1>9 DEF Announced
<1>10. CASE StartReplica \/ StopTunnelTask \/ RemoveContainer \/ SendResult
  BY <1>9, <1>10 DEF StartReplica, StopTunnelTask, RemoveContainer, SendResult
<1>11. CASE Heartbeat \/ SweepAsk \/ SweepRemove \/ UNCHANGED vars \/ \E r \in Replicas : TunnelStep(r)
  BY <1>9, <1>11 DEF TunnelStep, TunnelOpens, TunnelCloses, Heartbeat, SweepAsk, SweepRemove, vars
<1>12. CASE Deploys
  <2>1. UNCHANGED users
    BY <1>12, DeployKinds
  <2>2. CASE UNCHANGED cmdVars
    BY <1>9, <2>1, <2>2
  <2>3. CASE Queues
    <3>1. PICK c \in Cmd : /\ phase[c] = "absent"
                           /\ phase' = [phase EXCEPT ![c] = "queued"]
                           /\ \E q \in Replicas : target' = [target EXCEPT ![c] = q]
      BY <2>3, EnqueueEffect DEF Queues
    <3>2. \A d \in Cmd : phase[d] \in {"queued", "claimed"} => phase'[d] = phase[d] /\ target'[d] = target[d]
      BY <1>1, <3>1 DEF IInv, TypeOK
    <3> QED
      BY <1>2, <2>1, <3>2
  <2> QED
    BY <1>12, <2>2, <2>3, DeployKinds
<1> QED
  BY <1>3, <1>4, <1>5, <1>6, <1>7, <1>8, <1>10, <1>11, <1>12 DEF QuietStep, RequestStep, ExecStep

\* The command whose result arrives next is the first that runs.
LEMMA HeadIsFirst ==
    ASSUME IInv, ResultsOrdered, NEW m \in Message, m = wire[1], 1 \in 1..Len(wire),
           NEW c \in Cmd, phase[c] = "running"
    PROVE  m.cmd <= c
<1>1. /\ wire \in Seq(Message) /\ Len(wire) \in Nat
      /\ \A i \in 1..Len(wire) : wire[i].cmd \in Cmd
  BY WireMessages DEF IInv, TypeOK
<1>2. CASE exec.cmd = c
  <2>1. exec # NoExec
    BY <1>2, ReplicaAssumption DEF NoExec
  <2>2. m.cmd < c
    BY <1>2, <2>1 DEF ResultsOrdered
  <2> QED
    BY <1>1, <2>2 DEF Cmd
<1>3. ASSUME NEW i \in 1..Len(wire), wire[i].cmd = c PROVE m.cmd <= c
  <2>1. CASE i = 1
    BY <1>3, <2>1 DEF Cmd
  <2>2. CASE i # 1
    <3>1. 1 < i
      BY <1>1, <2>2
    <3>2. m.cmd < c
      BY <1>3, <3>1 DEF ResultsOrdered
    <3> QED
      BY <1>1, <3>2 DEF Cmd
  <2> QED
    BY <2>1, <2>2
<1> QED
  BY <1>2, <1>3 DEF ResultsOrdered

LEMMA OrderedKept ==
    ASSUME IInv, Calm, Ordered, ResultsOrdered, QuietStep
    PROVE  Ordered'
<1>1. phase \in [Cmd -> Contract!Phase] /\ \A c \in Cmd : phase[c] # "lost"
  BY DEF IInv, TypeOK, Calm
<1>2. CASE UNCHANGED phase
  BY <1>2 DEF Ordered
<1>3. CASE Queues
  <2>1. PICK c \in Cmd : /\ Contract!Submit(c)
                         /\ phase[c] = "absent"
                         /\ phase' = [phase EXCEPT ![c] = "queued"]
    BY <1>3, EnqueueEffect DEF Queues
  <2>2. \A d \in Cmd : d < c => phase[d] # "absent"
    BY <2>1 DEF Contract!Submit, Contract!Cmd, Cmd
  <2>3. \A d \in Cmd : c < d => phase[d] = "absent"
    BY <1>1, <2>1 DEF Ordered, Contract!Phase, Ended, Begun
  <2>4. phase'[c] = "queued" /\ \A d \in Cmd : d # c => phase'[d] = phase[d]
    BY <1>1, <2>1
  <2>5. \A d \in Cmd : d < c \/ d = c \/ c < d
    BY DEF Cmd
  <2>6. ASSUME NEW x \in Cmd, NEW y \in Cmd, x < y
        PROVE  /\ phase'[y] \in Ended => phase'[x] \in Ended
               /\ phase'[y] = "running" => phase'[x] \in Begun
               /\ phase'[y] = "claimed" => phase'[x] \in Begun \cup {"claimed"}
               /\ phase'[y] = "queued" => phase'[x] # "absent"
    <3>1. CASE x = c
      BY <2>3, <2>4, <2>6, <3>1 DEF Ended, Cmd
    <3>2. CASE x # c /\ y = c
      BY <2>2, <2>4, <2>6, <3>2 DEF Ended
    <3>3. CASE x # c /\ y # c
      BY <2>4, <2>6, <3>3 DEF Ordered
    <3> QED
      BY <3>1, <3>2, <3>3
  <2> QED
    BY <2>6 DEF Ordered
<1>4. CASE ClaimCommands
  BY <1>1, <1>4, ClaimAllEffect DEF Ordered, Ended, Begun, Contract!Phase
<1>5. ASSUME NEW c \in Cmd, TakeCommand(c) PROVE Ordered'
  <2>1. /\ phase[c] = "claimed" /\ \A d \in Cmd : phase[d] = "claimed" => c <= d
        /\ phase'[c] = "running" /\ \A d \in Cmd : d # c => phase'[d] = phase[d]
    BY <1>1, <1>5, TakeEffect
  <2>2. \A x \in Cmd : x < c => phase[x] \in Begun
    <3>1. \A x \in Cmd : x < c => phase[x] # "claimed"
      BY <2>1 DEF Cmd
    <3> QED
      BY <2>1, <3>1 DEF Ordered
  <2>3. ASSUME NEW x \in Cmd, NEW y \in Cmd, x < y
        PROVE  /\ phase'[y] \in Ended => phase'[x] \in Ended
               /\ phase'[y] = "running" => phase'[x] \in Begun
               /\ phase'[y] = "claimed" => phase'[x] \in Begun \cup {"claimed"}
               /\ phase'[y] = "queued" => phase'[x] # "absent"
    <3>1. x # y
      BY <2>3 DEF Cmd
    <3>2. CASE y = c
      BY <2>1, <2>2, <2>3, <3>1, <3>2 DEF Ended
    <3>3. CASE y # c /\ x = c
      BY <2>1, <2>3, <3>3 DEF Ordered, Ended, Begun
    <3>4. CASE y # c /\ x # c
      BY <2>1, <2>3, <3>4 DEF Ordered
    <3> QED
      BY <3>2, <3>3, <3>4
  <2> QED
    BY <2>3 DEF Ordered
<1>6. CASE ApplyResult
  <2>1. PICK m \in Message : /\ m = wire[1] /\ 1 \in 1..Len(wire)
                             /\ phase[m.cmd] = "running"
                             /\ phase' = [phase EXCEPT ![m.cmd] = m.status]
    BY <1>6, ApplyEffect
  <2>2. m.cmd \in Cmd /\ m.status \in Ended
    BY DEF Message
  <2>3. phase'[m.cmd] \in Ended /\ \A d \in Cmd : d # m.cmd => phase'[d] = phase[d]
    BY <1>1, <2>1, <2>2
  <2>4. \A x \in Cmd : x < m.cmd => phase[x] \in Ended
    <3>1. \A x \in Cmd : x < m.cmd => phase[x] # "running"
      BY <2>1, <2>2, HeadIsFirst DEF Cmd
    <3> QED
      BY <2>1, <2>2, <3>1 DEF Ordered, Begun, Ended
  <2>5. ASSUME NEW x \in Cmd, NEW y \in Cmd, x < y
        PROVE  /\ phase'[y] \in Ended => phase'[x] \in Ended
               /\ phase'[y] = "running" => phase'[x] \in Begun
               /\ phase'[y] = "claimed" => phase'[x] \in Begun \cup {"claimed"}
               /\ phase'[y] = "queued" => phase'[x] # "absent"
    <3>1. x # y
      BY <2>5 DEF Cmd
    <3>2. CASE y = m.cmd
      BY <2>2, <2>3, <2>4, <2>5, <3>1, <3>2 DEF Ended
    <3>3. CASE y # m.cmd /\ x = m.cmd
      BY <2>3, <3>3 DEF Ended, Begun
    <3>4. CASE y # m.cmd /\ x # m.cmd
      BY <2>3, <2>5, <3>4 DEF Ordered
    <3> QED
      BY <3>2, <3>3, <3>4
  <2> QED
    BY <2>5 DEF Ordered
<1> QED
  BY <1>2, <1>3, <1>4, <1>5, <1>6, QuietKinds, WorksEffect, SendEffect DEF cmdVars

\* A result is sent after those of the commands that ran before, and no two
\* commands run at a time.
LEMMA ResultsOrderedKept ==
    ASSUME IInv, Calm, Ordered, ResultsOrdered, QuietStep
    PROVE  ResultsOrdered'
<1>1. phase \in [Cmd -> Contract!Phase] /\ \A c \in Cmd : phase[c] # "lost"
  BY DEF IInv, TypeOK, Calm
<1>2. /\ wire \in Seq(Message) /\ Len(wire) \in Nat
      /\ \A i \in 1..Len(wire) : wire[i].cmd \in Cmd
  BY WireMessages DEF IInv, TypeOK
<1>3. ASSUME UNCHANGED wire, exec'.cmd = exec.cmd, exec' # NoExec => exec # NoExec,
             \A c \in Cmd : phase'[c] = "running" => phase[c] = "running"
      PROVE  ResultsOrdered'
  BY <1>3 DEF ResultsOrdered
<1>4. CASE UNCHANGED <<cmdVars, execVars>>
  BY <1>3, <1>4 DEF cmdVars, execVars
<1>5. CASE Queues
  <2>1. PICK c \in Cmd : phase' = [phase EXCEPT ![c] = "queued"]
    BY <1>5, EnqueueEffect DEF Queues
  <2> QED
    BY <1>1, <1>3, <1>5, <2>1 DEF Queues, execVars
<1>6. CASE ClaimCommands
  BY <1>3, <1>6, ClaimAllEffect
<1>7. CASE Works
  BY <1>3, <1>7, WorksEffect
<1>8. ASSUME NEW c \in Cmd, TakeCommand(c) PROVE ResultsOrdered'
  <2>1. /\ phase[c] = "claimed" /\ exec = NoExec /\ exec' = [cmd |-> c, at |-> kind[c]]
        /\ phase'[c] = "running" /\ \A d \in Cmd : d # c => phase'[d] = phase[d]
        /\ UNCHANGED wire
    BY <1>1, <1>8, TakeEffect
  <2>2. \A i \in 1..Len(wire) : wire[i].cmd < c
    <3>1. \A d \in Cmd : phase[d] = "running" => ~(c < d) /\ c # d
      BY <2>1 DEF Ordered, Begun
    <3>2. \A i \in 1..Len(wire) : phase[wire[i].cmd] = "running"
      BY DEF IInv, Carried
    <3> QED
      BY <1>2, <3>1, <3>2 DEF Cmd
  <2>3. \A d \in Cmd : phase'[d] = "running" =>
            exec'.cmd = d \/ \E i \in 1..Len(wire) : wire[i].cmd = d
    <3>1. exec.cmd \notin Cmd
      BY <2>1, ReplicaAssumption DEF NoExec
    <3> QED
      BY <2>1, <3>1 DEF ResultsOrdered
  <2>4. exec'.cmd = c
    BY <2>1
  <2> QED
    BY <2>1, <2>2, <2>3, <2>4 DEF ResultsOrdered
<1>9. CASE SendResult
  <2>1. /\ exec # NoExec /\ exec' = NoExec /\ exec.cmd \in Cmd
        /\ wire' = IF phase[exec.cmd] = "running"
                     THEN Append(wire, [cmd |-> exec.cmd, status |-> exec.at]) ELSE wire
        /\ UNCHANGED phase
    BY <1>9, SendEffect
  <2>2. phase[exec.cmd] = "running"
    BY <1>1, <2>1 DEF IInv, Executing
  <2>3. PICK m : m = [cmd |-> exec.cmd, status |-> exec.at]
    OBVIOUS
  <2>4. m.cmd = exec.cmd /\ wire' = Append(wire, m)
    BY <2>1, <2>2, <2>3
  <2>5. /\ Len(wire') = Len(wire) + 1 /\ wire'[Len(wire) + 1] = m
        /\ \A i \in 1..Len(wire) : wire'[i] = wire[i]
    BY <1>2, <2>4
  <2>6. \A i, j \in 1..Len(wire') : i < j => wire'[i].cmd < wire'[j].cmd
    <3>1. ASSUME NEW i \in 1..Len(wire'), NEW j \in 1..Len(wire'), i < j
          PROVE  wire'[i].cmd < wire'[j].cmd
      <4>1. i \in 1..Len(wire)
        BY <1>2, <2>5, <3>1
      <4>2. CASE j = Len(wire) + 1
        BY <2>1, <2>4, <2>5, <4>1, <4>2 DEF ResultsOrdered
      <4>3. CASE j \in 1..Len(wire)
        BY <2>5, <3>1, <4>1, <4>3 DEF ResultsOrdered
      <4> QED
        BY <1>2, <2>5, <4>2, <4>3
    <3> QED
      BY <3>1
  <2>7. \A c \in Cmd : phase[c] = "running" => \E i \in 1..Len(wire') : wire'[i].cmd = c
    <3>1. ASSUME NEW c \in Cmd, phase[c] = "running"
          PROVE  \E i \in 1..Len(wire') : wire'[i].cmd = c
      <4>1. CASE exec.cmd = c
        <5>1. Len(wire) + 1 \in 1..Len(wire')
          BY <1>2, <2>5
        <5> QED
          BY <2>4, <2>5, <4>1, <5>1
      <4>2. ASSUME NEW i \in 1..Len(wire), wire[i].cmd = c
            PROVE  \E j \in 1..Len(wire') : wire'[j].cmd = c
        <5>1. i \in 1..Len(wire')
          BY <1>2, <2>5
        <5> QED
          BY <2>5, <4>2, <5>1
      <4> QED
        BY <3>1, <4>1, <4>2 DEF ResultsOrdered
    <3> QED
      BY <3>1
  <2> QED
    BY <2>1, <2>6, <2>7 DEF ResultsOrdered
<1>10. CASE ApplyResult
  <2>1. PICK m \in Message :
             /\ m = wire[1] /\ 1 \in 1..Len(wire)
             /\ phase[m.cmd] = "running"
             /\ phase' = [phase EXCEPT ![m.cmd] = m.status]
             /\ wire' \in Seq(Message) /\ wire' = Tail(wire)
             /\ \A i \in 1..Len(wire') :
                   /\ i \in 1..Len(wire) /\ i + 1 \in 1..Len(wire)
                   /\ wire'[i] = wire[i + 1]
             /\ UNCHANGED exec
    BY <1>10, ApplyEffect DEF ApplyResult
  <2>2. \A i, j \in 1..Len(wire') : i < j => wire'[i].cmd < wire'[j].cmd
    <3>1. \A i, j \in 1..Len(wire') : i < j => i + 1 < j + 1
      BY <2>1
    <3> QED
      BY <2>1, <3>1 DEF ResultsOrdered
  <2>3. exec' # NoExec => \A i \in 1..Len(wire') : wire'[i].cmd < exec'.cmd
    BY <2>1 DEF ResultsOrdered
  <2>4. \A c \in Cmd : phase'[c] = "running" =>
            exec.cmd = c \/ \E i \in 1..Len(wire') : wire'[i].cmd = c
    <3>1. ASSUME NEW c \in Cmd, phase'[c] = "running", exec.cmd # c
          PROVE  \E i \in 1..Len(wire') : wire'[i].cmd = c
      <4>1. m.cmd \in Cmd /\ m.status # "running"
        BY DEF Message, Ended
      <4>2. phase[c] = "running" /\ c # m.cmd
        BY <1>1, <2>1, <3>1, <4>1
      <4>3. PICK j \in 1..Len(wire) : wire[j].cmd = c
        BY <3>1, <4>2 DEF ResultsOrdered
      <4>4. j # 1
        BY <2>1, <4>2, <4>3
      <4>5. Len(wire') = Len(wire) - 1
        BY <1>2, <2>1
      <4>6. j - 1 \in 1..Len(wire') /\ (j - 1) + 1 = j
        BY <1>2, <4>4, <4>5
      <4>7. wire'[j - 1] = wire[j]
        BY <2>1, <4>6
      <4> QED
        BY <4>3, <4>6, <4>7
    <3> QED
      BY <3>1
  <2> QED
    BY <2>1, <2>2, <2>3, <2>4 DEF ResultsOrdered
<1> QED
  BY <1>4, <1>5, <1>6, <1>7, <1>8, <1>9, <1>10, QuietKinds

\* The agent goes through the steps of its command.
LEMMA DoingKept ==
    ASSUME IInv, Doing, QuietStep
    PROVE  Doing'
<1>1. phase \in [Cmd -> Contract!Phase] /\ kind \in [Cmd -> {"start", "stop", None}]
      /\ target \in [Cmd -> Replicas \cup {None}]
  BY DEF IInv, TypeOK
<1>2. ASSUME UNCHANGED <<kind, target, exec>>, task' \subseteq task PROVE Doing'
  BY <1>2 DEF Doing
<1>3. ASSUME Queues, UNCHANGED task PROVE Doing'
  <2>1. PICK c \in Cmd : phase[c] = "absent" /\ \A d \in Cmd : d # c =>
                            kind'[d] = kind[d] /\ target'[d] = target[d]
    BY <1>1, <1>3, EnqueueEffect DEF Queues
  <2>2. UNCHANGED <<exec, task>>
    BY <1>3 DEF Queues, execVars
  <2>3. CASE exec = NoExec
    BY <2>2, <2>3, ReplicaAssumption DEF Doing, NoExec
  <2>4. CASE exec # NoExec
    <3>1. exec.cmd \in Cmd /\ phase[exec.cmd] \in {"running", "lost"}
      BY <2>4, ExecKnown
    <3>2. kind'[exec.cmd] = kind[exec.cmd] /\ target'[exec.cmd] = target[exec.cmd]
      BY <2>1, <3>1
    <3> QED
      BY <2>2, <3>2 DEF Doing
  <2> QED
    BY <2>3, <2>4
<1>4. ASSUME NEW c \in Cmd, TakeCommand(c) PROVE Doing'
  <2>1. exec' = [cmd |-> c, at |-> kind[c]] /\ kind[c] \in Operation /\ UNCHANGED kind
    BY <1>4, TakeEffect
  <2> QED
    BY <2>1 DEF Doing, Operation
<1>5. CASE SendResult
  BY <1>5, SendEffect, ReplicaAssumption DEF Doing, NoExec
<1>6. CASE StartReplica
  <2>1. exec' \in [cmd: Cmd, at: {"remove", "done", "failed"}]
    BY <1>6, WorksEffect DEF Works
  <2>2. exec'.at \in {"done", "failed"}
    <3>1. exec \in [cmd: Cmd, at: {"start", "stop", "remove", "done", "failed"}]
      BY <1>6, WorksEffect DEF Works
    <3> QED
      BY <1>6, <3>1 DEF StartReplica
  <2> QED
    BY <2>2 DEF Doing
<1>7. CASE StopTunnelTask
  <2>1. /\ exec \in [cmd: Cmd, at: {"start", "stop", "remove", "done", "failed"}]
        /\ UNCHANGED <<kind, target>>
    BY <1>7, WorksEffect DEF Works
  <2>2. exec' = [exec EXCEPT !.at = "remove"] /\ exec.at = "stop"
        /\ task' = task \ {target[exec.cmd]}
    BY <1>7 DEF StopTunnelTask
  <2>3. exec'.at = "remove" /\ exec'.cmd = exec.cmd
    BY <2>1, <2>2
  <2> QED
    BY <2>1, <2>2, <2>3 DEF Doing
<1>8. CASE RemoveContainer
  <2>1. exec \in [cmd: Cmd, at: {"start", "stop", "remove", "done", "failed"}]
    BY <1>8, WorksEffect DEF Works
  <2>2. exec'.at \in {"done", "failed"}
    BY <1>8, <2>1 DEF RemoveContainer
  <2> QED
    BY <2>2 DEF Doing
<1>9. ASSUME NEW u \in Users, CommitRequest(u) PROVE Doing'
  BY <1>2, <1>9 DEF CommitRequest, cmdVars, execVars, nodeVars
<1>10. ASSUME NEW u \in Users, NEW r \in Replicas, NEW op \in {"start", "stop"},
              BeginRequest(u, r, op)
       PROVE  Doing'
  BY <1>2, <1>10 DEF BeginRequest, cmdVars, execVars, nodeVars
<1>11. CASE ClaimCommands \/ ApplyResult
  BY <1>2, <1>11 DEF ClaimCommands, ApplyResult, execVars, nodeVars
<1>12. ASSUME NEW r \in Replicas, TunnelStep(r) PROVE Doing'
  BY <1>2, <1>12 DEF TunnelStep, TunnelOpens, TunnelCloses, cmdVars, execVars, nodeVars
<1>13. CASE Heartbeat \/ SweepAsk \/ SweepRemove \/ UNCHANGED vars
  BY <1>2, <1>13 DEF Heartbeat, SweepAsk, SweepRemove, vars, cmdVars, execVars, nodeVars
<1>14. ASSUME NEW u \in Users, QueueRequested(u) PROVE Doing'
  BY <1>3, <1>14, RequestQueues DEF nodeVars
<1>15. CASE Deploys
  BY <1>2, <1>3, <1>15, DeployKinds DEF cmdVars
<1> QED
  BY <1>4, <1>5, <1>6, <1>7, <1>8, <1>9, <1>10, <1>11, <1>12, <1>13, <1>14, <1>15
     DEF QuietStep, RequestStep, ExecStep

\* A stop stays the latest that succeeded until another command of the replica
\* begins, and while nothing brings its container or its tunnel task back.
LEMMA GoneStays ==
    ASSUME Gone, container' \subseteq container, task' \subseteq task,
           \A c \in Cmd : phase[c] \in Begun =>
               phase'[c] \in Begun /\ target'[c] = target[c] /\ kind'[c] = kind[c],
           \A c \in Cmd : (phase'[c] \in Begun /\ Succeeded(c)') =>
               phase[c] \in Begun /\ Succeeded(c)
    PROVE  Gone'
<1>1. ASSUME NEW c \in Cmd, phase'[c] \in Begun, kind'[c] = "stop", Succeeded(c)', Latest(c)'
      PROVE  target'[c] \notin container' \cup task'
  <2>1. phase[c] \in Begun /\ Succeeded(c)
    BY <1>1
  <2>2. kind[c] = "stop" /\ target'[c] = target[c]
    BY <1>1, <2>1
  <2>3. ASSUME NEW d \in Cmd, d > c, target[d] = target[c], phase[d] \in Begun PROVE FALSE
    BY <1>1, <2>2, <2>3 DEF Latest
  <2>4. Latest(c)
    BY <2>3 DEF Latest
  <2> QED
    BY <2>1, <2>2, <2>4 DEF Gone
<1> QED
  BY <1>1 DEF Gone

\* The command that is carried out is the last that has begun.
LEMMA ExecIsLast ==
    ASSUME IInv, Calm, Ordered, ResultsOrdered, exec # NoExec, NEW c \in Cmd,
           c # exec.cmd, phase[c] \in Begun
    PROVE  c < exec.cmd
<1>1. exec.cmd \in Cmd /\ phase[exec.cmd] = "running"
  BY ExecKnown DEF Calm
<1>2. CASE phase[c] = "running"
  <2>1. PICK i \in 1..Len(wire) : wire[i].cmd = c
    BY <1>2 DEF ResultsOrdered
  <2> QED
    BY <2>1 DEF ResultsOrdered
<1>3. CASE phase[c] \in Ended
  <2>1. ~(exec.cmd < c)
    BY <1>1, <1>3 DEF Ordered, Ended
  <2> QED
    BY <1>1, <2>1 DEF Cmd
<1> QED
  BY <1>2, <1>3 DEF Begun, Ended

LEMMA GoneKept ==
    ASSUME IInv, Calm, Ordered, ResultsOrdered, Doing, Gone, QuietStep
    PROVE  Gone'
<1>1. /\ phase \in [Cmd -> Contract!Phase] /\ target \in [Cmd -> Replicas \cup {None}]
      /\ kind \in [Cmd -> {"start", "stop", None}]
  BY DEF IInv, TypeOK
<1>2. ASSUME UNCHANGED <<cmdVars, execVars, task>>, container' \subseteq container PROVE Gone'
  <2>1. UNCHANGED <<phase, kind, target, exec, wire>>
    BY <1>2 DEF cmdVars, execVars
  <2>2. \A c \in Cmd : Succeeded(c)' => Succeeded(c)
    BY <2>1 DEF Succeeded
  <2> QED
    BY <1>2, <2>1, <2>2, GoneStays
<1>3. ASSUME Queues, UNCHANGED <<container, task>> PROVE Gone'
  <2>2. PICK c \in Cmd : /\ phase[c] = "absent" /\ phase'[c] = "queued"
                         /\ \A d \in Cmd : d # c => /\ kind'[d] = kind[d] /\ target'[d] = target[d]
                                                    /\ phase'[d] = phase[d]
    BY <1>1, <1>3, EnqueueEffect DEF Queues
  <2>3. UNCHANGED <<exec, wire, task, container>>
    BY <1>3 DEF Queues, execVars
  <2>4. \A d \in Cmd : phase[d] \in Begun =>
            phase'[d] \in Begun /\ target'[d] = target[d] /\ kind'[d] = kind[d]
    BY <2>2 DEF Begun
  <2>5. \A d \in Cmd : (phase'[d] \in Begun /\ Succeeded(d)') => phase[d] \in Begun /\ Succeeded(d)
    BY <2>2, <2>3 DEF Begun, Succeeded
  <2> QED
    BY <2>3, <2>4, <2>5, GoneStays
<1>4. CASE ClaimCommands
  <2>1. /\ \A c \in Cmd : phase'[c] = IF phase[c] = "queued" THEN "claimed" ELSE phase[c]
        /\ UNCHANGED <<kind, target, exec, wire, task, container>>
    BY <1>4, ClaimAllEffect DEF ClaimCommands, nodeVars
  <2>2. \A d \in Cmd : phase[d] \in Begun =>
            phase'[d] \in Begun /\ target'[d] = target[d] /\ kind'[d] = kind[d]
    BY <2>1 DEF Begun
  <2>3. \A d \in Cmd : (phase'[d] \in Begun /\ Succeeded(d)') => phase[d] \in Begun /\ Succeeded(d)
    BY <2>1 DEF Begun, Succeeded
  <2> QED
    BY <2>1, <2>2, <2>3, GoneStays
<1>5. ASSUME NEW c \in Cmd, TakeCommand(c) PROVE Gone'
  <2>1. /\ phase[c] = "claimed" /\ phase'[c] = "running"
        /\ \A d \in Cmd : d # c => phase'[d] = phase[d]
        /\ exec' = [cmd |-> c, at |-> kind[c]] /\ kind[c] \in Operation
        /\ UNCHANGED <<kind, target, wire, container, task>>
    BY <1>1, <1>5, TakeEffect
  <2>2. \A d \in Cmd : phase[d] \in Begun => phase'[d] \in Begun
    BY <2>1 DEF Begun
  <2>3. ~Succeeded(c)'
    <3>1. exec' # [cmd |-> c, at |-> "done"]
      BY <2>1 DEF Operation
    <3>2. \A i \in 1..Len(wire) : wire[i] # [cmd |-> c, status |-> "done"]
      <4>1. \A i \in 1..Len(wire) : phase[wire[i].cmd] = "running"
        BY DEF IInv, Carried
      <4> QED
        BY <2>1, <4>1
    <3> QED
      BY <2>1, <3>1, <3>2 DEF Succeeded
  <2>4. ASSUME NEW d \in Cmd, phase'[d] \in Begun, Succeeded(d)'
        PROVE  phase[d] \in Begun /\ Succeeded(d)
    <3>1. d # c
      BY <2>3, <2>4
    <3>2. exec' # [cmd |-> d, at |-> "done"]
      BY <2>1, <3>1
    <3> QED
      BY <2>1, <2>4, <3>1, <3>2 DEF Succeeded
  <2> QED
    BY <2>1, <2>2, <2>4, GoneStays
<1>6. CASE Works
  <2>1. /\ exec # NoExec
        /\ exec \in [cmd: Cmd, at: {"start", "stop", "remove", "done", "failed"}]
        /\ exec' \in [cmd: Cmd, at: {"remove", "done", "failed"}]
        /\ exec'.cmd = exec.cmd
        /\ UNCHANGED <<kind, target, phase, wire>>
    BY <1>6, WorksEffect
  <2>2. phase[exec.cmd] = "running"
    BY <2>1, ExecKnown DEF Calm
  <2>3. ASSUME NEW c \in Cmd, c # exec.cmd, Succeeded(c)' PROVE Succeeded(c)
    BY <2>1, <2>3 DEF Succeeded
  <2>4. ASSUME NEW c \in Cmd, exec'.at # "done", Succeeded(c)' PROVE Succeeded(c)
    BY <2>1, <2>4 DEF Succeeded
  <2>5. CASE exec'.at # "done"
    <3>1. container' \subseteq container /\ task' \subseteq task
      <4>1. StartReplica => exec' = [exec EXCEPT !.at = "failed"] \/ exec' = [exec EXCEPT !.at = "done"]
        BY DEF StartReplica
      <4>2. [exec EXCEPT !.at = "done"].at = "done"
        BY <2>1
      <4>3. StartReplica => UNCHANGED <<container, task>>
        BY <2>5, <4>2 DEF StartReplica
      <4> QED
        BY <1>6, <4>3 DEF Works, StopTunnelTask, RemoveContainer
    <3> QED
      BY <2>1, <2>4, <2>5, <3>1, GoneStays
  <2>6. CASE exec'.at = "done"
    <3>1. (exec.at \in {"start", "remove"} /\ target[exec.cmd] \notin task) \/ exec.at = "start"
      <4>1. [exec EXCEPT !.at = "remove"].at = "remove"
        BY <2>1
      <4>2. ~StopTunnelTask
        BY <2>6, <4>1 DEF StopTunnelTask
      <4> QED
        BY <1>6, <4>2 DEF Works, StartReplica, RemoveContainer, Doing
    <3>2. ASSUME NEW c \in Cmd, c # exec.cmd, phase[c] \in Begun, Latest(c)
          PROVE  target[c] # target[exec.cmd]
      <4>1. c < exec.cmd /\ exec.cmd \in Cmd
        BY <2>1, <3>2, ExecIsLast
      <4>2. exec.cmd > c
        BY <4>1 DEF Cmd
      <4> QED
        BY <2>2, <3>2, <4>1, <4>2 DEF Latest, Begun
    <3>3. ASSUME NEW c \in Cmd, c # exec.cmd, phase[c] \in Begun, kind[c] = "stop",
                 Succeeded(c)', Latest(c)
          PROVE  target[c] \notin container' \cup task'
      <4>1. target[c] \notin container \cup task
        BY <2>3, <3>3 DEF Gone
      <4>2. target[c] # target[exec.cmd]
        BY <3>2, <3>3
      <4>3. /\ container' \subseteq container \cup {target[exec.cmd]}
            /\ task' \subseteq task \cup {target[exec.cmd]}
        BY <1>6 DEF Works, StartReplica, StopTunnelTask, RemoveContainer
      <4> QED
        BY <4>1, <4>2, <4>3
    <3>4. kind[exec.cmd] = "stop" => target[exec.cmd] \notin container' \cup task'
      <4>1. kind[exec.cmd] = "stop" => exec.at = "remove" /\ target[exec.cmd] \notin task
        BY <3>1 DEF Doing
      <4>2. ~([exec EXCEPT !.at = "failed"].at = "done")
        BY <2>1
      <4>3. exec.at = "remove" => RemoveContainer
        BY <1>6 DEF Works, StartReplica, StopTunnelTask
      <4>4. exec.at = "remove" => container' = container \ {target[exec.cmd]} /\ task' = task
        BY <2>6, <4>2, <4>3 DEF RemoveContainer
      <4> QED
        BY <4>1, <4>4
    <3>5. \A c \in Cmd : Latest(c)' <=> Latest(c)
      BY <2>1 DEF Latest
    <3>6. ASSUME NEW c \in Cmd, phase'[c] \in Begun, kind'[c] = "stop", Succeeded(c)', Latest(c)'
          PROVE  target'[c] \notin container' \cup task'
      BY <2>1, <3>3, <3>4, <3>5, <3>6
    <3> QED
      BY <3>6 DEF Gone
  <2> QED
    BY <2>5, <2>6
<1>7. CASE SendResult
  <2>1. /\ exec # NoExec /\ exec' = NoExec
        /\ exec \in [cmd: Cmd, at: {"start", "stop", "remove", "done", "failed"}]
        /\ wire \in Seq(Message)
        /\ wire' = IF phase[exec.cmd] = "running"
                     THEN Append(wire, [cmd |-> exec.cmd, status |-> exec.at]) ELSE wire
        /\ UNCHANGED <<kind, target, phase, container, task>>
    BY <1>7, SendEffect
  <2>2. ASSUME NEW c \in Cmd, Succeeded(c)' PROVE Succeeded(c)
    <3>1. CASE phase'[c] = "done"
      BY <2>1, <3>1 DEF Succeeded
    <3>2. exec' # [cmd |-> c, at |-> "done"]
      BY <2>1, ReplicaAssumption DEF NoExec
    <3>3. ASSUME NEW i \in 1..Len(wire'), wire'[i] = [cmd |-> c, status |-> "done"]
          PROVE  Succeeded(c)
      <4>1. PICK m : m = [cmd |-> exec.cmd, status |-> exec.at]
        OBVIOUS
      <4>2. \/ i \in 1..Len(wire) /\ wire'[i] = wire[i]
            \/ wire'[i] = m
        BY <2>1, <4>1
      <4>3. CASE wire'[i] = m
        <5>1. exec.cmd = c /\ exec.at = "done"
          BY <3>3, <4>1, <4>3
        <5>2. exec = [cmd |-> c, at |-> "done"]
          BY <2>1, <5>1
        <5> QED
          BY <5>2 DEF Succeeded
      <4> QED
        BY <3>3, <4>2, <4>3 DEF Succeeded
    <3> QED
      BY <2>2, <3>1, <3>2, <3>3 DEF Succeeded
  <2> QED
    BY <2>1, <2>2, GoneStays
<1>8. CASE ApplyResult
  <2>1. PICK m \in Message :
             /\ m = wire[1] /\ 1 \in 1..Len(wire)
             /\ phase[m.cmd] = "running"
             /\ phase' = [phase EXCEPT ![m.cmd] = m.status]
             /\ \A i \in 1..Len(wire') :
                   /\ i \in 1..Len(wire) /\ i + 1 \in 1..Len(wire)
                   /\ wire'[i] = wire[i + 1]
             /\ UNCHANGED <<kind, target, exec, container, task>>
    BY <1>8, ApplyEffect
  <2>2. m.cmd \in Cmd /\ m.status \in Ended /\ m = [cmd |-> m.cmd, status |-> m.status]
    BY DEF Message
  <2>3. phase'[m.cmd] = m.status /\ \A d \in Cmd : d # m.cmd => phase'[d] = phase[d]
    BY <1>1, <2>1, <2>2
  <2>4. \A d \in Cmd : phase'[d] \in Begun <=> phase[d] \in Begun
    BY <2>1, <2>2, <2>3 DEF Begun, Ended
  <2>5. ASSUME NEW c \in Cmd, Succeeded(c)' PROVE Succeeded(c)
    <3>1. CASE phase'[c] = "done"
      <4>1. CASE c = m.cmd
        <5>1. wire[1] = [cmd |-> c, status |-> "done"]
          BY <2>1, <2>2, <2>3, <3>1, <4>1
        <5> QED
          BY <2>1, <5>1 DEF Succeeded
      <4>2. CASE c # m.cmd
        BY <2>3, <3>1, <4>2 DEF Succeeded
      <4> QED
        BY <4>1, <4>2
    <3>2. ASSUME NEW i \in 1..Len(wire'), wire'[i] = [cmd |-> c, status |-> "done"]
          PROVE  Succeeded(c)
      BY <2>1, <3>2 DEF Succeeded
    <3>3. CASE exec' = [cmd |-> c, at |-> "done"]
      BY <2>1, <3>3 DEF Succeeded
    <3> QED
      BY <2>5, <3>1, <3>2, <3>3 DEF Succeeded
  <2> QED
    BY <2>1, <2>4, <2>5, GoneStays
<1>9. ASSUME NEW u \in Users, CommitRequest(u) PROVE Gone'
  BY <1>2, <1>9 DEF CommitRequest, nodeVars
<1>10. ASSUME NEW u \in Users, NEW r \in Replicas, NEW op \in {"start", "stop"},
              BeginRequest(u, r, op)
       PROVE  Gone'
  BY <1>2, <1>10 DEF BeginRequest, nodeVars
<1>11. ASSUME NEW r \in Replicas, TunnelStep(r) PROVE Gone'
  BY <1>2, <1>11 DEF TunnelStep, TunnelOpens, TunnelCloses, nodeVars
<1>12. CASE Heartbeat \/ SweepAsk \/ SweepRemove \/ UNCHANGED vars
  BY <1>2, <1>12 DEF Heartbeat, SweepAsk, SweepRemove, vars, nodeVars
<1>13. ASSUME NEW u \in Users, QueueRequested(u) PROVE Gone'
  BY <1>3, <1>13, RequestQueues DEF nodeVars
<1>14. CASE Deploys
  <2>1. UNCHANGED <<execVars, container, task>> /\ (UNCHANGED cmdVars \/ Queues)
    BY <1>14, DeployKinds DEF execVars
  <2> QED
    BY <1>2, <1>3, <2>1
<1> QED
  BY <1>4, <1>5, <1>6, <1>7, <1>8, <1>9, <1>10, <1>11, <1>12, <1>13, <1>14
     DEF QuietStep, RequestStep, ExecStep, Works

\* The agent drops the tunnel with its task.
LEMMA TaskedKept ==
    ASSUME IInv, Tasked, QuietStep
    PROVE  Tasked'
<1>1. ASSUME UNCHANGED <<tunnel, task>> PROVE Tasked'
  BY <1>1 DEF Tasked
<1>2. CASE StartReplica \/ StopTunnelTask
  BY <1>2 DEF StartReplica, StopTunnelTask, Untunnel, Tasked
<1>3. ASSUME NEW r \in Replicas, TunnelStep(r) PROVE Tasked'
  BY <1>3 DEF TunnelStep, TunnelOpens, TunnelCloses, nodeVars, IInv, TypeOK, Tasked
<1>4. CASE Deploys
  BY <1>1, <1>4, DeployKinds
<1>5. CASE RemoveContainer \/ SendResult \/ \E c \in Cmd : TakeCommand(c)
  BY <1>1, <1>5 DEF RemoveContainer, SendResult, TakeCommand, linkVars, nodeVars
<1>6. CASE ClaimCommands \/ ApplyResult \/ Heartbeat \/ SweepAsk \/ SweepRemove \/ UNCHANGED vars
  BY <1>1, <1>6 DEF ClaimCommands, ApplyResult, Heartbeat, SweepAsk, SweepRemove, vars,
     linkVars, nodeVars
<1>7. ASSUME NEW u \in Users, RequestStep(u) PROVE Tasked'
  BY <1>1, <1>7 DEF RequestStep, QueueRequested, CommitRequest, linkVars, nodeVars
<1>8. ASSUME NEW u \in Users, NEW r \in Replicas, NEW op \in {"start", "stop"},
             BeginRequest(u, r, op)
      PROVE  Tasked'
  BY <1>1, <1>8 DEF BeginRequest, linkVars, nodeVars
<1> QED
  BY <1>2, <1>3, <1>4, <1>5, <1>6, <1>7, <1>8 DEF QuietStep, ExecStep

-----------------------------------------------------------------------------
\* A step that leaves the requests and the commands of a replica alone leaves
\* it as idle as it was.
LEMMA StillStopped ==
    ASSUME NEW r \in Replicas, ~Busy(r)', LastDone("stop", r)', UNCHANGED recov,
           \A d \in Deployers : (deploys[d].at = "queue" /\ deploys[d].rid = r) =>
               deploys'[d].at = "queue" /\ deploys'[d].rid = r,
           \A u \in Users : (users[u] # None /\ users[u].rid = r) =>
               users'[u] # None /\ users'[u].rid = r,
           \A c \in Cmd : (phase[c] # "absent" /\ target[c] = r) =>
               target'[c] = r /\ phase'[c] # "absent"
                   /\ (phase[c] \in {"queued", "claimed", "running"} =>
                         phase'[c] \in {"queued", "claimed", "running"}),
           \A c \in Cmd : (target'[c] = r /\ phase'[c] = "done" /\ kind'[c] = "stop") =>
               target[c] = r /\ phase[c] = "done" /\ kind[c] = "stop"
    PROVE  ~Busy(r) /\ LastDone("stop", r)
<1>1. ~Busy(r)
  <2>1. ASSUME NEW u \in Users, users[u] # None, users[u].rid = r PROVE FALSE
    BY <2>1 DEF Busy
  <2>2. ASSUME NEW t \in Tasks, recov[t].at = r \/ r \in recov[t].todo PROVE FALSE
    BY <2>2 DEF Busy
  <2>3. ASSUME NEW c \in Cmd, target[c] = r, phase[c] \in {"queued", "claimed", "running"} PROVE FALSE
    BY <2>3 DEF Busy
  <2>4. ASSUME NEW d \in Deployers, deploys[d].at = "queue", deploys[d].rid = r PROVE FALSE
    BY <2>4 DEF Busy
  <2> QED
    BY <2>1, <2>2, <2>3, <2>4 DEF Busy
<1>2. PICK c \in Cmd : /\ target'[c] = r /\ kind'[c] = "stop" /\ phase'[c] = "done"
                       /\ \A d \in Cmd : (d > c /\ target'[d] = r) => phase'[d] = "absent"
  BY DEF LastDone
<1>3. target[c] = r /\ kind[c] = "stop" /\ phase[c] = "done"
  BY <1>2
<1>4. ASSUME NEW d \in Cmd, d > c, target[d] = r PROVE phase[d] = "absent"
  BY <1>2, <1>4
<1> QED
  BY <1>1, <1>3, <1>4 DEF LastDone

LEMMA RowStoppedKept ==
    ASSUME IInv, QInv, QuietStep
    PROVE  RowStopped'
<1> SUFFICES ASSUME NEW r \in Replicas, ~Busy(r)', LastDone("stop", r)'
             PROVE  Down(r)'
  BY DEF RowStopped
<1>1. /\ phase \in [Cmd -> Contract!Phase] /\ target \in [Cmd -> Replicas \cup {None}]
      /\ kind \in [Cmd -> {"start", "stop", None}] /\ row \in [Replicas -> RowState]
      /\ users \in [Users -> Request \cup {None}]
  BY DEF IInv, TypeOK
<1>2. Calm /\ Announced /\ Ordered /\ Gone /\ RowStopped
  BY DEF QInv
<1>3. ASSUME UNCHANGED <<users, recov, deploys, phase, target, kind>>
      PROVE  ~Busy(r) /\ LastDone("stop", r)
  BY <1>3, StillStopped
<1>4. ASSUME ~Busy(r) /\ LastDone("stop", r), row'[r] \in {row[r], "absent"},
             r \in stranded => r \in stranded'
      PROVE  Down(r)'
  BY <1>2, <1>4 DEF RowStopped, Down
<1>0. ASSUME UNCHANGED <<users, recov, deploys, phase, target, kind, row, stranded>> PROVE Down(r)'
  BY <1>3, <1>4, <1>0
<1>5. ASSUME NEW u \in Users, NEW q \in Replicas, NEW op \in {"start", "stop"},
             BeginRequest(u, q, op)
      PROVE  Down(r)'
  <2>1. users[u] = None /\ UNCHANGED <<recov, deploys, phase, target, kind, row, stranded>>
    BY <1>5 DEF BeginRequest, rowVars, cmdVars
  <2>2. \A v \in Users : v # u => users'[v] = users[v]
    BY <1>1, <1>5 DEF BeginRequest
  <2>3. ~Busy(r) /\ LastDone("stop", r)
    BY <2>1, <2>2, StillStopped
  <2> QED
    BY <1>4, <2>1, <2>3
<1>6. ASSUME NEW u \in Users, QueueRequested(u) PROVE Down(r)'
  <2>1. users[u] \in Request /\ Enqueue(users[u].op, users[u].rid)
        /\ users' = [users EXCEPT ![u].at = "commit"]
    BY <1>1, <1>6 DEF QueueRequested
  <2>2. \A v \in Users : v # u => users'[v] = users[v]
    BY <1>1, <2>1
  <2>3. PICK c \in Cmd : /\ phase[c] = "absent" /\ phase'[c] = "queued"
                         /\ target'[c] = users[u].rid
                         /\ \A d \in Cmd : d # c => /\ kind'[d] = kind[d] /\ target'[d] = target[d]
                                                    /\ phase'[d] = phase[d]
    BY <1>1, <2>1, EnqueueEffect DEF Request, Operation
  <2>4. UNCHANGED <<recov, deploys, row, stranded>>
    BY <1>6 DEF QueueRequested, rowVars
  <2>5. users[u].rid # r
    BY <2>3 DEF Busy
  <2>6. ~Busy(r) /\ LastDone("stop", r)
    BY <2>2, <2>3, <2>4, <2>5, StillStopped
  <2> QED
    BY <1>4, <2>4, <2>6
<1>7. ASSUME NEW u \in Users, CommitRequest(u) PROVE Down(r)'
  <2>1. users[u] \in Request /\ users[u].at = "commit"
    BY <1>1, <1>2, <1>7 DEF CommitRequest, Calm
  <2>2. UNCHANGED <<recov, deploys, phase, target, kind, stranded>> /\ users' = [users EXCEPT ![u] = None]
    BY <1>7 DEF CommitRequest, cmdVars
  <2>3. users[u].rid # r
    <3>1. ~(\E c \in Cmd : target[c] = r /\ phase[c] \in {"queued", "claimed"})
      BY <2>2 DEF Busy
    <3> QED
      BY <1>2, <1>7, <2>1, <3>1 DEF Announced, CommitRequest
  <2>4. row'[r] = row[r]
    BY <1>1, <1>7, <2>3 DEF CommitRequest, SetRow
  <2>5. ~Busy(r) /\ LastDone("stop", r)
    BY <1>1, <2>2, <2>3, StillStopped
  <2> QED
    BY <1>4, <2>2, <2>4, <2>5
<1>8. CASE ClaimCommands
  <2>1. /\ \A c \in Cmd : phase'[c] = IF phase[c] = "queued" THEN "claimed" ELSE phase[c]
        /\ UNCHANGED <<kind, target, users, recov, deploys, row, stranded>>
    BY <1>8, ClaimAllEffect DEF ClaimCommands, rowVars, planeVars
  <2>2. ~Busy(r) /\ LastDone("stop", r)
    BY <2>1, StillStopped
  <2> QED
    BY <1>4, <2>1, <2>2
<1>9. ASSUME NEW c \in Cmd, TakeCommand(c) PROVE Down(r)'
  <2>1. /\ phase[c] = "claimed" /\ phase'[c] = "running"
        /\ \A d \in Cmd : d # c => phase'[d] = phase[d]
        /\ UNCHANGED <<kind, target, users, recov, deploys, row, stranded>>
    BY <1>1, <1>9, TakeEffect DEF TakeCommand, rowVars, planeVars
  <2>2. ~Busy(r) /\ LastDone("stop", r)
    BY <2>1, StillStopped
  <2> QED
    BY <1>4, <2>1, <2>2
<1>10. CASE ApplyResult
  <2>1. PICK m \in Message :
             /\ phase[m.cmd] = "running" /\ target[m.cmd] \in Replicas
             /\ phase' = [phase EXCEPT ![m.cmd] = m.status]
             /\ SetRow(target[m.cmd], Outcome(m.cmd, m.status))
             /\ UNCHANGED <<kind, target, users, recov, deploys, stranded>>
    BY <1>10, ApplyEffect
  <2>2. m.cmd \in Cmd /\ m.status \in Ended
    BY DEF Message
  <2>3. phase'[m.cmd] = m.status /\ \A d \in Cmd : d # m.cmd => phase'[d] = phase[d]
    BY <1>1, <2>1, <2>2
  <2>4. CASE target[m.cmd] = r
    <3>1. PICK c \in Cmd : /\ target'[c] = r /\ kind'[c] = "stop" /\ phase'[c] = "done"
                           /\ \A d \in Cmd : (d > c /\ target'[d] = r) => phase'[d] = "absent"
      BY DEF LastDone
    <3>2. ~(m.cmd > c)
      BY <2>1, <2>2, <2>3, <2>4, <3>1 DEF Ended
    <3>3. c = m.cmd
      <4>1. CASE m.cmd < c /\ c # m.cmd
        BY <1>2, <2>1, <2>2, <2>3, <3>1, <4>1 DEF Ordered, Ended
      <4> QED
        BY <2>2, <3>2, <4>1 DEF Cmd
    <3>4. Outcome(m.cmd, m.status) = "stopped"
      BY <2>1, <2>3, <3>1, <3>3 DEF Outcome
    <3> QED
      BY <1>1, <2>1, <2>4, <3>4 DEF SetRow, Down
  <2>5. CASE target[m.cmd] # r
    <3>1. ~Busy(r) /\ LastDone("stop", r)
      BY <2>1, <2>3, <2>5, StillStopped
    <3>2. row'[r] = row[r]
      BY <1>1, <2>1, <2>5 DEF SetRow
    <3> QED
      BY <1>4, <2>1, <3>1, <3>2
  <2> QED
    BY <2>4, <2>5
<1>11. ASSUME NEW q \in Replicas, TunnelStep(q) PROVE Down(r)'
  <2>1. UNCHANGED <<users, recov, deploys, phase, target, kind>>
    BY <1>11 DEF TunnelStep, TunnelOpens, TunnelCloses, planeVars, cmdVars
  <2>2. ~Busy(r) /\ LastDone("stop", r)
    BY <1>3, <2>1
  <2>3. CASE TunnelOpens(q) /\ q = r
    <3>1. PICK c \in Cmd : /\ target[c] = r /\ kind[c] = "stop" /\ phase[c] = "done"
                           /\ \A d \in Cmd : (d > c /\ target[d] = r) => phase[d] = "absent"
      BY <2>2 DEF LastDone
    <3>2. phase[c] \in Begun /\ Succeeded(c) /\ Latest(c)
      BY <3>1 DEF Begun, Succeeded, Latest
    <3>3. r \notin task
      BY <1>2, <3>1, <3>2 DEF Gone
    <3> QED
      BY <2>3, <3>3 DEF TunnelOpens
  <2>4. CASE TunnelCloses(q) /\ q = r
    BY <1>1, <1>2, <2>4 DEF TunnelCloses, SetRow, Calm, Down
  <2>5. CASE q # r
    <3>1. row'[r] = row[r] /\ (r \in stranded => r \in stranded')
      BY <1>1, <1>11, <2>5 DEF TunnelStep, TunnelOpens, TunnelCloses, SetRow
    <3> QED
      BY <1>4, <2>2, <3>1
  <2> QED
    BY <1>11, <2>3, <2>4, <2>5 DEF TunnelStep
<1>12. CASE StartReplica \/ StopTunnelTask \/ RemoveContainer \/ SendResult
  BY <1>0, <1>12 DEF StartReplica, StopTunnelTask, RemoveContainer, SendResult,
     rowVars, cmdVars, planeVars
<1>13. CASE Heartbeat \/ SweepAsk \/ SweepRemove \/ UNCHANGED vars
  BY <1>0, <1>13 DEF Heartbeat, SweepAsk, SweepRemove, vars, rowVars, cmdVars, planeVars
<1>14. ASSUME NEW d \in Deployers, BeginDeploy(d) \/ DeployStep(d) PROVE Down(r)'
  <2>1. /\ UNCHANGED <<users, recov, tunnel, task>>
        /\ deploys \in [Deployers -> Deploy]
        /\ \A e \in Deployers : e # d => deploys'[e] = deploys[e]
    <3>1. UNCHANGED <<users, recov, tunnel, task>> /\ deploys \in [Deployers -> Deploy]
      BY <1>14, DeployKinds DEF Deploys, IInv, TypeOK
    <3>2. \E x : deploys' = [deploys EXCEPT ![d] = x]
      BY <1>14 DEF BeginDeploy, DeployStep, ZdNoPort, ZdQueue, ZdFails, ZdRetire, ZdEnd,
         ZdUndone, ZdInsert, ZdCheck, ZdMark, ZdStop, ZdUndo
    <3> QED
      BY <3>1, <3>2
  <2>2. ASSUME UNCHANGED <<phase, target, kind>>, deploys[d].at # "queue"
        PROVE  ~Busy(r) /\ LastDone("stop", r)
    BY <2>1, <2>2, StillStopped
  <2>3. ASSUME NEW q \in Replicas, NEW k \in Operation, Enqueue(k, q),
               (deploys[d].at = "queue" /\ deploys[d].rid = r) => q = r
        PROVE  ~Busy(r) /\ LastDone("stop", r) /\ q # r
    <3>1. PICK c \in Cmd : /\ phase[c] = "absent" /\ phase'[c] = "queued" /\ target'[c] = q
                           /\ \A e \in Cmd : e # c => /\ kind'[e] = kind[e] /\ target'[e] = target[e]
                                                      /\ phase'[e] = phase[e]
      BY <1>1, <2>3, EnqueueEffect
    <3>2. q # r
      BY <3>1 DEF Busy
    <3> QED
      BY <2>1, <2>3, <3>1, <3>2, StillStopped
  <2>4. CASE BeginDeploy(d) \/ ZdNoPort(d) \/ ZdFails(d) \/ ZdRetire(d)
    <3>1. BeginDeploy(d) => deploys[d].at # "queue"
      BY DEF BeginDeploy, NoDeploy
    <3>2. ZdNoPort(d) \/ ZdFails(d) \/ ZdRetire(d) => deploys[d].at # "queue"
      BY DEF ZdNoPort, ZdFails, ZdRetire
    <3>3. UNCHANGED <<phase, target, kind, row, stranded>>
      BY <2>4 DEF BeginDeploy, ZdNoPort, ZdFails, ZdRetire, rowVars, cmdVars
    <3> QED
      BY <1>4, <2>2, <2>4, <3>1, <3>2, <3>3
  <2>5. CASE ZdEnd(d) \/ ZdUndone(d)
    <3>1. deploys[d].at # "queue" /\ UNCHANGED <<phase, target, kind, stranded>>
          /\ row'[r] \in {row[r], "absent"}
      BY <2>5 DEF ZdEnd, ZdUndone, DeleteInHand, cmdVars
    <3> QED
      BY <1>4, <2>2, <3>1
  <2>6. ASSUME NEW q \in Replicas, ZdCheck(d, q) PROVE Down(r)'
    <3>1. deploys[d].at # "queue" /\ UNCHANGED <<phase, target, kind, row, stranded>>
      BY <2>6 DEF ZdCheck, rowVars, cmdVars
    <3> QED
      BY <1>4, <2>2, <3>1
  <2>7. ASSUME NEW q \in Replicas, ZdInsert(d, q) PROVE Down(r)'
    <3>1. deploys[d].at # "queue" /\ UNCHANGED <<phase, target, kind, stranded>>
          /\ deploys' = [deploys EXCEPT ![d] = deploys'[d]]
      BY <2>1, <2>7 DEF ZdInsert, cmdVars
    <3>2. deploys'[d].at = "queue" /\ deploys'[d].rid = q
      <4>1. deploys[d] \in Deploy
        BY <2>1
      <4> QED
        BY <2>1, <2>7, <4>1 DEF ZdInsert, Deploy
    <3>3. q # r
      BY <3>2 DEF Busy
    <3>4. row'[r] = row[r]
      BY <1>1, <2>7, <3>3 DEF ZdInsert
    <3> QED
      BY <1>4, <2>2, <3>1, <3>4
  <2>8. CASE ZdQueue(d)
    <3>1. /\ deploys[d].rid \in Replicas /\ Enqueue("start", deploys[d].rid)
          /\ UNCHANGED <<row, stranded>>
      BY <2>8 DEF ZdQueue, rowVars, IInv, TypeOK
    <3> QED
      BY <1>4, <2>3, <3>1 DEF Operation
  <2>9. ASSUME NEW q \in Replicas, ZdStop(d, q) PROVE Down(r)'
    <3>1. /\ deploys[d].at # "queue" /\ Enqueue("stop", q) /\ UNCHANGED stranded
          /\ row'[r] \in {row[r], "absent"}
      BY <2>9 DEF ZdStop, DeleteInHand
    <3> QED
      BY <1>4, <2>3, <3>1 DEF Operation
  <2>10. ASSUME NEW q \in Replicas, ZdUndo(d, q) PROVE Down(r)'
    <3>1. /\ deploys[d].at # "queue" /\ UNCHANGED <<row, stranded>>
          /\ Enqueue("stop", q) \/ UNCHANGED <<phase, target, kind>>
      BY <2>10 DEF ZdUndo, rowVars, cmdVars
    <3> QED
      BY <1>4, <2>2, <2>3, <3>1 DEF Operation
  <2>11. ASSUME NEW q \in Replicas, ZdMark(d, q) PROVE Down(r)'
    <3>1. deploys[d].at # "queue" /\ UNCHANGED <<phase, target, kind>>
      BY <2>11 DEF ZdMark, cmdVars
    <3>2. ~Busy(r) /\ LastDone("stop", r)
      BY <2>2, <3>1
    <3>3. CASE q # r \/ row[r] = "absent"
      <4>1. row'[r] = row[r] /\ (r \in stranded => r \in stranded')
        BY <1>1, <2>11, <3>3 DEF ZdMark, SetRow
      <4> QED
        BY <1>4, <3>2, <4>1
    <3>4. CASE q = r /\ row[r] # "absent"
      <4>1. PICK c \in Cmd : /\ target[c] = r /\ kind[c] = "stop" /\ phase[c] = "done"
                             /\ \A e \in Cmd : (e > c /\ target[e] = r) => phase[e] = "absent"
        BY <3>2 DEF LastDone
      <4>2. phase[c] \in Begun /\ Succeeded(c) /\ Latest(c)
        BY <4>1 DEF Begun, Succeeded, Latest
      <4>3. r \notin task
        BY <1>2, <4>1, <4>2 DEF Gone
      <4>4. tunnel[r] # "up"
        BY <4>3 DEF QInv, Tasked
      <4> QED
        BY <2>11, <3>4, <4>4 DEF ZdMark, Down
    <3> QED
      BY <3>3, <3>4
  <2> QED
    BY <1>14, <2>4, <2>5, <2>6, <2>7, <2>8, <2>9, <2>10, <2>11 DEF DeployStep
<1> QED
  BY <1>5, <1>6, <1>7, <1>8, <1>9, <1>10, <1>11, <1>12, <1>13, <1>14
     DEF QuietStep, RequestStep, ExecStep, Deploys

(***************************************************************************)
(* The inductive invariant of the undisturbed system.                      *)
(***************************************************************************)
Undisturbed == faults = 0 => QInv

LEMMA InitUndisturbed == ASSUME Init PROVE Undisturbed
<1> USE ReplicaAssumption DEF Init, NoExec
<1>1. Calm /\ Announced /\ Ordered
  BY DEF Calm, Announced, Ordered, Ended
<1>2. ResultsOrdered /\ Doing /\ Gone /\ Tasked /\ RowStopped
  BY DEF ResultsOrdered, Doing, Gone, Tasked, RowStopped, Begun, LastDone
<1> QED
  BY <1>1, <1>2 DEF Undisturbed, QInv

LEMMA UndisturbedKept ==
    ASSUME ~Overtake, IInv, Undisturbed, [Next]_vars
    PROVE  Undisturbed'
<1> SUFFICES ASSUME faults' = 0 PROVE QInv'
  BY DEF Undisturbed
<1>1. faults = 0
  BY FaultsStay
<1>2. QInv
  BY <1>1 DEF Undisturbed
<1>3. QuietStep
  BY <1>2, OnlyQuietSteps DEF QInv
<1> QED
  BY <1>2, <1>3, CalmKept, AnnouncedKept, OrderedKept, ResultsOrderedKept, DoingKept,
     GoneKept, TaskedKept, RowStoppedKept DEF QInv

(***************************************************************************)
(* While nothing fails, and as long as an agent is not faster than the     *)
(* request that queued its command, a replica whose last command was a     *)
(* successful stop has no container, no tunnel task and either no row or   *)
(* one that says "stopped", unless a deploy declared it running after its  *)
(* tunnel had gone: whatever requests and deploys came in between and in   *)
(* whatever order their commits, commands, tunnels and results met.        *)
(***************************************************************************)
THEOREM StoppedReplicasStayDown == ASSUME ~Overtake PROVE Spec => []StopSticks
<1>1. IInv /\ Undisturbed => StopSticks
  <2> SUFFICES ASSUME QInv, NEW r \in Replicas, ~Busy(r), LastDone("stop", r)
               PROVE  r \notin container \cup task /\ Down(r)
    BY DEF StopSticks, Undisturbed, Down
  <2>1. PICK c \in Cmd : /\ target[c] = r /\ kind[c] = "stop" /\ phase[c] = "done"
                         /\ \A d \in Cmd : (d > c /\ target[d] = r) => phase[d] = "absent"
    BY DEF LastDone
  <2>2. phase[c] \in Begun /\ Succeeded(c) /\ Latest(c)
    BY <2>1 DEF Begun, Succeeded, Latest
  <2> QED
    BY <2>1, <2>2 DEF QInv, Gone, RowStopped
<1> QED
  BY <1>1, Invariant, InitUndisturbed, UndisturbedKept, PTL DEF Spec

=============================================================================
