---------------------------- MODULE RemoteReplica ----------------------------
(***************************************************************************)
(* The life of the replicas on one remote node: user requests and the      *)
(* recovery of a reconnecting node queue start_replica and stop_replica    *)
(* commands, and so does a zero-downtime deploy of the application, which  *)
(* also inserts and deletes rows; the agent carries the commands out and   *)
(* opens a tunnel; results, tunnels, deploys and the detection of an       *)
(* offline node all write the same status column, each from its own        *)
(* coroutine.                                                              *)
(*                                                                         *)
(* Commands follow CommandContract (CommandQueue shows that the table      *)
(* does); a tunnel is one websocket that promotes the row when it opens    *)
(* and demotes it when its loss is noticed (TunnelServer has the rest).    *)
(* No replica id is a decimal prefix of another, which is what the LIKE    *)
(* pattern of the recovery takes for granted.  An id whose row is gone may *)
(* be given to any new row (SQLite reuses only the highest).               *)
(***************************************************************************)
EXTENDS Naturals, Sequences, FiniteSets

CONSTANTS
    Replicas,
    Users,      \* slots for start and stop requests
    Tasks,      \* slots for recover_node_replicas tasks
    Deployers,  \* slots for deploy_zero_downtime requests
    MaxCmds,    \* bound: commands ever queued
    MaxFaults,  \* bound: lost links, crashes and restarts
    Events,     \* what happens of its own accord, see EventKinds
    Overtake,   \* an agent may be faster than the request that queued its command,
                \* and a tunnel may open before the result of its start arrives
    None

Cmd == 1..MaxCmds

\* A failure of the network of the node, of one tunnel, of the agent or of the
\* control plane, a ping that is answered too late; and the orphan cleanup.
EventKinds == {"link", "tunnel", "agent", "server", "ping", "sweep"}

ASSUME ReplicaAssumption ==
    /\ MaxCmds \in Nat
    /\ MaxFaults \in Nat
    /\ Events \subseteq EventKinds
    /\ Overtake \in BOOLEAN
    /\ None \notin Replicas
    /\ None \notin Cmd
    /\ None \notin {"start", "stop", "remove", "done", "failed"}
    /\ Replicas \cap {"idle", "read", "next"} = {}

VARIABLES
    \* database
    row,        \* row[r]: status of the replica, "absent" without a row
    nstat,      \* status of the node
    kind,       \* kind[c], target[c]: what command c does, and to which replica
    target,
    phase,      \* phase[c]: where c is in its life, see CommandContract
    \* control plane
    users,      \* users[u]: the request u handles
    recov,      \* recov[t]: the replicas recovery task t has not dealt with
    deploys,    \* deploys[d]: how far deploy d is, the slots left to fill, its
                \* new rows, those of the current phase left, and the row in hand
    link,       \* the node's agent websocket: "none", "up", or "lost" but not noticed
    registered, \* the websocket is in _node_ws_connections
    tunnel,     \* tunnel[r]: "down", "up", or "lost" but not noticed
    \* agent
    agent,      \* "down", "draining" or "up"
    exec,       \* the command it carries out, and how far it is
    wire,       \* results on their way to the control plane
    container,  \* replicas whose container exists
    task,       \* replicas with a tunnel task
    sweep,      \* the live replicas the orphan cleanup was told, if it runs
    stranded,   \* replicas whose row may say "running" without a tunnel: a crash of
                \* the control plane took it, or a deploy declared them running after
                \* it had dropped; until their next one
    faults

rowVars == <<row, nstat>>
cmdVars == <<kind, target, phase>>
planeVars == <<users, recov, deploys>>
linkVars == <<link, registered, tunnel>>
execVars == <<exec, wire>>
nodeVars == <<container, task, sweep>>
vars == <<rowVars, cmdVars, planeVars, linkVars, agent, execVars, nodeVars, stranded, faults>>

Contract == INSTANCE CommandContract

Live == {"running", "starting"}

\* Every writer looks the row up first, or its UPDATE matches no row.
SetRow(r, s) == row' = [row EXCEPT ![r] = IF @ = "absent" THEN @ ELSE s]

Rows == {c \in Cmd : phase[c] # "absent"}
InFlight == {c \in Cmd : phase[c] \in {"claimed", "running"}}

\* status in ("queued", "in_progress")
Unfinished == {c \in Cmd : phase[c] \in {"queued", "claimed", "running", "lost"}}

\* queue_node_command
Enqueue(k, r) ==
    \E c \in Cmd :
        /\ Contract!Submit(c)
        /\ kind' = [kind EXCEPT ![c] = k]
        /\ target' = [target EXCEPT ![c] = r]

\* Every claimed command is lost with the websocket, the agent's memory or
\* the handler's, and so is every result on its way.
LoseCommands == Contract!Lose(InFlight) /\ wire' = <<>>

\* The replicas agent_ws and mark_stale_nodes_offline keep for recovery.
RowsOffline == [r \in Replicas |-> IF row[r] \in Live THEN "node_offline" ELSE row[r]]

Fault(k) ==
    /\ k \in Events /\ faults < MaxFaults
    /\ faults' = faults + 1

NoDeploy == [at |-> "idle", left |-> {}, new |-> {}, todo |-> {}, rid |-> None]

\* The bound leaves room for n commands, one for each request, one for each
\* replica and deploy, and one for each recovery the faults can bring about.
Room(n) ==
    Cardinality(Rows) + Cardinality({u \in Users : users[u] # None})
        + Cardinality({d \in Deployers : deploys[d] # NoDeploy}) * Cardinality(Replicas)
        + MaxFaults * Cardinality(Replicas) + n <= MaxCmds

NoExec == [cmd |-> None, at |-> None]

Init ==
    \E R \in SUBSET Replicas : \E S \in SUBSET (Replicas \ R) :
        /\ row = [r \in Replicas |-> IF r \in R THEN "running"
                                   ELSE IF r \in S THEN "stopped" ELSE "absent"]
        /\ tunnel = [r \in Replicas |-> IF r \in R THEN "up" ELSE "down"]
        /\ container = R
        /\ task = R
        /\ nstat = "online"
        /\ kind = [c \in Cmd |-> None]
        /\ target = [c \in Cmd |-> None]
        /\ phase = [c \in Cmd |-> "absent"]
        /\ users = [u \in Users |-> None]
        /\ recov = [t \in Tasks |-> [at |-> "idle", todo |-> {}]]
        /\ deploys = [d \in Deployers |-> NoDeploy]
        /\ link = "up"
        /\ registered = TRUE
        /\ agent = "up"
        /\ exec = NoExec
        /\ wire = <<>>
        /\ sweep = None
        /\ stranded = {}
        /\ faults = 0

-----------------------------------------------------------------------------
(***************************************************************************)
(* Requests: start_app and stop_app, for one replica                       *)
(***************************************************************************)

\* The handler reads the rows and the node, and goes on to stop legacy
\* containers and to look up the source revision.
BeginRequest(u, r, op) ==
    /\ users[u] = None /\ Room(1)
    /\ IF op = "start" THEN row[r] \in {"stopped", "error", "node_offline"}
                       ELSE row[r] \in {"running", "starting", "stopping", "node_offline"}
    /\ users' = [users EXCEPT ![u] =
                   [op |-> op, rid |-> r, seen |-> row[r],
                    at |-> IF nstat = "online" THEN "queue" ELSE "offline"]]
    /\ UNCHANGED <<rowVars, cmdVars, recov, deploys, linkVars, agent, execVars, nodeVars, stranded, faults>>

\* _start_replica_runtime and _stop_replica_runtime: queueing commits ...
QueueRequested(u) ==
    /\ users[u] # None
    /\ users[u].at = "queue"
    /\ Enqueue(users[u].op, users[u].rid)
    /\ users' = [users EXCEPT ![u].at = "commit"]
    /\ UNCHANGED <<rowVars, recov, deploys, linkVars, agent, execVars, nodeVars, stranded, faults>>

\* ... and the handler's own commit writes the new status later, if it
\* differs from the one the handler has read.
NewStatus(q) ==
    CASE q.at = "commit" -> IF q.op = "start" THEN "starting" ELSE "stopping"
      [] q.at = "offline" -> IF q.op = "start" THEN "error" ELSE "stopped"

CommitRequest(u) ==
    /\ users[u] # None
    /\ users[u].at \in {"commit", "offline"}
    /\ LET q == users[u] IN
         IF NewStatus(q) = q.seen THEN UNCHANGED row ELSE SetRow(q.rid, NewStatus(q))
    /\ users' = [users EXCEPT ![u] = None]
    /\ UNCHANGED <<nstat, cmdVars, recov, deploys, linkVars, agent, execVars, nodeVars, stranded, faults>>

-----------------------------------------------------------------------------
(***************************************************************************)
(* The agent websocket of the node, and recovery                           *)
(***************************************************************************)

\* agent_ws authenticates the node and replaces a websocket it still holds;
\* a node that was offline gets a recovery task.
AgentConnect ==
    /\ agent = "up" /\ link # "up"
    /\ link' = "up"
    /\ registered' = TRUE
    /\ nstat' = "online"
    /\ IF nstat = "offline"
         THEN \E t \in Tasks :
                /\ recov[t].at = "idle"
                /\ recov' = [recov EXCEPT ![t].at = "read"]
         ELSE UNCHANGED recov
    /\ UNCHANGED <<row, cmdVars, users, deploys, tunnel, agent, execVars, nodeVars, stranded, faults>>

RecoverRead(t) ==
    /\ recov[t].at = "read"
    /\ LET found == {r \in Replicas : row[r] = "node_offline"} IN
         recov' = [recov EXCEPT ![t] =
                     [at |-> IF found = {} THEN "idle" ELSE "next", todo |-> found]]
    /\ UNCHANGED <<rowVars, cmdVars, users, deploys, linkVars, agent, execVars, nodeVars, stranded, faults>>

StartPending(r) == \E c \in Unfinished : kind[c] = "start" /\ target[c] = r

Without(t, r) ==
    [at |-> IF recov[t].todo = {r} THEN "idle" ELSE "next", todo |-> recov[t].todo \ {r}]

RecoverSkip(t, r) ==
    /\ recov[t].at = "next" /\ r \in recov[t].todo
    /\ StartPending(r)
    /\ recov' = [recov EXCEPT ![t] = Without(t, r)]
    /\ UNCHANGED <<rowVars, cmdVars, users, deploys, linkVars, agent, execVars, nodeVars, stranded, faults>>

\* The new status is committed first, the command in a second transaction;
\* the UPDATE of a row that is gone ends the task.
RecoverMark(t, r) ==
    /\ recov[t].at = "next" /\ r \in recov[t].todo
    /\ ~StartPending(r)
    /\ SetRow(r, "starting")
    /\ recov' = [recov EXCEPT ![t] =
                   IF row[r] = "absent" THEN [at |-> "idle", todo |-> {}] ELSE [@ EXCEPT !.at = r]]
    /\ UNCHANGED <<nstat, cmdVars, users, deploys, linkVars, agent, execVars, nodeVars, stranded, faults>>

RecoverQueue(t) ==
    /\ recov[t].at \in Replicas
    /\ Enqueue("start", recov[t].at)
    /\ recov' = [recov EXCEPT ![t] = Without(t, recov[t].at)]
    /\ UNCHANGED <<rowVars, users, deploys, linkVars, agent, execVars, nodeVars, stranded, faults>>

\* Mutant: the handler claims without looking at the status of a command.
ClaimCommandsAgain ==
    /\ link = "up"
    /\ LET S == {c \in Cmd : phase[c] \in {"queued", "lost"}} IN
         /\ S # {}
         /\ phase' = [c \in Cmd |-> IF c \in S THEN "claimed" ELSE phase[c]]
    /\ UNCHANGED <<rowVars, kind, target, planeVars, linkVars, agent, execVars, nodeVars, stranded, faults>>

ClaimCommands ==
    /\ link = "up"
    /\ LET S == {c \in Cmd : phase[c] = "queued"} IN S # {} /\ Contract!Claim(S)
    /\ UNCHANGED <<rowVars, kind, target, planeVars, linkVars, agent, execVars, nodeVars, stranded, faults>>

\* Mutant: the status of the command is written to the replica.
OutcomeRaw(c, s) == s

\* The status column after the result of a start or a stop.
Outcome(c, s) ==
    IF s = "failed" THEN "error"
    ELSE IF kind[c] = "start" THEN "starting" ELSE "stopped"

\* Mutant: a successful start makes the replica running at once.
ApplyResultRunning ==
    /\ link = "up" /\ wire # <<>>
    /\ LET m == Head(wire) IN
         /\ phase' = [phase EXCEPT ![m.cmd] = m.status]
         /\ SetRow(target[m.cmd],
                   IF kind[m.cmd] = "start" /\ m.status = "done" THEN "running"
                   ELSE Outcome(m.cmd, m.status))
    /\ wire' = Tail(wire)
    /\ UNCHANGED <<nstat, kind, target, planeVars, linkVars, agent, exec, nodeVars, stranded, faults>>

\* Mutant: only successful results reach the replica.
ApplyResultDoneOnly ==
    /\ link = "up" /\ wire # <<>>
    /\ LET m == Head(wire) IN
         /\ phase' = [phase EXCEPT ![m.cmd] = m.status]
         /\ IF m.status = "done" THEN SetRow(target[m.cmd], Outcome(m.cmd, "done"))
                                 ELSE UNCHANGED row
    /\ wire' = Tail(wire)
    /\ UNCHANGED <<nstat, kind, target, planeVars, linkVars, agent, exec, nodeVars, stranded, faults>>

\* _apply_command_result is one transaction: it has written the command
\* before it reads the replica.
ApplyResult ==
    /\ link = "up" /\ wire # <<>>
    /\ LET m == Head(wire) IN
         /\ phase' = [phase EXCEPT ![m.cmd] = m.status]
         /\ SetRow(target[m.cmd], Outcome(m.cmd, m.status))
    /\ wire' = Tail(wire)
    /\ UNCHANGED <<nstat, kind, target, planeVars, linkVars, agent, exec, nodeVars, stranded, faults>>

\* ping_node: no pong in time drops the websocket and the node, but the
\* handler of the websocket lives on ...
EvictSocket ==
    /\ link = "up" /\ registered
    /\ Fault("ping")
    /\ registered' = FALSE
    /\ nstat' = "offline"
    /\ UNCHANGED <<row, cmdVars, planeVars, link, tunnel, agent, execVars, nodeVars, stranded>>

\* ... and takes heartbeats ...
Heartbeat ==
    /\ link = "up"
    /\ nstat' = "online"
    /\ UNCHANGED <<row, cmdVars, planeVars, linkVars, agent, execVars, nodeVars, stranded, faults>>

\* ... each of which it undoes when it finds no websocket registered.
MarkUnregistered ==
    /\ link = "up" /\ ~registered /\ nstat = "online"
    /\ nstat' = "offline"
    /\ row' = RowsOffline
    /\ UNCHANGED <<cmdVars, planeVars, linkVars, agent, execVars, nodeVars, stranded, faults>>

\* The finally block of agent_ws marks the node, not its replicas.
SocketClosed ==
    /\ link = "lost"
    /\ link' = "none"
    /\ registered' = FALSE
    /\ nstat' = "offline"
    /\ UNCHANGED <<row, cmdVars, planeVars, tunnel, agent, execVars, nodeVars, stranded, faults>>

\* mark_stale_nodes_offline: no heartbeat within the threshold.
MarkStale ==
    /\ nstat = "online" /\ link # "up"
    /\ nstat' = "offline"
    /\ row' = RowsOffline
    /\ UNCHANGED <<cmdVars, planeVars, linkVars, agent, execVars, nodeVars, stranded, faults>>

-----------------------------------------------------------------------------
(***************************************************************************)
(* Tunnels: replica_tunnel_ws                                              *)
(***************************************************************************)

\* Half a second is meant to be enough for the result to get ahead.
StartReported(r) ==
    /\ exec.cmd # None => target[exec.cmd] # r
    /\ \A i \in 1..Len(wire) : target[wire[i].cmd] # r

TunnelOpens(r) ==
    /\ agent = "up" /\ r \in task /\ tunnel[r] # "up" /\ row[r] # "absent"
    /\ Overtake \/ StartReported(r)
    /\ tunnel' = [tunnel EXCEPT ![r] = "up"]
    /\ SetRow(r, "running")
    /\ stranded' = stranded \ {r}
    /\ UNCHANGED <<nstat, cmdVars, planeVars, link, registered, agent, execVars, nodeVars, faults>>

\* With the agent still registered, the container is taken to have stopped.
TunnelCloses(r) ==
    /\ tunnel[r] = "lost"
    /\ tunnel' = [tunnel EXCEPT ![r] = "down"]
    /\ SetRow(r, IF registered THEN "stopped" ELSE "node_offline")
    /\ UNCHANGED <<nstat, cmdVars, planeVars, link, registered, agent, execVars, nodeVars, stranded, faults>>

-----------------------------------------------------------------------------
(***************************************************************************)
(* The agent                                                               *)
(***************************************************************************)

Untunnel(S) ==
    tunnel' = [r \in Replicas |-> IF r \in S /\ tunnel[r] = "up" THEN "lost" ELSE tunnel[r]]

RequestDone(c) == \A u \in Users : users[u] # None => users[u].rid # target[c]

TakeCommand(c) ==
    /\ agent = "up" /\ exec = NoExec
    /\ phase[c] = "claimed" /\ \A d \in Cmd : phase[d] = "claimed" => c <= d
    /\ Overtake \/ RequestDone(c)
    /\ Contract!Start(c)
    /\ exec' = [cmd |-> c, at |-> kind[c]]
    /\ UNCHANGED <<rowVars, kind, target, planeVars, linkVars, agent, wire, nodeVars, stranded, faults>>

\* cmd_start_replica: run the container, then replace the tunnel task.
StartReplica ==
    /\ exec.at = "start"
    /\ LET r == target[exec.cmd] IN
         \/ /\ container' = container \cup {r}
            /\ task' = task \cup {r}
            /\ Untunnel({r})
            /\ exec' = [exec EXCEPT !.at = "done"]
         \/ /\ exec' = [exec EXCEPT !.at = "failed"]
            /\ UNCHANGED <<container, task, tunnel>>
    /\ UNCHANGED <<rowVars, cmdVars, planeVars, link, registered, agent, wire, sweep, stranded, faults>>

\* Mutant: the tunnel task survives the stop.
StopTunnelTaskKept ==
    /\ exec.at = "stop"
    /\ exec' = [exec EXCEPT !.at = "remove"]
    /\ UNCHANGED <<rowVars, cmdVars, planeVars, linkVars, agent, wire, nodeVars, stranded, faults>>

\* cmd_stop_replica: the tunnel first, then the container.
StopTunnelTask ==
    /\ exec.at = "stop"
    /\ LET r == target[exec.cmd] IN task' = task \ {r} /\ Untunnel({r})
    /\ exec' = [exec EXCEPT !.at = "remove"]
    /\ UNCHANGED <<rowVars, cmdVars, planeVars, link, registered, agent, wire, container, sweep, stranded, faults>>

RemoveContainer ==
    /\ exec.at = "remove"
    /\ \/ container' = container \ {target[exec.cmd]} /\ exec' = [exec EXCEPT !.at = "done"]
       \/ UNCHANGED container /\ exec' = [exec EXCEPT !.at = "failed"]
    /\ UNCHANGED <<rowVars, cmdVars, planeVars, linkVars, agent, wire, task, sweep, stranded, faults>>

\* The result leaves on the websocket the command came from, if it is up.
SendResult ==
    /\ exec.at \in {"done", "failed"}
    /\ wire' = IF phase[exec.cmd] = "running"
                 THEN Append(wire, [cmd |-> exec.cmd, status |-> exec.at]) ELSE wire
    /\ exec' = NoExec
    /\ UNCHANGED <<rowVars, cmdVars, planeVars, linkVars, agent, nodeVars, stranded, faults>>

\* _cleanup_orphaned_replica_containers: ask for the live replicas ...
SweepAsk ==
    /\ "sweep" \in Events
    /\ agent = "up" /\ link = "up" /\ sweep = None
    /\ sweep' = {r \in Replicas : row[r] \notin {"stopped", "error", "absent"}}
    /\ UNCHANGED <<rowVars, cmdVars, planeVars, linkVars, agent, execVars, container, task, stranded, faults>>

\* ... and remove the containers of all others.
SweepRemove ==
    /\ sweep # None
    /\ container' = container \cap sweep
    /\ sweep' = None
    /\ UNCHANGED <<rowVars, cmdVars, planeVars, linkVars, agent, execVars, task, stranded, faults>>

\* _drain_stale_commands of a starting agent: claim what is queued ...
DrainClaim ==
    /\ agent = "down"
    /\ agent' = "draining"
    /\ LET S == {c \in Cmd : phase[c] = "queued"} IN
         IF S = {} THEN UNCHANGED phase ELSE Contract!Claim(S)
    /\ UNCHANGED <<rowVars, kind, target, planeVars, linkVars, execVars, nodeVars, stranded, faults>>

\* ... and report it as failed.
DrainDiscard(c) ==
    /\ agent = "draining" /\ phase[c] = "claimed"
    /\ Contract!Discard(c)
    /\ SetRow(target[c], "error")
    /\ UNCHANGED <<nstat, kind, target, planeVars, linkVars, agent, execVars, nodeVars, stranded, faults>>

DrainDone ==
    /\ agent = "draining" /\ \A c \in Cmd : phase[c] # "claimed"
    /\ agent' = "up"
    /\ UNCHANGED <<rowVars, cmdVars, planeVars, linkVars, execVars, nodeVars, stranded, faults>>

-----------------------------------------------------------------------------
(***************************************************************************)
(* deploy_zero_downtime, as far as this node is concerned                  *)
(*                                                                         *)
(* All replicas are of one application.  What a deploy does on the primary *)
(* in between, its slots there and the refresh of the source on the node,  *)
(* takes time and may fail, and is otherwise LocalApp's and Revisions'.    *)
(***************************************************************************)

\* One slot for each running replica, or one if none is; none here if the
\* deploy is of the primary.
BeginDeploy(d) ==
    LET old == {r \in Replicas : row[r] = "running"} IN
    /\ deploys[d] = NoDeploy /\ Room(Cardinality(Replicas))
    /\ \E slots \in SUBSET Replicas :
          /\ IF old = {} THEN Cardinality(slots) <= 1 ELSE slots = old
          /\ slots # {} => nstat = "online"
          /\ deploys' = [deploys EXCEPT ![d] =
                [NoDeploy EXCEPT !.at = IF slots = {} THEN "retire" ELSE "insert", !.left = slots]]
    /\ UNCHANGED <<rowVars, cmdVars, users, recov, linkVars, agent, execVars, nodeVars, stranded, faults>>

\* The row of a slot is committed before its start is queued ...
ZdInsert(d, r) ==
    /\ deploys[d].at = "insert" /\ row[r] = "absent"
    /\ row' = [row EXCEPT ![r] = "starting"]
    /\ deploys' = [deploys EXCEPT ![d] =
          [@ EXCEPT !.at = "queue", !.rid = r, !.new = deploys[d].new \cup {r},
                    !.left = deploys[d].left \ {CHOOSE slot \in deploys[d].left : TRUE}]]
    /\ UNCHANGED <<nstat, cmdVars, users, recov, linkVars, agent, execVars, nodeVars, stranded, faults>>

\* ... unless every port of the node is taken, which ends the deploy there.
ZdNoPort(d) ==
    /\ deploys[d].at = "insert"
    /\ deploys' = [deploys EXCEPT ![d] = NoDeploy]
    /\ UNCHANGED <<rowVars, cmdVars, users, recov, linkVars, agent, execVars, nodeVars, stranded, faults>>

ZdQueue(d) ==
    /\ deploys[d].at = "queue"
    /\ Enqueue("start", deploys[d].rid)
    /\ deploys' = [deploys EXCEPT ![d] =
          IF @.left # {} THEN [@ EXCEPT !.at = "insert", !.rid = None]
                         ELSE [@ EXCEPT !.at = "check", !.rid = None, !.todo = deploys[d].new]]
    /\ UNCHANGED <<rowVars, users, recov, linkVars, agent, execVars, nodeVars, stranded, faults>>

\* The tunnel port of a row has appeared, and the instance answers through it.
ZdCheck(d, r) ==
    /\ deploys[d].at = "check" /\ r \in deploys[d].todo
    /\ row[r] \notin {"absent", "error"} /\ tunnel[r] = "up"
    /\ deploys' = [deploys EXCEPT ![d] =
          IF @.todo # {r} THEN [@ EXCEPT !.todo = deploys[d].todo \ {r}]
                          ELSE [@ EXCEPT !.at = "mark", !.todo = deploys[d].new]]
    /\ UNCHANGED <<rowVars, cmdVars, users, recov, linkVars, agent, execVars, nodeVars, stranded, faults>>

\* A row is in error or gone, or a tunnel, an answer or an instance of the
\* primary did not come in time: _zd_rollback.
ZdFails(d) ==
    /\ deploys[d].at \in {"insert", "check"}
    /\ deploys' = [deploys EXCEPT ![d] =
          IF @.new = {} THEN NoDeploy ELSE [@ EXCEPT !.at = "undo", !.left = {}, !.todo = deploys[d].new]]
    /\ UNCHANGED <<rowVars, cmdVars, users, recov, linkVars, agent, execVars, nodeVars, stranded, faults>>

\* Every new row is declared running, without another look at its tunnel,
\* which may have gone while the others were checked.
ZdMark(d, r) ==
    /\ deploys[d].at = "mark" /\ r \in deploys[d].todo
    /\ SetRow(r, "running")
    /\ stranded' = IF row[r] # "absent" /\ tunnel[r] # "up" THEN stranded \cup {r} ELSE stranded
    /\ deploys' = [deploys EXCEPT ![d] =
          [@ EXCEPT !.at = IF deploys[d].todo = {r} THEN "retire" ELSE "mark",
                    !.todo = deploys[d].todo \ {r}]]
    /\ UNCHANGED <<nstat, cmdVars, users, recov, linkVars, agent, execVars, nodeVars, faults>>

\* The other rows that are running now are to go: a stop is queued for each,
\* and the next commit deletes its row.
ZdRetire(d) ==
    /\ deploys[d].at = "retire"
    /\ LET old == {r \in Replicas \ deploys[d].new : row[r] = "running"} IN
         deploys' = [deploys EXCEPT ![d] =
             IF old = {} THEN NoDeploy ELSE [@ EXCEPT !.at = "stop", !.todo = old]]
    /\ UNCHANGED <<rowVars, cmdVars, users, recov, linkVars, agent, execVars, nodeVars, stranded, faults>>

DeleteInHand(d) == row' = [r \in Replicas |-> IF r = deploys[d].rid THEN "absent" ELSE row[r]]

ZdStop(d, r) ==
    /\ deploys[d].at = "stop" /\ r \in deploys[d].todo
    /\ Enqueue("stop", r)
    /\ DeleteInHand(d)
    /\ deploys' = [deploys EXCEPT ![d] = [@ EXCEPT !.todo = deploys[d].todo \ {r}, !.rid = r]]
    /\ UNCHANGED <<nstat, users, recov, linkVars, agent, execVars, nodeVars, stranded, faults>>

ZdEnd(d) ==
    /\ deploys[d].at = "stop" /\ deploys[d].todo = {}
    /\ DeleteInHand(d)
    /\ deploys' = [deploys EXCEPT ![d] = NoDeploy]
    /\ UNCHANGED <<nstat, cmdVars, users, recov, linkVars, agent, execVars, nodeVars, stranded, faults>>

\* _zd_rollback queues the stop of a new row that is still there, and deletes
\* the row in the next commit.
ZdUndo(d, r) ==
    /\ deploys[d].at = "undo" /\ r \in deploys[d].todo
    /\ IF row[r] = "absent" THEN UNCHANGED cmdVars ELSE Enqueue("stop", r)
    /\ deploys' = [deploys EXCEPT ![d] =
          [@ EXCEPT !.at = "undone", !.todo = deploys[d].todo \ {r}, !.rid = IF row[r] = "absent" THEN None ELSE r]]
    /\ UNCHANGED <<rowVars, users, recov, linkVars, agent, execVars, nodeVars, stranded, faults>>

ZdUndone(d) ==
    /\ deploys[d].at = "undone"
    /\ DeleteInHand(d)
    /\ deploys' = [deploys EXCEPT ![d] =
          IF @.todo = {} THEN NoDeploy ELSE [@ EXCEPT !.at = "undo", !.rid = None]]
    /\ UNCHANGED <<nstat, cmdVars, users, recov, linkVars, agent, execVars, nodeVars, stranded, faults>>

-----------------------------------------------------------------------------
(***************************************************************************)
(* Faults                                                                  *)
(***************************************************************************)

\* The network between the node and the control plane fails.
LinkDrops ==
    /\ link = "up"
    /\ Fault("link")
    /\ link' = "lost"
    /\ Untunnel(Replicas)
    /\ LoseCommands
    /\ sweep' = None
    /\ UNCHANGED <<rowVars, kind, target, planeVars, registered, agent, exec, container, task, stranded>>

TunnelDrops(r) ==
    /\ tunnel[r] = "up"
    /\ Fault("tunnel")
    /\ Untunnel({r})
    /\ UNCHANGED <<rowVars, cmdVars, planeVars, link, registered, agent, execVars, nodeVars, stranded>>

\* The agent process ends, alone or with its machine.
AgentCrash ==
    /\ agent # "down"
    /\ Fault("agent")
    /\ agent' = "down"
    /\ link' = IF link = "up" THEN "lost" ELSE link
    /\ Untunnel(Replicas)
    /\ LoseCommands
    /\ exec' = NoExec
    /\ task' = {}
    /\ container' \in {container, {}}
    /\ sweep' = None
    /\ UNCHANGED <<rowVars, kind, target, planeVars, registered, stranded>>

\* Only the database survives a crash of the control plane.
ServerRestart ==
    /\ Fault("server")
    /\ stranded' = Replicas
    /\ users' = [u \in Users |-> None]
    /\ recov' = [t \in Tasks |-> [at |-> "idle", todo |-> {}]]
    /\ deploys' = [d \in Deployers |-> NoDeploy]
    /\ link' = "none"
    /\ registered' = FALSE
    /\ tunnel' = [r \in Replicas |-> "down"]
    /\ LoseCommands
    /\ sweep' = None
    /\ UNCHANGED <<rowVars, kind, target, agent, exec, container, task>>

-----------------------------------------------------------------------------
RequestStep(u) == QueueRequested(u) \/ CommitRequest(u)

RecoverStep(t) ==
    \/ RecoverRead(t) \/ RecoverQueue(t)
    \/ \E r \in Replicas : RecoverSkip(t, r) \/ RecoverMark(t, r)

HandlerStep == ClaimCommands \/ ApplyResult \/ SocketClosed \/ MarkStale

ExecStep ==
    \/ \E c \in Cmd : TakeCommand(c)
    \/ StartReplica \/ StopTunnelTask \/ RemoveContainer \/ SendResult

AgentStep == AgentConnect \/ DrainClaim \/ DrainDone \/ \E c \in Cmd : DrainDiscard(c)

TunnelStep(r) == TunnelOpens(r) \/ TunnelCloses(r)

DeployStep(d) ==
    \/ ZdNoPort(d) \/ ZdQueue(d) \/ ZdFails(d) \/ ZdRetire(d) \/ ZdEnd(d) \/ ZdUndone(d)
    \/ \E r \in Replicas : \/ ZdInsert(d, r) \/ ZdCheck(d, r) \/ ZdMark(d, r)
                          \/ ZdStop(d, r) \/ ZdUndo(d, r)

FaultStep ==
    \/ LinkDrops \/ AgentCrash \/ ServerRestart \/ EvictSocket
    \/ \E r \in Replicas : TunnelDrops(r)

Next ==
    \/ \E u \in Users, r \in Replicas, op \in {"start", "stop"} : BeginRequest(u, r, op)
    \/ \E u \in Users : RequestStep(u)
    \/ \E t \in Tasks : RecoverStep(t)
    \/ \E d \in Deployers : BeginDeploy(d) \/ DeployStep(d)
    \/ HandlerStep \/ ExecStep \/ AgentStep
    \/ \E r \in Replicas : TunnelStep(r)
    \/ Heartbeat \/ MarkUnregistered
    \/ SweepAsk \/ SweepRemove
    \/ FaultStep

Spec == Init /\ [][Next]_vars

(***************************************************************************)
(* Every coroutine that is ready is run, the agent restarts (systemd) and  *)
(* reconnects for ever, and its tunnel tasks do.  Requests need not come   *)
(* and faults need not happen.                                             *)
(***************************************************************************)
Fairness ==
    /\ \A u \in Users : WF_vars(RequestStep(u))
    /\ \A t \in Tasks : WF_vars(RecoverStep(t))
    /\ \A d \in Deployers : WF_vars(DeployStep(d))
    /\ WF_vars(HandlerStep) /\ WF_vars(ExecStep) /\ WF_vars(AgentStep)
    /\ \A r \in Replicas : WF_vars(TunnelStep(r))

FairSpec == Spec /\ Fairness

-----------------------------------------------------------------------------
(***************************************************************************)
(* Properties                                                              *)
(***************************************************************************)

Status == {"running", "starting", "stopping", "stopped", "error", "node_offline"}
RowState == Status \cup {"absent"}
Request == [op: {"start", "stop"}, rid: Replicas, seen: Status,
            at: {"queue", "commit", "offline"}]
Deploy == [at: {"idle", "insert", "queue", "check", "mark", "retire", "stop", "undo", "undone"},
           left: SUBSET Replicas, new: SUBSET Replicas, todo: SUBSET Replicas,
           rid: Replicas \cup {None}]

\* Every variable keeps its shape.
TypeOK ==
    /\ row \in [Replicas -> RowState]
    /\ nstat \in {"online", "offline"}
    /\ kind \in [Cmd -> {"start", "stop", None}]
    /\ target \in [Cmd -> Replicas \cup {None}]
    /\ phase \in [Cmd -> Contract!Phase]
    /\ users \in [Users -> Request \cup {None}]
    /\ recov \in [Tasks -> [at: {"idle", "read", "next"} \cup Replicas, todo: SUBSET Replicas]]
    /\ deploys \in [Deployers -> Deploy]
    /\ \A d \in Deployers : deploys[d].at = "queue" => deploys[d].rid \in Replicas
    /\ link \in {"none", "up", "lost"}
    /\ registered \in BOOLEAN
    /\ tunnel \in [Replicas -> {"down", "up", "lost"}]
    /\ agent \in {"down", "draining", "up"}
    /\ exec \in {NoExec} \cup [cmd: Cmd, at: {"start", "stop", "remove", "done", "failed"}]
    /\ wire \in Seq([cmd: Cmd, status: {"done", "failed"}])
    /\ container \in SUBSET Replicas
    /\ task \in SUBSET Replicas
    /\ sweep \in (SUBSET Replicas) \cup {None}
    /\ stranded \in SUBSET Replicas
    /\ faults \in Nat

\* The handlers use the command table as its contract allows.
KeepsContract == Contract!Spec

\* A request, a recovery or a command is still to change the replica, or a
\* deploy that inserted its row is still to queue its start.
Busy(r) ==
    \/ \E u \in Users : users[u] # None /\ users[u].rid = r
    \/ \E t \in Tasks : recov[t].at = r \/ r \in recov[t].todo
    \/ \E d \in Deployers : deploys[d].at = "queue" /\ deploys[d].rid = r
    \/ \E c \in Cmd : target[c] = r /\ phase[c] \in {"queued", "claimed", "running"}

LastDone(k, r) ==
    \E c \in Cmd :
        /\ target[c] = r /\ kind[c] = k /\ phase[c] = "done"
        /\ \A d \in Cmd : (d > c /\ target[d] = r) => phase[d] = "absent"

\* While nothing fails, a replica whose last command was a stop is down on
\* both sides: no container, no tunnel task, and no row or one that says so,
\* unless a deploy declared it running after its tunnel had gone.
StopSticks ==
    \A r \in Replicas :
        (faults = 0 /\ ~Busy(r) /\ LastDone("stop", r)) =>
            /\ r \notin container \cup task
            /\ row[r] \in {"stopped", "absent"} \/ r \in stranded

\* A replica the table shows as running has a tunnel handler that will
\* withdraw it, unless since its last tunnel the control plane restarted or a
\* deploy declared it running without looking at its tunnel again.
RunningIsWatched ==
    \A r \in Replicas : row[r] = "running" => tunnel[r] # "down" \/ r \in stranded

\* A requested start or stop gets its answer while nothing fails: no replica
\* stays in a transitional status.
Settles ==
    \A r \in Replicas :
        row[r] \in {"starting", "stopping"} ~>
            (row[r] \notin {"starting", "stopping"} \/ faults > 0)

\* The orphan cleanup spares the containers of replicas that still exist.
SweepSparesLive ==
    [][\A r \in container \ container' :
          (sweep # None /\ exec'= exec /\ agent' = agent) => row[r] \notin Live]_vars

\* An instance that was running is brought back after every outage of its
\* node, or shows an error.
Reattached ==
    \A r \in Replicas :
        [](row[r] = "running" => []<>(row[r] \in {"running", "error"}))
=============================================================================
