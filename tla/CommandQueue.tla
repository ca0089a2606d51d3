---------------------------- MODULE CommandQueue ----------------------------
(***************************************************************************)
(* The command table of one node and everything that reads or writes it:   *)
(* the request handlers that queue commands, the agent websocket handlers  *)
(* that claim and send them, the HTTP poll a starting agent uses to        *)
(* discard left-over commands, and the agent that runs them one at a time. *)
(* Every query of the code filters on node_id, so one node's queue is the  *)
(* whole story of that node.  Handlers that wait for a result only read    *)
(* the table and are left out, and so are the commands with id -1 that     *)
(* start a stream: they have no row.                                       *)
(*                                                                         *)
(* A coroutine runs undisturbed between two awaits; a handler is therefore *)
(* one action per database access or message, and what it read before an   *)
(* await is kept in its own state (seen, batch).                           *)
(***************************************************************************)
EXTENDS Naturals, Sequences, FiniteSets

CONSTANTS
    MaxCmds,     \* bound: rows ever inserted for this node
    Conns,       \* websocket slots; a slot is reused once both ends left it
    Polls,       \* slots for HTTP polls of the queue
    Callers,     \* request handlers that queue commands
    Keys,        \* (command_type, app_id) pairs the dedupe lookup compares
    ClaimLimit,  \* the LIMIT of the claim's SELECT (100, and 20 for a poll)
    MaxFaults,   \* bound: link drops, crashes, restarts and HTTP failures
    None         \* no connection, no command

Cmd == 1..MaxCmds
Claimers == Conns \cup Polls
Inflight == {"queued", "in_progress"}
Terminal == {"done", "failed"}

ASSUME QueueAssumption ==
    /\ MaxCmds \in Nat
    /\ ClaimLimit \in Nat \ {0}
    /\ MaxFaults \in Nat
    /\ Conns \cap Polls = {}
    /\ None \notin Claimers
    /\ None \notin Cmd

VARIABLES
    \* the node_commands table
    status,      \* status[c], "none" before the row exists
    key,         \* key[c]: its command type and application
    \* control plane memory
    registry,    \* _node_ws_connections[node_id]
    event,       \* _node_command_events[node_id] is set
    pc,          \* pc[k]: where the handler of websocket or poll k is
    seen,        \* seen[k]: the rows the claim of k selected
    batch,       \* batch[k]: the rows k claimed and has not sent yet
    callers,     \* callers[r]: the key request handler r is about to insert
    \* the network
    open,        \* the websockets that are open
    toAgent,     \* toAgent[k]: commands on their way or buffered by the agent
    toServer,    \* toServer[k]: results on their way back
    \* the agent process
    agent,       \* its loop, the connection it uses, the command it runs
    todo,        \* commands it is about to report as discarded
    \* history and bounds
    starts,      \* starts[c]: how often the agent began to run c
    faults

tableVars == <<status, key>>
planeVars == <<registry, event, callers>>
claimVars == <<pc, seen, batch>>
netVars   == <<open, toAgent, toServer>>
agentVars == <<agent, todo>>
histVars  == <<starts, faults>>
vars == <<tableVars, planeVars, claimVars, netVars, agentVars, histVars>>

\* The commands in a websocket buffer, and those a sequence of results is about.
Elems(s) == {s[i] : i \in 1..Len(s)}
Distinct(s) == \A i, j \in 1..Len(s) : s[i] = s[j] => i = j
CmdsOf(s) == {s[i].cmd : i \in 1..Len(s)}
DistinctCmds(s) == \A i, j \in 1..Len(s) : s[i].cmd = s[j].cmd => i = j

Rows == {c \in Cmd : status[c] # "none"}
Queued == {c \in Cmd : status[c] = "queued"}

\* ORDER BY created_at: rows are numbered in the order they are inserted.
IsOldest(c, S) == c \in S /\ \A d \in S : c <= d

Fault == /\ faults < MaxFaults
         /\ faults' = faults + 1

\* The agent's websocket loop has ended: what it had buffered is gone.
Disconnected(k) == toAgent' = [toAgent EXCEPT ![k] = <<>>]

AgentIs(p, k, c) == agent' = [pc |-> p, conn |-> k, cur |-> c]

Init ==
    /\ status = [c \in Cmd |-> "none"]
    /\ key = [c \in Cmd |-> None]
    /\ registry = None
    /\ event = FALSE
    /\ pc = [k \in Claimers |-> "gone"]
    /\ seen = [k \in Claimers |-> {}]
    /\ batch = [k \in Claimers |-> {}]
    /\ callers = [r \in Callers |-> None]
    /\ open = {}
    /\ toAgent = [k \in Conns |-> <<>>]
    /\ toServer = [k \in Conns |-> <<>>]
    /\ agent = [pc |-> "down", conn |-> None, cur |-> None]
    /\ todo = {}
    /\ starts = [c \in Cmd |-> 0]
    /\ faults = 0

-----------------------------------------------------------------------------
(***************************************************************************)
(* Request handlers: queue_node_command                                    *)
(***************************************************************************)

\* The dedupe lookup, for the callers that ask for it, ends the call when an
\* unfinished command of the same key exists; the insert is a later step.
BeginQueue(r) ==
    /\ callers[r] = None
    /\ \E k \in Keys, dedupe \in BOOLEAN :
         /\ dedupe => ~ \E c \in Cmd : status[c] \in Inflight /\ key[c] = k
         /\ callers' = [callers EXCEPT ![r] = k]
    /\ UNCHANGED <<tableVars, registry, event, claimVars, netVars, agentVars, histVars>>

InsertCommand(r) ==
    /\ callers[r] # None
    /\ \E c \in Cmd :
         /\ IsOldest(c, Cmd \ Rows)
         /\ status' = [status EXCEPT ![c] = "queued"]
         /\ key' = [key EXCEPT ![c] = callers[r]]
    /\ callers' = [callers EXCEPT ![r] = None]
    /\ event' = TRUE
    /\ UNCHANGED <<registry, claimVars, netVars, agentVars, histVars>>

-----------------------------------------------------------------------------
(***************************************************************************)
(* The agent websocket handler: agent_ws                                   *)
(***************************************************************************)

\* After the auth message: the previous websocket of the node is closed ...
CloseOldSocket(k) ==
    /\ pc[k] = "auth"
    /\ pc' = [pc EXCEPT ![k] = "register"]
    /\ open' = open \ ({registry} \ {k})
    /\ UNCHANGED <<tableVars, planeVars, seen, batch, toAgent, toServer, agentVars, histVars>>

\* ... and, after that await, this one takes its place.
RegisterSocket(k) ==
    /\ pc[k] = "register"
    /\ pc' = [pc EXCEPT ![k] = "loop"]
    /\ registry' = k
    /\ event' = TRUE
    /\ UNCHANGED <<tableVars, callers, seen, batch, netVars, agentVars, histVars>>

\* Mutant: the SELECT lists the newest rows first.
ClaimSelectNewest(k) ==
    /\ pc[k] = "loop"
    /\ k \in Conns => event
    /\ pc' = [pc EXCEPT ![k] = "claim"]
    /\ seen' = [seen EXCEPT ![k] =
                  {c \in Queued : Cardinality({d \in Queued : d > c}) < ClaimLimit}]
    /\ UNCHANGED <<tableVars, planeVars, batch, netVars, agentVars, histVars>>

\* _claim_pending_commands: the SELECT ...
ClaimSelect(k) ==
    /\ pc[k] = "loop"
    /\ k \in Conns => event
    /\ pc' = [pc EXCEPT ![k] = "claim"]
    /\ seen' = [seen EXCEPT ![k] =
                  {c \in Queued : Cardinality({d \in Queued : d < c}) < ClaimLimit}]
    /\ UNCHANGED <<tableVars, planeVars, batch, netVars, agentVars, histVars>>

\* Mutant: the UPDATE lacks its status = 'queued' condition.
ClaimUpdateAny(k) ==
    /\ pc[k] = "claim"
    /\ status' = [c \in Cmd |-> IF c \in seen[k] THEN "in_progress" ELSE status[c]]
    /\ batch' = [batch EXCEPT ![k] = seen[k]]
    /\ seen' = [seen EXCEPT ![k] = {}]
    /\ pc' = [pc EXCEPT ![k] = "send"]
    /\ UNCHANGED <<key, planeVars, netVars, agentVars, histVars>>

\* Mutant: the rows are sent but the claim is never committed.
ClaimUpdateUncommitted(k) ==
    /\ pc[k] = "claim"
    /\ batch' = [batch EXCEPT ![k] = seen[k] \cap Queued]
    /\ seen' = [seen EXCEPT ![k] = {}]
    /\ pc' = [pc EXCEPT ![k] = "send"]
    /\ UNCHANGED <<tableVars, planeVars, netVars, agentVars, histVars>>

\* ... and the conditional UPDATEs.  The first one takes SQLite's write lock
\* until the commit, so they are one step.
ClaimUpdate(k) ==
    /\ pc[k] = "claim"
    /\ LET won == seen[k] \cap Queued IN
         /\ status' = [c \in Cmd |-> IF c \in won THEN "in_progress" ELSE status[c]]
         /\ batch' = [batch EXCEPT ![k] = won]
    /\ seen' = [seen EXCEPT ![k] = {}]
    /\ pc' = [pc EXCEPT ![k] = "send"]
    /\ UNCHANGED <<key, planeVars, netVars, agentVars, histVars>>

\* A send on a websocket whose loss is not known yet vanishes.
SendCommand(k) ==
    /\ pc[k] = "send" /\ k \in Conns
    /\ \E c \in Cmd :
         /\ IsOldest(c, batch[k])
         /\ batch' = [batch EXCEPT ![k] = @ \ {c}]
         /\ toAgent' = IF k \in open THEN [toAgent EXCEPT ![k] = Append(@, c)] ELSE toAgent
    /\ UNCHANGED <<tableVars, planeVars, pc, seen, open, toServer, agentVars, histVars>>

\* A send on a closed websocket raises and ends the handler.
SendFails(k) ==
    /\ pc[k] = "send" /\ k \in Conns
    /\ batch[k] # {} /\ k \notin open
    /\ batch' = [batch EXCEPT ![k] = {}]
    /\ pc' = [pc EXCEPT ![k] = "closing"]
    /\ UNCHANGED <<tableVars, planeVars, seen, netVars, agentVars, histVars>>

\* Mutant: the handler clears the event when it has sent what it claimed.
BatchSentClears(k) ==
    /\ pc[k] = "send" /\ k \in Conns
    /\ batch[k] = {}
    /\ event' = FALSE
    /\ pc' = [pc EXCEPT ![k] = "recv"]
    /\ UNCHANGED <<tableVars, registry, callers, seen, batch, netVars, agentVars, histVars>>

BatchSent(k) ==
    /\ pc[k] = "send" /\ k \in Conns
    /\ batch[k] = {}
    /\ pc' = [pc EXCEPT ![k] = "recv"]
    /\ UNCHANGED <<tableVars, planeVars, seen, batch, netVars, agentVars, histVars>>

\* Each round of the handler's loop dispatches if the event is set, then looks
\* at what has arrived.  Nothing ever clears the node's event, so a round
\* without a dispatch would need a handler that runs before it is first set.
Receiving(k) == pc[k] \in {"loop", "recv"} /\ (pc[k] = "loop" => ~event)

\* command_result: _apply_command_result writes the status without looking
\* at the one the row has.
RecvResult(k) ==
    /\ Receiving(k)
    /\ toServer[k] # <<>>
    /\ LET m == Head(toServer[k]) IN
         status' = [status EXCEPT ![m.cmd] = m.status]
    /\ toServer' = [toServer EXCEPT ![k] = Tail(@)]
    /\ pc' = [pc EXCEPT ![k] = "loop"]
    /\ UNCHANGED <<key, planeVars, seen, batch, open, toAgent, agentVars, histVars>>

RecvNothing(k) ==
    /\ Receiving(k)
    /\ k \in open /\ toServer[k] = <<>>
    /\ pc' = [pc EXCEPT ![k] = "loop"]
    /\ UNCHANGED <<tableVars, planeVars, seen, batch, netVars, agentVars, histVars>>

RecvClosed(k) ==
    /\ Receiving(k)
    /\ k \notin open
    /\ pc' = [pc EXCEPT ![k] = "closing"]
    /\ UNCHANGED <<tableVars, planeVars, seen, batch, netVars, agentVars, histVars>>

\* Mutant: a closing handler puts the unfinished commands back in the queue.
HandlerEndsRequeue(k) ==
    /\ pc[k] = "closing"
    /\ pc' = [pc EXCEPT ![k] = "gone"]
    /\ registry' = IF registry = k THEN None ELSE registry
    /\ status' = [c \in Cmd |-> IF status[c] = "in_progress" THEN "queued" ELSE status[c]]
    /\ open' = open \ {k}
    /\ toServer' = [toServer EXCEPT ![k] = <<>>]
    /\ UNCHANGED <<key, event, callers, seen, batch, toAgent, agentVars, histVars>>

\* The finally block: forget the websocket if it is still the active one.
HandlerEnds(k) ==
    /\ pc[k] = "closing"
    /\ pc' = [pc EXCEPT ![k] = "gone"]
    /\ registry' = IF registry = k THEN None ELSE registry
    /\ open' = open \ {k}
    /\ toServer' = [toServer EXCEPT ![k] = <<>>]
    /\ UNCHANGED <<tableVars, event, callers, seen, batch, toAgent, agentVars, histVars>>

\* ping_node: no pong within five seconds drops the websocket from the
\* registry; its handler keeps running.
EvictSocket ==
    /\ registry # None
    /\ registry' = None
    /\ UNCHANGED <<tableVars, event, callers, claimVars, netVars, agentVars, histVars>>

-----------------------------------------------------------------------------
(***************************************************************************)
(* The agent: start_agent, _drain_stale_commands, _run_websocket_loop      *)
(***************************************************************************)

\* A starting agent first polls the queue over HTTP.
AgentStart(p) ==
    /\ agent.pc = "down"
    /\ pc[p] = "gone"
    /\ pc' = [pc EXCEPT ![p] = "loop"]
    /\ AgentIs("draining", p, None)
    /\ UNCHANGED <<tableVars, planeVars, seen, batch, netVars, todo, histVars>>

\* get_pending_commands answers; nobody may be waiting for it any more.
DrainRespond(p) ==
    /\ pc[p] = "send" /\ p \in Polls
    /\ pc' = [pc EXCEPT ![p] = "gone"]
    /\ batch' = [batch EXCEPT ![p] = {}]
    /\ IF agent.pc = "draining" /\ agent.conn = p
         THEN todo' = batch[p] /\ AgentIs("reporting", None, None)
         ELSE UNCHANGED agentVars
    /\ UNCHANGED <<tableVars, planeVars, seen, netVars, histVars>>

\* The poll timed out or failed while the control plane still works on it.
DrainGiveUp ==
    /\ agent.pc = "draining" /\ pc[agent.conn] # "gone"
    /\ Fault
    /\ AgentIs("offline", None, None)
    /\ UNCHANGED <<tableVars, planeVars, claimVars, netVars, todo, starts>>

\* The control plane restarted under the poll.
DrainAborted ==
    /\ agent.pc = "draining" /\ pc[agent.conn] = "gone"
    /\ AgentIs("offline", None, None)
    /\ UNCHANGED <<tableVars, planeVars, claimVars, netVars, todo, histVars>>

\* "Agent restarted - command discarded", reported over HTTP.
ReportDiscarded(c) ==
    /\ agent.pc = "reporting"
    /\ c \in todo
    /\ status' = [status EXCEPT ![c] = "failed"]
    /\ todo' = todo \ {c}
    /\ UNCHANGED <<key, planeVars, claimVars, netVars, agent, histVars>>

\* One failed POST abandons the rest of the list.
ReportFails ==
    /\ agent.pc = "reporting" /\ todo # {}
    /\ Fault
    /\ todo' = {}
    /\ UNCHANGED <<tableVars, planeVars, claimVars, netVars, agent, starts>>

\* Mutant: the agent enters its message loop without having connected.
DrainDoneIdle ==
    /\ agent.pc = "reporting" /\ todo = {}
    /\ AgentIs("idle", None, None)
    /\ UNCHANGED <<tableVars, planeVars, claimVars, netVars, todo, histVars>>

DrainDone ==
    /\ agent.pc = "reporting" /\ todo = {}
    /\ AgentIs("offline", None, None)
    /\ UNCHANGED <<tableVars, planeVars, claimVars, netVars, todo, histVars>>

AgentConnect(k) ==
    /\ agent.pc = "offline"
    /\ pc[k] = "gone" /\ k \notin open
    /\ pc' = [pc EXCEPT ![k] = "auth"]
    /\ open' = open \cup {k}
    /\ AgentIs("idle", k, None)
    /\ UNCHANGED <<tableVars, planeVars, seen, batch, toAgent, toServer, todo, histVars>>

\* Messages are handled one after the other, commands run inline.
TakeCommand ==
    /\ agent.pc = "idle"
    /\ toAgent[agent.conn] # <<>>
    /\ LET c == Head(toAgent[agent.conn]) IN
         /\ AgentIs("busy", agent.conn, c)
         /\ starts' = [starts EXCEPT ![c] = @ + 1]
    /\ toAgent' = [toAgent EXCEPT ![agent.conn] = Tail(@)]
    /\ UNCHANGED <<tableVars, planeVars, claimVars, open, toServer, todo, faults>>

\* The result goes back on the websocket the command came from.
FinishCommand ==
    /\ agent.pc = "busy"
    /\ \E o \in Terminal :
         toServer' = IF agent.conn \in open
                       THEN [toServer EXCEPT ![agent.conn] =
                               Append(@, [cmd |-> agent.cur, status |-> o])]
                       ELSE toServer
    /\ AgentIs("idle", agent.conn, None)
    /\ UNCHANGED <<tableVars, planeVars, claimVars, open, toAgent, todo, histVars>>

\* The loop ends on a closed websocket: when it waits for the next message,
\* or when it cannot send the result of the command it ran.
LeaveSocket ==
    /\ agent.pc \in {"idle", "busy"}
    /\ agent.conn \notin open
    /\ Disconnected(agent.conn)
    /\ AgentIs("offline", None, None)
    /\ UNCHANGED <<tableVars, planeVars, claimVars, open, toServer, todo, histVars>>

-----------------------------------------------------------------------------
(***************************************************************************)
(* Faults                                                                  *)
(***************************************************************************)

DropLink(k) ==
    /\ k \in open
    /\ Fault
    /\ open' = open \ {k}
    /\ UNCHANGED <<tableVars, planeVars, claimVars, toAgent, toServer, agentVars, starts>>

AgentCrash ==
    /\ agent.pc # "down"
    /\ Fault
    /\ IF agent.conn \in Conns
         THEN open' = open \ {agent.conn} /\ Disconnected(agent.conn)
         ELSE UNCHANGED <<open, toAgent>>
    /\ AgentIs("down", None, None)
    /\ todo' = {}
    /\ UNCHANGED <<tableVars, planeVars, claimVars, toServer, starts>>

\* Only the table survives a restart of the control plane.
ServerRestart ==
    /\ Fault
    /\ registry' = None
    /\ event' = FALSE
    /\ callers' = [r \in Callers |-> None]
    /\ pc' = [k \in Claimers |-> "gone"]
    /\ seen' = [k \in Claimers |-> {}]
    /\ batch' = [k \in Claimers |-> {}]
    /\ open' = {}
    /\ toServer' = [k \in Conns |-> <<>>]
    /\ UNCHANGED <<tableVars, toAgent, agentVars, starts>>

-----------------------------------------------------------------------------
CallerStep(r) == BeginQueue(r) \/ InsertCommand(r)

ClaimStep(k) == ClaimSelect(k) \/ ClaimUpdate(k)

SocketStep(k) ==
    \/ CloseOldSocket(k) \/ RegisterSocket(k)
    \/ SendCommand(k) \/ SendFails(k) \/ BatchSent(k)
    \/ RecvResult(k) \/ RecvNothing(k) \/ RecvClosed(k) \/ HandlerEnds(k)

AgentStep ==
    \/ \E p \in Polls : AgentStart(p)
    \/ \E c \in Cmd : ReportDiscarded(c)
    \/ DrainAborted \/ DrainDone \/ TakeCommand \/ FinishCommand \/ LeaveSocket
    \/ \E k \in Conns : AgentConnect(k)

FaultStep ==
    \/ \E k \in Conns : DropLink(k)
    \/ DrainGiveUp \/ ReportFails \/ AgentCrash \/ ServerRestart

Next ==
    \/ \E r \in Callers : CallerStep(r)
    \/ \E k \in Claimers : ClaimStep(k)
    \/ \E k \in Conns : SocketStep(k)
    \/ \E p \in Polls : DrainRespond(p)
    \/ AgentStep
    \/ EvictSocket
    \/ FaultStep

Spec == Init /\ [][Next]_vars

(***************************************************************************)
(* asyncio runs every ready coroutine, so each handler and the agent's     *)
(* loop is weakly fair; a request need not arrive and a fault need not     *)
(* happen.  The agent retries its connection for ever.                     *)
(***************************************************************************)
Fairness ==
    /\ \A k \in Claimers : WF_vars(ClaimStep(k))
    /\ \A k \in Conns : WF_vars(SocketStep(k))
    /\ \A p \in Polls : WF_vars(DrainRespond(p))
    /\ WF_vars(AgentStep)

FairSpec == Spec /\ Fairness

-----------------------------------------------------------------------------
(***************************************************************************)
(* Properties                                                              *)
(***************************************************************************)

Reply == [cmd: Cmd, status: Terminal]
HandlerPc == {"gone", "auth", "register", "loop", "claim", "send", "recv", "closing"}
AgentState ==
    [pc: {"down", "draining", "reporting", "offline"}, conn: Polls \cup {None}, cur: {None}]
      \cup [pc: {"idle"}, conn: Conns, cur: {None}]
      \cup [pc: {"busy"}, conn: Conns, cur: Cmd]

\* Every variable keeps its shape, and an agent that talks to the control
\* plane over a websocket has one.
TypeOK ==
    /\ status \in [Cmd -> {"none"} \cup Inflight \cup Terminal]
    /\ key \in [Cmd -> Keys \cup {None}]
    /\ registry \in Conns \cup {None}
    /\ event \in BOOLEAN
    /\ pc \in [Claimers -> HandlerPc]
    /\ seen \in [Claimers -> SUBSET Cmd]
    /\ batch \in [Claimers -> SUBSET Cmd]
    /\ callers \in [Callers -> Keys \cup {None}]
    /\ open \in SUBSET Conns
    /\ toAgent \in [Conns -> Seq(Cmd)]
    /\ toServer \in [Conns -> Seq(Reply)]
    /\ agent \in AgentState
    /\ todo \in SUBSET Cmd
    /\ starts \in [Cmd -> Nat]
    /\ faults \in Nat

\* The two claimers of a reconnecting node, the poll of a restarting agent
\* and every loss in between never make the agent run a command twice.
AtMostOnce == \A c \in Cmd : starts[c] <= 1

Unsent(c) == status[c] = "in_progress" /\ starts[c] = 0
Sent(c) == status[c] = "in_progress" /\ starts[c] = 1

\* Whoever holds a claimed command is its only holder.  Commands that were
\* claimed but not run are in one batch, one websocket buffer or the discard
\* list; commands that ran are the agent's current one or one pending result.
NotBegun == \A c \in Cmd : status[c] \in {"none", "queued"} => starts[c] = 0
BatchHolds == \A k \in Claimers : \A c \in batch[k] :
    /\ Unsent(c) /\ c \notin todo
    /\ \A l \in Claimers : k # l => c \notin batch[l]
    /\ \A l \in Conns : c \notin Elems(toAgent[l])
WireHolds == \A k \in Conns :
    /\ Distinct(toAgent[k])
    /\ \A c \in Elems(toAgent[k]) :
         /\ Unsent(c) /\ c \notin todo
         /\ \A l \in Conns : k # l => c \notin Elems(toAgent[l])
TodoHolds == \A c \in todo : Unsent(c)
AgentHolds == agent.pc = "busy" => Sent(agent.cur)
ReplyHolds == \A k \in Conns :
    /\ DistinctCmds(toServer[k])
    /\ \A c \in CmdsOf(toServer[k]) :
         /\ Sent(c) /\ c # agent.cur
         /\ \A l \in Conns : k # l => c \notin CmdsOf(toServer[l])
OneHolder ==
    NotBegun /\ BatchHolds /\ WireHolds /\ TodoHolds /\ AgentHolds /\ ReplyHolds

\* A recorded outcome is never reopened or overturned, although
\* _apply_command_result does not look at the status it overwrites.
OutcomeStands ==
    [][\A c \in Cmd : status[c] \in Terminal => status'[c] = status[c]]_vars

\* The agent runs the commands of its node in the order they were queued,
\* across reconnections: a command that lost its place is never run late.
RunsInOrder ==
    [][\A c, d \in Cmd : (starts'[c] > starts[c] /\ c < d) => starts[d] = 0]_vars

\* While nothing is lost, every queued command ends with a recorded result:
\* no wake-up of the dispatching handler is missed.
Delivered ==
    \A c \in Cmd : status[c] = "queued" ~> (status[c] \in Terminal \/ faults > 0)

\* The table implements the contract the replica handlers rely on.
Held == (UNION {batch[k] : k \in Claimers}) \cup (UNION {Elems(toAgent[k]) : k \in Conns})
          \cup todo \cup {agent.cur}
          \cup (UNION {CmdsOf(toServer[k]) : k \in Conns})

PhaseOf(c) ==
    CASE status[c] = "none"   -> "absent"
      [] status[c] = "in_progress" ->
           IF c \notin Held THEN "lost" ELSE IF starts[c] = 0 THEN "claimed" ELSE "running"
      [] OTHER -> status[c]

Contract == INSTANCE CommandContract WITH phase <- [c \in Cmd |-> PhaseOf(c)]

ImplementsContract == Contract!Spec
=============================================================================
