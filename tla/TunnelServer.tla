---------------------------- MODULE TunnelServer ----------------------------
(***************************************************************************)
(* Reverse tunnels: the agent opens a websocket per replica, the control   *)
(* plane gives it a localhost port with a TCP listener, records the port   *)
(* in the replica's row and regenerates the nginx upstream from the rows.  *)
(*                                                                         *)
(* Handlers of different websockets interleave at every await: the dict of *)
(* tunnels, the bound sockets, the rows and the nginx files are four       *)
(* separate records of the same fact, updated at four different moments.   *)
(* All replicas are on one node and each belongs to its own application.   *)
(***************************************************************************)
EXTENDS Naturals, FiniteSets

CONSTANTS
    Replicas,
    Conns,        \* websocket slots; a slot is reused once nothing refers to it
    PortMax,      \* ports 1..PortMax stand for the configured range
    Overlap,      \* handlers of one replica may overlap while they set up or clean up
    MaxOthers,    \* bound: crashes, and writes of the rows by other parts
    None

Ports == 1..PortMax

ASSUME TunnelAssumption ==
    /\ PortMax \in Nat
    /\ MaxOthers \in Nat
    /\ Overlap \in BOOLEAN
    /\ None \notin Conns
    /\ None \notin Replicas
    /\ None \notin Ports

VARIABLES
    \* tunnel_server
    tunnels,     \* _tunnels[r]: the websocket whose entry is registered
    port,        \* local_port of the entry of websocket k
    bound,       \* websockets whose listener holds its port
    serving,     \* websockets whose entry has its _server, so that stop() closes it
    \* the websocket handlers
    pc, for,     \* where the handler of k is, and the replica it serves
    view,        \* the row it has read and not written yet
    open,        \* the websockets that are connected
    \* shared records
    row,         \* status and tunnel_port of the replica
    nginx,       \* the tunnel port in the upstream of the replica's application
    stranded,    \* replicas whose row nobody corrects before their next tunnel
    others

serverVars == <<tunnels, port, bound, serving>>
handlerVars == <<pc, for, view>>
sharedVars == <<row, nginx>>
boundVars == <<stranded, others>>
vars == <<serverVars, handlerVars, open, sharedVars, boundVars>>

Goto(k, p) == pc' = [pc EXCEPT ![k] = p]

\* The handler is over; a listener it leaves behind keeps its port.
Ends(k) ==
    /\ Goto(k, "gone")
    /\ for' = [for EXCEPT ![k] = None]
    /\ port' = IF k \in bound THEN port ELSE [port EXCEPT ![k] = None]

\* At rest a handler relays messages or has ended.
Resting(k) == pc[k] \in {"gone", "relay"}
HandlersOf(r) == {k \in Conns : for[k] = r}
AtRest(r) == \A k \in HandlersOf(r) : Resting(k)

\* Without Overlap the five seconds an agent waits before it reconnects are
\* enough for the previous handler of the replica.
Apart(k, r) == Overlap \/ \A l \in HandlersOf(r) \ {k} : Resting(l)

\* _next_free_port over the registered entries S.
UsedBy(S) == {port[k] : k \in S}
IsNextFree(p, S) ==
    /\ p \in Ports \ UsedBy(S)
    /\ \A q \in Ports \ UsedBy(S) : p <= q

Registered == {tunnels[r] : r \in Replicas} \ {None}

\* SQLAlchemy writes the attributes that differ from the ones it read.
Write(r, seen, status, tport) ==
    row' = [row EXCEPT ![r] =
              [status |-> IF seen.status = status THEN @.status ELSE status,
               tport  |-> IF seen.tport = tport THEN @.tport ELSE tport]]

\* _get_nginx_backends for the only replica of an application.
Upstream(r) == IF row[r].status = "running" THEN row[r].tport ELSE None

Init ==
    /\ tunnels = [r \in Replicas |-> None]
    /\ port = [k \in Conns |-> None]
    /\ bound = {}
    /\ serving = {}
    /\ pc = [k \in Conns |-> "gone"]
    /\ for = [k \in Conns |-> None]
    /\ view = [k \in Conns |-> None]
    /\ open = {}
    /\ row = [r \in Replicas |-> [status |-> "starting", tport |-> None]]
    /\ nginx = [r \in Replicas |-> None]
    /\ stranded = {}
    /\ others = 0

-----------------------------------------------------------------------------
(***************************************************************************)
(* replica_tunnel_ws and open_tunnel                                       *)
(***************************************************************************)

\* The agent runs one tunnel task per replica: its previous websocket is over.
Connect(k, r) ==
    /\ pc[k] = "gone" /\ k \notin bound \cup Registered
    /\ \A l \in open : for[l] # r
    /\ Apart(k, r)
    /\ Goto(k, "accepted")
    /\ for' = [for EXCEPT ![k] = r]
    /\ open' = open \cup {k}
    /\ UNCHANGED <<serverVars, view, sharedVars, boundVars>>

\* Mutant: the entry is forgotten without closing its listener.
ReplaceTunnelUnclosed(k) ==
    /\ pc[k] = "accepted"
    /\ tunnels[for[k]] \in serving
    /\ tunnels' = [tunnels EXCEPT ![for[k]] = None]
    /\ Goto(k, "register")
    /\ UNCHANGED <<port, bound, serving, for, view, open, sharedVars, boundVars>>

\* The replica has a tunnel: close_tunnel forgets it, closes its listener and
\* waits up to three seconds.
ReplaceTunnel(k) ==
    /\ pc[k] = "accepted"
    /\ LET old == tunnels[for[k]] IN
         /\ old \in serving
         /\ tunnels' = [tunnels EXCEPT ![for[k]] = None]
         /\ bound' = bound \ {old}
         /\ serving' = serving \ {old}
    /\ Goto(k, "register")
    /\ UNCHANGED <<port, for, view, open, sharedVars, boundVars>>

\* There is no tunnel to replace, or one whose listener has not started:
\* stop() has nothing to wait for then, and its port is free again.
Registering(k) ==
    \/ pc[k] = "register"
    \/ pc[k] = "accepted" /\ tunnels[for[k]] \notin serving

Competing(k) ==
    Registered \ (IF pc[k] = "accepted" THEN {tunnels[for[k]]} ELSE {})

\* Mutant: a port counts as used only once its listener is bound.
RegisterTunnelBound(k) ==
    /\ Registering(k)
    /\ \E p \in Ports :
         /\ IsNextFree(p, Competing(k) \cap bound)
         /\ tunnels' = [tunnels EXCEPT ![for[k]] = k]
         /\ port' = [port EXCEPT ![k] = p]
    /\ stranded' = stranded \ {for[k]}
    /\ Goto(k, "bind")
    /\ UNCHANGED <<bound, serving, for, view, open, sharedVars, others>>

\* Mutant: the search for a free port runs one port past the range.
RegisterTunnelPastRange(k) ==
    /\ Registering(k)
    /\ \E p \in 1..(PortMax + 1) \ UsedBy(Competing(k)) :
         /\ \A q \in Ports \ UsedBy(Competing(k)) : p <= q
         /\ tunnels' = [tunnels EXCEPT ![for[k]] = k]
         /\ port' = [port EXCEPT ![k] = p]
    /\ stranded' = stranded \ {for[k]}
    /\ Goto(k, "bind")
    /\ UNCHANGED <<bound, serving, for, view, open, sharedVars, others>>

\* The lowest port that no registered entry has.
RegisterTunnel(k) ==
    /\ Registering(k)
    /\ \E p \in Ports :
         /\ IsNextFree(p, Competing(k))
         /\ tunnels' = [tunnels EXCEPT ![for[k]] = k]
         /\ port' = [port EXCEPT ![k] = p]
    /\ stranded' = stranded \ {for[k]}
    /\ Goto(k, "bind")
    /\ UNCHANGED <<bound, serving, for, view, open, sharedVars, others>>

\* The handler returns without a look at the row, which may still show the
\* tunnel it replaced.
NoPortLeft(k) ==
    /\ Registering(k)
    /\ Ports \subseteq UsedBy(Competing(k))
    /\ tunnels' = IF pc[k] = "accepted" THEN [tunnels EXCEPT ![for[k]] = None] ELSE tunnels
    /\ open' = open \ {k}
    /\ stranded' = stranded \cup {for[k]}
    /\ Ends(k)
    /\ UNCHANGED <<bound, serving, view, sharedVars, others>>

\* asyncio.start_server binds after it resolved the address; a port that is
\* taken raises out of the handler, whose entry stays registered.
BindListener(k) ==
    /\ pc[k] = "bind"
    /\ IF \E l \in bound : port[l] = port[k]
         THEN /\ Goto(k, "gone")
              /\ open' = open \ {k}
              /\ UNCHANGED bound
         ELSE /\ Goto(k, "start")
              /\ bound' = bound \cup {k}
              /\ UNCHANGED open
    /\ UNCHANGED <<tunnels, port, serving, for, view, sharedVars, boundVars>>

StartServing(k) ==
    /\ pc[k] = "start"
    /\ serving' = serving \cup {k}
    /\ Goto(k, "read")
    /\ UNCHANGED <<tunnels, port, bound, for, view, open, sharedVars, boundVars>>

ReadRow(k) ==
    /\ pc[k] \in {"read", "readclosed"}
    /\ view' = [view EXCEPT ![k] = row[for[k]]]
    /\ Goto(k, IF pc[k] = "read" THEN "promote" ELSE "clear")
    /\ UNCHANGED <<serverVars, for, open, sharedVars, boundVars>>

\* Mutant: nginx is not regenerated for the new tunnel.
PromoteRowUnpublished(k) ==
    /\ pc[k] = "promote"
    /\ Write(for[k], view[k], "running", port[k])
    /\ view' = [view EXCEPT ![k] = None]
    /\ Goto(k, "relay")
    /\ UNCHANGED <<serverVars, for, open, nginx, boundVars>>

\* One commit makes the replica running and records the port.
PromoteRow(k) ==
    /\ pc[k] = "promote"
    /\ Write(for[k], view[k], "running", port[k])
    /\ view' = [view EXCEPT ![k] = None]
    /\ Goto(k, "publish")
    /\ UNCHANGED <<serverVars, for, open, nginx, boundVars>>

\* _regen_nginx_for_app: the rows are read and the file is written in one
\* go, since the handler resumes from the query before any later wake-up.
PublishRoute(k) ==
    /\ pc[k] \in {"publish", "withdraw"}
    /\ nginx' = [nginx EXCEPT ![for[k]] = Upstream(for[k])]
    /\ IF pc[k] = "publish"
         THEN Goto(k, "relay") /\ UNCHANGED <<for, port>>
         ELSE Ends(k)
    /\ UNCHANGED <<tunnels, bound, serving, view, open, row, boundVars>>

\* Mutant: the handler does not ask whether its tunnel is still active.
TearDownAny(k) ==
    /\ pc[k] = "relay" /\ k \notin open
    /\ Apart(k, for[k])
    /\ tunnels' = [tunnels EXCEPT ![for[k]] = None]
    /\ bound' = bound \ {tunnels[for[k]]}
    /\ serving' = serving \ {tunnels[for[k]]}
    /\ Goto(k, "readclosed")
    /\ UNCHANGED <<for, port, view, open, sharedVars, boundVars>>

\* Mutant: the handler tears its tunnel down and leaves the row as it is.
TearDownOnly(k) ==
    /\ pc[k] = "relay" /\ k \notin open
    /\ Apart(k, for[k])
    /\ tunnels' = [tunnels EXCEPT ![for[k]] = IF @ = k THEN None ELSE @]
    /\ bound' = bound \ {k}
    /\ serving' = serving \ {k}
    /\ Ends(k)
    /\ UNCHANGED <<view, open, sharedVars, boundVars>>

\* The websocket is lost.  A tunnel that is still the registered one is torn
\* down, and stop() waits for its listener; a replaced one is left alone.
TearDown(k) ==
    /\ pc[k] = "relay" /\ k \notin open
    /\ Apart(k, for[k])
    /\ IF tunnels[for[k]] = k
         THEN /\ tunnels' = [tunnels EXCEPT ![for[k]] = None]
              /\ bound' = bound \ {k}
              /\ serving' = serving \ {k}
              /\ Goto(k, "readclosed")
              /\ UNCHANGED <<for, port>>
         ELSE Ends(k) /\ UNCHANGED <<tunnels, bound, serving>>
    /\ UNCHANGED <<view, open, sharedVars, boundVars>>

\* Whether the node's agent websocket is registered, which either may be,
\* decides what the loss of the tunnel means.
ClearRow(k) ==
    /\ pc[k] = "clear"
    /\ \E s \in {"stopped", "node_offline"} : Write(for[k], view[k], s, None)
    /\ IF view[k].status = "running"
         THEN Goto(k, "withdraw") /\ UNCHANGED <<for, port>>
         ELSE Ends(k)
    /\ view' = [view EXCEPT ![k] = None]
    /\ UNCHANGED <<tunnels, bound, serving, open, nginx, boundVars>>

-----------------------------------------------------------------------------
(***************************************************************************)
(* The rest of the control plane, and faults                               *)
(***************************************************************************)

Drop(k) ==
    /\ k \in open
    /\ open' = open \ {k}
    /\ UNCHANGED <<serverVars, handlerVars, sharedVars, boundVars>>

Other ==
    /\ others < MaxOthers
    /\ others' = others + 1

\* The live replicas of a node that went offline, by agent_ws or by
\* mark_stale_nodes_offline; neither regenerates nginx.
MarkOffline ==
    /\ Other
    /\ \E r \in Replicas : row[r].status \in {"running", "starting"}
    /\ row' = [r \in Replicas |->
                 IF row[r].status \in {"running", "starting"}
                   THEN [status |-> "node_offline", tport |-> None] ELSE row[r]]
    /\ UNCHANGED <<serverVars, handlerVars, open, nginx, stranded>>

\* recover_node_replicas, which leaves nginx alone too.
RecoverReplica(r) ==
    /\ Other
    /\ row[r].status = "node_offline"
    /\ row' = [row EXCEPT ![r] = [status |-> "starting", tport |-> None]]
    /\ UNCHANGED <<serverVars, handlerVars, open, nginx, stranded>>

\* A stop request while the node is online; it ends with an nginx write.
StopReplica(r) ==
    /\ Other
    /\ row[r].status \in {"running", "starting", "node_offline"}
    /\ row' = [row EXCEPT ![r].status = "stopping"]
    /\ nginx' = [nginx EXCEPT ![r] = None]
    /\ UNCHANGED <<serverVars, handlerVars, open, stranded>>

\* The result of a start_replica or stop_replica command.
ApplyReplicaResult(r) ==
    /\ Other
    /\ \E s \in {"starting", "stopped", "error"} : row' = [row EXCEPT ![r].status = s]
    /\ UNCHANGED <<serverVars, handlerVars, open, nginx, stranded>>

\* A crash; the next process regenerates nginx from the rows it finds.
Restart ==
    /\ Other
    /\ stranded' = Replicas
    /\ tunnels' = [r \in Replicas |-> None]
    /\ port' = [k \in Conns |-> None]
    /\ bound' = {}
    /\ serving' = {}
    /\ pc' = [k \in Conns |-> "gone"]
    /\ for' = [k \in Conns |-> None]
    /\ view' = [k \in Conns |-> None]
    /\ open' = {}
    /\ nginx' = [r \in Replicas |-> Upstream(r)]
    /\ UNCHANGED row

HandlerStep(k) ==
    \/ ReplaceTunnel(k) \/ RegisterTunnel(k) \/ NoPortLeft(k) \/ BindListener(k)
    \/ StartServing(k) \/ ReadRow(k) \/ PromoteRow(k) \/ PublishRoute(k)
    \/ TearDown(k) \/ ClearRow(k)

Next ==
    \/ \E k \in Conns, r \in Replicas : Connect(k, r)
    \/ \E k \in Conns : HandlerStep(k) \/ Drop(k)
    \/ \E r \in Replicas : RecoverReplica(r) \/ StopReplica(r) \/ ApplyReplicaResult(r)
    \/ MarkOffline
    \/ Restart

Spec == Init /\ [][Next]_vars

-----------------------------------------------------------------------------
(***************************************************************************)
(* Properties                                                              *)
(***************************************************************************)

Status == {"running", "starting", "stopping", "stopped", "error", "node_offline"}
Row == [status: Status, tport: Ports \cup {None}]
HandlerPc == {"gone", "accepted", "register", "bind", "start", "read", "promote",
              "publish", "relay", "readclosed", "clear", "withdraw"}

\* Every variable keeps its shape.
TypeOK ==
    /\ tunnels \in [Replicas -> Conns \cup {None}]
    /\ port \in [Conns -> Ports \cup {None}]
    /\ bound \in SUBSET Conns
    /\ serving \in SUBSET Conns
    /\ pc \in [Conns -> HandlerPc]
    /\ for \in [Conns -> Replicas \cup {None}]
    /\ view \in [Conns -> Row \cup {None}]
    /\ open \in SUBSET Conns
    /\ row \in [Replicas -> Row]
    /\ nginx \in [Replicas -> Ports \cup {None}]
    /\ stranded \in SUBSET Replicas
    /\ others \in Nat

\* Two tunnels never have the same port, and the entry of a replica is one
\* its own websocket made: the port is chosen and registered before the
\* first await of open_tunnel.
PortsDistinct ==
    \A r, q \in Replicas :
        /\ (tunnels[r] # None /\ tunnels[q] # None /\ r # q) =>
              port[tunnels[r]] # port[tunnels[q]]
        /\ tunnels[r] # None => for[tunnels[r]] = r

\* No listener outlives its tunnel: a bound port belongs to the registered
\* tunnel of a replica, so _next_free_port may trust the dict.
NoLeakedListener == \A k \in bound : for[k] # None /\ tunnels[for[k]] = k

\* A replica the table shows as running is in the upstream of its
\* application with the port the table shows, once its handlers are at rest.
RunningIsRouted ==
    \A r \in Replicas :
        (AtRest(r) /\ row[r].status = "running") => nginx[r] = row[r].tport

\* A running replica has a live tunnel, and a recorded port is the one of that
\* tunnel, once its handlers are at rest.  Two ways to leave a row behind wait
\* for the replica's next tunnel: a crash, and a reconnection whose port was
\* taken by another replica while its old listener was closing.
RunningHasTunnel ==
    \A r \in Replicas \ stranded :
        (AtRest(r) /\ row[r].status = "running") =>
            tunnels[r] \in bound /\ row[r].tport \in {None, port[tunnels[r]]}

\* An agent whose websocket is relayed has its tunnel: the late cleanup of
\* the handler it replaced does not take the new tunnel down.
ConnectedHasTunnel ==
    \A k \in open : pc[k] = "relay" => (tunnels[for[k]] = k /\ k \in bound)

\* Traffic of an application reaches its own instance or nobody.
TrafficReachesItsInstance ==
    \A k \in bound, r \in Replicas :
        (nginx[r] = port[k] /\ \A q \in Replicas : AtRest(q)) => for[k] = r

\* A handler that cleans up after a lost websocket leaves the row of a
\* replica alone that has a new tunnel.
NewTunnelLeftAlone ==
    [][\A k \in Conns :
         (pc[k] = "clear" /\ pc'[k] # "clear" /\ tunnels[for[k]] \in bound /\ for'[k] = for[k])
            => row'[for[k]] = row[for[k]]]_vars
=============================================================================
