------------------------- MODULE TunnelServerProofs -------------------------
(***************************************************************************)
(* What holds of the tunnels for every number of replicas, websockets and  *)
(* ports, whether or not the handlers of a replica overlap.                *)
(***************************************************************************)
EXTENDS TunnelServer, TLAPS

(***************************************************************************)
(* A handler that has not ended serves a replica.                          *)
(***************************************************************************)
Employed == \A k \in Conns : pc[k] # "gone" => for[k] \in Replicas

(***************************************************************************)
(* PortsDistinct is not inductive: a handler that ends gives its slot      *)
(* back, so it must not be the registered one then.  Only the handlers     *)
(* that are past open_tunnel and not yet torn down are registered, or the  *)
(* ones whose bind failed and left their entry behind.                     *)
(***************************************************************************)
Holding == {"bind", "start", "read", "promote", "publish", "relay", "gone"}

Owned ==
    \A r \in Replicas : tunnels[r] # None =>
        /\ for[tunnels[r]] = r
        /\ port[tunnels[r]] \in Ports
        /\ pc[tunnels[r]] \in Holding

IInv == TypeOK /\ Employed /\ Owned /\ PortsDistinct

-----------------------------------------------------------------------------

(***************************************************************************)
(* When the handlers of a replica do not overlap, one of them at most is   *)
(* setting up or cleaning up; the entry it works on is its own, and an     *)
(* entry that is not served yet belongs to the handler that is at it.      *)
(***************************************************************************)
Alone ==
    \A k, l \in Conns :
        (k # l /\ for[k] # None /\ for[k] = for[l]) => Resting(k) \/ Resting(l)

Entered ==
    \A k \in Conns :
        pc[k] \in {"bind", "start", "read", "promote", "publish"} => tunnels[for[k]] = k

Cleared == \A k \in Conns : pc[k] = "register" => tunnels[for[k]] = None

Listening ==
    \A k \in Conns :
        /\ k \in bound => for[k] \in Replicas /\ tunnels[for[k]] = k
        /\ k \in bound => (k \in serving \/ pc[k] = "start")
        /\ k \in serving => k \in bound
        /\ pc[k] \in {"start", "read", "promote", "publish"} => k \in bound
        /\ pc[k] \in {"accepted", "register", "bind"} => k \notin bound

Newest ==
    \A k \in open : pc[k] = "relay" =>
        \A l \in Conns \ {k} : for[l] = for[k] => Resting(l)

SInv == IInv /\ Alone /\ Entered /\ Cleared /\ Listening /\ Newest /\ ConnectedHasTunnel

(***************************************************************************)
(* A row changes to "running" by PromoteRow only, and the handler that     *)
(* writes a row it read earlier finds in it the port it read or none.  A   *)
(* handler that clears a row leaves it not running, whichever attribute    *)
(* the flush leaves out.                                                   *)
(***************************************************************************)
Views ==
    \A k \in Conns :
        /\ pc[k] = "clear" /\ view[k].status # "running" => row[for[k]].status # "running"
        /\ pc[k] = "withdraw" => row[for[k]].status # "running"
        /\ pc[k] \in {"promote", "clear"} => row[for[k]].tport \in {view[k].tport, None}

\* The upstream lags behind the row between PromoteRow and PublishRoute only.
Routed ==
    \A r \in Replicas :
        (row[r].status = "running" /\ \A k \in HandlersOf(r) : pc[k] # "publish") =>
            nginx[r] = row[r].tport

\* The tunnel lags behind the row from its replacement or its loss until the
\* row is written again.
Settled == {"accepted", "publish", "relay", "gone", "withdraw"}
Tunnelled ==
    \A r \in Replicas \ stranded :
        (row[r].status = "running" /\ \A k \in HandlersOf(r) : pc[k] \in Settled) =>
            tunnels[r] \in bound /\ row[r].tport \in {None, port[tunnels[r]]}

RInv == SInv /\ Views /\ Routed /\ Tunnelled

-----------------------------------------------------------------------------
\* A flush of the ORM writes a row of the right shape.
LEMMA WriteKeepsRows ==
    ASSUME row \in [Replicas -> Row], NEW r \in Replicas, NEW seen,
           NEW st \in Status, NEW p \in Ports \cup {None}, Write(r, seen, st, p)
    PROVE  row' \in [Replicas -> Row]
BY DEF Write, Row

\* Every step keeps the shape of the variables, and every handler its replica.
LEMMA ShapeKept ==
    ASSUME TypeOK, Employed, [Next]_vars
    PROVE  TypeOK' /\ Employed'
<1> USE TunnelAssumption DEF serverVars, handlerVars, sharedVars, boundVars, TypeOK, Employed,
     HandlerPc, Goto
<1>1. ASSUME NEW k \in Conns, NEW r \in Replicas, Connect(k, r) PROVE TypeOK' /\ Employed'
  BY <1>1 DEF Connect
<1>2. ASSUME NEW k \in Conns, ReplaceTunnel(k) PROVE TypeOK' /\ Employed'
  BY <1>2 DEF ReplaceTunnel
<1>3. ASSUME NEW k \in Conns, RegisterTunnel(k) PROVE TypeOK' /\ Employed'
  BY <1>3 DEF RegisterTunnel, Registering
<1>4. ASSUME NEW k \in Conns, NoPortLeft(k) PROVE TypeOK' /\ Employed'
  BY <1>4 DEF NoPortLeft, Registering, Ends
<1>5. ASSUME NEW k \in Conns, BindListener(k) PROVE TypeOK' /\ Employed'
  BY <1>5 DEF BindListener
<1>6. ASSUME NEW k \in Conns, StartServing(k) PROVE TypeOK' /\ Employed'
  BY <1>6 DEF StartServing
<1>7. ASSUME NEW k \in Conns, ReadRow(k) PROVE TypeOK' /\ Employed'
  BY <1>7 DEF ReadRow
<1>8. ASSUME NEW k \in Conns, PromoteRow(k) PROVE TypeOK' /\ Employed'
  BY <1>8 DEF PromoteRow, Write, Row, Status
<1>9. ASSUME NEW k \in Conns, PublishRoute(k) PROVE TypeOK' /\ Employed'
  <2>1. for[k] \in Replicas
    BY <1>9 DEF PublishRoute
  <2>2. row[for[k]].tport \in Ports \cup {None}
    BY <2>1 DEF Row
  <2>3. nginx' \in [Replicas -> Ports \cup {None}]
    BY <1>9, <2>1, <2>2 DEF PublishRoute, Upstream
  <2> QED
    BY <1>9, <2>3 DEF PublishRoute, Ends
<1>10. ASSUME NEW k \in Conns, TearDown(k) PROVE TypeOK' /\ Employed'
  <2>1. CASE tunnels[for[k]] = k
    BY <1>10, <2>1 DEF TearDown
  <2>2. CASE tunnels[for[k]] # k
    BY <1>10, <2>2 DEF TearDown, Ends
  <2> QED
    BY <2>1, <2>2
<1>11. ASSUME NEW k \in Conns, ClearRow(k) PROVE TypeOK' /\ Employed'
  <2>1. row' \in [Replicas -> Row]
    <3>1. for[k] \in Replicas
      BY <1>11 DEF ClearRow
    <3>2. PICK s \in {"stopped", "node_offline"} : Write(for[k], view[k], s, None)
      BY <1>11 DEF ClearRow
    <3>3. s \in Status /\ row \in [Replicas -> Row]
      BY DEF Status
    <3> HIDE DEF TypeOK, Employed
    <3> QED
      BY <3>1, <3>2, <3>3, WriteKeepsRows
  <2>2. /\ pc' \in [Conns -> HandlerPc]
        /\ for' \in [Conns -> Replicas \cup {None}]
        /\ port' \in [Conns -> Ports \cup {None}]
        /\ view' \in [Conns -> Row \cup {None}]
    BY <1>11 DEF ClearRow, Ends
  <2>3. Employed'
    BY <1>11 DEF ClearRow, Ends
  <2> QED
    BY <1>11, <2>1, <2>2, <2>3 DEF ClearRow
<1>12. ASSUME NEW k \in Conns, Drop(k) PROVE TypeOK' /\ Employed'
  BY <1>12 DEF Drop
<1>13. CASE MarkOffline
  BY <1>13 DEF MarkOffline, Other, Row, Status
<1>14. ASSUME NEW r \in Replicas, RecoverReplica(r) PROVE TypeOK' /\ Employed'
  BY <1>14 DEF RecoverReplica, Other, Row, Status
<1>15. ASSUME NEW r \in Replicas, StopReplica(r) PROVE TypeOK' /\ Employed'
  BY <1>15 DEF StopReplica, Other, Row, Status
<1>16. ASSUME NEW r \in Replicas, ApplyReplicaResult(r) PROVE TypeOK' /\ Employed'
  BY <1>16 DEF ApplyReplicaResult, Other, Row, Status
<1>17. CASE Restart
  BY <1>17 DEF Restart, Other, Upstream, Row
<1>18. CASE UNCHANGED vars
  BY <1>18 DEF vars
<1> QED
  BY <1>1, <1>2, <1>3, <1>4, <1>5, <1>6, <1>7, <1>8, <1>9, <1>10, <1>11,
     <1>12, <1>13, <1>14, <1>15, <1>16, <1>17, <1>18
     DEF Next, HandlerStep

\* A new entry gets a port that no registered entry has, and a registered entry
\* keeps its port.
LEMMA PortsKept ==
    ASSUME IInv, [Next]_vars
    PROVE  Owned' /\ PortsDistinct'
<1> USE TunnelAssumption DEF serverVars, handlerVars, sharedVars, IInv,
     TypeOK, Employed, Owned, PortsDistinct, Holding, Goto
<1>1. ASSUME NEW k \in Conns, NEW r \in Replicas, Connect(k, r) PROVE Owned' /\ PortsDistinct'
  BY <1>1 DEF Connect, Registered
<1>2. ASSUME NEW k \in Conns, ReplaceTunnel(k) PROVE Owned' /\ PortsDistinct'
  BY <1>2 DEF ReplaceTunnel
<1>3. ASSUME NEW k \in Conns, RegisterTunnel(k) PROVE Owned' /\ PortsDistinct'
  BY <1>3 DEF RegisterTunnel, Registering, Competing, IsNextFree, UsedBy, Registered
<1>4. ASSUME NEW k \in Conns, NoPortLeft(k) PROVE Owned' /\ PortsDistinct'
  BY <1>4 DEF NoPortLeft, Registering, Ends
<1>5. ASSUME NEW k \in Conns, BindListener(k) PROVE Owned' /\ PortsDistinct'
  BY <1>5 DEF BindListener
<1>6. ASSUME NEW k \in Conns, StartServing(k) PROVE Owned' /\ PortsDistinct'
  BY <1>6 DEF StartServing
<1>7. ASSUME NEW k \in Conns, ReadRow(k) PROVE Owned' /\ PortsDistinct'
  BY <1>7 DEF ReadRow
<1>8. ASSUME NEW k \in Conns, PromoteRow(k) PROVE Owned' /\ PortsDistinct'
  BY <1>8 DEF PromoteRow
<1>9. ASSUME NEW k \in Conns, PublishRoute(k) PROVE Owned' /\ PortsDistinct'
  BY <1>9 DEF PublishRoute, Ends
<1>10. ASSUME NEW k \in Conns, TearDown(k) PROVE Owned' /\ PortsDistinct'
  BY <1>10 DEF TearDown, Ends
<1>11. ASSUME NEW k \in Conns, ClearRow(k) PROVE Owned' /\ PortsDistinct'
  BY <1>11 DEF ClearRow, Ends
<1>12. ASSUME NEW k \in Conns, Drop(k) PROVE Owned' /\ PortsDistinct'
  BY <1>12 DEF Drop
<1>13. CASE Restart
  BY <1>13 DEF Restart
<1>14. CASE UNCHANGED <<serverVars, handlerVars, open>>
  BY <1>14
<1> QED
  BY <1>1, <1>2, <1>3, <1>4, <1>5, <1>6, <1>7, <1>8, <1>9, <1>10, <1>11,
     <1>12, <1>13, <1>14
     DEF Next, HandlerStep, vars, MarkOffline, RecoverReplica, StopReplica,
         ApplyReplicaResult

\* Handlers of a replica that do not overlap leave each other's entry alone.
LEMMA EntriesKept ==
    ASSUME SInv, ~Overlap, [Next]_vars
    PROVE  Alone' /\ Entered' /\ Cleared' /\ Listening'
<1> USE TunnelAssumption DEF serverVars, handlerVars, sharedVars, SInv, IInv,
     TypeOK, Employed, Owned, Alone, Entered, Cleared, Listening, Resting,
     Holding, Goto
<1>1. ASSUME NEW k \in Conns, NEW r \in Replicas, Connect(k, r) PROVE Alone' /\ Entered' /\ Cleared' /\ Listening'
  BY <1>1 DEF Connect, Apart, HandlersOf, Registered
<1>2. ASSUME NEW k \in Conns, ReplaceTunnel(k) PROVE Alone' /\ Entered' /\ Cleared' /\ Listening'
  BY <1>2 DEF ReplaceTunnel
<1>3. ASSUME NEW k \in Conns, RegisterTunnel(k) PROVE Alone' /\ Entered' /\ Cleared' /\ Listening'
  BY <1>3 DEF RegisterTunnel, Registering
<1>4. ASSUME NEW k \in Conns, NoPortLeft(k) PROVE Alone' /\ Entered' /\ Cleared' /\ Listening'
  BY <1>4 DEF NoPortLeft, Registering, Ends
<1>5. ASSUME NEW k \in Conns, BindListener(k) PROVE Alone' /\ Entered' /\ Cleared' /\ Listening'
  BY <1>5 DEF BindListener
<1>6. ASSUME NEW k \in Conns, StartServing(k) PROVE Alone' /\ Entered' /\ Cleared' /\ Listening'
  BY <1>6 DEF StartServing
<1>7. ASSUME NEW k \in Conns, ReadRow(k) PROVE Alone' /\ Entered' /\ Cleared' /\ Listening'
  BY <1>7 DEF ReadRow
<1>8. ASSUME NEW k \in Conns, PromoteRow(k) PROVE Alone' /\ Entered' /\ Cleared' /\ Listening'
  BY <1>8 DEF PromoteRow
<1>9. ASSUME NEW k \in Conns, PublishRoute(k) PROVE Alone' /\ Entered' /\ Cleared' /\ Listening'
  BY <1>9 DEF PublishRoute, Ends
<1>10. ASSUME NEW k \in Conns, TearDown(k) PROVE Alone' /\ Entered' /\ Cleared' /\ Listening'
  BY <1>10 DEF TearDown, Ends, Apart, HandlersOf
<1>11. ASSUME NEW k \in Conns, ClearRow(k) PROVE Alone' /\ Entered' /\ Cleared' /\ Listening'
  BY <1>11 DEF ClearRow, Ends
<1>12. ASSUME NEW k \in Conns, Drop(k) PROVE Alone' /\ Entered' /\ Cleared' /\ Listening'
  BY <1>12 DEF Drop
<1>13. CASE Restart
  BY <1>13 DEF Restart
<1>14. CASE UNCHANGED <<serverVars, handlerVars, open>>
  BY <1>14
<1> QED
  BY <1>1, <1>2, <1>3, <1>4, <1>5, <1>6, <1>7, <1>8, <1>9, <1>10, <1>11,
     <1>12, <1>13, <1>14
     DEF Next, HandlerStep, vars, MarkOffline, RecoverReplica, StopReplica,
         ApplyReplicaResult

\* While a relayed websocket is connected, no other handler of its replica sets up
\* a tunnel or cleans up one.
LEMMA ConnectedKept ==
    ASSUME SInv, ~Overlap, [Next]_vars
    PROVE  Newest' /\ ConnectedHasTunnel'
<1> USE TunnelAssumption DEF serverVars, handlerVars, sharedVars, SInv, IInv,
     TypeOK, Employed, Owned, Alone, Entered, Cleared, Listening, Newest,
     ConnectedHasTunnel, Resting, Holding, Goto
<1>1. ASSUME NEW k \in Conns, NEW r \in Replicas, Connect(k, r) PROVE Newest' /\ ConnectedHasTunnel'
  BY <1>1 DEF Connect, Apart, HandlersOf, Registered
<1>2. ASSUME NEW k \in Conns, ReplaceTunnel(k) PROVE Newest' /\ ConnectedHasTunnel'
  BY <1>2 DEF ReplaceTunnel
<1>3. ASSUME NEW k \in Conns, RegisterTunnel(k) PROVE Newest' /\ ConnectedHasTunnel'
  BY <1>3 DEF RegisterTunnel, Registering
<1>4. ASSUME NEW k \in Conns, NoPortLeft(k) PROVE Newest' /\ ConnectedHasTunnel'
  BY <1>4 DEF NoPortLeft, Registering, Ends
<1>5. ASSUME NEW k \in Conns, BindListener(k) PROVE Newest' /\ ConnectedHasTunnel'
  BY <1>5 DEF BindListener
<1>6. ASSUME NEW k \in Conns, StartServing(k) PROVE Newest' /\ ConnectedHasTunnel'
  BY <1>6 DEF StartServing
<1>7. ASSUME NEW k \in Conns, ReadRow(k) PROVE Newest' /\ ConnectedHasTunnel'
  BY <1>7 DEF ReadRow
<1>8. ASSUME NEW k \in Conns, PromoteRow(k) PROVE Newest' /\ ConnectedHasTunnel'
  BY <1>8 DEF PromoteRow
<1>9. ASSUME NEW k \in Conns, PublishRoute(k) PROVE Newest' /\ ConnectedHasTunnel'
  BY <1>9 DEF PublishRoute, Ends
<1>10. ASSUME NEW k \in Conns, TearDown(k) PROVE Newest' /\ ConnectedHasTunnel'
  BY <1>10 DEF TearDown, Ends, Apart, HandlersOf
<1>11. ASSUME NEW k \in Conns, ClearRow(k) PROVE Newest' /\ ConnectedHasTunnel'
  BY <1>11 DEF ClearRow, Ends
<1>12. ASSUME NEW k \in Conns, Drop(k) PROVE Newest' /\ ConnectedHasTunnel'
  BY <1>12 DEF Drop
<1>13. CASE Restart
  BY <1>13 DEF Restart
<1>14. CASE UNCHANGED <<serverVars, handlerVars, open>>
  BY <1>14
<1> QED
  BY <1>1, <1>2, <1>3, <1>4, <1>5, <1>6, <1>7, <1>8, <1>9, <1>10, <1>11,
     <1>12, <1>13, <1>14
     DEF Next, HandlerStep, vars, MarkOffline, RecoverReplica, StopReplica,
         ApplyReplicaResult

-----------------------------------------------------------------------------
\* What a flush of the ORM leaves in a row.
LEMMA WriteEffect ==
    ASSUME row \in [Replicas -> Row], NEW r \in Replicas, NEW seen, NEW st, NEW p,
           Write(r, seen, st, p)
    PROVE  /\ row'[r].status = IF seen.status = st THEN row[r].status ELSE st
           /\ row'[r].tport = IF seen.tport = p THEN row[r].tport ELSE p
           /\ \A q \in Replicas : q # r => row'[q] = row[q]
BY DEF Write

\* The status of a row that is not handled changes to something that is not
\* running, and its port is kept or dropped.
RowsOnlyFade ==
    \A r \in Replicas :
        \/ row'[r] = row[r]
        \/ row'[r].status # "running" /\ row'[r].tport \in {row[r].tport, None}

LEMMA OthersFade ==
    ASSUME TypeOK,
           \/ MarkOffline
           \/ \E r \in Replicas : RecoverReplica(r) \/ StopReplica(r) \/ ApplyReplicaResult(r)
    PROVE  /\ RowsOnlyFade
           /\ UNCHANGED <<serverVars, handlerVars, open, stranded>>
           /\ \A r \in Replicas : nginx'[r] = nginx[r] \/ row'[r].status # "running"
<1> USE DEF TypeOK, RowsOnlyFade, Other
<1>1. CASE MarkOffline
  BY <1>1 DEF MarkOffline
<1>2. ASSUME NEW r \in Replicas, RecoverReplica(r) \/ StopReplica(r) \/ ApplyReplicaResult(r)
      PROVE  /\ RowsOnlyFade
             /\ UNCHANGED <<serverVars, handlerVars, open, stranded>>
             /\ \A q \in Replicas : nginx'[q] = nginx[q] \/ row'[q].status # "running"
  <2>1. CASE RecoverReplica(r)
    BY <2>1 DEF RecoverReplica
  <2>2. CASE StopReplica(r)
    BY <2>2 DEF StopReplica, Row
  <2>3. CASE ApplyReplicaResult(r)
    <3>1. PICK s \in {"starting", "stopped", "error"} : row' = [row EXCEPT ![r].status = s]
      BY <2>3 DEF ApplyReplicaResult
    <3> QED
      BY <2>3, <3>1 DEF ApplyReplicaResult, Row
  <2> QED
    BY <1>2, <2>1, <2>2, <2>3
<1> QED
  BY <1>1, <1>2

\* A handler that writes finds what it read or less, and clears for good.
LEMMA ViewsKept ==
    ASSUME RInv, ~Overlap, [Next]_vars
    PROVE  Views'
<1> USE TunnelAssumption DEF serverVars, handlerVars, sharedVars, RInv, SInv, IInv, TypeOK,
     Employed, Alone, Views, Resting, Goto
<1>1. ASSUME NEW k \in Conns, NEW r \in Replicas, Connect(k, r) PROVE Views'
  BY <1>1 DEF Connect
<1>2. ASSUME NEW k \in Conns, ReplaceTunnel(k) \/ BindListener(k) \/ StartServing(k) PROVE Views'
  BY <1>2 DEF ReplaceTunnel, BindListener, StartServing
<1>3. ASSUME NEW k \in Conns, RegisterTunnel(k) PROVE Views'
  BY <1>3 DEF RegisterTunnel, Registering
<1>4. ASSUME NEW k \in Conns, NoPortLeft(k) PROVE Views'
  BY <1>4 DEF NoPortLeft, Registering, Ends
<1>7. ASSUME NEW k \in Conns, ReadRow(k) PROVE Views'
  BY <1>7 DEF ReadRow, Row
<1>8. ASSUME NEW k \in Conns, PromoteRow(k) PROVE Views'
  <2>1. /\ for[k] \in Replicas /\ pc[k] = "promote"
        /\ \A q \in Replicas : q # for[k] => row'[q] = row[q]
    BY <1>8, WriteEffect DEF PromoteRow
  <2>2. \A l \in Conns : l # k /\ for[l] = for[k] => Resting(l)
    BY <2>1
  <2> QED
    BY <1>8, <2>1, <2>2 DEF PromoteRow
<1>9. ASSUME NEW k \in Conns, PublishRoute(k) PROVE Views'
  BY <1>9 DEF PublishRoute, Ends
<1>10. ASSUME NEW k \in Conns, TearDown(k) PROVE Views'
  BY <1>10 DEF TearDown, Ends
<1>11. ASSUME NEW k \in Conns, ClearRow(k) PROVE Views'
  <2>1. for[k] \in Replicas /\ pc[k] = "clear"
    BY <1>11 DEF ClearRow
  <2>2. PICK s \in {"stopped", "node_offline"} : Write(for[k], view[k], s, None)
    BY <1>11 DEF ClearRow
  <2>3. /\ row'[for[k]].status # "running"
        /\ \A q \in Replicas : q # for[k] => row'[q] = row[q]
    BY <2>1, <2>2, WriteEffect
  <2>4. \A l \in Conns : l # k /\ for[l] = for[k] => Resting(l)
    BY <2>1
  <2> QED
    BY <1>11, <2>1, <2>3, <2>4 DEF ClearRow, Ends
<1>12. ASSUME NEW k \in Conns, Drop(k) PROVE Views'
  BY <1>12 DEF Drop
<1>13. CASE Restart
  BY <1>13 DEF Restart
<1>14. CASE UNCHANGED vars
  BY <1>14 DEF vars
<1>15. CASE \/ MarkOffline
            \/ \E r \in Replicas : RecoverReplica(r) \/ StopReplica(r) \/ ApplyReplicaResult(r)
  BY <1>15, OthersFade DEF RowsOnlyFade
<1> QED
  BY <1>1, <1>2, <1>3, <1>4, <1>7, <1>8, <1>9, <1>10, <1>11, <1>12, <1>13, <1>14, <1>15
     DEF Next, HandlerStep

\* The regeneration that follows every change to "running" writes the port of
\* the row.
LEMMA RoutesKept ==
    ASSUME RInv, ~Overlap, [Next]_vars
    PROVE  Routed'
<1> USE TunnelAssumption DEF serverVars, handlerVars, sharedVars, RInv, SInv, IInv, TypeOK,
     Employed, Alone, Routed, Resting, HandlersOf, Goto
<1>1. ASSUME NEW k \in Conns, NEW r \in Replicas, Connect(k, r) PROVE Routed'
  BY <1>1 DEF Connect
<1>2. ASSUME NEW k \in Conns, ReplaceTunnel(k) \/ BindListener(k) \/ StartServing(k) \/ ReadRow(k)
      PROVE  Routed'
  BY <1>2 DEF ReplaceTunnel, BindListener, StartServing, ReadRow
<1>3. ASSUME NEW k \in Conns, RegisterTunnel(k) PROVE Routed'
  BY <1>3 DEF RegisterTunnel, Registering
<1>4. ASSUME NEW k \in Conns, NoPortLeft(k) PROVE Routed'
  BY <1>4 DEF NoPortLeft, Registering, Ends
<1>8. ASSUME NEW k \in Conns, PromoteRow(k) PROVE Routed'
  <2>1. /\ for[k] \in Replicas /\ pc[k] = "promote"
        /\ \A q \in Replicas : q # for[k] => row'[q] = row[q]
    BY <1>8, WriteEffect DEF PromoteRow
  <2> QED
    BY <1>8, <2>1 DEF PromoteRow
<1>9. ASSUME NEW k \in Conns, PublishRoute(k) PROVE Routed'
  <2>1. for[k] \in Replicas
    BY <1>9 DEF PublishRoute
  <2> QED
    BY <1>9, <2>1 DEF PublishRoute, Ends, Upstream
<1>10. ASSUME NEW k \in Conns, TearDown(k) PROVE Routed'
  BY <1>10 DEF TearDown, Ends
<1>11. ASSUME NEW k \in Conns, ClearRow(k) PROVE Routed'
  <2>1. for[k] \in Replicas /\ pc[k] = "clear"
    BY <1>11 DEF ClearRow
  <2>2. PICK s \in {"stopped", "node_offline"} : Write(for[k], view[k], s, None)
    BY <1>11 DEF ClearRow
  <2>3. /\ row'[for[k]].status # "running"
        /\ \A q \in Replicas : q # for[k] => row'[q] = row[q]
    BY <2>1, <2>2, WriteEffect DEF Views
  <2> QED
    BY <1>11, <2>1, <2>3 DEF ClearRow, Ends
<1>12. ASSUME NEW k \in Conns, Drop(k) PROVE Routed'
  BY <1>12 DEF Drop
<1>13. CASE Restart
  BY <1>13 DEF Restart, Upstream
<1>14. CASE UNCHANGED vars
  BY <1>14 DEF vars
<1>15. CASE \/ MarkOffline
            \/ \E r \in Replicas : RecoverReplica(r) \/ StopReplica(r) \/ ApplyReplicaResult(r)
  BY <1>15, OthersFade DEF RowsOnlyFade
<1> QED
  BY <1>1, <1>2, <1>3, <1>4, <1>8, <1>9, <1>10, <1>11, <1>12, <1>13, <1>14, <1>15
     DEF Next, HandlerStep

\* A running row is written by a handler that has its tunnel, and a tunnel that
\* goes is followed by a write of the row, a refused websocket or a crash.
LEMMA TunnelsKept ==
    ASSUME RInv, ~Overlap, [Next]_vars
    PROVE  Tunnelled'
<1> USE TunnelAssumption DEF serverVars, handlerVars, sharedVars, RInv, SInv, IInv, TypeOK,
     Employed, Alone, Tunnelled, Resting, HandlersOf, Settled, Goto
<1>1. ASSUME NEW k \in Conns, NEW r \in Replicas, Connect(k, r) PROVE Tunnelled'
  BY <1>1 DEF Connect, boundVars
<1>2. ASSUME NEW k \in Conns, ReplaceTunnel(k) PROVE Tunnelled'
  <2>1. for[k] \in Replicas /\ tunnels[for[k]] # None
    BY <1>2 DEF ReplaceTunnel
  <2>2. \A q \in Replicas : q # for[k] => tunnels[q] # tunnels[for[k]]
    BY <2>1 DEF Owned
  <2> QED
    BY <1>2, <2>1, <2>2 DEF ReplaceTunnel, boundVars
<1>3. ASSUME NEW k \in Conns, RegisterTunnel(k) PROVE Tunnelled'
  <2>1. for[k] \in Replicas
    BY <1>3 DEF RegisterTunnel, Registering
  <2>2. \A q \in Replicas : q # for[k] => tunnels[q] # k
    BY <2>1 DEF Owned
  <2> QED
    BY <1>3, <2>1, <2>2 DEF RegisterTunnel, Registering
<1>4. ASSUME NEW k \in Conns, NoPortLeft(k) PROVE Tunnelled'
  <2>1. for[k] \in Replicas
    BY <1>4 DEF NoPortLeft, Registering
  <2>2. \A q \in Replicas : q # for[k] => tunnels[q] # k
    BY <2>1 DEF Owned
  <2> QED
    BY <1>4, <2>1, <2>2 DEF NoPortLeft, Registering, Ends
<1>5. ASSUME NEW k \in Conns, BindListener(k) PROVE Tunnelled'
  <2>1. for[k] \in Replicas /\ pc[k] = "bind"
    BY <1>5 DEF BindListener
  <2>2. k \notin bound /\ tunnels[for[k]] = k
    BY <2>1 DEF Listening, Entered
  <2>3. ASSUME NEW l \in bound PROVE port[l] # port[k]
    <3>1. for[l] \in Replicas /\ tunnels[for[l]] = l /\ l # k
      BY <2>2, <2>3 DEF Listening
    <3> QED
      BY <2>1, <2>2, <3>1 DEF PortsDistinct
  <2> QED
    BY <1>5, <2>1, <2>3 DEF BindListener, boundVars
<1>6. ASSUME NEW k \in Conns, StartServing(k) \/ ReadRow(k) PROVE Tunnelled'
  BY <1>6 DEF StartServing, ReadRow, boundVars
<1>8. ASSUME NEW k \in Conns, PromoteRow(k) PROVE Tunnelled'
  <2>1. /\ for[k] \in Replicas /\ pc[k] = "promote"
        /\ row'[for[k]].tport = IF view[k].tport = port[k] THEN row[for[k]].tport ELSE port[k]
        /\ \A q \in Replicas : q # for[k] => row'[q] = row[q]
    BY <1>8, WriteEffect DEF PromoteRow
  <2>2. tunnels[for[k]] = k /\ k \in bound
    BY <2>1 DEF Entered, Listening
  <2>3. row'[for[k]].tport \in {None, port[k]}
    BY <2>1 DEF Views
  <2> QED
    BY <1>8, <2>1, <2>2, <2>3 DEF PromoteRow, boundVars
<1>9. ASSUME NEW k \in Conns, PublishRoute(k) PROVE Tunnelled'
  <2>1. for[k] \in Replicas
    BY <1>9 DEF PublishRoute
  <2>2. CASE pc[k] = "publish"
    BY <1>9, <2>1, <2>2 DEF PublishRoute, boundVars
  <2>3. CASE pc[k] = "withdraw"
    <3>1. \A r \in Replicas : tunnels[r] # k
      BY <2>3 DEF Owned, Holding
    <3> QED
      BY <1>9, <2>1, <2>3, <3>1 DEF PublishRoute, Ends, Views, boundVars
  <2> QED
    BY <1>9, <2>2, <2>3 DEF PublishRoute
<1>10. ASSUME NEW k \in Conns, TearDown(k) PROVE Tunnelled'
  <2>1. for[k] \in Replicas /\ \A q \in Replicas : q # for[k] => tunnels[q] # k
    BY <1>10 DEF TearDown, Owned
  <2>2. CASE tunnels[for[k]] = k
    BY <1>10, <2>1, <2>2 DEF TearDown, boundVars
  <2>3. CASE tunnels[for[k]] # k
    BY <1>10, <2>1, <2>3 DEF TearDown, Ends, boundVars
  <2> QED
    BY <2>2, <2>3
<1>11. ASSUME NEW k \in Conns, ClearRow(k) PROVE Tunnelled'
  <2>1. for[k] \in Replicas /\ pc[k] = "clear"
    BY <1>11 DEF ClearRow
  <2>2. PICK s \in {"stopped", "node_offline"} : Write(for[k], view[k], s, None)
    BY <1>11 DEF ClearRow
  <2>3. /\ row'[for[k]].status # "running"
        /\ \A q \in Replicas : q # for[k] => row'[q] = row[q]
    BY <2>1, <2>2, WriteEffect DEF Views
  <2>4. \A r \in Replicas : tunnels[r] # k
    BY <2>1 DEF Owned, Holding
  <2> QED
    BY <1>11, <2>1, <2>3, <2>4 DEF ClearRow, Ends, boundVars
<1>12. ASSUME NEW k \in Conns, Drop(k) PROVE Tunnelled'
  BY <1>12 DEF Drop, boundVars
<1>13. CASE Restart
  BY <1>13 DEF Restart
<1>14. CASE UNCHANGED vars
  BY <1>14 DEF vars, boundVars
<1>15. CASE \/ MarkOffline
            \/ \E r \in Replicas : RecoverReplica(r) \/ StopReplica(r) \/ ApplyReplicaResult(r)
  BY <1>15, OthersFade DEF RowsOnlyFade
<1> QED
  BY <1>1, <1>2, <1>3, <1>4, <1>5, <1>6, <1>8, <1>9, <1>10, <1>11, <1>12, <1>13, <1>14, <1>15
     DEF Next, HandlerStep

-----------------------------------------------------------------------------
\* Nothing is registered, bound or connected at first.
LEMMA InitShape == Init => IInv
<1> SUFFICES ASSUME Init PROVE IInv
  OBVIOUS
<1>1. row \in [Replicas -> Row]
  BY DEF Init, Row, Status
<1>2. TypeOK
  BY <1>1, TunnelAssumption DEF Init, TypeOK, HandlerPc
<1>3. Employed /\ Owned /\ PortsDistinct
  BY DEF Init, Employed, Owned, PortsDistinct
<1> QED
  BY <1>2, <1>3 DEF IInv

\* Nor is any handler running.
LEMMA InitSteady == Init => SInv
BY InitShape, TunnelAssumption
   DEF Init, SInv, Alone, Entered, Cleared, Listening, Newest, ConnectedHasTunnel, Resting

(***************************************************************************)
(* Every variable keeps its shape: no port outside the configured range is *)
(* ever handed out, recorded in a row or written to nginx.                 *)
(***************************************************************************)
THEOREM TunnelsWellTyped == Spec => []TypeOK
<1>1. Init => TypeOK /\ Employed
  BY InitShape DEF IInv
<1>2. TypeOK /\ Employed /\ [Next]_vars => TypeOK' /\ Employed'
  BY ShapeKept
<1> QED
  BY <1>1, <1>2, PTL DEF Spec

(***************************************************************************)
(* The tunnels of different replicas have different ports, even when the   *)
(* handlers of a replica overlap: _next_free_port and the registration of  *)
(* its result have no await between them.                                  *)
(***************************************************************************)
THEOREM PortsStayDistinct == Spec => []PortsDistinct
<1>1. Init => IInv
  BY InitShape
<1>2. IInv /\ [Next]_vars => IInv'
  BY ShapeKept, PortsKept DEF IInv
<1>3. IInv => PortsDistinct
  BY DEF IInv
<1> QED
  BY <1>1, <1>2, <1>3, PTL DEF Spec

\* With handlers that do not overlap, the whole invariant is inductive.
LEMMA SteadyKept == ASSUME ~Overlap PROVE SInv /\ [Next]_vars => SInv'
<1>1. SInv /\ [Next]_vars => IInv'
  BY ShapeKept, PortsKept DEF SInv, IInv
<1> QED
  BY <1>1, EntriesKept, ConnectedKept DEF SInv

(***************************************************************************)
(* When the pause before a reconnection is enough for the previous         *)
(* handler, no listener outlives its tunnel.                               *)
(***************************************************************************)
THEOREM NoListenerLeaks == ASSUME ~Overlap PROVE Spec => []NoLeakedListener
<1>1. SInv => NoLeakedListener
  BY TunnelAssumption DEF SInv, IInv, TypeOK, Listening, NoLeakedListener
<1>2. SInv /\ [Next]_vars => SInv'
  BY SteadyKept
<1> QED
  BY <1>1, <1>2, InitSteady, PTL DEF Spec

(***************************************************************************)
(* Under the same condition, an agent that is connected and relayed has    *)
(* its tunnel, whatever the handler it replaced does late.                 *)
(***************************************************************************)
THEOREM ConnectedKeepsTunnel == ASSUME ~Overlap PROVE Spec => []ConnectedHasTunnel
<1>1. SInv => ConnectedHasTunnel
  BY DEF SInv
<1>2. SInv /\ [Next]_vars => SInv'
  BY SteadyKept
<1> QED
  BY <1>1, <1>2, InitSteady, PTL DEF Spec

\* No row is running at first.
LEMMA InitRouted == Init => RInv
BY InitSteady DEF Init, RInv, Views, Routed, Tunnelled

LEMMA RoutedKept == ASSUME ~Overlap PROVE RInv /\ [Next]_vars => RInv'
BY SteadyKept, ViewsKept, RoutesKept, TunnelsKept DEF RInv

(***************************************************************************)
(* When the handlers of a replica do not overlap, a running replica at     *)
(* rest is in the upstream of its application with the port its row shows, *)
(* whatever stops, outages, recoveries and crashes come in between.        *)
(***************************************************************************)
THEOREM RunningReplicasAreRouted == ASSUME ~Overlap PROVE Spec => []RunningIsRouted
<1>1. RInv => RunningIsRouted
  BY DEF RInv, Routed, RunningIsRouted, AtRest, Resting
<1>2. RInv /\ [Next]_vars => RInv'
  BY RoutedKept
<1> QED
  BY <1>1, <1>2, InitRouted, PTL DEF Spec

(***************************************************************************)
(* Under the same condition it has a live tunnel, with the port its row    *)
(* shows if it shows one, except after a crash or a refused reconnection   *)
(* and until its next tunnel.                                              *)
(***************************************************************************)
THEOREM RunningReplicasHaveTunnels == ASSUME ~Overlap PROVE Spec => []RunningHasTunnel
<1>1. RInv => RunningHasTunnel
  BY DEF RInv, Tunnelled, RunningHasTunnel, AtRest, Resting, Settled
<1>2. RInv /\ [Next]_vars => RInv'
  BY RoutedKept
<1> QED
  BY <1>1, <1>2, InitRouted, PTL DEF Spec
=============================================================================
