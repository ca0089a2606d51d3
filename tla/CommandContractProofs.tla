------------------------ MODULE CommandContractProofs ------------------------
(***************************************************************************)
(* Two results about the command queue that need more than the custody of  *)
(* claimed commands: the agent runs its commands in the order they were    *)
(* queued, and the queue implements CommandContract.                       *)
(***************************************************************************)
EXTENDS CommandQueueProofs, FiniteSetTheorems

\* A command nobody has claimed yet, whether its row exists or not, and the
\* claimed commands a websocket may still bring to the agent.
Fresh(c) == status[c] \in {"none", "queued"}
Pending(k) == Elems(toAgent[k]) \cup batch[k]

\* Only a handler that is sending has a batch, and only the websocket the
\* agent uses is open or has anything buffered.
BatchOfSender == \A k \in Claimers : batch[k] # {} => pc[k] = "send"
OneSocket ==
    /\ open \subseteq {agent.conn}
    /\ \A k \in Conns : k # agent.conn => toAgent[k] = <<>>

\* Rows are numbered without gaps, and what a claim selected precedes every
\* unclaimed command it did not select.
RowsArePrefix == \A c, d \in Cmd : status[c] = "none" /\ status[d] # "none" => d < c
SelectedFirst ==
    \A k \in Claimers : \A e \in seen[k] :
       /\ status[e] # "none"
       /\ \A c \in Cmd : Fresh(c) /\ c \notin seen[k] => e < c

\* On the agent's websocket: begun commands, then the buffer, then the batch,
\* then the unclaimed commands.
PendingFirst == \A k \in Conns : k = agent.conn =>
    \A e \in Pending(k), c \in Cmd : Fresh(c) => e < c
Ascending(s) == \A i, j \in 1..Len(s) : i < j => s[i] < s[j]
BufferFirst == \A k \in Conns : k = agent.conn =>
    /\ Ascending(toAgent[k])
    /\ \A e \in Elems(toAgent[k]), c \in batch[k] : e < c
BegunFirst == \A d \in Cmd : starts[d] > 0 =>
    /\ \A c \in Cmd : Fresh(c) => d < c
    /\ \A k \in Conns : k = agent.conn => \A c \in Pending(k) : d < c

\* The order of a lane, and the inductive invariant.
Lane == PendingFirst /\ BufferFirst /\ BegunFirst
Sockets == BatchOfSender /\ OneSocket
Selection == RowsArePrefix /\ SelectedFirst

-----------------------------------------------------------------------------
(***************************************************************************)
(* Batches and sockets                                                     *)
(***************************************************************************)
LEMMA StepKeepsBatches ==
    ASSUME TypeOK, BatchOfSender, [Next]_vars
    PROVE  BatchOfSender'
<1> USE DEF tableVars, planeVars, claimVars, netVars, agentVars, histVars, BatchOfSender
<1>t. pc \in [Claimers -> HandlerPc] /\ batch \in [Claimers -> SUBSET Cmd]
  BY DEF TypeOK
<1>1. CASE UNCHANGED <<pc, batch>>
  BY <1>1
<1>2. ASSUME NEW k \in Claimers, ClaimSelect(k) \/ ClaimUpdate(k) PROVE BatchOfSender'
  BY <1>2, <1>t DEF ClaimSelect, ClaimUpdate
<1>3. ASSUME NEW k \in Conns, CloseOldSocket(k) \/ RegisterSocket(k) PROVE BatchOfSender'
  BY <1>3, <1>t, ClaimerKinds DEF CloseOldSocket, RegisterSocket
<1>4. ASSUME NEW k \in Conns, SendCommand(k) PROVE BatchOfSender'
  BY <1>4, <1>t, ClaimerKinds DEF SendCommand
<1>5. ASSUME NEW k \in Conns, SendFails(k) \/ BatchSent(k) PROVE BatchOfSender'
  BY <1>5, <1>t, ClaimerKinds DEF SendFails, BatchSent
<1>6. ASSUME NEW k \in Conns, RecvResult(k) \/ RecvNothing(k) \/ RecvClosed(k) \/ HandlerEnds(k)
      PROVE  BatchOfSender'
  BY <1>6, <1>t, ClaimerKinds DEF RecvResult, RecvNothing, RecvClosed, HandlerEnds, Receiving
<1>7. ASSUME NEW p \in Polls, DrainRespond(p) \/ AgentStart(p) PROVE BatchOfSender'
  BY <1>7, <1>t, ClaimerKinds DEF DrainRespond, AgentStart
<1>8. ASSUME NEW k \in Conns, AgentConnect(k) PROVE BatchOfSender'
  BY <1>8, <1>t, ClaimerKinds DEF AgentConnect
<1>9. CASE ServerRestart
  BY <1>9 DEF ServerRestart
<1> QED
  BY <1>1, <1>2, <1>3, <1>4, <1>5, <1>6, <1>7, <1>8, <1>9
     DEF Next, vars, CallerStep, BeginQueue, InsertCommand, ClaimStep, SocketStep, AgentStep,
         ReportDiscarded, DrainAborted, DrainDone, TakeCommand, FinishCommand, LeaveSocket,
         EvictSocket, FaultStep, DropLink, DrainGiveUp, ReportFails, AgentCrash

\* A websocket is opened only by an agent that has none, and an agent that
\* leaves one finds it closed or closes it.
LEMMA StepKeepsOneSocket ==
    ASSUME TypeOK, OneSocket, [Next]_vars
    PROVE  OneSocket'
<1> USE DEF tableVars, planeVars, claimVars, netVars, agentVars, histVars, OneSocket
<1>t. /\ open \subseteq Conns /\ None \notin Conns /\ Conns \cap Polls = {}
      /\ toAgent \in [Conns -> Seq(Cmd)]
      /\ agent.pc \in {"down", "draining", "reporting", "offline"} => agent.conn \in Polls \cup {None}
      /\ agent.pc \in {"idle", "busy"} => agent.conn \in Conns
  BY QueueAssumption DEF TypeOK, AgentState, Claimers
<1>1. CASE UNCHANGED <<toAgent, agent>> /\ open' \subseteq open
  BY <1>1
<1>2. ASSUME NEW k \in Conns, SendCommand(k) PROVE OneSocket'
  BY <1>2, <1>t DEF SendCommand
<1>3. ASSUME NEW p \in Polls, DrainRespond(p) \/ AgentStart(p) PROVE OneSocket'
  <2>1. CASE UNCHANGED agentVars
    BY <1>3, <2>1 DEF DrainRespond, AgentStart
  <2>2. CASE agent.pc \in {"down", "draining"} /\ agent'.conn \in Polls \cup {None}
    BY <1>3, <1>t, <2>2 DEF DrainRespond, AgentStart
  <2> QED
    BY <1>3, <2>1, <2>2 DEF DrainRespond, AgentStart, AgentIs
<1>4. CASE DrainAborted \/ DrainDone \/ DrainGiveUp
  BY <1>4, <1>t DEF DrainAborted, DrainDone, DrainGiveUp, AgentIs
<1>5. ASSUME NEW k \in Conns, AgentConnect(k) PROVE OneSocket'
  BY <1>5, <1>t DEF AgentConnect, AgentIs
<1>6. CASE TakeCommand \/ FinishCommand
  BY <1>6, <1>t DEF TakeCommand, FinishCommand, AgentIs
<1>7. CASE LeaveSocket
  BY <1>7, <1>t DEF LeaveSocket, AgentIs, Disconnected
<1>8. CASE AgentCrash
  BY <1>8, <1>t DEF AgentCrash, AgentIs, Disconnected
<1>9. CASE ServerRestart
  BY <1>9 DEF ServerRestart
<1>10. ASSUME NEW k \in Conns, CloseOldSocket(k) \/ HandlerEnds(k) \/ DropLink(k)
       PROVE  OneSocket'
  BY <1>1, <1>10 DEF CloseOldSocket, HandlerEnds, DropLink
<1> QED
  BY <1>1, <1>2, <1>3, <1>4, <1>5, <1>6, <1>7, <1>8, <1>9, <1>10
     DEF Next, vars, CallerStep, BeginQueue, InsertCommand, ClaimStep, ClaimSelect, ClaimUpdate,
         SocketStep, RegisterSocket, SendFails, BatchSent, RecvResult, RecvNothing, RecvClosed,
         AgentStep, ReportDiscarded, EvictSocket, FaultStep, ReportFails

-----------------------------------------------------------------------------
(***************************************************************************)
(* What a claim selects                                                    *)
(***************************************************************************)

\* A claim that stops at its limit stops between an older and a newer row.
LEMMA OldestAreClosed ==
    ASSUME NEW c \in Queued, NEW e \in Queued, e <= c,
           Cardinality({d \in Queued : d < c}) < ClaimLimit
    PROVE  Cardinality({d \in Queued : d < e}) < ClaimLimit
<1>1. IsFiniteSet(Cmd) /\ Queued \subseteq Cmd
  BY FS_Interval, QueueAssumption DEF Cmd, Queued
<1>2. \A d \in Queued : d \in Int
  BY <1>1 DEF Cmd
<1>3. {d \in Queued : d < e} \subseteq {d \in Queued : d < c}
  BY <1>2
<1>4. IsFiniteSet({d \in Queued : d < c})
  BY <1>1, FS_Subset
<1>5. /\ Cardinality({d \in Queued : d < e}) <= Cardinality({d \in Queued : d < c})
      /\ Cardinality({d \in Queued : d < e}) \in Nat /\ Cardinality({d \in Queued : d < c}) \in Nat
  BY <1>3, <1>4, FS_Subset, FS_CardinalityType
<1> QED
  BY <1>5, QueueAssumption

\* A step that neither inserts a row nor selects rows keeps Selection if it
\* only takes rows out of the queue.
ClaimsOnly ==
    /\ \A c \in Cmd : (status[c] = "none") <=> (status'[c] = "none")
    /\ \A c \in Cmd : Fresh(c)' => Fresh(c)
    /\ \A k \in Claimers : seen'[k] = seen[k] \/ seen'[k] = {}

LEMMA ClaimsKeepSelection ==
    ASSUME TypeOK, Selection, ClaimsOnly
    PROVE  Selection'
<1>1. RowsArePrefix'
  BY DEF Selection, ClaimsOnly, RowsArePrefix
<1>2. \A k \in Claimers : seen[k] \subseteq Cmd
  BY DEF TypeOK
<1>3. SelectedFirst'
  BY <1>2 DEF Selection, ClaimsOnly, SelectedFirst
<1> QED
  BY <1>1, <1>3 DEF Selection

LEMMA StepKeepsSelection ==
    ASSUME IInv, Selection, [Next]_vars
    PROVE  Selection'
<1> USE DEF tableVars, planeVars, claimVars, netVars, agentVars, histVars
<1>t. /\ status \in [Cmd -> {"none"} \cup Inflight \cup Terminal]
      /\ seen \in [Claimers -> SUBSET Cmd]
      /\ TypeOK
  BY DEF IInv, TypeOK
<1>1. CASE UNCHANGED <<status, seen>>
  BY <1>1, <1>t, ClaimsKeepSelection DEF ClaimsOnly, Fresh
<1>2. ASSUME NEW r \in Callers, InsertCommand(r) PROVE Selection'
  <2>1. PICK c \in Cmd : /\ IsOldest(c, Cmd \ Rows)
                         /\ status' = [status EXCEPT ![c] = "queued"]
    BY <1>2 DEF InsertCommand
  <2>2. /\ status[c] = "none" /\ \A d \in Cmd : status[d] = "none" => c <= d
        /\ UNCHANGED seen
    BY <1>2, <2>1 DEF IsOldest, Rows, InsertCommand
  <2>3. /\ status'[c] = "queued"
        /\ \A d : d # c => status'[d] = status[d]
    BY <1>t, <2>1
  <2>4. RowsArePrefix'
    <3> SUFFICES ASSUME NEW a \in Cmd, NEW b \in Cmd, status'[a] = "none", status'[b] # "none"
                 PROVE  b < a
      BY DEF RowsArePrefix
    <3>1. status[a] = "none" /\ a # c
      BY <2>3
    <3>2. c < a
      BY <3>1, <2>2 DEF Cmd
    <3> QED
      BY <3>1, <3>2, <2>3 DEF Selection, RowsArePrefix
  <2>5. SelectedFirst'
    BY <2>2, <2>3, <1>t DEF Selection, SelectedFirst, Fresh
  <2> QED
    BY <2>4, <2>5 DEF Selection
<1>3. ASSUME NEW k \in Claimers, ClaimSelect(k) PROVE Selection'
  <2>1. /\ seen' = [seen EXCEPT ![k] =
                      {c \in Queued : Cardinality({d \in Queued : d < c}) < ClaimLimit}]
        /\ UNCHANGED status
    BY <1>3 DEF ClaimSelect
  <2>2. RowsArePrefix'
    BY <2>1 DEF Selection, RowsArePrefix
  <2>3. ASSUME NEW e \in seen'[k]
        PROVE  /\ status'[e] # "none"
               /\ \A c \in Cmd : Fresh(c)' /\ c \notin seen'[k] => e < c
    <3>1. e \in Queued /\ Cardinality({d \in Queued : d < e}) < ClaimLimit
      BY <2>1, <2>3, <1>t
    <3>2. e \in Cmd /\ status[e] = "queued"
      BY <3>1 DEF Queued
    <3>3. ASSUME NEW c \in Cmd, Fresh(c)', c \notin seen'[k] PROVE e < c
      <4>1. CASE status[c] = "none"
        BY <4>1, <3>2 DEF Selection, RowsArePrefix
      <4>2. CASE status[c] = "queued"
        <5>1. c \in Queued
          BY <4>2 DEF Queued
        <5>2. c <= e => c \in seen'[k]
          BY <5>1, <3>1, <2>1, <1>t, OldestAreClosed
        <5> QED
          BY <5>2, <3>2, <3>3 DEF Cmd
      <4> QED
        BY <4>1, <4>2, <3>3, <2>1 DEF Fresh
    <3> QED
      BY <3>2, <3>3, <2>1
  <2>4. \A l \in Claimers : l # k => seen'[l] = seen[l]
    BY <2>1, <1>t
  <2>5. SelectedFirst'
    BY <2>1, <2>3, <2>4 DEF Selection, SelectedFirst, Fresh
  <2> QED
    BY <2>2, <2>5 DEF Selection
<1>4. ASSUME NEW k \in Claimers, ClaimUpdate(k) PROVE Selection'
  <2>1. /\ status' = [c \in Cmd |-> IF c \in seen[k] \cap Queued THEN "in_progress" ELSE status[c]]
        /\ seen' = [seen EXCEPT ![k] = {}]
    BY <1>4 DEF ClaimUpdate
  <2>2. \A c \in Cmd : (status[c] = "none" <=> status'[c] = "none") /\ (Fresh(c)' => Fresh(c))
    BY <2>1 DEF Queued, Fresh
  <2> QED
    BY <2>1, <2>2, <1>t, ClaimsKeepSelection DEF ClaimsOnly
<1>5. ASSUME NEW k \in Conns, RecvResult(k) PROVE Selection'
  <2> DEFINE m == Head(toServer[k])
  <2>1. toServer[k] \in Seq(Reply) /\ toServer[k] # <<>>
    BY <1>5 DEF RecvResult, IInv, TypeOK
  <2>2. m \in Reply
    BY <2>1
  <2>3. m.cmd \in Cmd /\ m.status \in Terminal /\ status[m.cmd] = "in_progress"
    BY <2>1, <2>2, CmdsTail DEF Reply, IInv, OneHolder, ReplyHolds, Sent
  <2>4. status' = [status EXCEPT ![m.cmd] = m.status] /\ UNCHANGED seen
    BY <1>5 DEF RecvResult
  <2> HIDE DEF m
  <2>5. \A c \in Cmd : (status[c] = "none" <=> status'[c] = "none") /\ (Fresh(c)' => Fresh(c))
    BY <2>3, <2>4, <1>t DEF Fresh, Terminal
  <2> QED
    BY <2>4, <2>5, <1>t, ClaimsKeepSelection DEF ClaimsOnly
<1>6. ASSUME NEW c \in Cmd, ReportDiscarded(c) PROVE Selection'
  <2>1. status' = [status EXCEPT ![c] = "failed"] /\ UNCHANGED seen /\ status[c] = "in_progress"
    BY <1>6 DEF ReportDiscarded, IInv, OneHolder, TodoHolds, Unsent
  <2>2. \A d \in Cmd : (status[d] = "none" <=> status'[d] = "none") /\ (Fresh(d)' => Fresh(d))
    BY <2>1, <1>t DEF Fresh
  <2> QED
    BY <2>1, <2>2, <1>t, ClaimsKeepSelection DEF ClaimsOnly
<1>7. CASE ServerRestart
  <2>1. UNCHANGED status /\ \A k \in Claimers : seen'[k] = {}
    BY <1>7 DEF ServerRestart
  <2> QED
    BY <2>1, <1>t, ClaimsKeepSelection DEF ClaimsOnly, Fresh
<1> QED
  BY <1>1, <1>2, <1>3, <1>4, <1>5, <1>6, <1>7
     DEF Next, vars, CallerStep, BeginQueue, ClaimStep, SocketStep, CloseOldSocket,
         RegisterSocket, SendCommand, SendFails, BatchSent, RecvNothing, RecvClosed, HandlerEnds,
         DrainRespond, AgentStep, AgentStart, DrainAborted, DrainDone, TakeCommand, FinishCommand,
         LeaveSocket, AgentConnect, EvictSocket, FaultStep, DropLink, DrainGiveUp, ReportFails,
         AgentCrash

-----------------------------------------------------------------------------
(***************************************************************************)
(* The order on the agent's websocket                                      *)
(***************************************************************************)

\* An ascending buffer stays ascending at both ends.
LEMMA AscendingAppend ==
    ASSUME NEW s \in Seq(Cmd), NEW c \in Cmd, Ascending(s), \A e \in Elems(s) : e < c
    PROVE  Ascending(Append(s, c))
<1>1. /\ Len(Append(s, c)) = Len(s) + 1
      /\ Append(s, c)[Len(s) + 1] = c
      /\ \A i \in 1..Len(s) : Append(s, c)[i] = s[i]
      /\ Len(s) \in Nat
  OBVIOUS
<1>2. \A i \in 1..Len(s) : s[i] < c
  BY DEF Elems
<1> QED
  BY <1>1, <1>2 DEF Ascending

LEMMA AscendingTail ==
    ASSUME NEW s \in Seq(Cmd), s # <<>>, Ascending(s)
    PROVE  /\ Ascending(Tail(s))
           /\ \A e \in Elems(Tail(s)) : Head(s) < e
<1>1. /\ Len(s) \in Nat /\ Len(s) > 0 /\ Head(s) = s[1]
      /\ Len(Tail(s)) = Len(s) - 1
      /\ \A i \in 1..Len(Tail(s)) : Tail(s)[i] = s[i + 1]
  OBVIOUS
<1> QED
  BY <1>1 DEF Elems, Ascending

\* A step after which the agent's websocket has only what it had, or nothing,
\* keeps the order of the lane.
LaneShrinks ==
    /\ UNCHANGED starts
    /\ \A c \in Cmd : Fresh(c)' => Fresh(c)
    /\ \A k \in Conns : k = agent'.conn =>
         \/ /\ k = agent.conn
            /\ toAgent'[k] = toAgent[k] \/ toAgent'[k] = <<>>
            /\ batch'[k] \subseteq batch[k]
         \/ toAgent'[k] = <<>> /\ batch'[k] = {}

LEMMA ShrinkingKeepsLane ==
    ASSUME Lane, LaneShrinks
    PROVE  Lane'
<1> USE DEF Lane, LaneShrinks
<1>1. Ascending(<<>>)
  BY DEF Ascending
<1>2. ASSUME NEW k \in Conns, k = agent'.conn
      PROVE  Pending(k)' = {} \/ (k = agent.conn /\ Pending(k)' \subseteq Pending(k))
  BY <1>2, EmptyBuffer DEF Pending
<1>3. PendingFirst'
  BY <1>2 DEF PendingFirst
<1>4. BufferFirst'
  BY <1>1, EmptyBuffer DEF BufferFirst
<1>5. BegunFirst'
  BY <1>2 DEF BegunFirst
<1> QED
  BY <1>3, <1>4, <1>5

\* A claim takes the oldest unclaimed commands.
LEMMA ClaimKeepsLane ==
    ASSUME TypeOK, Sockets, Selection, Lane, NEW k \in Claimers, ClaimUpdate(k)
    PROVE  Lane'
<1> DEFINE won == seen[k] \cap Queued
<1>1. /\ status' = [c \in Cmd |-> IF c \in won THEN "in_progress" ELSE status[c]]
      /\ batch' = [batch EXCEPT ![k] = won]
      /\ UNCHANGED <<toAgent, agent, starts>>
      /\ pc[k] = "claim"
  BY DEF ClaimUpdate, netVars, agentVars, histVars
<1>2. \A c \in won : c \in Cmd /\ Fresh(c)
  BY DEF Queued, Fresh
<1>3. ASSUME NEW e \in won, NEW c \in Cmd, Fresh(c)'
      PROVE  e < c
  <2>1. c \notin won /\ Fresh(c)
    BY <1>1, <1>3 DEF Fresh
  <2>2. c \notin seen[k]
    BY <2>1 DEF Queued, Fresh, Selection, SelectedFirst
  <2> QED
    BY <2>1, <2>2 DEF Selection, SelectedFirst
<1>4. \A c \in Cmd : Fresh(c)' => Fresh(c)
  BY <1>1 DEF Fresh
<1>5. \A l \in Claimers : batch'[l] = IF l = k THEN won ELSE batch[l]
  BY <1>1 DEF TypeOK
<1> HIDE DEF won
<1>6. CASE k # agent.conn
  BY <1>1, <1>4, <1>5, <1>6, ClaimerKinds, ShrinkingKeepsLane DEF LaneShrinks
<1>7. CASE k = agent.conn /\ k \in Conns
  <2> USE DEF Lane
  <2>1. /\ Pending(k)' = Elems(toAgent[k]) \cup won
        /\ Elems(toAgent[k]) \subseteq Pending(k)
    BY <1>1, <1>5 DEF Pending
  <2>2. PendingFirst'
    BY <1>1, <1>3, <1>4, <1>7, <2>1 DEF PendingFirst
  <2>3. BufferFirst'
    BY <1>1, <1>2, <1>5, <1>7, <2>1 DEF BufferFirst, PendingFirst
  <2>4. BegunFirst'
    BY <1>1, <1>2, <1>4, <1>7, <2>1 DEF BegunFirst
  <2> QED
    BY <2>2, <2>3, <2>4
<1>8. CASE k = agent.conn /\ k \notin Conns
  BY <1>1, <1>4, <1>5, <1>8, ShrinkingKeepsLane DEF LaneShrinks
<1> QED
  BY <1>6, <1>7, <1>8

\* The oldest command of the batch is the next one in the buffer.
LEMMA SendKeepsLane ==
    ASSUME TypeOK, Sockets, Lane, NEW k \in Conns, SendCommand(k)
    PROVE  Lane'
<1>1. PICK c \in Cmd :
        /\ c \in batch[k] /\ \A d \in batch[k] : c <= d
        /\ batch' = [batch EXCEPT ![k] = @ \ {c}]
        /\ toAgent' = IF k \in open THEN [toAgent EXCEPT ![k] = Append(@, c)] ELSE toAgent
  BY DEF SendCommand, IsOldest
<1>2. UNCHANGED <<status, agent, starts>>
  BY DEF SendCommand, tableVars, agentVars, histVars
<1>3. \A l \in Claimers : batch'[l] = IF l = k THEN batch[k] \ {c} ELSE batch[l]
  BY <1>1, ClaimerKinds DEF TypeOK
<1>4. toAgent \in [Conns -> Seq(Cmd)] /\ batch[k] \subseteq Cmd
  BY ClaimerKinds DEF TypeOK
<1>5. CASE k \notin open
  BY <1>1, <1>2, <1>3, <1>5, ClaimerKinds, ShrinkingKeepsLane DEF LaneShrinks, Fresh
<1>6. CASE k \in open
  <2>1. k = agent.conn
    BY <1>6 DEF Sockets, OneSocket
  <2>2. toAgent'[k] = Append(toAgent[k], c)
    BY <1>1, <1>4, <1>6
  <2> USE DEF Lane
  <2>3. Elems(toAgent'[k]) = Elems(toAgent[k]) \cup {c}
    BY <1>4, <2>2, ElemsAppend
  <2>4. Pending(k)' \subseteq Pending(k)
    BY <1>1, <1>3, <2>3, ClaimerKinds DEF Pending
  <2>5. PendingFirst'
    BY <1>2, <2>1, <2>4 DEF PendingFirst, Fresh
  <2>6. \A e \in Elems(toAgent[k]) : \A d \in batch[k] : e < d
    BY <2>1 DEF BufferFirst
  <2>7. Ascending(toAgent'[k])
    BY <1>1, <1>4, <2>1, <2>2, <2>6, AscendingAppend DEF BufferFirst
  <2>8. \A e \in Elems(toAgent'[k]), d \in batch'[k] : e < d
    <3>1. \A d \in batch[k] : d # c => c < d
      BY <1>1, <1>4 DEF Cmd
    <3> QED
      BY <1>3, <2>3, <2>6, <3>1, ClaimerKinds
  <2>9. BufferFirst'
    BY <1>2, <2>1, <2>7, <2>8 DEF BufferFirst
  <2>10. BegunFirst'
    BY <1>2, <2>1, <2>4 DEF BegunFirst, Fresh
  <2> QED
    BY <2>5, <2>9, <2>10
<1> QED
  BY <1>5, <1>6

\* The command the agent begins is older than all that may follow.
LEMMA TakeKeepsLane ==
    ASSUME TypeOK, Lane, TakeCommand
    PROVE  Lane'
<1>k. PICK k \in Conns : k = agent.conn
  BY AgentShape DEF TakeCommand, TypeOK
<1>1. toAgent[k] \in Seq(Cmd) /\ toAgent[k] # <<>>
  BY <1>k DEF TakeCommand, TypeOK
<1>2. PICK c \in Cmd : c = Head(toAgent[k])
  BY <1>1
<1>3. /\ agent'.conn = k
      /\ starts' = [starts EXCEPT ![c] = @ + 1]
      /\ toAgent' = [toAgent EXCEPT ![k] = Tail(@)]
      /\ UNCHANGED <<status, batch>>
  BY <1>2, <1>k DEF TakeCommand, AgentIs, tableVars, claimVars
<1>4. c \in Elems(toAgent[k]) /\ Elems(Tail(toAgent[k])) \subseteq Elems(toAgent[k])
  BY <1>1, <1>2, ElemsTail
<1> USE DEF Lane
<1>5. Ascending(Tail(toAgent[k])) /\ \A e \in Elems(Tail(toAgent[k])) : c < e
  BY <1>1, <1>2, <1>k, AscendingTail DEF BufferFirst
<1>6. \A d \in batch[k] : c < d
  BY <1>k, <1>4 DEF BufferFirst
<1>7. \A d \in Cmd : d # c => starts'[d] = starts[d]
  BY <1>2, <1>3 DEF TypeOK
<1>8. toAgent'[k] = Tail(toAgent[k])
  BY <1>3 DEF TypeOK
<1>9. c \in Pending(k) /\ \A d \in Cmd : Fresh(d) => c < d
  BY <1>k, <1>4 DEF Pending, PendingFirst
<1>10. Pending(k)' \subseteq Pending(k) /\ \A d \in Pending(k)' : c < d
  BY <1>3, <1>4, <1>5, <1>6, <1>8 DEF Pending
<1>11. PendingFirst'
  BY <1>3, <1>10, <1>k DEF PendingFirst, Fresh
<1>12. BufferFirst'
  BY <1>3, <1>4, <1>5, <1>8, <1>k DEF BufferFirst
<1>13. BegunFirst'
  BY <1>3, <1>7, <1>9, <1>10, <1>k DEF BegunFirst, Fresh
<1> QED
  BY <1>11, <1>12, <1>13

LEMMA StepKeepsLane ==
    ASSUME IInv, Sockets, Selection, Lane, [Next]_vars
    PROVE  Lane'
<1> USE DEF tableVars, planeVars, claimVars, netVars, agentVars, histVars
<1>t. /\ status \in [Cmd -> {"none"} \cup Inflight \cup Terminal]
      /\ batch \in [Claimers -> SUBSET Cmd]
      /\ toAgent \in [Conns -> Seq(Cmd)]
      /\ Conns \subseteq Claimers /\ Conns \cap Polls = {} /\ None \notin Conns
      /\ TypeOK
  BY ClaimerKinds, QueueAssumption DEF IInv, TypeOK, Claimers
<1>1. CASE UNCHANGED <<status, toAgent, batch, agent, starts>>
  BY <1>1, ShrinkingKeepsLane DEF LaneShrinks, Fresh
<1>2. ASSUME NEW r \in Callers, InsertCommand(r) PROVE Lane'
  <2>1. PICK c \in Cmd : status[c] = "none" /\ status' = [status EXCEPT ![c] = "queued"]
    BY <1>2 DEF InsertCommand, IsOldest, Rows
  <2>2. \A d \in Cmd : Fresh(d)' => Fresh(d)
    BY <2>1, <1>t DEF Fresh
  <2> QED
    BY <1>2, <2>2, ShrinkingKeepsLane DEF InsertCommand, LaneShrinks
<1>3. ASSUME NEW k \in Claimers, ClaimUpdate(k) PROVE Lane'
  BY <1>3, <1>t, ClaimKeepsLane
<1>4. ASSUME NEW k \in Conns, SendCommand(k) PROVE Lane'
  BY <1>4, <1>t, SendKeepsLane
<1>5. ASSUME NEW k \in Conns, SendFails(k) PROVE Lane'
  <2>1. \A l \in Conns : batch'[l] \subseteq batch[l]
    BY <1>5, <1>t DEF SendFails
  <2> QED
    BY <1>5, <2>1, ShrinkingKeepsLane DEF SendFails, LaneShrinks, Fresh
<1>6. ASSUME NEW k \in Conns, RecvResult(k) PROVE Lane'
  <2> DEFINE m == Head(toServer[k])
  <2>1. toServer[k] \in Seq(Reply) /\ toServer[k] # <<>>
    BY <1>6 DEF RecvResult, IInv, TypeOK
  <2>2. m \in Reply
    BY <2>1
  <2>3. m.cmd \in Cmd /\ m.status \in Terminal
    BY <2>2 DEF Reply
  <2>4. status' = [status EXCEPT ![m.cmd] = m.status]
    BY <1>6 DEF RecvResult
  <2> HIDE DEF m
  <2>5. \A c \in Cmd : Fresh(c)' => Fresh(c)
    BY <2>3, <2>4, <1>t DEF Fresh, Terminal
  <2> QED
    BY <1>6, <2>5, ShrinkingKeepsLane DEF RecvResult, LaneShrinks
<1>7. ASSUME NEW c \in Cmd, ReportDiscarded(c) PROVE Lane'
  <2>1. \A d \in Cmd : Fresh(d)' => Fresh(d)
    BY <1>7, <1>t DEF ReportDiscarded, Fresh
  <2> QED
    BY <1>7, <2>1, ShrinkingKeepsLane DEF ReportDiscarded, LaneShrinks
<1>8. ASSUME NEW p \in Polls, DrainRespond(p) PROVE Lane'
  <2>1. \A l \in Conns : batch'[l] = batch[l]
    BY <1>8, <1>t DEF DrainRespond
  <2>2. agent'.conn = agent.conn \/ agent'.conn = None
    BY <1>8 DEF DrainRespond, AgentIs
  <2> QED
    BY <1>8, <1>t, <2>1, <2>2, ShrinkingKeepsLane DEF DrainRespond, LaneShrinks, Fresh
<1>9. ASSUME NEW p \in Polls, AgentStart(p) PROVE Lane'
  BY <1>9, <1>t, ShrinkingKeepsLane DEF AgentStart, AgentIs, LaneShrinks, Fresh
<1>10. CASE DrainAborted \/ DrainDone \/ DrainGiveUp
  BY <1>10, <1>t, ShrinkingKeepsLane
     DEF DrainAborted, DrainDone, DrainGiveUp, AgentIs, LaneShrinks, Fresh
<1>11. CASE TakeCommand
  BY <1>11, <1>t, TakeKeepsLane
<1>12. CASE FinishCommand
  BY <1>12, ShrinkingKeepsLane DEF FinishCommand, AgentIs, LaneShrinks, Fresh
<1>13. CASE LeaveSocket
  BY <1>13, <1>t, ShrinkingKeepsLane DEF LeaveSocket, AgentIs, LaneShrinks, Fresh
<1>14. ASSUME NEW k \in Conns, AgentConnect(k) PROVE Lane'
  <2>1. /\ UNCHANGED <<status, starts, toAgent, batch>>
        /\ agent'.conn = k /\ pc[k] = "gone" /\ agent.pc = "offline"
    BY <1>14 DEF AgentConnect, AgentIs
  <2>2. agent.conn # k
    BY <2>1, <1>t DEF TypeOK, AgentState
  <2>3. toAgent[k] = <<>> /\ batch[k] = {}
    BY <2>1, <2>2, <1>t DEF Sockets, OneSocket, BatchOfSender
  <2> QED
    BY <2>1, <2>3, ShrinkingKeepsLane DEF LaneShrinks, Fresh
<1>15. CASE AgentCrash
  BY <1>15, <1>t, ShrinkingKeepsLane DEF AgentCrash, AgentIs, LaneShrinks, Fresh
<1>16. CASE ServerRestart
  <2>1. \A l \in Conns : batch'[l] = {}
    BY <1>16, <1>t DEF ServerRestart
  <2> QED
    BY <1>16, <2>1, ShrinkingKeepsLane DEF ServerRestart, LaneShrinks, Fresh
<1> QED
  BY <1>1, <1>2, <1>3, <1>4, <1>5, <1>6, <1>7, <1>8, <1>9, <1>10, <1>11, <1>12, <1>13, <1>14,
     <1>15, <1>16
     DEF Next, vars, CallerStep, BeginQueue, ClaimStep, ClaimSelect, SocketStep, CloseOldSocket,
         RegisterSocket, BatchSent, RecvNothing, RecvClosed, HandlerEnds, AgentStep, EvictSocket,
         FaultStep, DropLink, ReportFails

\* Nothing is claimed, buffered or begun at first.
LEMMA InitOrder == Init => Sockets /\ Selection /\ Lane
BY EmptyBuffer, QueueAssumption, ClaimerKinds
   DEF Init, Sockets, BatchOfSender, OneSocket, Selection, RowsArePrefix, SelectedFirst,
       Lane, PendingFirst, BufferFirst, BegunFirst, Pending, Ascending

\* The conjuncts support each other, on top of custody.
THEOREM OrderKept == Spec => [](IInv /\ Sockets /\ Selection /\ Lane)
<1>1. Spec => []IInv
  BY TypeCorrect, CustodyCorrect, RunsAtMostOnce, PTL DEF IInv
<1>2. IInv /\ Sockets /\ Selection /\ Lane /\ [Next]_vars => (Sockets /\ Selection /\ Lane)'
  BY StepKeepsBatches, StepKeepsOneSocket, StepKeepsSelection, StepKeepsLane DEF IInv, Sockets
<1>3. QED
  BY <1>1, <1>2, InitOrder, PTL DEF Spec

(***************************************************************************)
(* A command that has begun is newer than every one begun before it: a     *)
(* claim held up in an old handler, a lost buffer and a reconnection can   *)
(* lose a command but never make it run late.                              *)
(***************************************************************************)
THEOREM CommandsRunInOrder == Spec => RunsInOrder
<1>1. ASSUME IInv, Lane, [Next]_vars
      PROVE  [\A c, d \in Cmd : (starts'[c] > starts[c] /\ c < d) => starts[d] = 0]_vars
  <2>t. starts \in [Cmd -> Nat]
    BY <1>1 DEF IInv, TypeOK
  <2>1. UNCHANGED starts \/ TakeCommand
    BY <1>1 DEF Next, vars, tableVars, histVars, CallerStep, BeginQueue, InsertCommand, ClaimStep,
         ClaimSelect, ClaimUpdate, SocketStep, CloseOldSocket, RegisterSocket, SendCommand,
         SendFails, BatchSent, RecvResult, RecvNothing, RecvClosed, HandlerEnds, DrainRespond,
         AgentStep, AgentStart, ReportDiscarded, DrainAborted, DrainDone, FinishCommand,
         LeaveSocket, AgentConnect, EvictSocket, FaultStep, DropLink, DrainGiveUp, ReportFails,
         AgentCrash, ServerRestart
  <2>2. CASE UNCHANGED starts
    BY <2>2, <2>t
  <2>3. CASE TakeCommand
    <3> DEFINE k == agent.conn
               c == Head(toAgent[k])
    <3>1. k \in Conns
      BY <1>1, <2>3, AgentShape DEF TakeCommand, IInv, TypeOK
    <3>2. toAgent[k] \in Seq(Cmd) /\ toAgent[k] # <<>>
      BY <1>1, <2>3, <3>1 DEF TakeCommand, IInv, TypeOK
    <3>3. c \in Cmd /\ c \in Pending(k)
      BY <3>2, ElemsTail DEF Pending
    <3>4. starts' = [starts EXCEPT ![c] = @ + 1]
      BY <2>3 DEF TakeCommand
    <3>5. \A d \in Cmd : starts[d] > 0 => d < c
      BY <1>1, <3>1, <3>3 DEF Lane, BegunFirst
    <3> HIDE DEF k, c
    <3>6. \A d \in Cmd : starts'[d] > starts[d] => d = c
      BY <3>3, <3>4, <2>t
    <3>7. \A d \in Cmd : c < d => starts[d] = 0
      BY <3>3, <3>5, <2>t DEF Cmd
    <3> QED
      BY <3>6, <3>7
  <2> QED
    BY <2>1, <2>2, <2>3
<1>2. QED
  BY <1>1, OrderKept, PTL DEF Spec, RunsInOrder

-----------------------------------------------------------------------------
(***************************************************************************)
(* The queue implements CommandContract: a command's phase is read off its *)
(* row, its holder and whether the agent has begun it.                     *)
(***************************************************************************)

\* Who can hold a command.
LEMMA Holders ==
    ASSUME NEW c
    PROVE  c \in Held <=> \/ \E k \in Claimers : c \in batch[k]
                          \/ \E k \in Conns : c \in Elems(toAgent[k])
                          \/ c \in todo
                          \/ c = agent.cur
                          \/ \E k \in Conns : c \in CmdsOf(toServer[k])
BY DEF Held

LEMMA NextHolders ==
    ASSUME NEW c
    PROVE  c \in Held' <=> \/ \E k \in Claimers : c \in batch'[k]
                           \/ \E k \in Conns : c \in Elems(toAgent'[k])
                           \/ c \in todo'
                           \/ c = agent'.cur
                           \/ \E k \in Conns : c \in CmdsOf(toServer'[k])
BY DEF Held

\* A step that only lets go of commands loses them: nobody will run or
\* report them, and their rows stay in progress.
LEMMA LettingGoIsLose ==
    ASSUME UNCHANGED <<status, starts>>, \A c \in Cmd : c \in Held' => c \in Held
    PROVE  Contract!Next
<1> DEFINE S == {c \in Cmd : status[c] = "in_progress" /\ c \in Held /\ c \notin Held'}
<1>1. \A c \in S : PhaseOf(c) \in {"claimed", "running"}
  BY DEF PhaseOf
<1>2. ASSUME NEW c \in Cmd
      PROVE  PhaseOf(c)' = IF c \in S THEN "lost" ELSE PhaseOf(c)
  <2>1. CASE c \in S
    BY <2>1 DEF PhaseOf
  <2>2. CASE c \notin S /\ status[c] = "in_progress"
    BY <2>2 DEF PhaseOf
  <2>3. CASE status[c] # "in_progress"
    BY <2>3 DEF PhaseOf
  <2> QED
    BY <2>1, <2>2, <2>3
<1> HIDE DEF S
<1>3. S \in SUBSET Contract!Cmd /\ Contract!Cmd = Cmd
  BY DEF S, Cmd, Contract!Cmd
<1>4. Contract!Move(S, "lost")
  BY <1>2, <1>3 DEF Contract!Move
<1>5. Contract!Lose(S)
  BY <1>1, <1>3, <1>4 DEF Contract!Lose
<1> QED
  BY <1>3, <1>5 DEF Contract!Next

\* The step that moves the phase of one command, and of no other.
LEMMA OneMoves ==
    ASSUME NEW c \in Cmd, NEW to, PhaseOf(c)' = to,
           \A d \in Cmd : d # c => PhaseOf(d)' = PhaseOf(d)
    PROVE  Contract!Move({c}, to) /\ Contract!Cmd = Cmd
BY DEF Contract!Move, Contract!Cmd, Cmd

LEMMA InsertIsSubmit ==
    ASSUME TypeOK, NEW r \in Callers, InsertCommand(r)
    PROVE  Contract!Next
<1>1. PICK c \in Cmd : IsOldest(c, Cmd \ Rows) /\ status' = [status EXCEPT ![c] = "queued"]
  BY DEF InsertCommand
<1>2. status[c] = "none" /\ \A d \in Cmd : d < c => status[d] # "none"
  BY <1>1 DEF IsOldest, Rows, Cmd
<1>3. UNCHANGED <<starts, Held>>
  BY DEF InsertCommand, claimVars, netVars, agentVars, histVars, Held
<1>4. status'[c] = "queued" /\ \A d \in Cmd : d # c => status'[d] = status[d]
  BY <1>1 DEF TypeOK
<1>5. PhaseOf(c) = "absent" /\ PhaseOf(c)' = "queued"
  BY <1>2, <1>4 DEF PhaseOf
<1>6. \A d \in Cmd : d # c => PhaseOf(d)' = PhaseOf(d)
  BY <1>3, <1>4 DEF PhaseOf
<1>7. \A d \in Cmd : d < c => PhaseOf(d) # "absent"
  <2> TAKE d \in Cmd
  <2> HAVE d < c
  <2>1. status[d] \in {"queued", "in_progress", "done", "failed"}
    BY <1>2 DEF TypeOK, Inflight, Terminal
  <2> QED
    BY <2>1 DEF PhaseOf
<1>8. Contract!Move({c}, "queued") /\ Contract!Cmd = Cmd
  BY <1>5, <1>6, OneMoves
<1>9. Contract!Submit(c)
  BY <1>5, <1>7, <1>8 DEF Contract!Submit
<1> QED
  BY <1>8, <1>9 DEF Contract!Next

\* The rows an UPDATE wins are in its batch, whatever else is held stays held.
LEMMA UpdateIsClaim ==
    ASSUME IInv, BatchOfSender, NEW k \in Claimers, ClaimUpdate(k)
    PROVE  Contract!Next
<1> DEFINE won == seen[k] \cap Queued
<1>1. /\ status' = [c \in Cmd |-> IF c \in won THEN "in_progress" ELSE status[c]]
      /\ batch' = [batch EXCEPT ![k] = won]
      /\ UNCHANGED <<toAgent, toServer, agent, todo, starts>>
      /\ pc[k] = "claim"
  BY DEF ClaimUpdate, netVars, agentVars, histVars
<1>2. \A c \in won : c \in Cmd /\ status[c] = "queued" /\ starts[c] = 0
  BY DEF Queued, IInv, OneHolder, NotBegun
<1> HIDE DEF won
<1>3. batch[k] = {} /\ \A l \in Claimers : batch'[l] = IF l = k THEN won ELSE batch[l]
  BY <1>1 DEF BatchOfSender, IInv, TypeOK
<1>4. \A c \in Cmd : c \in Held' <=> c \in Held \/ c \in won
  BY <1>1, <1>3, Holders, NextHolders
<1>5. \A c \in Cmd : PhaseOf(c)' = IF c \in won THEN "claimed" ELSE PhaseOf(c)
  <2> TAKE c \in Cmd
  <2>1. CASE c \in won
    BY <1>1, <1>2, <1>4, <2>1 DEF PhaseOf
  <2>2. CASE c \notin won
    <3>1. status'[c] = status[c] /\ starts'[c] = starts[c] /\ (c \in Held' <=> c \in Held)
      BY <1>1, <1>4, <2>2
    <3> QED
      BY <2>2, <3>1 DEF PhaseOf
  <2> QED
    BY <2>1, <2>2
<1>6. \A c \in won : PhaseOf(c) = "queued"
  BY <1>2 DEF PhaseOf
<1>7. won \in SUBSET Contract!Cmd /\ Contract!Cmd = Cmd
  BY <1>2 DEF Contract!Cmd, Cmd
<1>8. Contract!Move(won, "claimed")
  BY <1>5, <1>7 DEF Contract!Move
<1>9. Contract!Claim(won)
  BY <1>2, <1>6, <1>7, <1>8 DEF Contract!Claim
<1> QED
  BY <1>7, <1>9 DEF Contract!Next

\* The commands of a non-empty sequence are its first and those of the rest.
LEMMA HeadAndTail ==
    ASSUME NEW S, NEW s \in Seq(S), s # <<>>
    PROVE  /\ Elems(s) \subseteq {Head(s)} \cup Elems(Tail(s))
           /\ CmdsOf(s) \subseteq {Head(s).cmd} \cup CmdsOf(Tail(s))
<1>1. /\ Len(s) \in Nat /\ Len(s) > 0 /\ Head(s) = s[1]
      /\ Len(Tail(s)) = Len(s) - 1
      /\ \A i \in 1..Len(Tail(s)) : Tail(s)[i] = s[i + 1]
  OBVIOUS
<1>2. ASSUME NEW i \in 1..Len(s), i # 1
      PROVE  i - 1 \in 1..Len(Tail(s)) /\ s[i] = Tail(s)[i - 1]
  <2>1. i - 1 \in 1..Len(Tail(s)) /\ (i - 1) + 1 = i
    BY <1>1, <1>2
  <2> QED
    BY <1>1, <2>1
<1>3. \A i \in 1..Len(s) : s[i] = Head(s) \/ \E j \in 1..Len(Tail(s)) : s[i] = Tail(s)[j]
  BY <1>1, <1>2
<1> QED
  BY <1>3 DEF Elems, CmdsOf

LEMMA TakeIsStart ==
    ASSUME IInv, TakeCommand
    PROVE  Contract!Next
<1>k. PICK k \in Conns : k = agent.conn
  BY AgentShape DEF TakeCommand, IInv, TypeOK
<1>1. toAgent[k] \in Seq(Cmd) /\ toAgent[k] # <<>>
  BY <1>k DEF TakeCommand, IInv, TypeOK
<1>2. PICK c \in Cmd : c = Head(toAgent[k])
  BY <1>1
<1>3. /\ agent.pc = "idle" /\ agent'.cur = c
      /\ starts' = [starts EXCEPT ![c] = @ + 1]
      /\ toAgent' = [toAgent EXCEPT ![k] = Tail(@)]
      /\ UNCHANGED <<status, batch, toServer, todo>>
  BY <1>2, <1>k DEF TakeCommand, AgentIs, tableVars, claimVars
<1>4. /\ c \in Elems(toAgent[k])
      /\ Elems(toAgent[k]) = {c} \cup Elems(Tail(toAgent[k]))
  BY <1>1, <1>2, ElemsTail, HeadAndTail
<1>5. status[c] = "in_progress" /\ starts[c] = 0
  BY <1>4 DEF IInv, OneHolder, WireHolds, Unsent
<1>6. starts'[c] = 1 /\ \A d \in Cmd : d # c => starts'[d] = starts[d]
  BY <1>3, <1>5 DEF IInv, TypeOK
<1>7. toAgent'[k] = Tail(toAgent[k]) /\ \A l \in Conns : l # k => toAgent'[l] = toAgent[l]
  BY <1>3 DEF IInv, TypeOK
<1>8. \A d \in Cmd : d # agent.cur
  BY <1>3, AgentShape, QueueAssumption DEF IInv, TypeOK
<1>9. \A d \in Cmd : d \in Held' <=> d \in Held
  BY <1>3, <1>4, <1>7, <1>8, Holders, NextHolders
<1>10. c \in Held
  BY <1>4, Holders
<1>11. PhaseOf(c) = "claimed" /\ PhaseOf(c)' = "running"
  BY <1>3, <1>5, <1>6, <1>9, <1>10 DEF PhaseOf
<1>12. \A d \in Cmd : d # c => PhaseOf(d)' = PhaseOf(d)
  BY <1>3, <1>6, <1>9 DEF PhaseOf
<1>13. Contract!Move({c}, "running") /\ Contract!Cmd = Cmd
  BY <1>11, <1>12, OneMoves
<1>14. Contract!Start(c)
  BY <1>11, <1>13 DEF Contract!Start
<1> QED
  BY <1>13, <1>14 DEF Contract!Next

LEMMA ResultIsFinish ==
    ASSUME IInv, NEW k \in Conns, RecvResult(k)
    PROVE  Contract!Next
<1>1. toServer[k] \in Seq(Reply) /\ toServer[k] # <<>>
  BY DEF RecvResult, IInv, TypeOK
<1>2. PICK m \in Reply : m = Head(toServer[k])
  BY <1>1
<1>3. PICK c \in Cmd : c = m.cmd
  BY DEF Reply
<1>o. PICK o \in Terminal : o = m.status
  BY DEF Reply
<1>4. /\ status' = [status EXCEPT ![c] = o]
      /\ toServer' = [toServer EXCEPT ![k] = Tail(@)]
      /\ UNCHANGED <<batch, toAgent, agent, todo, starts>>
  BY <1>2, <1>3, <1>o DEF RecvResult, agentVars, histVars
<1>5. /\ c \in CmdsOf(toServer[k])
      /\ CmdsOf(toServer[k]) = {c} \cup CmdsOf(Tail(toServer[k]))
  BY <1>1, <1>2, <1>3, CmdsTail, HeadAndTail
<1>6. status[c] = "in_progress" /\ starts[c] = 1
  BY <1>5 DEF IInv, OneHolder, ReplyHolds, Sent
<1>7. status'[c] = o /\ \A d \in Cmd : d # c => status'[d] = status[d]
  BY <1>4 DEF IInv, TypeOK
<1>8. /\ toServer'[k] = Tail(toServer[k])
      /\ \A l \in Conns : l # k => toServer'[l] = toServer[l]
  BY <1>4 DEF IInv, TypeOK
<1>9. c \in Held /\ \A d \in Cmd : d # c => (d \in Held' <=> d \in Held)
  BY <1>4, <1>5, <1>8, Holders, NextHolders
<1>10. PhaseOf(c) = "running" /\ PhaseOf(c)' = o
  BY <1>6, <1>7, <1>9 DEF PhaseOf, Terminal
<1>11. \A d \in Cmd : d # c => PhaseOf(d)' = PhaseOf(d)
  BY <1>4, <1>7, <1>9 DEF PhaseOf
<1>12. Contract!Move({c}, o) /\ Contract!Cmd = Cmd
  BY <1>10, <1>11, OneMoves
<1>13. Contract!Finish(c)
  BY <1>10, <1>12 DEF Contract!Finish, Terminal
<1> QED
  BY <1>12, <1>13 DEF Contract!Next

LEMMA ReportIsDiscard ==
    ASSUME IInv, NEW c \in Cmd, ReportDiscarded(c)
    PROVE  Contract!Next
<1>1. /\ status' = [status EXCEPT ![c] = "failed"]
      /\ c \in todo /\ todo' = todo \ {c}
      /\ UNCHANGED <<batch, toAgent, toServer, agent, starts>>
  BY DEF ReportDiscarded, claimVars, netVars, histVars
<1>2. status[c] = "in_progress" /\ starts[c] = 0
  BY <1>1 DEF IInv, OneHolder, TodoHolds, Unsent
<1>3. status'[c] = "failed" /\ \A d \in Cmd : d # c => status'[d] = status[d]
  BY <1>1 DEF IInv, TypeOK
<1>4. c \in Held /\ \A d \in Cmd : d # c => (d \in Held' <=> d \in Held)
  BY <1>1, Holders, NextHolders
<1>5. PhaseOf(c) = "claimed" /\ PhaseOf(c)' = "failed"
  BY <1>2, <1>3, <1>4 DEF PhaseOf
<1>6. \A d \in Cmd : d # c => PhaseOf(d)' = PhaseOf(d)
  BY <1>1, <1>3, <1>4 DEF PhaseOf
<1>7. Contract!Move({c}, "failed") /\ Contract!Cmd = Cmd
  BY <1>5, <1>6, OneMoves
<1>8. Contract!Discard(c)
  BY <1>5, <1>7 DEF Contract!Discard
<1> QED
  BY <1>7, <1>8 DEF Contract!Next

\* Sending, answering a poll and finishing pass commands on or lose them.
LEMMA HandingOver ==
    ASSUME IInv,
           \/ \E k \in Conns : SendCommand(k)
           \/ \E p \in Polls : DrainRespond(p)
           \/ FinishCommand
    PROVE  Contract!Next
<1> USE DEF tableVars, claimVars, netVars, agentVars, histVars
<1>t. /\ batch \in [Claimers -> SUBSET Cmd]
      /\ toAgent \in [Conns -> Seq(Cmd)] /\ toServer \in [Conns -> Seq(Reply)]
      /\ TypeOK /\ None \notin Cmd
  BY QueueAssumption DEF IInv, TypeOK
<1>1. ASSUME NEW k \in Conns, SendCommand(k) PROVE Contract!Next
  <2>1. PICK c \in Cmd :
          /\ c \in batch[k]
          /\ batch' = [batch EXCEPT ![k] = @ \ {c}]
          /\ toAgent' = IF k \in open THEN [toAgent EXCEPT ![k] = Append(@, c)] ELSE toAgent
    BY <1>1 DEF SendCommand, IsOldest
  <2>2. UNCHANGED <<status, toServer, agent, todo, starts>>
    BY <1>1 DEF SendCommand
  <2>3. \A l \in Claimers : batch'[l] \subseteq batch[l]
    BY <2>1, <1>t
  <2>4. \A l \in Conns : Elems(toAgent'[l]) \subseteq Elems(toAgent[l]) \cup {c}
    BY <2>1, <1>t, ElemsAppend
  <2>5. \A d \in Cmd : d \in Held' => d \in Held
    BY <2>1, <2>2, <2>3, <2>4, Holders, NextHolders, ClaimerKinds
  <2> QED
    BY <2>2, <2>5, LettingGoIsLose
<1>2. ASSUME NEW p \in Polls, DrainRespond(p) PROVE Contract!Next
  <2>1. /\ batch' = [batch EXCEPT ![p] = {}]
        /\ UNCHANGED <<status, toAgent, toServer, starts>>
        /\ \/ todo' = todo /\ agent' = agent
           \/ todo' = batch[p] /\ agent'.cur = None
    BY <1>2 DEF DrainRespond, AgentIs
  <2>2. \A l \in Claimers : batch'[l] \subseteq batch[l]
    BY <2>1, <1>t
  <2>3. \A d \in Cmd : d \in Held' => d \in Held
    BY <2>1, <2>2, <1>t, Holders, NextHolders, ClaimerKinds
  <2> QED
    BY <2>1, <2>3, LettingGoIsLose
<1>3. CASE FinishCommand
  <2>k. PICK k \in Conns : k = agent.conn
    BY <1>3, <1>t, AgentShape DEF FinishCommand, TypeOK
  <2>c. PICK c \in Cmd : c = agent.cur
    BY <1>3, <1>t, AgentShape DEF FinishCommand, TypeOK
  <2>1. PICK o \in Terminal :
          toServer' = IF k \in open
                        THEN [toServer EXCEPT ![k] = Append(@, [cmd |-> c, status |-> o])]
                        ELSE toServer
    BY <1>3, <2>k, <2>c DEF FinishCommand
  <2>2. agent'.cur = None /\ UNCHANGED <<status, batch, toAgent, todo, starts>>
    BY <1>3 DEF FinishCommand, AgentIs
  <2>3. [cmd |-> c, status |-> o] \in Reply
    BY DEF Reply
  <2>4. \A l \in Conns : CmdsOf(toServer'[l]) \subseteq CmdsOf(toServer[l]) \cup {c}
    BY <2>1, <2>3, <1>t, CmdsAppend
  <2>5. \A d \in Cmd : d \in Held' => d \in Held
    BY <2>2, <2>4, <2>c, <1>t, Holders, NextHolders
  <2> QED
    BY <2>2, <2>5, LettingGoIsLose
<1> QED
  BY <1>1, <1>2, <1>3

\* The steps that lose holders, or leave every command where it is.
LEMMA LosingIsLose ==
    ASSUME TypeOK, LosesOnly
    PROVE  Contract!Next
<1>1. \A k \in Conns : /\ Elems(toAgent'[k]) \subseteq Elems(toAgent[k])
                       /\ CmdsOf(toServer'[k]) \subseteq CmdsOf(toServer[k])
  BY EmptyBuffer DEF LosesOnly
<1>2. \A c \in Cmd : c \in Held' => c \in Held
  BY <1>1, Holders, NextHolders, QueueAssumption DEF LosesOnly
<1> QED
  BY <1>2, LettingGoIsLose DEF LosesOnly

(***************************************************************************)
(* Whatever sockets, agents, polls and processes do, the node's queue      *)
(* keeps the contract its callers rely on: every step submits, claims,     *)
(* starts, finishes, discards or loses commands, or changes none.          *)
(***************************************************************************)
THEOREM QueueImplementsContract == Spec => ImplementsContract
<1>1. Init => Contract!Init
  <2> SUFFICES ASSUME Init PROVE Contract!Init
    OBVIOUS
  <2>1. \A c \in Cmd : PhaseOf(c) = "absent"
    BY DEF Init, PhaseOf
  <2> QED
    BY <2>1 DEF Contract!Init, Contract!Cmd, Cmd
<1>2. IInv /\ BatchOfSender /\ [Next]_vars => [Contract!Next]_([c \in Cmd |-> PhaseOf(c)])
  <2> SUFFICES ASSUME IInv, BatchOfSender, [Next]_vars PROVE Contract!Next
    OBVIOUS
  <2>1. TypeOK
    BY DEF IInv
  <2> QED
    BY <2>1, StepKinds, LosingIsLose, InsertIsSubmit, UpdateIsClaim, HandingOver, ResultIsFinish,
       ReportIsDiscard, TakeIsStart
<1>3. QED
  BY <1>1, <1>2, OrderKept, PTL DEF Spec, ImplementsContract, Contract!Spec, Sockets
=============================================================================
