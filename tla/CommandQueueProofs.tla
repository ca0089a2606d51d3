------------------------- MODULE CommandQueueProofs -------------------------
(***************************************************************************)
(* What holds of the command queue for every number of commands, sockets,  *)
(* polls and request handlers, and for every claim limit and fault bound.  *)
(***************************************************************************)
EXTENDS CommandQueue, TLAPS

\* The agent has a websocket exactly when it talks to the control plane over
\* one, and a current command exactly when it is busy.
LEMMA AgentShape ==
    ASSUME agent \in AgentState
    PROVE  /\ agent.pc \in {"idle", "busy"} => agent.conn \in Conns
           /\ agent.pc = "busy" <=> agent.cur # None
           /\ agent.cur \in Cmd \cup {None}
BY QueueAssumption DEF AgentState, Cmd

\* A websocket and a poll are claimers.
LEMMA ClaimerKinds == Conns \subseteq Claimers /\ Polls \subseteq Claimers
BY DEF Claimers

\* The states the agent's steps assign are agent states.
LEMMA AgentStates ==
    /\ [pc |-> "down", conn |-> None, cur |-> None] \in AgentState
    /\ [pc |-> "offline", conn |-> None, cur |-> None] \in AgentState
    /\ [pc |-> "reporting", conn |-> None, cur |-> None] \in AgentState
    /\ \A p \in Polls : [pc |-> "draining", conn |-> p, cur |-> None] \in AgentState
    /\ \A k \in Conns : [pc |-> "idle", conn |-> k, cur |-> None] \in AgentState
    /\ \A k \in Conns, c \in Cmd : [pc |-> "busy", conn |-> k, cur |-> c] \in AgentState
BY DEF AgentState

(***************************************************************************)
(* Every variable keeps its shape under every step of agents, handlers,    *)
(* requests and faults.                                                    *)
(***************************************************************************)
THEOREM TypeCorrect == Spec => []TypeOK
<1>1. Init => TypeOK
  <2> SUFFICES ASSUME Init PROVE TypeOK
    OBVIOUS
  <2> USE DEF Init
  <2>1. status \in [Cmd -> {"none"} \cup Inflight \cup Terminal] /\ key \in [Cmd -> Keys \cup {None}]
    OBVIOUS
  <2>2. registry \in Conns \cup {None} /\ event \in BOOLEAN
    OBVIOUS
  <2>3. /\ pc \in [Claimers -> HandlerPc]
        /\ seen \in [Claimers -> SUBSET Cmd]
        /\ batch \in [Claimers -> SUBSET Cmd]
        /\ callers \in [Callers -> Keys \cup {None}]
    BY DEF HandlerPc
  <2>4. open \in SUBSET Conns /\ toAgent \in [Conns -> Seq(Cmd)] /\ toServer \in [Conns -> Seq(Reply)]
    OBVIOUS
  <2>5. agent \in AgentState /\ todo \in SUBSET Cmd
    BY AgentStates
  <2>6. starts \in [Cmd -> Nat] /\ faults \in Nat
    OBVIOUS
  <2> HIDE DEF Init
  <2> QED
    BY <2>1, <2>2, <2>3, <2>4, <2>5, <2>6 DEF TypeOK
<1>2. TypeOK /\ [Next]_vars => TypeOK'
  <2> SUFFICES ASSUME TypeOK, [Next]_vars PROVE TypeOK'
    OBVIOUS
  <2> USE QueueAssumption DEF tableVars, planeVars, claimVars, netVars, agentVars, histVars,
        Fault, Disconnected, AgentIs
  <2>1. ASSUME NEW r \in Callers, BeginQueue(r) PROVE TypeOK'
    <3> USE <2>1 DEF BeginQueue
    <3>1. callers' \in [Callers -> Keys \cup {None}]
      BY DEF TypeOK
    <3>2. UNCHANGED <<status, key, registry, event, pc, seen, batch, open, toAgent, toServer, agent, todo, starts, faults>>
      OBVIOUS
    <3> HIDE <2>1 DEF BeginQueue
    <3> QED
      BY <3>1, <3>2 DEF TypeOK
  <2>2. ASSUME NEW r \in Callers, InsertCommand(r) PROVE TypeOK'
    <3> USE <2>2 DEF InsertCommand
    <3>1. status' \in [Cmd -> {"none"} \cup Inflight \cup Terminal]
      BY DEF TypeOK, Inflight, Terminal
    <3>2. key' \in [Cmd -> Keys \cup {None}]
      BY DEF TypeOK
    <3>3. event' \in BOOLEAN
      BY DEF TypeOK
    <3>4. callers' \in [Callers -> Keys \cup {None}]
      BY DEF TypeOK
    <3>5. UNCHANGED <<registry, pc, seen, batch, open, toAgent, toServer, agent, todo, starts, faults>>
      OBVIOUS
    <3> HIDE <2>2 DEF InsertCommand
    <3> QED
      BY <3>1, <3>2, <3>3, <3>4, <3>5 DEF TypeOK
  <2>3. ASSUME NEW k \in Claimers, ClaimSelect(k) PROVE TypeOK'
    <3> USE <2>3 DEF ClaimSelect, Queued
    <3>1. pc' \in [Claimers -> HandlerPc]
      BY ClaimerKinds DEF TypeOK, HandlerPc
    <3>2. seen' \in [Claimers -> SUBSET Cmd]
      BY ClaimerKinds DEF TypeOK
    <3>3. UNCHANGED <<status, key, registry, event, batch, callers, open, toAgent, toServer, agent, todo, starts, faults>>
      OBVIOUS
    <3> HIDE <2>3 DEF ClaimSelect
    <3> QED
      BY <3>1, <3>2, <3>3 DEF TypeOK
  <2>4. ASSUME NEW k \in Claimers, ClaimUpdate(k) PROVE TypeOK'
    <3> USE <2>4 DEF ClaimUpdate, Queued
    <3>1. status' \in [Cmd -> {"none"} \cup Inflight \cup Terminal]
      BY DEF TypeOK, Inflight, Terminal
    <3>2. pc' \in [Claimers -> HandlerPc]
      BY ClaimerKinds DEF TypeOK, HandlerPc
    <3>3. seen' \in [Claimers -> SUBSET Cmd]
      BY ClaimerKinds DEF TypeOK
    <3>4. batch' \in [Claimers -> SUBSET Cmd]
      BY ClaimerKinds DEF TypeOK
    <3>5. UNCHANGED <<key, registry, event, callers, open, toAgent, toServer, agent, todo, starts, faults>>
      OBVIOUS
    <3> HIDE <2>4 DEF ClaimUpdate
    <3> QED
      BY <3>1, <3>2, <3>3, <3>4, <3>5 DEF TypeOK
  <2>5. ASSUME NEW k \in Conns, CloseOldSocket(k) PROVE TypeOK'
    <3> USE <2>5 DEF CloseOldSocket
    <3>1. pc' \in [Claimers -> HandlerPc]
      BY ClaimerKinds DEF TypeOK, HandlerPc
    <3>2. open' \in SUBSET Conns
      BY DEF TypeOK
    <3>3. UNCHANGED <<status, key, registry, event, seen, batch, callers, toAgent, toServer, agent, todo, starts, faults>>
      OBVIOUS
    <3> HIDE <2>5 DEF CloseOldSocket
    <3> QED
      BY <3>1, <3>2, <3>3 DEF TypeOK
  <2>6. ASSUME NEW k \in Conns, RegisterSocket(k) PROVE TypeOK'
    <3> USE <2>6 DEF RegisterSocket
    <3>1. registry' \in Conns \cup {None}
      BY DEF TypeOK
    <3>2. event' \in BOOLEAN
      BY DEF TypeOK
    <3>3. pc' \in [Claimers -> HandlerPc]
      BY ClaimerKinds DEF TypeOK, HandlerPc
    <3>4. UNCHANGED <<status, key, seen, batch, callers, open, toAgent, toServer, agent, todo, starts, faults>>
      OBVIOUS
    <3> HIDE <2>6 DEF RegisterSocket
    <3> QED
      BY <3>1, <3>2, <3>3, <3>4 DEF TypeOK
  <2>8. ASSUME NEW k \in Conns, SendCommand(k) PROVE TypeOK'
    <3> USE <2>8 DEF SendCommand
    <3>1. batch' \in [Claimers -> SUBSET Cmd]
      BY ClaimerKinds DEF TypeOK
    <3>2. toAgent' \in [Conns -> Seq(Cmd)]
      BY DEF TypeOK
    <3>3. UNCHANGED <<status, key, registry, event, pc, seen, callers, open, toServer, agent, todo, starts, faults>>
      OBVIOUS
    <3> HIDE <2>8 DEF SendCommand
    <3> QED
      BY <3>1, <3>2, <3>3 DEF TypeOK
  <2>9. ASSUME NEW k \in Conns, SendFails(k) PROVE TypeOK'
    <3> USE <2>9 DEF SendFails
    <3>1. pc' \in [Claimers -> HandlerPc]
      BY ClaimerKinds DEF TypeOK, HandlerPc
    <3>2. batch' \in [Claimers -> SUBSET Cmd]
      BY ClaimerKinds DEF TypeOK
    <3>3. UNCHANGED <<status, key, registry, event, seen, callers, open, toAgent, toServer, agent, todo, starts, faults>>
      OBVIOUS
    <3> HIDE <2>9 DEF SendFails
    <3> QED
      BY <3>1, <3>2, <3>3 DEF TypeOK
  <2>10. ASSUME NEW k \in Conns, BatchSent(k) PROVE TypeOK'
    <3> USE <2>10 DEF BatchSent
    <3>1. pc' \in [Claimers -> HandlerPc]
      BY ClaimerKinds DEF TypeOK, HandlerPc
    <3>2. UNCHANGED <<status, key, registry, event, seen, batch, callers, open, toAgent, toServer, agent, todo, starts, faults>>
      OBVIOUS
    <3> HIDE <2>10 DEF BatchSent
    <3> QED
      BY <3>1, <3>2 DEF TypeOK
  <2>11. ASSUME NEW k \in Conns, RecvResult(k) PROVE TypeOK'
    <3> USE <2>11 DEF RecvResult
    <3>a. /\ Head(toServer[k]) \in Reply
          /\ Tail(toServer[k]) \in Seq(Reply)
      BY DEF TypeOK
    <3>b. Head(toServer[k]).status \in Terminal
      BY <3>a DEF Reply
    <3>1. status' \in [Cmd -> {"none"} \cup Inflight \cup Terminal]
      BY <3>b DEF TypeOK
    <3>2. pc' \in [Claimers -> HandlerPc]
      BY ClaimerKinds DEF TypeOK, HandlerPc
    <3>3. toServer' \in [Conns -> Seq(Reply)]
      BY <3>a DEF TypeOK
    <3>4. UNCHANGED <<key, registry, event, seen, batch, callers, open, toAgent, agent, todo, starts, faults>>
      OBVIOUS
    <3> HIDE <2>11 DEF RecvResult
    <3> QED
      BY <3>1, <3>2, <3>3, <3>4 DEF TypeOK
  <2>12. ASSUME NEW k \in Conns, RecvNothing(k) PROVE TypeOK'
    <3> USE <2>12 DEF RecvNothing
    <3>1. pc' \in [Claimers -> HandlerPc]
      BY ClaimerKinds DEF TypeOK, HandlerPc
    <3>2. UNCHANGED <<status, key, registry, event, seen, batch, callers, open, toAgent, toServer, agent, todo, starts, faults>>
      OBVIOUS
    <3> HIDE <2>12 DEF RecvNothing
    <3> QED
      BY <3>1, <3>2 DEF TypeOK
  <2>13. ASSUME NEW k \in Conns, RecvClosed(k) PROVE TypeOK'
    <3> USE <2>13 DEF RecvClosed
    <3>1. pc' \in [Claimers -> HandlerPc]
      BY ClaimerKinds DEF TypeOK, HandlerPc
    <3>2. UNCHANGED <<status, key, registry, event, seen, batch, callers, open, toAgent, toServer, agent, todo, starts, faults>>
      OBVIOUS
    <3> HIDE <2>13 DEF RecvClosed
    <3> QED
      BY <3>1, <3>2 DEF TypeOK
  <2>14. ASSUME NEW k \in Conns, HandlerEnds(k) PROVE TypeOK'
    <3> USE <2>14 DEF HandlerEnds
    <3>1. registry' \in Conns \cup {None}
      BY DEF TypeOK
    <3>2. pc' \in [Claimers -> HandlerPc]
      BY ClaimerKinds DEF TypeOK, HandlerPc
    <3>3. open' \in SUBSET Conns
      BY DEF TypeOK
    <3>4. toServer' \in [Conns -> Seq(Reply)]
      BY DEF TypeOK
    <3>5. UNCHANGED <<status, key, event, seen, batch, callers, toAgent, agent, todo, starts, faults>>
      OBVIOUS
    <3> HIDE <2>14 DEF HandlerEnds
    <3> QED
      BY <3>1, <3>2, <3>3, <3>4, <3>5 DEF TypeOK
  <2>15. ASSUME NEW p \in Polls, DrainRespond(p) PROVE TypeOK'
    <3> USE <2>15 DEF DrainRespond
    <3>1. pc' \in [Claimers -> HandlerPc]
      BY ClaimerKinds DEF TypeOK, HandlerPc
    <3>2. batch' \in [Claimers -> SUBSET Cmd]
      BY ClaimerKinds DEF TypeOK
    <3>3. agent' \in AgentState
      BY AgentStates DEF TypeOK
    <3>a. batch[p] \in SUBSET Cmd
      BY ClaimerKinds DEF TypeOK
    <3>4. todo' \in SUBSET Cmd
      BY <3>a DEF TypeOK
    <3>5. UNCHANGED <<status, key, registry, event, seen, callers, open, toAgent, toServer, starts, faults>>
      OBVIOUS
    <3> HIDE <2>15 DEF DrainRespond
    <3> QED
      BY <3>1, <3>2, <3>3, <3>4, <3>5 DEF TypeOK
  <2>16. ASSUME NEW p \in Polls, AgentStart(p) PROVE TypeOK'
    <3> USE <2>16 DEF AgentStart
    <3>1. pc' \in [Claimers -> HandlerPc]
      BY ClaimerKinds DEF TypeOK, HandlerPc
    <3>2. agent' \in AgentState
      BY AgentStates DEF TypeOK
    <3>3. UNCHANGED <<status, key, registry, event, seen, batch, callers, open, toAgent, toServer, todo, starts, faults>>
      OBVIOUS
    <3> HIDE <2>16 DEF AgentStart
    <3> QED
      BY <3>1, <3>2, <3>3 DEF TypeOK
  <2>17. CASE DrainAborted
    <3> USE <2>17 DEF DrainAborted
    <3>1. agent' \in AgentState
      BY AgentStates DEF TypeOK
    <3>2. UNCHANGED <<status, key, registry, event, pc, seen, batch, callers, open, toAgent, toServer, todo, starts, faults>>
      OBVIOUS
    <3> HIDE <2>17 DEF DrainAborted
    <3> QED
      BY <3>1, <3>2 DEF TypeOK
  <2>18. ASSUME NEW c \in Cmd, ReportDiscarded(c) PROVE TypeOK'
    <3> USE <2>18 DEF ReportDiscarded
    <3>1. status' \in [Cmd -> {"none"} \cup Inflight \cup Terminal]
      BY DEF TypeOK, Inflight, Terminal
    <3>2. todo' \in SUBSET Cmd
      BY DEF TypeOK
    <3>3. UNCHANGED <<key, registry, event, pc, seen, batch, callers, open, toAgent, toServer, agent, starts, faults>>
      OBVIOUS
    <3> HIDE <2>18 DEF ReportDiscarded
    <3> QED
      BY <3>1, <3>2, <3>3 DEF TypeOK
  <2>19. CASE DrainDone
    <3> USE <2>19 DEF DrainDone
    <3>1. agent' \in AgentState
      BY AgentStates DEF TypeOK
    <3>2. UNCHANGED <<status, key, registry, event, pc, seen, batch, callers, open, toAgent, toServer, todo, starts, faults>>
      OBVIOUS
    <3> HIDE <2>19 DEF DrainDone
    <3> QED
      BY <3>1, <3>2 DEF TypeOK
  <2>20. ASSUME NEW k \in Conns, AgentConnect(k) PROVE TypeOK'
    <3> USE <2>20 DEF AgentConnect
    <3>1. pc' \in [Claimers -> HandlerPc]
      BY ClaimerKinds DEF TypeOK, HandlerPc
    <3>2. open' \in SUBSET Conns
      BY DEF TypeOK
    <3>3. agent' \in AgentState
      BY AgentStates DEF TypeOK
    <3>4. UNCHANGED <<status, key, registry, event, seen, batch, callers, toAgent, toServer, todo, starts, faults>>
      OBVIOUS
    <3> HIDE <2>20 DEF AgentConnect
    <3> QED
      BY <3>1, <3>2, <3>3, <3>4 DEF TypeOK
  <2>21. CASE TakeCommand
    <3> USE <2>21 DEF TakeCommand
    <3>1. toAgent' \in [Conns -> Seq(Cmd)]
      BY AgentShape DEF TypeOK
    <3>2. agent' \in AgentState
      BY AgentStates, AgentShape DEF TypeOK
    <3>3. starts' \in [Cmd -> Nat]
      BY AgentShape DEF TypeOK
    <3>4. UNCHANGED <<status, key, registry, event, pc, seen, batch, callers, open, toServer, todo, faults>>
      OBVIOUS
    <3> HIDE <2>21 DEF TakeCommand
    <3> QED
      BY <3>1, <3>2, <3>3, <3>4 DEF TypeOK
  <2>22. CASE FinishCommand
    <3> USE <2>22 DEF FinishCommand
    <3>a. agent.conn \in Conns /\ agent.cur \in Cmd
      BY AgentShape DEF TypeOK
    <3>b. \A o \in Terminal : [cmd |-> agent.cur, status |-> o] \in Reply
      BY <3>a DEF Reply
    <3>1. toServer' \in [Conns -> Seq(Reply)]
      BY <3>a, <3>b DEF TypeOK
    <3>2. agent' \in AgentState
      BY AgentStates, AgentShape DEF TypeOK
    <3>3. UNCHANGED <<status, key, registry, event, pc, seen, batch, callers, open, toAgent, todo, starts, faults>>
      OBVIOUS
    <3> HIDE <2>22 DEF FinishCommand
    <3> QED
      BY <3>1, <3>2, <3>3 DEF TypeOK
  <2>23. CASE LeaveSocket
    <3> USE <2>23 DEF LeaveSocket
    <3>1. toAgent' \in [Conns -> Seq(Cmd)]
      BY AgentShape DEF TypeOK
    <3>2. agent' \in AgentState
      BY AgentStates, AgentShape DEF TypeOK
    <3>3. UNCHANGED <<status, key, registry, event, pc, seen, batch, callers, open, toServer, todo, starts, faults>>
      OBVIOUS
    <3> HIDE <2>23 DEF LeaveSocket
    <3> QED
      BY <3>1, <3>2, <3>3 DEF TypeOK
  <2>24. CASE EvictSocket
    <3> USE <2>24 DEF EvictSocket
    <3>1. registry' \in Conns \cup {None}
      BY DEF TypeOK
    <3>2. UNCHANGED <<status, key, event, pc, seen, batch, callers, open, toAgent, toServer, agent, todo, starts, faults>>
      OBVIOUS
    <3> HIDE <2>24 DEF EvictSocket
    <3> QED
      BY <3>1, <3>2 DEF TypeOK
  <2>25. ASSUME NEW k \in Conns, DropLink(k) PROVE TypeOK'
    <3> USE <2>25 DEF DropLink
    <3>1. open' \in SUBSET Conns
      BY DEF TypeOK
    <3>2. faults' \in Nat
      BY DEF TypeOK
    <3>3. UNCHANGED <<status, key, registry, event, pc, seen, batch, callers, toAgent, toServer, agent, todo, starts>>
      OBVIOUS
    <3> HIDE <2>25 DEF DropLink
    <3> QED
      BY <3>1, <3>2, <3>3 DEF TypeOK
  <2>26. CASE DrainGiveUp
    <3> USE <2>26 DEF DrainGiveUp
    <3>1. agent' \in AgentState
      BY AgentStates DEF TypeOK
    <3>2. faults' \in Nat
      BY DEF TypeOK
    <3>3. UNCHANGED <<status, key, registry, event, pc, seen, batch, callers, open, toAgent, toServer, todo, starts>>
      OBVIOUS
    <3> HIDE <2>26 DEF DrainGiveUp
    <3> QED
      BY <3>1, <3>2, <3>3 DEF TypeOK
  <2>27. CASE ReportFails
    <3> USE <2>27 DEF ReportFails
    <3>1. todo' \in SUBSET Cmd
      BY DEF TypeOK
    <3>2. faults' \in Nat
      BY DEF TypeOK
    <3>3. UNCHANGED <<status, key, registry, event, pc, seen, batch, callers, open, toAgent, toServer, agent, starts>>
      OBVIOUS
    <3> HIDE <2>27 DEF ReportFails
    <3> QED
      BY <3>1, <3>2, <3>3 DEF TypeOK
  <2>28. CASE AgentCrash
    <3> USE <2>28 DEF AgentCrash
    <3>1. open' \in SUBSET Conns
      BY AgentShape DEF TypeOK
    <3>2. toAgent' \in [Conns -> Seq(Cmd)]
      <4>1. CASE agent.conn \in Conns
        <5>1. toAgent' = [toAgent EXCEPT ![agent.conn] = <<>>]
          BY <4>1
        <5>2. <<>> \in Seq(Cmd)
          OBVIOUS
        <5> HIDE <2>28 DEF AgentCrash
        <5> QED
          BY <5>1, <5>2, <4>1 DEF TypeOK
      <4>2. CASE agent.conn \notin Conns
        BY <4>2 DEF TypeOK
      <4> QED
        BY <4>1, <4>2
    <3>3. agent' \in AgentState
      BY AgentStates, AgentShape DEF TypeOK
    <3>4. todo' \in SUBSET Cmd
      BY DEF TypeOK
    <3>5. faults' \in Nat
      BY DEF TypeOK
    <3>6. UNCHANGED <<status, key, registry, event, pc, seen, batch, callers, toServer, starts>>
      OBVIOUS
    <3> HIDE <2>28 DEF AgentCrash
    <3> QED
      BY <3>1, <3>2, <3>3, <3>4, <3>5, <3>6 DEF TypeOK
  <2>29. CASE ServerRestart
    <3> USE <2>29 DEF ServerRestart
    <3>1. registry' \in Conns \cup {None}
      BY DEF TypeOK
    <3>2. event' \in BOOLEAN
      BY DEF TypeOK
    <3>3. pc' \in [Claimers -> HandlerPc]
      BY ClaimerKinds DEF TypeOK, HandlerPc
    <3>4. seen' \in [Claimers -> SUBSET Cmd]
      BY ClaimerKinds DEF TypeOK
    <3>5. batch' \in [Claimers -> SUBSET Cmd]
      BY ClaimerKinds DEF TypeOK
    <3>6. callers' \in [Callers -> Keys \cup {None}]
      BY DEF TypeOK
    <3>7. open' \in SUBSET Conns
      BY DEF TypeOK
    <3>8. toServer' \in [Conns -> Seq(Reply)]
      BY DEF TypeOK
    <3>9. faults' \in Nat
      BY DEF TypeOK
    <3>10. UNCHANGED <<status, key, toAgent, agent, todo, starts>>
      OBVIOUS
    <3> HIDE <2>29 DEF ServerRestart
    <3> QED
      BY <3>1, <3>2, <3>3, <3>4, <3>5, <3>6, <3>7, <3>8, <3>9, <3>10 DEF TypeOK
  <2>30. CASE UNCHANGED vars
    BY <2>30 DEF vars, TypeOK
  <2> QED
    BY <2>1, <2>2, <2>3, <2>4, <2>5, <2>6, <2>8, <2>9, <2>10, <2>11, <2>12, <2>13, <2>14, <2>15, <2>16, <2>17, <2>18, <2>19, <2>20, <2>21, <2>22, <2>23, <2>24, <2>25, <2>26, <2>27, <2>28, <2>29, <2>30 DEF Next, CallerStep, ClaimStep, SocketStep, AgentStep, FaultStep
<1>3. QED
  BY <1>1, <1>2, PTL DEF Spec

-----------------------------------------------------------------------------
(***************************************************************************)
(* Facts about the websocket buffers, which only grow at the end and       *)
(* shrink at the front.                                                    *)
(***************************************************************************)
LEMMA ElemsAppend ==
    ASSUME NEW S, NEW s \in Seq(S), NEW e \in S
    PROVE  /\ Elems(Append(s, e)) = Elems(s) \cup {e}
           /\ Distinct(s) /\ e \notin Elems(s) => Distinct(Append(s, e))
<1>1. /\ Len(Append(s, e)) = Len(s) + 1
      /\ Append(s, e)[Len(s) + 1] = e
      /\ \A i \in 1..Len(s) : Append(s, e)[i] = s[i]
      /\ Len(s) \in Nat
  OBVIOUS
<1>2. 1..(Len(s) + 1) = (1..Len(s)) \cup {Len(s) + 1}
  BY <1>1
<1> QED
  BY <1>1, <1>2 DEF Elems, Distinct

\* Taking the head of a buffer of distinct commands removes just that command.
LEMMA ElemsTail ==
    ASSUME NEW S, NEW s \in Seq(S), s # <<>>
    PROVE  /\ Head(s) \in Elems(s)
           /\ Elems(Tail(s)) \subseteq Elems(s)
           /\ Distinct(s) => Distinct(Tail(s)) /\ Head(s) \notin Elems(Tail(s))
<1>1. /\ Len(s) \in Nat /\ Len(s) > 0 /\ Head(s) = s[1]
      /\ Len(Tail(s)) = Len(s) - 1
      /\ \A i \in 1..Len(Tail(s)) : Tail(s)[i] = s[i + 1]
  OBVIOUS
<1> QED
  BY <1>1 DEF Elems, Distinct

\* Appending a result adds its command.
LEMMA CmdsAppend ==
    ASSUME NEW S, NEW s \in Seq(S), NEW e \in S
    PROVE  /\ CmdsOf(Append(s, e)) = CmdsOf(s) \cup {e.cmd}
           /\ DistinctCmds(s) /\ e.cmd \notin CmdsOf(s) => DistinctCmds(Append(s, e))
<1>1. /\ Len(Append(s, e)) = Len(s) + 1
      /\ Append(s, e)[Len(s) + 1] = e
      /\ \A i \in 1..Len(s) : Append(s, e)[i] = s[i]
      /\ Len(s) \in Nat
  OBVIOUS
<1>2. 1..(Len(s) + 1) = (1..Len(s)) \cup {Len(s) + 1}
  BY <1>1
<1> QED
  BY <1>1, <1>2 DEF CmdsOf, DistinctCmds

\* Taking the first of several results for distinct commands removes the only
\* result of its command.
LEMMA CmdsTail ==
    ASSUME NEW S, NEW s \in Seq(S), s # <<>>
    PROVE  /\ Head(s).cmd \in CmdsOf(s)
           /\ CmdsOf(Tail(s)) \subseteq CmdsOf(s)
           /\ DistinctCmds(s) => DistinctCmds(Tail(s)) /\ Head(s).cmd \notin CmdsOf(Tail(s))
<1>1. /\ Len(s) \in Nat /\ Len(s) > 0 /\ Head(s) = s[1]
      /\ Len(Tail(s)) = Len(s) - 1
      /\ \A i \in 1..Len(Tail(s)) : Tail(s)[i] = s[i + 1]
  OBVIOUS
<1> QED
  BY <1>1 DEF CmdsOf, DistinctCmds

\* An emptied buffer holds nothing.
LEMMA EmptyBuffer ==
    Elems(<<>>) = {} /\ Distinct(<<>>) /\ CmdsOf(<<>>) = {} /\ DistinctCmds(<<>>)
BY DEF Elems, Distinct, CmdsOf, DistinctCmds

-----------------------------------------------------------------------------
\* The inductive invariant: AtMostOnce alone is not one, because a step that
\* runs a command relies on nobody else holding it.
IInv == TypeOK /\ OneHolder /\ AtMostOnce

(***************************************************************************)
(* The initial table is empty, so nobody holds anything.                   *)
(***************************************************************************)
LEMMA InitCustody == Init => OneHolder /\ AtMostOnce
<1> SUFFICES ASSUME Init PROVE OneHolder /\ AtMostOnce
  OBVIOUS
<1>1. /\ \A k \in Claimers : batch[k] = {}
      /\ \A k \in Conns : toAgent[k] = <<>> /\ toServer[k] = <<>>
      /\ todo = {} /\ agent.pc # "busy"
      /\ \A c \in Cmd : starts[c] = 0
  BY DEF Init
<1> QED
  BY <1>1, EmptyBuffer DEF OneHolder, NotBegun, BatchHolds, WireHolds, TodoHolds, AgentHolds,
     ReplyHolds, AtMostOnce

(***************************************************************************)
(* Whatever a holder holds is a command.                                   *)
(***************************************************************************)
LEMMA HeldAreCmds ==
    ASSUME TypeOK
    PROVE  /\ \A k \in Claimers : batch[k] \subseteq Cmd
           /\ \A k \in Conns : Elems(toAgent[k]) \subseteq Cmd /\ CmdsOf(toServer[k]) \subseteq Cmd
           /\ todo \subseteq Cmd
<1>1. \A k \in Claimers : batch[k] \subseteq Cmd
  BY DEF TypeOK
<1>2. ASSUME NEW k \in Conns
      PROVE  Elems(toAgent[k]) \subseteq Cmd /\ CmdsOf(toServer[k]) \subseteq Cmd
  <2>1. toAgent[k] \in Seq(Cmd) /\ toServer[k] \in Seq(Reply)
    BY DEF TypeOK
  <2>2. /\ \A i \in 1..Len(toAgent[k]) : toAgent[k][i] \in Cmd
        /\ \A i \in 1..Len(toServer[k]) : toServer[k][i] \in Reply
    BY <2>1
  <2> QED
    BY <2>2 DEF Elems, CmdsOf, Reply
<1>3. todo \subseteq Cmd
  BY DEF TypeOK
<1> QED
  BY <1>1, <1>2, <1>3

(***************************************************************************)
(* A step that only loses what was held keeps every remaining holder       *)
(* alone.  This covers the lost websockets, the crashes, the failed polls  *)
(* and every step that leaves commands where they are.                     *)
(***************************************************************************)
LosesOnly ==
    /\ UNCHANGED <<status, starts>>
    /\ \A k \in Claimers : batch'[k] \subseteq batch[k]
    /\ \A k \in Conns : toAgent'[k] = toAgent[k] \/ toAgent'[k] = <<>>
    /\ \A k \in Conns : toServer'[k] = toServer[k] \/ toServer'[k] = <<>>
    /\ todo' \subseteq todo
    /\ agent' = agent \/ (agent'.pc # "busy" /\ agent'.cur = None)

\* Losing a holder, its buffer or its batch gives no command a second one.
LEMMA LosingKeepsCustody ==
    ASSUME IInv, LosesOnly
    PROVE  OneHolder' /\ AtMostOnce'
<1> USE EmptyBuffer DEF IInv, OneHolder, LosesOnly
<1>1. AtMostOnce' /\ NotBegun'
  BY DEF AtMostOnce, NotBegun
<1>2. \A k \in Conns : /\ Elems(toAgent'[k]) \subseteq Elems(toAgent[k])
                       /\ CmdsOf(toServer'[k]) \subseteq CmdsOf(toServer[k])
  OBVIOUS
<1>3. BatchHolds'
  BY <1>2 DEF BatchHolds, Unsent
<1>4. WireHolds'
  BY <1>2 DEF WireHolds, Unsent
<1>5. TodoHolds'
  BY DEF TodoHolds, Unsent
<1>6. AgentHolds'
  BY DEF AgentHolds, Sent
<1>7. ReplyHolds'
  <2>1. \A k \in Conns : CmdsOf(toServer'[k]) \subseteq Cmd
    BY <1>2, HeldAreCmds
  <2>2. \A k \in Conns : \A c \in CmdsOf(toServer'[k]) : c # agent'.cur
    BY <1>2, <2>1, QueueAssumption DEF ReplyHolds
  <2> QED
    BY <1>2, <2>2 DEF ReplyHolds, Sent
<1> QED
  BY <1>1, <1>3, <1>4, <1>5, <1>6, <1>7

(***************************************************************************)
(* The steps that create or move a holder, one lemma each.                 *)
(***************************************************************************)
LEMMA InsertKeepsCustody ==
    ASSUME IInv, NEW r \in Callers, InsertCommand(r)
    PROVE  OneHolder' /\ AtMostOnce'
<1>1. PICK c \in Cmd : status[c] = "none" /\ status' = [status EXCEPT ![c] = "queued"]
  BY DEF InsertCommand, IsOldest, Rows
<1>2. UNCHANGED <<batch, toAgent, toServer, agent, todo, starts>>
  BY DEF InsertCommand, claimVars, netVars, agentVars, histVars
<1>3. \A d \in Cmd : /\ Unsent(d) => Unsent(d)'
                     /\ Sent(d) => Sent(d)'
                     /\ status'[d] \in {"none", "queued"} => status[d] \in {"none", "queued"}
  BY <1>1, <1>2 DEF IInv, TypeOK, Unsent, Sent
<1>4. \A d : (Unsent(d) => Unsent(d)') /\ (Sent(d) => Sent(d)')
  BY <1>1, <1>2 DEF IInv, TypeOK, Unsent, Sent
<1> USE DEF IInv, OneHolder
<1>5. NotBegun' /\ AtMostOnce'
  BY <1>1, <1>2 DEF NotBegun, AtMostOnce, TypeOK
<1>6. BatchHolds'
  BY <1>2, <1>4 DEF BatchHolds, Unsent
<1>7. WireHolds' /\ TodoHolds'
  BY <1>2, <1>4 DEF WireHolds, TodoHolds, Unsent
<1>8. AgentHolds' /\ ReplyHolds'
  BY <1>2, <1>4 DEF AgentHolds, ReplyHolds, Sent
<1> QED
  BY <1>5, <1>6, <1>7, <1>8

\* A claim takes only rows that are queued, which nobody holds yet.
LEMMA ClaimKeepsCustody ==
    ASSUME IInv, NEW k \in Claimers, ClaimUpdate(k)
    PROVE  OneHolder' /\ AtMostOnce'
<1> DEFINE won == seen[k] \cap Queued
<1>1. /\ status' = [c \in Cmd |-> IF c \in won THEN "in_progress" ELSE status[c]]
      /\ batch' = [batch EXCEPT ![k] = won]
      /\ UNCHANGED <<toAgent, toServer, agent, todo, starts>>
  BY DEF ClaimUpdate, netVars, agentVars, histVars
<1>2. \A c \in won : c \in Cmd /\ status[c] = "queued" /\ starts[c] = 0
  BY DEF Queued, IInv, OneHolder, NotBegun
<1> HIDE DEF won
<1>3. \A c \in won : Unsent(c)'
  BY <1>1, <1>2 DEF Unsent
<1>4. \A c \in Cmd : /\ Unsent(c) => Unsent(c)' /\ c \notin won
                     /\ Sent(c) => Sent(c)'
  BY <1>1, <1>2 DEF Unsent, Sent
<1>5. /\ \A l \in Claimers : batch[l] \subseteq Cmd
      /\ \A l \in Conns : Elems(toAgent[l]) \subseteq Cmd /\ CmdsOf(toServer[l]) \subseteq Cmd
      /\ todo \subseteq Cmd
  BY HeldAreCmds DEF IInv
<1>6. \A l \in Claimers : batch'[l] = IF l = k THEN won ELSE batch[l]
  BY <1>1 DEF IInv, TypeOK
<1> USE DEF IInv, OneHolder
<1>7. NotBegun' /\ AtMostOnce'
  BY <1>1, <1>2 DEF NotBegun, AtMostOnce
<1>8. BatchHolds'
  <2> SUFFICES ASSUME NEW l \in Claimers, NEW c \in batch'[l]
               PROVE  /\ Unsent(c)' /\ c \notin todo'
                      /\ \A m \in Claimers : l # m => c \notin batch'[m]
                      /\ \A m \in Conns : c \notin Elems(toAgent'[m])
    BY DEF BatchHolds
  <2>1. CASE l = k
    <3>1. c \in won /\ \A m \in Claimers : m # l => c \notin batch[m]
      BY <2>1, <1>2, <1>6 DEF BatchHolds, Unsent
    <3>2. c \notin todo /\ \A m \in Conns : c \notin Elems(toAgent[m])
      BY <3>1, <1>2, <1>5 DEF TodoHolds, WireHolds, Unsent
    <3> QED
      BY <2>1, <3>1, <3>2, <1>1, <1>3, <1>6
  <2>2. CASE l # k
    <3>1. c \in Cmd /\ c \in batch[l] /\ Unsent(c)
      BY <2>2, <1>5, <1>6 DEF BatchHolds
    <3>2. /\ c \notin todo
          /\ \A m \in Claimers : l # m => c \notin batch[m]
          /\ \A m \in Conns : c \notin Elems(toAgent[m])
      BY <3>1 DEF BatchHolds
    <3>3. Unsent(c)' /\ c \notin won
      BY <3>1, <1>1, <1>2 DEF Unsent
    <3> QED
      BY <3>2, <3>3, <1>1, <1>6
  <2> QED
    BY <2>1, <2>2
<1>9. WireHolds' /\ TodoHolds'
  BY <1>1, <1>4, <1>5 DEF WireHolds, TodoHolds, Unsent
<1>10. AgentHolds'
  <2>1. agent.pc = "busy" => agent.cur \in Cmd
    BY AgentShape, QueueAssumption DEF TypeOK
  <2> QED
    BY <1>1, <1>4, <2>1 DEF AgentHolds, Sent
<1>11. ReplyHolds'
  BY <1>1, <1>4, <1>5 DEF ReplyHolds, Sent
<1> QED
  BY <1>7, <1>8, <1>9, <1>10, <1>11

\* A sent command moves from the batch of its handler to one websocket buffer.
LEMMA SendKeepsCustody ==
    ASSUME IInv, NEW k \in Conns, SendCommand(k)
    PROVE  OneHolder' /\ AtMostOnce'
<1>1. PICK c \in Cmd :
        /\ c \in batch[k]
        /\ batch' = [batch EXCEPT ![k] = @ \ {c}]
        /\ toAgent' = IF k \in open THEN [toAgent EXCEPT ![k] = Append(@, c)] ELSE toAgent
  BY DEF SendCommand, IsOldest
<1>2. UNCHANGED <<status, toServer, agent, todo, starts>>
  BY DEF SendCommand, tableVars, agentVars, histVars
<1>3. \A l \in Claimers : batch'[l] = IF l = k THEN batch[k] \ {c} ELSE batch[l]
  BY <1>1, ClaimerKinds DEF IInv, TypeOK
<1>4. \A l \in Conns : l # k => toAgent'[l] = toAgent[l]
  BY <1>1 DEF IInv, TypeOK
<1>5. toAgent'[k] = toAgent[k] \/ toAgent'[k] = Append(toAgent[k], c)
  BY <1>1 DEF IInv, TypeOK
<1>6. toAgent[k] \in Seq(Cmd)
  BY DEF IInv, TypeOK
<1> USE DEF IInv, OneHolder
<1>7. /\ Unsent(c) /\ c \notin todo
      /\ \A l \in Claimers : l # k => c \notin batch[l]
      /\ \A l \in Conns : c \notin Elems(toAgent[l])
  BY <1>1, ClaimerKinds DEF BatchHolds
<1>8. /\ Elems(toAgent'[k]) \subseteq Elems(toAgent[k]) \cup {c}
      /\ Distinct(toAgent'[k])
  <2>1. /\ Elems(Append(toAgent[k], c)) = Elems(toAgent[k]) \cup {c}
        /\ Distinct(toAgent[k]) => Distinct(Append(toAgent[k], c))
    BY <1>6, <1>7, ElemsAppend
  <2>2. Distinct(toAgent[k])
    BY DEF WireHolds
  <2> QED
    BY <1>5, <2>1, <2>2
<1>9. BatchHolds'
  BY <1>2, <1>3, <1>4, <1>7, <1>8, ClaimerKinds DEF BatchHolds, Unsent
<1>10. WireHolds'
  BY <1>2, <1>4, <1>7, <1>8 DEF WireHolds, Unsent
<1>11. NotBegun' /\ AtMostOnce' /\ TodoHolds' /\ AgentHolds' /\ ReplyHolds'
  BY <1>2 DEF NotBegun, AtMostOnce, TodoHolds, AgentHolds, ReplyHolds, Unsent, Sent
<1> QED
  BY <1>9, <1>10, <1>11

\* Recording a result ends the custody of its command, which ran once.
LEMMA ResultKeepsCustody ==
    ASSUME IInv, NEW k \in Conns, RecvResult(k)
    PROVE  OneHolder' /\ AtMostOnce'
<1> DEFINE m == Head(toServer[k])
<1>1. /\ toServer[k] \in Seq(Reply) /\ toServer[k] # <<>>
      /\ m \in Reply /\ m.cmd \in Cmd /\ m.status \in Terminal
  <2>1. toServer[k] \in Seq(Reply) /\ toServer[k] # <<>>
    BY DEF RecvResult, IInv, TypeOK
  <2>2. m \in Reply
    BY <2>1
  <2> QED
    BY <2>1, <2>2 DEF Reply
<1>2. /\ status' = [status EXCEPT ![m.cmd] = m.status]
      /\ toServer' = [toServer EXCEPT ![k] = Tail(@)]
      /\ UNCHANGED <<batch, toAgent, agent, todo, starts>>
  BY DEF RecvResult, agentVars, histVars
<1>3. /\ m.cmd \in CmdsOf(toServer[k])
      /\ CmdsOf(Tail(toServer[k])) \subseteq CmdsOf(toServer[k])
      /\ DistinctCmds(toServer[k]) =>
           DistinctCmds(Tail(toServer[k])) /\ m.cmd \notin CmdsOf(Tail(toServer[k]))
  BY <1>1, CmdsTail
<1> HIDE DEF m
<1> USE DEF IInv, OneHolder
<1>4. /\ status[m.cmd] = "in_progress" /\ starts[m.cmd] = 1 /\ m.cmd # agent.cur
      /\ DistinctCmds(toServer[k])
      /\ \A l \in Conns : l # k => m.cmd \notin CmdsOf(toServer[l])
  BY <1>3 DEF ReplyHolds, Sent
<1>5. /\ toServer'[k] = Tail(toServer[k])
      /\ \A l \in Conns : l # k => toServer'[l] = toServer[l]
  BY <1>2 DEF TypeOK
<1>6. \A c : c # m.cmd => status'[c] = status[c]
  BY <1>1, <1>2 DEF TypeOK
<1>7. status'[m.cmd] \in Terminal
  BY <1>1, <1>2 DEF TypeOK
<1>8. NotBegun' /\ AtMostOnce'
  BY <1>2, <1>6, <1>7 DEF NotBegun, AtMostOnce, Terminal
<1>9. BatchHolds'
  BY <1>2, <1>4, <1>6 DEF BatchHolds, Unsent
<1>10. WireHolds' /\ TodoHolds'
  BY <1>2, <1>4, <1>6 DEF WireHolds, TodoHolds, Unsent
<1>11. AgentHolds'
  BY <1>2, <1>4, <1>6 DEF AgentHolds, Sent
<1>12. ReplyHolds'
  <2>1. \A l \in Conns : /\ CmdsOf(toServer'[l]) \subseteq CmdsOf(toServer[l])
                         /\ m.cmd \notin CmdsOf(toServer'[l])
                         /\ DistinctCmds(toServer'[l])
    BY <1>3, <1>4, <1>5 DEF ReplyHolds
  <2> QED
    BY <2>1, <1>2, <1>6 DEF ReplyHolds, Sent
<1> QED
  BY <1>8, <1>9, <1>10, <1>11, <1>12

\* The answer of a poll moves its batch to the agent's discard list.
LEMMA RespondKeepsCustody ==
    ASSUME IInv, NEW p \in Polls, DrainRespond(p)
    PROVE  OneHolder' /\ AtMostOnce'
<1>1. /\ batch' = [batch EXCEPT ![p] = {}]
      /\ UNCHANGED <<status, toAgent, toServer, starts>>
  BY DEF DrainRespond, tableVars, netVars, histVars
<1>2. CASE UNCHANGED agentVars
  BY <1>1, <1>2, ClaimerKinds, LosingKeepsCustody DEF LosesOnly, agentVars, IInv, TypeOK
<1>3. CASE todo' = batch[p] /\ AgentIs("reporting", None, None)
  <2> USE DEF IInv, OneHolder
  <2>1. agent'.pc = "reporting" /\ agent'.cur = None
    BY <1>3 DEF AgentIs
  <2>2. \A l \in Claimers : batch'[l] = IF l = p THEN {} ELSE batch[l]
    BY <1>1 DEF TypeOK
  <2>3. \A c \in batch[p] : /\ Unsent(c)
                            /\ \A l \in Claimers : l # p => c \notin batch[l]
                            /\ \A l \in Conns : c \notin Elems(toAgent[l])
    BY ClaimerKinds DEF BatchHolds
  <2>4. NotBegun' /\ AtMostOnce' /\ AgentHolds'
    BY <1>1, <2>1 DEF NotBegun, AtMostOnce, AgentHolds
  <2>5. BatchHolds'
    BY <1>1, <1>3, <2>2, <2>3 DEF BatchHolds, Unsent
  <2>6. WireHolds'
    <3>1. ASSUME NEW l \in Conns, NEW c \in Elems(toAgent[l]) PROVE c \notin todo'
      BY <1>3, <2>3
    <3> QED
      BY <1>1, <3>1 DEF WireHolds, Unsent
  <2>t. TodoHolds'
    BY <1>1, <1>3, <2>3 DEF TodoHolds, Unsent
  <2>7. ReplyHolds'
    BY <1>1, <2>1, HeldAreCmds, QueueAssumption DEF ReplyHolds, Sent
  <2> QED
    BY <2>4, <2>5, <2>6, <2>t, <2>7
<1> QED
  BY <1>2, <1>3 DEF DrainRespond

\* A discarded command leaves the list when its failure is recorded.
LEMMA DiscardKeepsCustody ==
    ASSUME IInv, NEW c \in Cmd, ReportDiscarded(c)
    PROVE  OneHolder' /\ AtMostOnce'
<1>1. /\ status' = [status EXCEPT ![c] = "failed"]
      /\ c \in todo /\ todo' = todo \ {c}
      /\ agent.pc = "reporting"
      /\ UNCHANGED <<batch, toAgent, toServer, agent, starts>>
  BY DEF ReportDiscarded, claimVars, netVars, histVars
<1> USE DEF IInv, OneHolder
<1>2. status[c] = "in_progress" /\ starts[c] = 0
  BY <1>1 DEF TodoHolds, Unsent
<1>3. \A d : d # c => status'[d] = status[d]
  BY <1>1 DEF TypeOK
<1>4. status'[c] = "failed"
  BY <1>1 DEF TypeOK
<1>5. NotBegun' /\ AtMostOnce' /\ AgentHolds'
  BY <1>1, <1>3, <1>4 DEF NotBegun, AtMostOnce, AgentHolds
<1>6. BatchHolds'
  BY <1>1, <1>3 DEF BatchHolds, Unsent
<1>7. WireHolds' /\ TodoHolds'
  BY <1>1, <1>3 DEF WireHolds, TodoHolds, Unsent
<1>8. ReplyHolds'
  BY <1>1, <1>2, <1>3 DEF ReplyHolds, Sent
<1> QED
  BY <1>5, <1>6, <1>7, <1>8

\* A command the agent begins to run leaves the buffer and had not run before.
LEMMA TakeKeepsCustody ==
    ASSUME IInv, TakeCommand
    PROVE  OneHolder' /\ AtMostOnce'
<1> DEFINE k == agent.conn
           c == Head(toAgent[k])
<1>1. k \in Conns
  BY AgentShape DEF TakeCommand, IInv, TypeOK
<1>2. toAgent[k] \in Seq(Cmd) /\ toAgent[k] # <<>> /\ c \in Cmd
  <2>1. toAgent[k] \in Seq(Cmd) /\ toAgent[k] # <<>>
    BY <1>1 DEF TakeCommand, IInv, TypeOK
  <2> QED
    BY <2>1
<1>3. /\ AgentIs("busy", k, c)
      /\ starts' = [starts EXCEPT ![c] = @ + 1]
      /\ toAgent' = [toAgent EXCEPT ![k] = Tail(@)]
      /\ UNCHANGED <<status, batch, toServer, todo>>
  BY DEF TakeCommand, tableVars, claimVars
<1>4. /\ c \in Elems(toAgent[k])
      /\ Elems(Tail(toAgent[k])) \subseteq Elems(toAgent[k])
      /\ Distinct(toAgent[k]) => Distinct(Tail(toAgent[k])) /\ c \notin Elems(Tail(toAgent[k]))
  BY <1>2, ElemsTail
<1>5. agent'.pc = "busy" /\ agent'.cur = c
  BY <1>3 DEF AgentIs
<1> HIDE DEF k, c
<1> USE DEF IInv, OneHolder
<1>6. /\ status[c] = "in_progress" /\ starts[c] = 0 /\ c \notin todo
      /\ Distinct(toAgent[k])
      /\ \A l \in Conns : l # k => c \notin Elems(toAgent[l])
  BY <1>1, <1>4 DEF WireHolds, Unsent
<1>7. \A l \in Claimers : c \notin batch[l]
  BY <1>1, <1>4 DEF BatchHolds
<1>8. \A l \in Conns : c \notin CmdsOf(toServer[l])
  BY <1>6 DEF ReplyHolds, Sent
<1>9. /\ starts'[c] = 1
      /\ \A d : d # c => starts'[d] = starts[d]
  BY <1>2, <1>3, <1>6 DEF TypeOK
<1>10. /\ toAgent'[k] = Tail(toAgent[k])
       /\ \A l \in Conns : l # k => toAgent'[l] = toAgent[l]
  BY <1>1, <1>3 DEF TypeOK
<1>11. \A l \in Conns : /\ Elems(toAgent'[l]) \subseteq Elems(toAgent[l])
                        /\ c \notin Elems(toAgent'[l])
                        /\ Distinct(toAgent'[l])
  BY <1>4, <1>6, <1>10 DEF WireHolds
<1>12. NotBegun' /\ AtMostOnce'
  BY <1>3, <1>6, <1>9 DEF NotBegun, AtMostOnce
<1>u. UNCHANGED <<status, batch, todo>>
  BY <1>3
<1>13. BatchHolds'
  <2> SUFFICES ASSUME NEW l \in Claimers, NEW d \in batch[l]
               PROVE  /\ Unsent(d)' /\ d \notin todo
                      /\ \A m \in Claimers : l # m => d \notin batch[m]
                      /\ \A m \in Conns : d \notin Elems(toAgent'[m])
    BY <1>u DEF BatchHolds
  <2>1. /\ Unsent(d) /\ d \notin todo
        /\ \A m \in Claimers : l # m => d \notin batch[m]
        /\ \A m \in Conns : d \notin Elems(toAgent[m])
    BY DEF BatchHolds
  <2>2. status'[d] = "in_progress" /\ starts'[d] = 0
    BY <1>u, <1>7, <1>9, <2>1 DEF Unsent
  <2> QED
    BY <2>1, <2>2, <1>11 DEF Unsent
<1>14. WireHolds'
  <2> SUFFICES ASSUME NEW l \in Conns
               PROVE  /\ Distinct(toAgent'[l])
                      /\ \A d \in Elems(toAgent'[l]) :
                           /\ Unsent(d)' /\ d \notin todo
                           /\ \A m \in Conns : l # m => d \notin Elems(toAgent'[m])
    BY <1>u DEF WireHolds
  <2>1. \A d \in Elems(toAgent[l]) :
          /\ Unsent(d) /\ d \notin todo
          /\ \A m \in Conns : l # m => d \notin Elems(toAgent[m])
    BY DEF WireHolds
  <2>2. \A d \in Elems(toAgent'[l]) : status'[d] = "in_progress" /\ starts'[d] = 0
    BY <1>u, <1>9, <1>11, <2>1 DEF Unsent
  <2> QED
    BY <2>1, <2>2, <1>11 DEF Unsent
<1>15. TodoHolds'
  BY <1>3, <1>6, <1>9 DEF TodoHolds, Unsent
<1>16. AgentHolds'
  BY <1>3, <1>5, <1>6, <1>9 DEF AgentHolds, Sent
<1>17. ReplyHolds'
  BY <1>3, <1>5, <1>8, <1>9 DEF ReplyHolds, Sent
<1> QED
  BY <1>12, <1>13, <1>14, <1>15, <1>16, <1>17

\* A finished command moves from the agent to one pending result.
LEMMA FinishKeepsCustody ==
    ASSUME IInv, FinishCommand
    PROVE  OneHolder' /\ AtMostOnce'
<1> DEFINE k == agent.conn
           c == agent.cur
<1>1. k \in Conns /\ c \in Cmd /\ c # None
  BY AgentShape, QueueAssumption DEF FinishCommand, IInv, TypeOK
<1>2. PICK o \in Terminal :
        toServer' = IF k \in open
                      THEN [toServer EXCEPT ![k] = Append(@, [cmd |-> c, status |-> o])]
                      ELSE toServer
  BY DEF FinishCommand
<1>3. /\ agent.pc = "busy" /\ agent'.pc = "idle" /\ agent'.cur = None
      /\ UNCHANGED <<status, batch, toAgent, todo, starts>>
  BY DEF FinishCommand, AgentIs, tableVars, claimVars, histVars
<1> DEFINE r == [cmd |-> c, status |-> o]
<1>4. r \in Reply /\ r.cmd = c
  BY <1>1 DEF Reply
<1>5. toServer[k] \in Seq(Reply)
  BY <1>1 DEF IInv, TypeOK
<1>6. /\ toServer'[k] = toServer[k] \/ toServer'[k] = Append(toServer[k], r)
      /\ \A l \in Conns : l # k => toServer'[l] = toServer[l]
  BY <1>1, <1>2 DEF IInv, TypeOK
<1>7. /\ CmdsOf(Append(toServer[k], r)) = CmdsOf(toServer[k]) \cup {c}
      /\ DistinctCmds(toServer[k]) /\ c \notin CmdsOf(toServer[k])
           => DistinctCmds(Append(toServer[k], r))
  BY <1>4, <1>5, CmdsAppend
<1> HIDE DEF r
<1> USE DEF IInv, OneHolder
<1>8. /\ status[c] = "in_progress" /\ starts[c] = 1
      /\ \A l \in Conns : c \notin CmdsOf(toServer[l])
  BY <1>3 DEF AgentHolds, ReplyHolds, Sent
<1> HIDE DEF k, c
<1>9. \A l \in Conns : /\ CmdsOf(toServer'[l]) \subseteq
                             CmdsOf(toServer[l]) \cup (IF l = k THEN {c} ELSE {})
                      /\ DistinctCmds(toServer'[l])
  BY <1>6, <1>7, <1>8 DEF ReplyHolds
<1>10. NotBegun' /\ AtMostOnce' /\ AgentHolds'
  BY <1>3 DEF NotBegun, AtMostOnce, AgentHolds
<1>11. BatchHolds' /\ WireHolds' /\ TodoHolds'
  BY <1>3 DEF BatchHolds, WireHolds, TodoHolds, Unsent
<1>12. ReplyHolds'
  <2>1. \A l \in Conns : \A d \in CmdsOf(toServer'[l]) :
          /\ status[d] = "in_progress" /\ starts[d] = 1
          /\ d \in Cmd
          /\ \A m \in Conns : m # l => d \notin CmdsOf(toServer'[m])
    BY <1>1, <1>8, <1>9, HeldAreCmds DEF ReplyHolds, Sent
  <2> QED
    BY <2>1, <1>3, <1>9, QueueAssumption DEF ReplyHolds, Sent
<1> QED
  BY <1>10, <1>11, <1>12

-----------------------------------------------------------------------------
(***************************************************************************)
(* The steps that create, move or use up a holder; all others lose holders *)
(* or leave every command where it is.                                     *)
(***************************************************************************)
LEMMA StepKinds ==
    ASSUME IInv, [Next]_vars
    PROVE  \/ LosesOnly
           \/ \E r \in Callers : InsertCommand(r)
           \/ \E k \in Claimers : ClaimUpdate(k)
           \/ \E k \in Conns : SendCommand(k) \/ RecvResult(k)
           \/ \E p \in Polls : DrainRespond(p)
           \/ \E c \in Cmd : ReportDiscarded(c)
           \/ TakeCommand
           \/ FinishCommand
<1> USE DEF tableVars, planeVars, claimVars, netVars, agentVars, histVars
<1>1. ASSUME NEW r \in Callers, CallerStep(r) PROVE LosesOnly \/ InsertCommand(r)
  BY <1>1 DEF CallerStep, BeginQueue, LosesOnly
<1>2. ASSUME NEW k \in Claimers, ClaimStep(k) PROVE LosesOnly \/ ClaimUpdate(k)
  BY <1>2 DEF ClaimStep, ClaimSelect, LosesOnly
<1>3. ASSUME NEW k \in Conns, SocketStep(k)
      PROVE  LosesOnly \/ SendCommand(k) \/ RecvResult(k)
  <2>1. CASE CloseOldSocket(k) \/ RegisterSocket(k) \/ BatchSent(k)
             \/ RecvNothing(k) \/ RecvClosed(k)
    BY <2>1 DEF LosesOnly, CloseOldSocket, RegisterSocket, BatchSent, RecvNothing, RecvClosed
  <2>2. CASE SendFails(k)
    <3>1. \A l \in Claimers : batch'[l] \subseteq batch[l]
      BY <2>2 DEF SendFails, IInv, TypeOK
    <3> QED
      BY <2>2, <3>1 DEF SendFails, LosesOnly
  <2>3. CASE HandlerEnds(k)
    <3>1. \A l \in Conns : toServer'[l] = toServer[l] \/ toServer'[l] = <<>>
      BY <2>3 DEF HandlerEnds, IInv, TypeOK
    <3> QED
      BY <2>3, <3>1 DEF HandlerEnds, LosesOnly
  <2> QED
    BY <1>3, <2>1, <2>2, <2>3 DEF SocketStep
<1>5. CASE AgentStep
  <2>1. ASSUME NEW p \in Polls, AgentStart(p) PROVE LosesOnly
    BY <2>1 DEF AgentStart, LosesOnly, AgentIs
  <2>3. CASE DrainAborted \/ DrainDone
    BY <2>3 DEF DrainAborted, DrainDone, LosesOnly, AgentIs
  <2>4. CASE LeaveSocket
    <3>1. \A l \in Conns : toAgent'[l] = toAgent[l] \/ toAgent'[l] = <<>>
      BY <2>4 DEF LeaveSocket, Disconnected, IInv, TypeOK
    <3> QED
      BY <2>4, <3>1 DEF LeaveSocket, LosesOnly, AgentIs
  <2>5. ASSUME NEW k \in Conns, AgentConnect(k) PROVE LosesOnly
    BY <2>5 DEF AgentConnect, LosesOnly, AgentIs
  <2> QED
    BY <1>5, <2>1, <2>3, <2>4, <2>5 DEF AgentStep
<1>6. CASE EvictSocket
  BY <1>6 DEF EvictSocket, LosesOnly
<1>7. CASE FaultStep
  <2>1. ASSUME NEW k \in Conns, DropLink(k) PROVE LosesOnly
    BY <2>1 DEF DropLink, LosesOnly
  <2>2. CASE DrainGiveUp
    BY <2>2 DEF DrainGiveUp, LosesOnly, AgentIs
  <2>3. CASE ReportFails
    BY <2>3 DEF ReportFails, LosesOnly
  <2>4. CASE AgentCrash
    <3>1. \A l \in Conns : toAgent'[l] = toAgent[l] \/ toAgent'[l] = <<>>
      BY <2>4 DEF AgentCrash, Disconnected, IInv, TypeOK
    <3> QED
      BY <2>4, <3>1 DEF AgentCrash, LosesOnly, AgentIs
  <2>5. CASE ServerRestart
    BY <2>5 DEF ServerRestart, LosesOnly
  <2> QED
    BY <1>7, <2>1, <2>2, <2>3, <2>4, <2>5 DEF FaultStep
<1>8. CASE UNCHANGED vars
  BY <1>8 DEF vars, LosesOnly
<1> QED
  BY <1>1, <1>2, <1>3, <1>5, <1>6, <1>7, <1>8 DEF Next

(***************************************************************************)
(* Every step keeps every claimed command with one holder.                 *)
(***************************************************************************)
LEMMA StepKeepsCustody ==
    ASSUME IInv, [Next]_vars
    PROVE  OneHolder' /\ AtMostOnce'
BY StepKinds, LosingKeepsCustody, InsertKeepsCustody, ClaimKeepsCustody, SendKeepsCustody,
   ResultKeepsCustody, RespondKeepsCustody, DiscardKeepsCustody, TakeKeepsCustody,
   FinishKeepsCustody

(***************************************************************************)
(* A claimed command is in one place only: one claimer's batch, one        *)
(* websocket buffer, the discard list, the agent, or one pending result.   *)
(***************************************************************************)
THEOREM CustodyCorrect == Spec => []OneHolder
<1>1. Init => OneHolder /\ AtMostOnce
  BY InitCustody
<1>2. TypeOK /\ OneHolder /\ AtMostOnce /\ [Next]_vars => (OneHolder /\ AtMostOnce)'
  BY StepKeepsCustody DEF IInv
<1>3. QED
  BY <1>1, <1>2, TypeCorrect, PTL DEF Spec

(***************************************************************************)
(* However often the node reconnects, its agent restarts and claims race,  *)
(* the agent begins to run a command at most once.                         *)
(***************************************************************************)
THEOREM RunsAtMostOnce == Spec => []AtMostOnce
<1>1. Init => OneHolder /\ AtMostOnce
  BY InitCustody
<1>2. TypeOK /\ OneHolder /\ AtMostOnce /\ [Next]_vars => (OneHolder /\ AtMostOnce)'
  BY StepKeepsCustody DEF IInv
<1>3. QED
  BY <1>1, <1>2, TypeCorrect, PTL DEF Spec

(***************************************************************************)
(* A recorded result is final: neither a claim that raced it nor a second  *)
(* report can change it.                                                   *)
(***************************************************************************)
THEOREM OutcomesStand == Spec => OutcomeStands
<1>1. ASSUME IInv, [Next]_vars
      PROVE  [\A c \in Cmd : status[c] \in Terminal => status'[c] = status[c]]_vars
  <2> USE <1>1 DEF Terminal
  <2>1. CASE UNCHANGED status
    BY <2>1
  <2>2. ASSUME NEW r \in Callers, InsertCommand(r)
        PROVE  \A c \in Cmd : status[c] \in Terminal => status'[c] = status[c]
    <3>1. PICK c \in Cmd : status[c] = "none" /\ status' = [status EXCEPT ![c] = "queued"]
      BY <2>2 DEF InsertCommand, IsOldest, Rows
    <3> QED
      BY <3>1 DEF IInv, TypeOK
  <2>3. ASSUME NEW k \in Claimers, ClaimUpdate(k)
        PROVE  \A c \in Cmd : status[c] \in Terminal => status'[c] = status[c]
    BY <2>3 DEF ClaimUpdate, Queued
  <2>4. ASSUME NEW k \in Conns, RecvResult(k)
        PROVE  \A c \in Cmd : status[c] \in Terminal => status'[c] = status[c]
    <3> DEFINE m == Head(toServer[k])
    <3>1. toServer[k] \in Seq(Reply) /\ toServer[k] # <<>>
      BY <2>4 DEF RecvResult, IInv, TypeOK
    <3>2. m.cmd \in CmdsOf(toServer[k])
      BY <3>1, CmdsTail
    <3>3. status[m.cmd] = "in_progress"
      BY <3>2 DEF IInv, OneHolder, ReplyHolds, Sent
    <3> QED
      BY <2>4, <3>3 DEF RecvResult, IInv, TypeOK
  <2>5. ASSUME NEW d \in Cmd, ReportDiscarded(d)
        PROVE  \A c \in Cmd : status[c] \in Terminal => status'[c] = status[c]
    BY <2>5 DEF ReportDiscarded, IInv, TypeOK, OneHolder, TodoHolds, Unsent
  <2>6. \/ UNCHANGED status
        \/ \E r \in Callers : InsertCommand(r)
        \/ \E k \in Claimers : ClaimUpdate(k)
        \/ \E k \in Conns : RecvResult(k)
        \/ \E d \in Cmd : ReportDiscarded(d)
    BY DEF Next, vars, tableVars, CallerStep, BeginQueue, ClaimStep, ClaimSelect,
         SocketStep, CloseOldSocket, RegisterSocket, SendCommand, SendFails, BatchSent,
         RecvNothing, RecvClosed, HandlerEnds, DrainRespond, AgentStep, AgentStart, DrainAborted,
         DrainDone, TakeCommand, FinishCommand, LeaveSocket, AgentConnect, EvictSocket, FaultStep,
         DropLink, DrainGiveUp, ReportFails, AgentCrash, ServerRestart
  <2> QED
    BY <2>1, <2>2, <2>3, <2>4, <2>5, <2>6
<1>2. Spec => []IInv
  BY TypeCorrect, CustodyCorrect, RunsAtMostOnce, PTL DEF IInv
<1>3. QED
  BY <1>1, <1>2, PTL DEF Spec, OutcomeStands
=============================================================================
