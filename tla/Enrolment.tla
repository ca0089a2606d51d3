------------------------------ MODULE Enrolment ------------------------------
(***************************************************************************)
(* How machines join the panel and leave it: invites, the registration of  *)
(* a node, its websocket and heartbeats, and the requests that enable,     *)
(* disable and delete it or put a replica on it.  The requests go through  *)
(* the permission check of Accounts; an agent's registration and its       *)
(* websocket do not, they carry an invite and a token.                     *)
(*                                                                         *)
(* The row of the local node is left out: it is never disabled or deleted. *)
(***************************************************************************)
EXTENDS Accounts
LOCAL INSTANCE FiniteSetsExt

CONSTANTS
    MaxNodeId,      \* bound: node ids
    NodeLimit,      \* limits.max_nodes, the local node left out
    MaxInviteId,    \* bound: invites
    MaxSockets,     \* bound: websockets ever opened
    MaxEvents       \* bound: requests and websockets together

NodeIds == 1..MaxNodeId
InviteIds == 1..MaxInviteId
Sockets == 1..MaxSockets
Tokens == 0..MaxRequests    \* a registration's token; 0 is that of the first node

Node == [name : Hostnames, token : Tokens, enabled : BOOLEAN, online : BOOLEAN]
Invite == [used : BOOLEAN, expired : BOOLEAN, node : NodeIds \cup {None}]

ASSUME EnrolmentAssumption ==
    /\ MaxNodeId \in 1..MaxRowId /\ MaxInviteId \in 1..MaxRowId /\ NodeLimit \in Nat
    /\ Hostnames # {} /\ Names # {} /\ {1, 2} \subseteq RoleIds
    /\ MaxSockets \in Nat /\ MaxEvents \in Nat
    /\ {"nodes.add", "nodes.manage", "apps.manage"} \subseteq Permissions
    /\ None \notin Node \cup Invite

VARIABLES
    nodes,      \* nodes[n]: the node's row
    invites,    \* invites[i]: the invite's row
    hosted,     \* nodes that rows of replicas refer to; replicas are not deleted here
    known,      \* tokens whose agent has received them
    conns,      \* _node_ws_connections
    sock,       \* sock[k]: the handler agent_ws of a websocket
    joined,     \* history: joined[i], registrations committed with invite i
    raced       \* history: what overlapped, of two registrations or a role and its deletion

nodeVars == <<nodes, invites, hosted>>
socketVars == <<conns, sock>>
vars == <<roles, users, req, had, moved, nodes, invites, hosted, known, conns, sock,
          joined, raced>>

Called(name) == {n \in Present(nodes) : nodes[n].name = name}

-----------------------------------------------------------------------------
(* Requests                                                                *)

Needed(kind) ==
    CASE kind = "create_invite"                          -> "nodes.add"
      [] kind \in {"enable", "disable", "delete_node"}   -> "nodes.manage"
      [] kind = "scale"                                  -> "apps.manage"

Check(q, kind, pc, bad, next) ==
    /\ Reads(q, kind, pc)
    /\ IF bad THEN Refuse(q) ELSE Goto(q, next)
    /\ UNCHANGED <<nodeVars, known, joined>>

CreateInvite(q) ==
    /\ Reads(q, "create_invite", "check") /\ Refuse(q) /\ HasRoom(invites)
    /\ invites' = [invites EXCEPT ![NextId(invites)] =
                      [used |-> FALSE, expired |-> FALSE, node |-> None]]
    /\ joined' = [joined EXCEPT ![NextId(invites)] = 0]
    /\ UNCHANGED <<nodes, hosted, known>>

\* Mutant: an invite that was used is accepted again.
UnusableUnlessUsed(i) == invites[i] = None \/ invites[i].expired
Unusable(i) == invites[i] = None \/ invites[i].used \/ invites[i].expired

\* The clock has passed the invite's time when it is looked up.
Expires(q, i) ==
    /\ invites[i] # None /\ ~invites[i].used /\ Refuse(q)
    /\ invites' = [invites EXCEPT ![i].expired = TRUE]
    /\ UNCHANGED <<nodes, hosted, known, joined>>

\* Mutant: the limit is compared one too late.
FullPastLimit == Cardinality(Present(nodes)) > NodeLimit
Full == Cardinality(Present(nodes)) >= NodeLimit

\* register_node: the invite, the name and the limit are looked up before the
\* row is inserted.  The token is in the answer, which may get lost.
Register(q) ==
    LET i == req[q].on
        n == NextId(nodes)
        name == req[q].name
    IN  \/ Check(q, "register", "check", Unusable(i), "check2")
        \/ Reads(q, "register", "check") /\ Expires(q, i)
        \/ Check(q, "register", "check2", Called(name) # {}, "check3")
        \/ Check(q, "register", "check3", Full, "write")
        \/ /\ Reads(q, "register", "write") /\ Refuse(q)
           /\ IF Called(name) # {} \/ invites[i] = None
              THEN UNCHANGED <<nodes, invites, known, joined>>
              ELSE /\ n \in NodeIds
                   /\ nodes' = [nodes EXCEPT ![n] = [name |-> name, token |-> q,
                                                     enabled |-> TRUE, online |-> TRUE]]
                   /\ invites' = [invites EXCEPT ![i].used = TRUE, ![i].node = n]
                   /\ joined' = [joined EXCEPT ![i] = @ + 1]
                   /\ known' \in {known, known \cup {q}}
           /\ UNCHANGED hosted

\* A node's row is read, then the columns that change are written.
EnableNode(q) ==
    LET n == req[q].on
    IN  \/ Check(q, "enable", "check", nodes[n] = None, "write")
        \/ /\ Reads(q, "enable", "write") /\ Refuse(q)
           /\ nodes' = IF nodes[n] = None THEN nodes ELSE [nodes EXCEPT ![n].enabled = TRUE]
           /\ UNCHANGED <<invites, hosted, known, joined>>

SawOnline(h, online) == [h EXCEPT !.saw = online, !.pc = "write"]
\* A node that was offline when it was read keeps the status it has by then.
DisableNode(q) ==
    LET n == req[q].on
    IN  \/ /\ Reads(q, "disable", "check")
           /\ IF nodes[n] = None THEN Refuse(q)
              ELSE Becomes(q, SawOnline(req[q], nodes[n].online))
           /\ UNCHANGED <<nodeVars, known, joined>>
        \/ /\ Reads(q, "disable", "write") /\ Refuse(q)
           /\ nodes' = IF nodes[n] = None THEN nodes
                       ELSE [nodes EXCEPT ![n].enabled = FALSE,
                                          ![n].online = @ /\ ~req[q].saw]
           /\ UNCHANGED <<invites, hosted, known, joined>>

\* Mutant: foreign keys are not enforced.
Unrestricted(n) == FALSE
\* The database refuses to delete a node while a replica refers to it.
Restricted(n) == n \in hosted

\* delete_node counts the applications and the replicas of the node, then
\* deletes its invites and its row (and its commands, which are not modelled).
DeleteNode(q) ==
    LET n == req[q].on
    IN  \/ Check(q, "delete_node", "check", nodes[n] = None, "check2")
        \/ Check(q, "delete_node", "check2", n \in hosted, "write")
        \/ /\ Reads(q, "delete_node", "write") /\ Refuse(q)
           /\ IF nodes[n] = None \/ Restricted(n) THEN UNCHANGED <<nodes, invites>>
              ELSE /\ nodes' = [nodes EXCEPT ![n] = None]
                   /\ invites' = [i \in InviteIds |->
                         IF invites[i] # None /\ invites[i].node = n THEN None ELSE invites[i]]
           /\ UNCHANGED <<hosted, known, joined>>

\* scale_app on a remote node; the insert fails when the node has gone.
ScaleOnNode(q) ==
    LET n == req[q].on
    IN  \/ Check(q, "scale", "check",
              nodes[n] = None \/ ~nodes[n].enabled \/ ~nodes[n].online, "write")
        \/ /\ Reads(q, "scale", "write") /\ Refuse(q)
           /\ hosted' = IF nodes[n] = None THEN hosted ELSE hosted \cup {n}
           /\ UNCHANGED <<nodes, invites, known, joined>>

-----------------------------------------------------------------------------
(* Websockets                                                              *)

Begun == Cardinality({q \in Requests : req[q].pc # "new"})
            + Cardinality({k \in Sockets : sock[k].pc # "none"})

SocketHandler == [pc : {"none", "auth", "register", "enlist", "open", "beat", "ending", "mark", "gone"},
                  token : Tokens \cup {None}, id : NodeIds \cup {None}, saw : BOOLEAN]
NoSocket == [pc |-> "none", token |-> None, id |-> None, saw |-> FALSE]
Gone == [NoSocket EXCEPT !.pc = "gone"]
Socket(k, s) == sock' = [sock EXCEPT ![k] = s]
\* get_node_by_token_or_401
Valid(token) == {n \in Present(nodes) : nodes[n].token = token /\ nodes[n].enabled}

\* Mutant: a row's token is enough, whether or not an agent has it.
HelloAnyToken(k) ==
    /\ sock[k].pc = "none" /\ Begun < MaxEvents
    /\ \E n \in Present(nodes) :
          Socket(k, [pc |-> "auth", token |-> nodes[n].token, id |-> n, saw |-> nodes[n].online])
    /\ UNCHANGED <<nodes, conns>>
\* An agent connects: its token is looked up and the row read.
Hello(k) ==
    /\ sock[k].pc = "none" /\ \A j \in 1..(k - 1) : sock[j].pc # "none" /\ Begun < MaxEvents
    /\ \E t \in known : \E n \in Valid(t) :
          Socket(k, [pc |-> "auth", token |-> t, id |-> n, saw |-> nodes[n].online])
    /\ UNCHANGED <<nodes, conns>>

\* The row becomes online: a status that was so when it was read is not
\* written, and a row that is gone fails the commit.
Online(k, next) ==
    LET n == sock[k].id
    IN  IF nodes[n] = None
        THEN /\ Socket(k, IF next = "register" THEN Gone ELSE [sock[k] EXCEPT !.pc = "ending"])
             /\ UNCHANGED nodes
        ELSE /\ nodes' = [nodes EXCEPT ![n].online = @ \/ ~sock[k].saw]
             /\ Socket(k, [sock[k] EXCEPT !.pc = next])
Authenticate(k) == sock[k].pc = "auth" /\ Online(k, "register") /\ UNCHANGED conns

\* The handler closes the socket it finds in the registry, and waits for that.
CloseOld(k) ==
    LET old == conns[sock[k].id]
    IN  /\ sock[k].pc = "register" /\ old # None
        /\ sock' = [j \in Sockets |->
                      IF j = k THEN [sock[k] EXCEPT !.pc = "enlist"]
                      ELSE IF j = old /\ sock[j].pc = "open" THEN [sock[j] EXCEPT !.pc = "ending"]
                      ELSE sock[j]]
        /\ UNCHANGED <<nodes, conns>>
\* It takes the node's place in the registry, whoever has it by then.
RegisterSocket(k) ==
    /\ \/ sock[k].pc = "register" /\ conns[sock[k].id] = None
       \/ sock[k].pc = "enlist"
    /\ conns' = [conns EXCEPT ![sock[k].id] = k]
    /\ Socket(k, [sock[k] EXCEPT !.pc = "open"])
    /\ UNCHANGED nodes

\* Mutant: a heartbeat does not ask whether the node is enabled.
HeartbeatOfAny(k) ==
    /\ sock[k].pc = "open"
    /\ \E n \in {m \in Present(nodes) : nodes[m].token = sock[k].token} :
          Socket(k, [sock[k] EXCEPT !.pc = "beat", !.saw = nodes[n].online])
    /\ UNCHANGED <<nodes, conns>>
\* A heartbeat reads the row by token, and a refusal ends the handler; then it
\* writes the row.
Heartbeat(k) ==
    /\ sock[k].pc = "open"
    /\ IF Valid(sock[k].token) = {} THEN Socket(k, [sock[k] EXCEPT !.pc = "ending"])
       ELSE \E n \in Valid(sock[k].token) :
               Socket(k, [sock[k] EXCEPT !.pc = "beat", !.saw = nodes[n].online])
    /\ UNCHANGED <<nodes, conns>>
\* Mutant: the heartbeat leaves the status as it is.
HeartbeatSeen(k) ==
    sock[k].pc = "beat" /\ Socket(k, [sock[k] EXCEPT !.pc = "open"]) /\ UNCHANGED <<nodes, conns>>
HeartbeatDone(k) == sock[k].pc = "beat" /\ Online(k, "open") /\ UNCHANGED conns

Disconnect(k) ==
    /\ sock[k].pc = "open" /\ Socket(k, [sock[k] EXCEPT !.pc = "ending"])
    /\ UNCHANGED <<nodes, conns>>

\* The handler ends: unless another socket has taken its place in the
\* registry, the node is marked offline.
Ending(k) ==
    LET n == sock[k].id
    IN  /\ sock[k].pc = "ending"
        /\ IF conns[n] \in {k, None}
           THEN /\ conns' = [conns EXCEPT ![n] = None]
                /\ Socket(k, [sock[k] EXCEPT !.pc = "mark"])
           ELSE Socket(k, Gone) /\ UNCHANGED conns
        /\ UNCHANGED nodes
MarkOffline(k) ==
    LET n == sock[k].id
    IN  /\ sock[k].pc = "mark" /\ Socket(k, Gone)
        /\ nodes' = IF nodes[n] = None THEN nodes ELSE [nodes EXCEPT ![n].online = FALSE]
        /\ UNCHANGED conns

-----------------------------------------------------------------------------
(* The health monitor                                                      *)

\* mark_stale_nodes_offline: an enabled node whose agent has gone silent.
Stale(n) ==
    /\ nodes[n] # None /\ nodes[n].enabled /\ nodes[n].online
    /\ \A k \in Sockets : sock[k].id # n
    /\ nodes' = [nodes EXCEPT ![n].online = FALSE]
    /\ UNCHANGED <<accountVars, req, invites, hosted, known, socketVars, joined>>
-----------------------------------------------------------------------------
(* Specification                                                           *)

\* The panel has its built-in role and one without permissions, and one
\* account that has either.  Two invites are open; a node may have joined with
\* an earlier one, and its agent is not connected.
Init ==
    /\ roles = [r \in RoleIds |->
          CASE r = 1 -> [builtin |-> TRUE, grants |-> Permissions]
            [] r = 2 -> [builtin |-> FALSE, grants |-> {}]
            [] OTHER -> None]
    /\ \E first \in BOOLEAN, r \in {1, 2} :
          /\ (r = 2 => first) /\ (first => NodeLimit > 0)
          /\ users = [u \in UserIds |-> IF u > 1 THEN None ELSE
                                        [name |-> CHOOSE n \in Names : TRUE, role |-> r]]
          /\ nodes = [n \in NodeIds |-> IF n > 1 \/ ~first THEN None ELSE
                         [name |-> CHOOSE h \in Hostnames : TRUE, token |-> 0,
                          enabled |-> TRUE, online |-> FALSE]]
          /\ invites = [i \in InviteIds |->
                CASE i = 1 /\ first   -> [used |-> TRUE, expired |-> FALSE, node |-> 1]
                  [] i \in {2, 3}     -> [used |-> FALSE, expired |-> FALSE, node |-> None]
                  [] OTHER            -> None]
    /\ hosted = {} /\ known = {0}
    /\ conns = [n \in NodeIds |-> None] /\ sock = [k \in Sockets |-> NoSocket]
    /\ req = [q \in Requests |-> Fresh]
    /\ had = {} /\ moved = {} /\ raced = {}
    /\ joined = [i \in InviteIds |-> 0]

\* An agent's registration asks for no permission, as the root account's
\* requests.  A request with X-Agent-Token, or with an enabled node's
\* X-Node-Token, is let through without an account too: it is one of Root's.
NodeKinds == {"enable", "disable", "delete_node", "scale"}
AskNode(q) ==
    \/ \E by \in {users[u].name : u \in Present(users)} \cup {Root} :
          \/ Ask(q, Asks("create_invite", by))
          \/ \E n \in Present(nodes), kind \in NodeKinds :
                Ask(q, [Asks(kind, by) EXCEPT !.on = n])
    \/ \E i \in Present(invites), h \in Hostnames :
          Ask(q, [Asks("register", Root) EXCEPT !.on = i, !.name = h])
Admit(q) == ReadUser(q) \/ ReadGrants(q, Needed(req[q].kind))
Arrive(q) == Begun < MaxEvents /\ (AskNode(q) \/ AskAccount(q)) /\ UNCHANGED accountVars

HandleNode(q) ==
    \/ CreateInvite(q) \/ Register(q) \/ EnableNode(q) \/ DisableNode(q)
    \/ DeleteNode(q) \/ ScaleOnNode(q)
Serve(k) ==
    \/ Authenticate(k) \/ CloseOld(k) \/ RegisterSocket(k) \/ Heartbeat(k) \/ HeartbeatDone(k)
    \/ Ending(k) \/ MarkOffline(k)

StepOfAccounts(q) ==
    /\ Arrive(q) \/ Admit(q) \/ HandleAccount(q)
    /\ UNCHANGED <<nodeVars, known, socketVars, joined>>
StepOfNodes(q) == HandleNode(q) /\ UNCHANGED <<accountVars, socketVars>>
StepOfSockets(k) ==
    /\ Hello(k) \/ Serve(k) \/ Disconnect(k)
    /\ UNCHANGED <<accountVars, req, invites, hosted, known, joined>>
Step ==
    \/ \E q \in Requests : StepOfAccounts(q) \/ StepOfNodes(q)
    \/ \E k \in Sockets : StepOfSockets(k)
    \/ \E n \in NodeIds : Stale(n)

\* What the requests' checks are compared with.
Checking(q) == req[q].by \in Names /\ InFlight(q)
Holds(q) == Needed(req[q].kind) \in Allowed(req[q].by)
Notice ==
    /\ had' = {q \in Requests : Checking(q)' /\
                 (q \in had \/ Holds(q)')}
    /\ moved' = {q \in Requests : Checking(q)' /\
                   (q \in moved \/ (req[q].pc = "grants" /\ users' # users))}
    /\ raced' = raced
         \cup (IF \E p, q \in Requests : p # q /\ {req[p].kind, req[q].kind} = {"register"}
               THEN {"registration"} ELSE {})
         \cup (IF users' # users /\ \E q \in Requests :
                     Reads(q, "delete_role", "write") /\ InFlight(q)'
               THEN {"role"} ELSE {})

\* No request is being answered.
Rests == (\A q \in Requests : req[q].pc \in {"new", "done"}) /\ UNCHANGED vars

Next == (Step /\ Notice) \/ Rests

Spec == Init /\ [][Next]_vars

\* A websocket's handler runs on, and an agent that is connected sends its
\* heartbeats.
FairSpec ==
    /\ Spec
    /\ \A k \in Sockets :
          WF_vars(Serve(k) /\ UNCHANGED <<accountVars, req, invites, hosted, known, joined>> /\ Notice)
-----------------------------------------------------------------------------
(* Properties                                                              *)

\* Rows, registry, sockets and requests keep their types.
TypeOK ==
    /\ roles \in [RoleIds -> Role \cup {None}] /\ users \in [UserIds -> User \cup {None}]
    /\ nodes \in [NodeIds -> Node \cup {None}] /\ invites \in [InviteIds -> Invite \cup {None}]
    /\ hosted \subseteq NodeIds /\ known \subseteq Tokens
    /\ conns \in [NodeIds -> Sockets \cup {None}]
    /\ sock \in [Sockets -> SocketHandler]
    /\ \A k \in Sockets :
          sock[k].pc \notin {"none", "gone"} => sock[k].id # None /\ sock[k].token \in known
    /\ req \in [Requests -> Handler] /\ joined \in [InviteIds -> Nat]
    /\ had \cup moved \subseteq Requests

\* "Cannot delete a role that is assigned to users": an account loses its role
\* only by an assignment.  delete_role looks for holders and deletes later; an
\* account that gets the role in between is left without one, which is why
\* that overlap is excluded.
RoleKept ==
    [][ \A u \in UserIds :
          users[u] # None /\ users'[u] # None /\ users'[u].role = None
          => users[u].role = None \/ "role" \in raced ]_vars

\* Permissions are looked up live: a request that carries a session gets to its
\* endpoint only if its account's role granted the permission at some moment
\* since it arrived.  (One that carries an agent's token has no account.)
\* The account and the role are read one after the other: an account that
\* changes its role in between is checked against the one it no longer has.
AdmittedHadPermission ==
    \A q \in Requests :
        Checking(q) /\ req[q].pc \notin {"user", "grants"} => q \in had \cup moved

\* An invite lets one node in, unless two registrations overlap: both find it
\* unused before either has committed.
OneNodePerInvite == "registration" \notin raced => \A i \in InviteIds : joined[i] <= 1

\* The nodes stay within limits.max_nodes, with the same exception.
NodesWithinLimit == "registration" \notin raced => Cardinality(Present(nodes)) <= NodeLimit

\* A replica's node exists: delete_node's count and scale_app's look-up are
\* both stale when they write, and only the foreign key keeps them apart.
ReplicasHaveNode == hosted \subseteq Present(nodes)

\* A node that stays disabled comes to be shown offline and stays so, although
\* its agent's websocket is still open and a heartbeat, a reconnection or the
\* end of an older websocket may write the status after disable_node.
\* (A crash of the control plane is not modelled.  One that follows such a late
\* "online" would leave it: mark_stale_nodes_offline skips disabled nodes.)
DisabledGoesOffline ==
    \A n \in NodeIds :
        <>[](nodes[n] # None /\ ~nodes[n].enabled)
        => <>[](nodes[n] # None => ~nodes[n].online)

\* A node whose agent keeps its websocket and that stays enabled is shown
\* online again whenever an older websocket's end has marked it offline.
Serves(k, n) == sock[k].pc \in {"open", "beat"} /\ sock[k].id = n
ConnectedIsOnline ==
    \A n \in NodeIds, k \in Sockets :
        <>[](nodes[n] # None /\ nodes[n].enabled /\ nodes[n].token = sock[k].token /\ Serves(k, n))
        => []<>(nodes[n] # None /\ nodes[n].online)
=============================================================================
