--------------------------- MODULE EnrolmentProofs ---------------------------
(***************************************************************************)
(* What holds of the accounts, the permission check and the nodes for      *)
(* every number of requests, rows and websockets.                          *)
(***************************************************************************)
EXTENDS Enrolment, FiniteSetTheorems, TLAPS

-----------------------------------------------------------------------------
(* How a handler moves                                                     *)

LEMMA FreshTyped == Fresh \in Handler /\ Fresh.pc = "new" /\ Fresh.kind = None
BY DEF Fresh, Handler, Points

LEMMA DoneTyped == Done \in Handler /\ Done.pc = "done" /\ Done.kind = None
BY FreshTyped DEF Done, Handler, Points

LEMMA AsksTyped ==
    ASSUME NEW kind \in Kinds, NEW by \in Names \cup {Root}
    PROVE  /\ Asks(kind, by) \in Handler
           /\ Asks(kind, by).kind = kind /\ Asks(kind, by).by = by
BY FreshTyped DEF Asks, Handler

\* A request is on a row of its table.
Fits(h) ==
    /\ h \in Handler
    /\ h.kind \in {"create_user", "assign"} => h.to \in RoleIds
    /\ h.kind \in {"create_user", "rename"} => h.name \in Names
    /\ h.kind \in NodeKinds => h.on \in NodeIds
    /\ h.kind = "register" => h.on \in InviteIds /\ h.name \in Hostnames

RootKinds == {"delete_user", "create_role", "update_role", "delete_role"}

LEMMA ArgumentsFit ==
    ASSUME NEW h \in Handler, h.kind \in RootKinds,
           NEW i \in Ids, NEW g \in SUBSET Permissions
    PROVE  /\ Fits([h EXCEPT !.on = i]) /\ Fits([h EXCEPT !.grants = g])
           /\ Fits([h EXCEPT !.on = i, !.grants = g])
<1>1. ASSUME NEW o \in Handler, o.kind = h.kind
      PROVE  Fits(o)
  BY <1>1 DEF Fits, RootKinds, NodeKinds
<1>2. /\ [h EXCEPT !.on = i] \in Handler /\ [h EXCEPT !.on = i].kind = h.kind
      /\ [h EXCEPT !.grants = g] \in Handler /\ [h EXCEPT !.grants = g].kind = h.kind
  BY DEF Handler
<1>3. /\ [h EXCEPT !.on = i, !.grants = g] \in Handler
      /\ [h EXCEPT !.on = i, !.grants = g].kind = h.kind
  BY DEF Handler
<1> QED BY <1>1, <1>2, <1>3

LEMMA NodeFits ==
    ASSUME NEW h \in Handler
    PROVE  /\ h.kind \in NodeKinds =>
                 \A n \in NodeIds \cap Ids : Fits([h EXCEPT !.on = n])
           /\ h.kind = "register" =>
                 \A i \in InviteIds \cap Ids, n \in Hostnames : Fits([h EXCEPT !.on = i, !.name = n])
<1>1. ASSUME NEW n \in NodeIds \cap Ids, h.kind \in NodeKinds
      PROVE  Fits([h EXCEPT !.on = n])
  <2>1. /\ [h EXCEPT !.on = n] \in Handler /\ [h EXCEPT !.on = n].kind = h.kind
        /\ [h EXCEPT !.on = n].on = n
    BY DEF Handler
  <2> QED BY <1>1, <2>1 DEF Fits, NodeKinds
<1>2. ASSUME NEW i \in InviteIds \cap Ids, NEW n \in Hostnames, h.kind = "register"
      PROVE  Fits([h EXCEPT !.on = i, !.name = n])
  <2>1. /\ [h EXCEPT !.on = i, !.name = n] \in Handler
        /\ [h EXCEPT !.on = i, !.name = n].kind = h.kind
        /\ [h EXCEPT !.on = i, !.name = n].on = i /\ [h EXCEPT !.on = i, !.name = n].name = n
    BY DEF Handler
  <2> QED BY <1>2, <2>1 DEF Fits, NodeKinds
<1> QED BY <1>1, <1>2

LEMMA AccountFits ==
    ASSUME NEW h \in Handler, NEW i \in Ids, NEW n \in Names, NEW r \in RoleIds
    PROVE  /\ h.kind = "create_user" => Fits([h EXCEPT !.to = r, !.name = n])
           /\ h.kind = "assign" => Fits([h EXCEPT !.on = i, !.to = r])
           /\ h.kind = "rename" => Fits([h EXCEPT !.on = i, !.name = n])
<1>1. /\ [h EXCEPT !.to = r, !.name = n] \in Handler
      /\ [h EXCEPT !.to = r, !.name = n].kind = h.kind
      /\ [h EXCEPT !.to = r, !.name = n].to = r
      /\ [h EXCEPT !.to = r, !.name = n].name = n
  BY DEF Handler
<1>2. /\ [h EXCEPT !.on = i, !.to = r] \in Handler
      /\ [h EXCEPT !.on = i, !.to = r].kind = h.kind
      /\ [h EXCEPT !.on = i, !.to = r].to = r
  BY DEF Handler
<1>3. /\ [h EXCEPT !.on = i, !.name = n] \in Handler
      /\ [h EXCEPT !.on = i, !.name = n].kind = h.kind
      /\ [h EXCEPT !.on = i, !.name = n].name = n
  BY DEF Handler
<1> QED BY <1>1, <1>2, <1>3 DEF Fits, NodeKinds

\* h is the request o further on.
Later(o, h) ==
    /\ h \in Handler
    /\ h.kind = o.kind /\ h.by = o.by /\ h.on = o.on /\ h.to = o.to /\ h.name = o.name

LEMMA SomePoints == {"check", "check2", "check3", "user", "grants", "write"} \subseteq Points
BY DEF Points

LEMMA BeginsLater ==
    ASSUME NEW o \in Handler
    PROVE  Later(o, Begins(o)) /\ Begins(o).pc = IF o.by = Root THEN "check" ELSE "user"
<1> DEFINE pc == IF o.by = Root THEN "check" ELSE "user"
<1>1. pc \in Points
  BY SomePoints
<1>2. Begins(o) = [o EXCEPT !.again = (o.kind = "create_invite"), !.pc = pc]
  BY DEF Begins
<1> HIDE DEF pc
<1>3. Later(o, Begins(o)) /\ Begins(o).pc = pc
  BY <1>1, <1>2 DEF Later, Handler
<1> QED BY <1>3 DEF pc

LEMMA HasRoleLater ==
    ASSUME NEW o \in Handler, NEW r \in RoleIds \cup {None}
    PROVE  Later(o, HasRole(o, r)) /\ HasRole(o, r).role = r /\ HasRole(o, r).pc = "grants"
BY SomePoints DEF Later, HasRole, Handler

LEMMA PassesLater ==
    ASSUME NEW o \in Handler
    PROVE  Later(o, Passes(o)) /\ Passes(o).pc \in {"check", "user"}
<1> DEFINE pc == IF o.again THEN "user" ELSE "check"
<1>1. pc \in {"check", "user"}
  OBVIOUS
<1>2. pc \in Points
  BY <1>1, SomePoints
<1>3. Passes(o) = [o EXCEPT !.again = FALSE, !.pc = pc]
  BY DEF Passes
<1> HIDE DEF pc
<1> QED BY <1>1, <1>2, <1>3 DEF Later, Handler

LEMMA SawLater ==
    ASSUME NEW o \in Handler, NEW b \in BOOLEAN
    PROVE  Later(o, SawOnline(o, b)) /\ SawOnline(o, b).pc = "write"
BY SomePoints DEF Later, SawOnline, Handler

LEMMA PointLater ==
    ASSUME NEW o \in Handler, NEW pc \in Points
    PROVE  Later(o, [o EXCEPT !.pc = pc]) /\ [o EXCEPT !.pc = pc].pc = pc
BY DEF Later, Handler

\* What Ask makes of a request.
Asked(q) ==
    /\ req[q].pc = "new" /\ req' = [req EXCEPT ![q] = req'[q]]
    /\ Fits(req'[q])
    /\ req'[q].pc = IF req'[q].by = Root THEN "check" ELSE "user"

LEMMA AskMoves ==
    ASSUME req \in [Requests -> Handler], NEW q \in Requests, NEW op, Fits(op), Ask(q, op)
    PROVE  Asked(q)
<1>1. req'[q] = Begins(op) /\ req' = [req EXCEPT ![q] = req'[q]] /\ req[q].pc = "new"
  BY DEF Ask, Becomes
<1>2. op \in Handler
  BY DEF Fits
<1> QED BY <1>1, <1>2, BeginsLater DEF Asked, Fits, Later

LEMMA ArriveMoves ==
    ASSUME TypeOK, NEW q \in Requests, Arrive(q)
    PROVE  Asked(q)
<1>1. ASSUME NEW op, Fits(op), Ask(q, op)
      PROVE  Asked(q)
  BY <1>1, AskMoves DEF TypeOK
<1>2. ASSUME NEW kind \in Kinds, NEW by \in Names \cup {Root}
      PROVE  Asks(kind, by) \in Handler /\ Asks(kind, by).kind = kind
  BY AsksTyped
<1>3. /\ Present(users) \subseteq Ids /\ Present(roles) \subseteq Ids \cap RoleIds
      /\ Present(nodes) \subseteq NodeIds \cap Ids /\ Present(invites) \subseteq InviteIds \cap Ids
      /\ \A u \in Present(users) : users[u].name \in Names
      /\ Grantable \subseteq SUBSET Permissions /\ 1 \in Ids \cap RoleIds
  BY AccountAssumption, EnrolmentAssumption
  DEF TypeOK, Present, Ids, User, RoleIds, UserIds, NodeIds, InviteIds
<1>4. CASE AskNode(q)
  <2>1. ASSUME NEW by \in Names \cup {Root}, Ask(q, Asks("create_invite", by))
        PROVE  Asked(q)
    <3>1. Fits(Asks("create_invite", by))
      BY <1>2 DEF Fits, Kinds, NodeKinds
    <3> QED BY <1>1, <2>1, <3>1
  <2>2. ASSUME NEW by \in Names \cup {Root}, NEW n \in Present(nodes), NEW kind \in NodeKinds,
               Ask(q, [Asks(kind, by) EXCEPT !.on = n])
        PROVE  Asked(q)
    <3>1. kind \in Kinds
      BY DEF Kinds, NodeKinds
    <3>2. Fits([Asks(kind, by) EXCEPT !.on = n])
      BY <1>2, <1>3, <3>1, NodeFits
    <3> QED BY <1>1, <2>2, <3>2
  <2>3. ASSUME NEW i \in Present(invites), NEW h \in Hostnames,
               Ask(q, [Asks("register", Root) EXCEPT !.on = i, !.name = h])
        PROVE  Asked(q)
    <3>1. "register" \in Kinds
      BY DEF Kinds
    <3>2. Fits([Asks("register", Root) EXCEPT !.on = i, !.name = h])
      BY <1>2, <1>3, <3>1, NodeFits
    <3> QED BY <1>1, <2>3, <3>2
  <2> QED BY <1>3, <1>4, <2>1, <2>2, <2>3 DEF AskNode
<1>5. CASE AskAccount(q)
  <2> DEFINE By(kind) == Asks(kind, Root)
  <2>1. /\ \A kind \in RootKinds : By(kind) \in Handler /\ By(kind).kind \in RootKinds
        /\ \A kind \in {"create_user", "assign", "rename"} :
              By(kind) \in Handler /\ By(kind).kind = kind
    BY <1>2 DEF Kinds, RootKinds
  <2>2. PICK name : name \in Names
    BY EnrolmentAssumption
  <2>3. ASSUME NEW r \in Present(roles)
        PROVE  /\ \A n \in Names : Fits([By("create_user") EXCEPT !.to = r, !.name = n])
               /\ \A g \in Grantable : Fits([By("update_role") EXCEPT !.on = r, !.grants = g])
               /\ Fits([By("delete_role") EXCEPT !.on = r])
    <3> HIDE DEF By
    <3>1. \A n \in Names : Fits([By("create_user") EXCEPT !.to = r, !.name = n])
      BY <1>3, <2>1, AccountFits
    <3>2. \A g \in Grantable : Fits([By("update_role") EXCEPT !.on = r, !.grants = g])
      BY <1>3, <2>1, <2>2, ArgumentsFit DEF RootKinds
    <3>3. Fits([By("delete_role") EXCEPT !.on = r])
      BY <1>3, <2>1, <2>2, ArgumentsFit DEF RootKinds
    <3> QED BY <3>1, <3>2, <3>3
  <2>4. ASSUME NEW u \in Present(users)
        PROVE  /\ \A r \in Present(roles) : Fits([By("assign") EXCEPT !.on = u, !.to = r])
               /\ \A n \in Names : Fits([By("rename") EXCEPT !.on = u, !.name = n])
               /\ Fits([By("delete_user") EXCEPT !.on = u])
    <3> HIDE DEF By
    <3>1. \A r \in Present(roles) : Fits([By("assign") EXCEPT !.on = u, !.to = r])
      BY <1>3, <2>1, <2>2, AccountFits
    <3>2. \A n \in Names : Fits([By("rename") EXCEPT !.on = u, !.name = n])
      BY <1>2, <1>3, <2>1, AccountFits
    <3>3. Fits([By("delete_user") EXCEPT !.on = u])
      BY <1>3, <2>1, <2>2, ArgumentsFit DEF RootKinds
    <3> QED BY <3>1, <3>2, <3>3
  <2>5. \A g \in Grantable : Fits([By("create_role") EXCEPT !.grants = g])
    <3> HIDE DEF By
    <3> QED BY <1>3, <2>1, <2>2, ArgumentsFit DEF RootKinds
  <2> QED BY <1>1, <1>5, <2>3, <2>4, <2>5 DEF AskAccount
<1> QED BY <1>4, <1>5 DEF Arrive

\* Every request in flight is so.
Fitted == \A q \in Requests : InFlight(q) => Fits(req[q])

\* What an endpoint makes of its request: it answers it, or reads on.
Handled(q) ==
    /\ req[q].pc \in {"check", "check2", "check3", "write"}
    /\ req' = [req EXCEPT ![q] = req'[q]]
    /\ \/ req'[q] = Done
       \/ Later(req[q], req'[q]) /\ req'[q].pc \in {"check2", "check3", "write"}

LEMMA GoesOn ==
    ASSUME req \in [Requests -> Handler], NEW q \in Requests,
           req[q].pc \in {"check", "check2", "check3", "write"},
           \/ Refuse(q)
           \/ \E pc \in {"check2", "check3", "write"} : Goto(q, pc)
           \/ \E saw \in BOOLEAN : Becomes(q, SawOnline(req[q], saw))
    PROVE  Handled(q)
<1>1. CASE Refuse(q)
  BY <1>1 DEF Refuse, Becomes, Handled
<1>2. ASSUME NEW pc \in {"check2", "check3", "write"}, Goto(q, pc)
      PROVE  Handled(q)
  <2>1. /\ pc \in Points /\ req[q] \in Handler
        /\ req' = [req EXCEPT ![q] = [req[q] EXCEPT !.pc = pc]]
    BY <1>2 DEF Goto, Becomes, Points
  <2>2. Later(req[q], [req[q] EXCEPT !.pc = pc]) /\ [req[q] EXCEPT !.pc = pc].pc = pc
    BY <2>1, PointLater
  <2>3. req'[q] = [req[q] EXCEPT !.pc = pc]
    BY <2>1
  <2>4. Later(req[q], req'[q]) /\ req'[q].pc = pc
    BY <2>2, <2>3
  <2> QED BY <2>1, <2>3, <2>4 DEF Handled
<1>3. ASSUME NEW saw \in BOOLEAN, Becomes(q, SawOnline(req[q], saw))
      PROVE  Handled(q)
  BY <1>3, SawLater DEF Becomes, Handled
<1> QED BY <1>1, <1>2, <1>3

LEMMA HandleMoves ==
    ASSUME TypeOK, Fitted, NEW q \in Requests, HandleAccount(q) \/ HandleNode(q)
    PROVE  Handled(q)
<1> USE GoesOn DEF Reads, Unless, Check, Expires, TypeOK
<1>1. CASE CreateUser(q) BY <1>1 DEF CreateUser
<1>2. CASE AssignRole(q) BY <1>2 DEF AssignRole
<1>3. CASE RenameUser(q) BY <1>3 DEF RenameUser
<1>4. CASE DeleteUser(q) BY <1>4 DEF DeleteUser
<1>5. CASE CreateRole(q) BY <1>5 DEF CreateRole
<1>6. CASE UpdateRole(q) BY <1>6 DEF UpdateRole
<1>7. CASE DeleteRole(q) BY <1>7 DEF DeleteRole
<1>8. CASE CreateInvite(q) BY <1>8 DEF CreateInvite
<1>9. CASE Register(q) BY <1>9 DEF Register
<1>10. CASE EnableNode(q) BY <1>10 DEF EnableNode
<1>11. CASE DisableNode(q)
  <2>1. CASE Refuse(q) /\ req[q].pc = "check" BY <2>1
  <2>2. CASE req[q].pc = "check" /\ nodes[req[q].on] # None
             /\ Becomes(q, SawOnline(req[q], nodes[req[q].on].online))
    <3>1. InFlight(q)
      BY <2>2 DEF InFlight
    <3>2. nodes[req[q].on].online \in BOOLEAN
      BY <1>11, <2>2, <3>1 DEF DisableNode, Fitted, Fits, NodeKinds, Node
    <3> QED BY <2>2, <3>2
  <2>3. CASE Refuse(q) /\ req[q].pc = "write" BY <2>3
  <2> QED BY <1>11, <2>1, <2>2, <2>3 DEF DisableNode
<1>12. CASE DeleteNode(q) BY <1>12 DEF DeleteNode
<1>13. CASE ScaleOnNode(q) BY <1>13 DEF ScaleOnNode
<1> QED BY <1>1, <1>2, <1>3, <1>4, <1>5, <1>6, <1>7, <1>8, <1>9, <1>10, <1>11, <1>12, <1>13
    DEF HandleAccount, HandleNode

\* What the permission check makes of a request.
Admitted(q) ==
    /\ req[q].pc \in {"user", "grants"}
    /\ req' = [req EXCEPT ![q] = req'[q]]
    /\ \/ req'[q] = Done
       \/ /\ req[q].pc = "user"
          /\ \E u \in Named(req[q].by) : req'[q] = HasRole(req[q], users[u].role)
       \/ /\ req[q].pc = "grants" /\ Needed(req[q].kind) \in Grants(req[q].role)
          /\ req'[q] = Passes(req[q])

LEMMA AdmitMoves ==
    ASSUME req \in [Requests -> Handler], NEW q \in Requests, Admit(q)
    PROVE  Admitted(q)
<1>1. CASE ReadUser(q)
  BY <1>1 DEF ReadUser, Refuse, Becomes, Admitted
<1>2. CASE ReadGrants(q, Needed(req[q].kind))
  BY <1>2 DEF ReadGrants, Refuse, Becomes, Admitted
<1> QED BY <1>1, <1>2 DEF Admit

\* A step of one request leaves the others alone and makes it one again.
LEMMA RequestKept ==
    ASSUME TypeOK, Fitted, NEW q \in Requests, Asked(q) \/ Admitted(q) \/ Handled(q)
    PROVE  req' \in [Requests -> Handler] /\ Fitted'
<1>1. ASSUME req' = [req EXCEPT ![q] = req'[q]], req'[q] \in Handler,
             InFlight(q)' => Fits(req'[q])
      PROVE  req' \in [Requests -> Handler] /\ Fitted'
  <2>1. req' \in [Requests -> Handler] /\ \A o \in Requests \ {q} : req'[o] = req[o]
    BY <1>1 DEF TypeOK
  <2> QED BY <1>1, <2>1 DEF Fitted, InFlight, Fits
<1>2. req[q] \in Handler
  BY DEF TypeOK
<1>3. ASSUME req' = [req EXCEPT ![q] = req'[q]], Later(req[q], req'[q]), InFlight(q)
      PROVE  req' \in [Requests -> Handler] /\ Fitted'
  <2>1. Fits(req[q])
    BY <1>3 DEF Fitted
  <2>2. Fits(req'[q])
    BY <1>3, <2>1 DEF Fits, Later
  <2> QED BY <1>1, <1>3, <2>2 DEF Later
<1>4. CASE Asked(q)
  BY <1>1, <1>4 DEF Asked, Fits
<1>5. CASE req'[q] = Done /\ (Admitted(q) \/ Handled(q))
  BY <1>1, <1>5, DoneTyped DEF Admitted, Handled, InFlight
<1>6. CASE Admitted(q) /\ req'[q] # Done
  <2>1. InFlight(q) /\ req' = [req EXCEPT ![q] = req'[q]]
    BY <1>6 DEF Admitted, InFlight
  <2>2. Later(req[q], req'[q])
    <3>1. \A u \in Named(req[q].by) : users[u].role \in RoleIds \cup {None}
      BY DEF TypeOK, Named, Present, User
    <3>2. CASE \E u \in Named(req[q].by) : req'[q] = HasRole(req[q], users[u].role)
      BY <1>2, <3>1, <3>2, HasRoleLater
    <3>3. CASE req'[q] = Passes(req[q])
      BY <1>2, <3>3, PassesLater
    <3> QED BY <1>6, <3>2, <3>3 DEF Admitted
  <2> QED BY <1>3, <2>1, <2>2
<1>7. CASE Handled(q) /\ req'[q] # Done
  BY <1>3, <1>7 DEF Handled, InFlight
<1> QED BY <1>4, <1>5, <1>6, <1>7

-----------------------------------------------------------------------------
(* Rows keep their types                                                   *)

AccountsTyped == roles \in [RoleIds -> Role \cup {None}] /\ users \in [UserIds -> User \cup {None}]

LEMMA AccountRowsKept ==
    ASSUME TypeOK, Fitted, NEW q \in Requests, HandleAccount(q)
    PROVE  AccountsTyped'
<1> DEFINE r == req[q]
<1>1. /\ roles \in [RoleIds -> Role \cup {None}] /\ users \in [UserIds -> User \cup {None}]
      /\ r \in Handler /\ (r.pc \in {"check", "check2", "write"} => Fits(r))
      /\ None \notin Role \cup User
  BY AccountAssumption DEF TypeOK, Fitted, InFlight
<1>2. ASSUME UNCHANGED accountVars
      PROVE  AccountsTyped'
  BY <1>1, <1>2 DEF accountVars, AccountsTyped
<1> USE DEF Reads, Unless
<1>3. CASE CreateUser(q)
  <2>1. CASE UNCHANGED accountVars BY <1>2, <2>1
  <2>2. CASE Reads(q, "create_user", "write") /\ HasRoom(users) /\ UNCHANGED roles
             /\ users' = [users EXCEPT ![NextId(users)] = [name |-> r.name, role |-> r.to]]
    <3>1. [name |-> r.name, role |-> r.to] \in User
      BY <1>1, <2>2 DEF Fits, User
    <3> QED BY <1>1, <2>2, <3>1 DEF AccountsTyped
  <2> QED BY <1>3, <2>1, <2>2 DEF CreateUser, accountVars
<1>4. CASE AssignRole(q)
  <2>1. CASE UNCHANGED accountVars BY <1>2, <2>1
  <2>2. CASE Reads(q, "assign", "write") /\ users[r.on] # None /\ UNCHANGED roles
             /\ users' = [users EXCEPT ![r.on].role = r.to]
    <3>1. r.to \in RoleIds
      BY <1>1, <2>2 DEF Fits
    <3>2. \A u \in UserIds : users[u] # None => [users[u] EXCEPT !.role = r.to] \in User
      BY <1>1, <3>1 DEF User
    <3> QED BY <1>1, <2>2, <3>2 DEF AccountsTyped
  <2> QED BY <1>4, <2>1, <2>2 DEF AssignRole, accountVars
<1>5. CASE RenameUser(q)
  <2>1. CASE UNCHANGED accountVars BY <1>2, <2>1
  <2>2. CASE Reads(q, "rename", "write") /\ users[r.on] # None /\ UNCHANGED roles
             /\ users' = [users EXCEPT ![r.on].name = r.name]
    <3>1. r.name \in Names
      BY <1>1, <2>2 DEF Fits
    <3>2. \A u \in UserIds : users[u] # None => [users[u] EXCEPT !.name = r.name] \in User
      BY <1>1, <3>1 DEF User
    <3> QED BY <1>1, <2>2, <3>2 DEF AccountsTyped
  <2> QED BY <1>5, <2>1, <2>2 DEF RenameUser, accountVars
<1>6. CASE DeleteUser(q)
  BY <1>1, <1>2, <1>6 DEF DeleteUser, AccountsTyped
<1>7. CASE CreateRole(q)
  <2>1. [builtin |-> FALSE, grants |-> r.grants] \in Role
    BY <1>1 DEF Handler, Role
  <2> QED BY <1>1, <1>7, <2>1 DEF CreateRole, AccountsTyped
<1>8. CASE UpdateRole(q)
  <2>1. CASE UNCHANGED accountVars BY <1>2, <2>1
  <2>2. CASE roles[r.on] # None /\ UNCHANGED users
             /\ roles' = [roles EXCEPT ![r.on].grants = r.grants]
    <3>1. \A o \in RoleIds : roles[o] # None => [roles[o] EXCEPT !.grants = r.grants] \in Role
      BY <1>1 DEF Handler, Role
    <3> QED BY <1>1, <2>2, <3>1 DEF AccountsTyped
  <2> QED BY <1>8, <2>1, <2>2 DEF UpdateRole, accountVars
<1>9. CASE DeleteRole(q)
  <2>1. CASE UNCHANGED accountVars BY <1>2, <2>1
  <2>2. CASE /\ roles' = [roles EXCEPT ![r.on] = None]
             /\ users' = [u \in UserIds |-> IF u \in Holders(r.on) THEN [users[u] EXCEPT !.role = None]
                                            ELSE users[u]]
    <3>1. \A u \in Holders(r.on) : [users[u] EXCEPT !.role = None] \in User
      BY <1>1 DEF Holders, Present, User
    <3> QED BY <1>1, <2>2, <3>1 DEF AccountsTyped
  <2> QED BY <1>9, <2>1, <2>2 DEF DeleteRole
<1> QED BY <1>3, <1>4, <1>5, <1>6, <1>7, <1>8, <1>9 DEF HandleAccount

NodesTyped ==
    /\ nodes \in [NodeIds -> Node \cup {None}] /\ invites \in [InviteIds -> Invite \cup {None}]
    /\ hosted \subseteq NodeIds /\ known \subseteq Tokens
    /\ joined \in [InviteIds -> Nat]

LEMMA NodeRowsKept ==
    ASSUME TypeOK, Fitted, NEW q \in Requests, HandleNode(q)
    PROVE  NodesTyped' /\ known \subseteq known'
<1> DEFINE r == req[q]
<1>1. /\ NodesTyped /\ r \in Handler
      /\ r.pc \in {"check", "check2", "check3", "write"} => Fits(r)
      /\ None \notin Node \cup Invite
  BY EnrolmentAssumption DEF TypeOK, NodesTyped, Fitted, InFlight
<1>2. ASSUME UNCHANGED <<nodeVars, known, joined>>
      PROVE  NodesTyped' /\ known \subseteq known'
  BY <1>1, <1>2 DEF nodeVars, NodesTyped
<1>3. ASSUME NEW n, NEW e \in BOOLEAN, NEW o \in BOOLEAN, nodes[n] # None,
             nodes' = [nodes EXCEPT ![n].enabled = e, ![n].online = o]
      PROVE  nodes' \in [NodeIds -> Node \cup {None}]
  <2>1. \A m \in NodeIds : nodes[m] # None =>
            [nodes[m] EXCEPT !.enabled = e, !.online = o] \in Node
    BY <1>1 DEF NodesTyped, Node
  <2> QED BY <1>1, <1>3, <2>1 DEF NodesTyped
<1> USE DEF Reads, Check
<1>4. CASE CreateInvite(q)
  <2>1. [used |-> FALSE, expired |-> FALSE, node |-> None] \in Invite
    BY DEF Invite
  <2>2. invites' \in [InviteIds -> Invite \cup {None}] /\ joined' \in [InviteIds -> Nat]
    BY <1>1, <1>4, <2>1 DEF CreateInvite, NodesTyped
  <2> QED BY <1>1, <1>4, <2>2 DEF CreateInvite, NodesTyped
<1>5. CASE Register(q)
  <2> DEFINE i == r.on
  <2>1. CASE UNCHANGED <<nodeVars, known, joined>> BY <1>2, <2>1
  <2>2. CASE Expires(q, i)
    <3>1. invites[i] # None /\ invites' = [invites EXCEPT ![i].expired = TRUE]
      BY <2>2 DEF Expires
    <3>2. \A j \in InviteIds : invites[j] # None => [invites[j] EXCEPT !.expired = TRUE] \in Invite
      BY <1>1 DEF NodesTyped, Invite
    <3>3. invites' \in [InviteIds -> Invite \cup {None}]
      BY <1>1, <3>1, <3>2 DEF NodesTyped
    <3> QED BY <1>1, <2>2, <3>3 DEF Expires, NodesTyped
  <2>3. CASE /\ Reads(q, "register", "write") /\ UNCHANGED hosted
             /\ invites[i] # None /\ NextId(nodes) \in NodeIds
             /\ nodes' = [nodes EXCEPT ![NextId(nodes)] =
                             [name |-> r.name, token |-> q, enabled |-> TRUE, online |-> TRUE]]
             /\ invites' = [invites EXCEPT ![i].used = TRUE, ![i].node = NextId(nodes)]
             /\ joined' = [joined EXCEPT ![i] = @ + 1]
             /\ known' \in {known, known \cup {q}}
    <3>1. Fits(r) /\ r.kind = "register"
      BY <1>1, <2>3
    <3>2. q \in Tokens /\ r.name \in Hostnames
      BY <3>1, AccountAssumption DEF Tokens, Requests, Fits
    <3>3. [name |-> r.name, token |-> q, enabled |-> TRUE, online |-> TRUE] \in Node
      BY <3>2 DEF Node
    <3>4. \A j \in InviteIds : invites[j] # None =>
              [invites[j] EXCEPT !.used = TRUE, !.node = NextId(nodes)] \in Invite
      BY <1>1, <2>3 DEF NodesTyped, Invite
    <3>5. nodes' \in [NodeIds -> Node \cup {None}]
      BY <1>1, <2>3, <3>3 DEF NodesTyped
    <3>6. invites' \in [InviteIds -> Invite \cup {None}]
      BY <1>1, <2>3, <3>4 DEF NodesTyped
    <3>7. joined' \in [InviteIds -> Nat]
      <4>1. \A j \in InviteIds : joined[j] + 1 \in Nat
        BY <1>1 DEF NodesTyped
      <4> QED BY <1>1, <2>3, <4>1 DEF NodesTyped
    <3>8. known' \subseteq Tokens /\ known \subseteq known'
      BY <1>1, <2>3, <3>2 DEF NodesTyped
    <3> QED BY <1>1, <2>3, <3>5, <3>6, <3>7, <3>8 DEF NodesTyped
  <2> QED BY <1>5, <2>1, <2>2, <2>3 DEF Register, nodeVars
<1>6. CASE EnableNode(q)
  <2>1. CASE UNCHANGED <<nodeVars, known, joined>> BY <1>2, <2>1
  <2>2. CASE /\ nodes[r.on] # None /\ UNCHANGED <<invites, hosted, known, joined>>
             /\ nodes' = [nodes EXCEPT ![r.on].enabled = TRUE]
    <3>1. \A n \in NodeIds : nodes[n] # None => [nodes[n] EXCEPT !.enabled = TRUE] \in Node
      BY <1>1 DEF NodesTyped, Node
    <3> QED BY <1>1, <2>2, <3>1 DEF NodesTyped
  <2> QED BY <1>6, <2>1, <2>2 DEF EnableNode, nodeVars
<1>7. CASE DisableNode(q)
  <2>1. CASE UNCHANGED <<nodeVars, known, joined>> BY <1>2, <2>1
  <2>2. CASE /\ Reads(q, "disable", "write") /\ nodes[r.on] # None
             /\ UNCHANGED <<invites, hosted, known, joined>>
             /\ nodes' = [nodes EXCEPT ![r.on].enabled = FALSE, ![r.on].online = @ /\ ~r.saw]
    <3>1. r.on \in NodeIds
      BY <1>1, <2>2 DEF Fits, NodeKinds
    <3>2. PICK o \in BOOLEAN : o = (nodes[r.on].online /\ ~r.saw)
      OBVIOUS
    <3>3. nodes' = [nodes EXCEPT ![r.on].enabled = FALSE, ![r.on].online = o]
      BY <1>1, <2>2, <3>1, <3>2 DEF NodesTyped
    <3>4. nodes' \in [NodeIds -> Node \cup {None}]
      BY <1>3, <2>2, <3>3
    <3> QED BY <1>1, <2>2, <3>4 DEF NodesTyped
  <2> QED BY <1>7, <2>1, <2>2 DEF DisableNode, nodeVars
<1>8. CASE DeleteNode(q)
  <2>1. CASE UNCHANGED <<nodeVars, known, joined>> BY <1>2, <2>1
  <2>2. CASE /\ UNCHANGED <<hosted, known, joined>>
             /\ nodes' = [nodes EXCEPT ![r.on] = None]
             /\ invites' = [i \in InviteIds |->
                   IF invites[i] # None /\ invites[i].node = r.on THEN None ELSE invites[i]]
    BY <1>1, <2>2 DEF NodesTyped
  <2> QED BY <1>8, <2>1, <2>2 DEF DeleteNode, nodeVars
<1>9. CASE ScaleOnNode(q)
  <2>1. CASE UNCHANGED <<nodeVars, known, joined>> BY <1>2, <2>1
  <2>2. CASE /\ Reads(q, "scale", "write") /\ UNCHANGED <<nodes, invites, known, joined>>
             /\ hosted' = hosted \cup {r.on}
    <3>1. r.on \in NodeIds
      BY <1>1, <2>2 DEF Fits, NodeKinds
    <3> QED BY <1>1, <2>2, <3>1 DEF NodesTyped
  <2> QED BY <1>9, <2>1, <2>2 DEF ScaleOnNode, nodeVars
<1> QED BY <1>4, <1>5, <1>6, <1>7, <1>8, <1>9 DEF HandleNode

\* A handler that runs has authenticated as some node.
Authenticated(s) ==
    s \in SocketHandler /\ (s.pc \notin {"none", "gone"} => s.id # None /\ s.token \in known)
SocketsTyped ==
    conns \in [NodeIds -> Sockets \cup {None}] /\ sock \in [Sockets -> SocketHandler]
    /\ \A k \in Sockets : Authenticated(sock[k])

LEMMA GoneTyped == Gone \in SocketHandler /\ Gone.pc = "gone" /\ NoSocket \in SocketHandler
BY DEF Gone, NoSocket, SocketHandler

LEMMA SocketRowsKept ==
    ASSUME TypeOK, NEW k \in Sockets, StepOfSockets(k)
    PROVE  SocketsTyped' /\ nodes' \in [NodeIds -> Node \cup {None}]
<1> DEFINE s == sock[k]
<1>1. /\ SocketsTyped /\ nodes \in [NodeIds -> Node \cup {None}]
      /\ known' = known /\ s \in SocketHandler /\ Authenticated(s)
  BY DEF TypeOK, SocketsTyped, StepOfSockets, Authenticated
<1>2. ASSUME NEW h, Authenticated(h), Socket(k, h)
      PROVE  sock' \in [Sockets -> SocketHandler] /\ \A j \in Sockets : Authenticated(sock[j])'
  BY <1>1, <1>2 DEF Socket, SocketsTyped, Authenticated
<1>3. ASSUME NEW pc \in {"register", "enlist", "open", "beat", "ending", "mark"}, s.pc \notin {"none", "gone"}
      PROVE  Authenticated([s EXCEPT !.pc = pc])
  BY <1>1, <1>3 DEF SocketHandler, Authenticated
<1>4. Authenticated(Gone)
  BY GoneTyped DEF Authenticated
<1>5. ASSUME NEW next \in {"register", "open"}, s.pc \in {"auth", "beat"}, Online(k, next)
      PROVE  /\ sock' \in [Sockets -> SocketHandler] /\ \A j \in Sockets : Authenticated(sock[j])'
             /\ nodes' \in [NodeIds -> Node \cup {None}]
  <2>1. CASE nodes[s.id] = None
    BY <1>1, <1>2, <1>3, <1>4, <1>5, <2>1 DEF Online
  <2>2. CASE nodes[s.id] # None
    <3>1. PICK o \in BOOLEAN : o = (nodes[s.id].online \/ ~s.saw)
      OBVIOUS
    <3>2. nodes' = [nodes EXCEPT ![s.id].online = o] /\ Socket(k, [s EXCEPT !.pc = next])
      BY <1>1, <1>5, <2>2, <3>1 DEF Online
    <3>3. \A n \in NodeIds : nodes[n] # None => [nodes[n] EXCEPT !.online = o] \in Node
      BY <1>1 DEF Node
    <3>4. nodes' \in [NodeIds -> Node \cup {None}]
      BY <1>1, <2>2, <3>2, <3>3
    <3> QED BY <1>2, <1>3, <1>5, <3>2, <3>4
  <2> QED BY <2>1, <2>2
<1>6. CASE Hello(k)
  <2>1. PICK t \in known :
            \E n \in Valid(t) :
                Socket(k, [pc |-> "auth", token |-> t, id |-> n, saw |-> nodes[n].online])
    BY <1>6 DEF Hello
  <2> PICK n \in Valid(t) :
            Socket(k, [pc |-> "auth", token |-> t, id |-> n, saw |-> nodes[n].online])
    BY <2>1
  <2>2. n \in NodeIds /\ t \in Tokens /\ nodes[n].online \in BOOLEAN /\ n # None
    BY <1>1, EnrolmentAssumption, AccountAssumption DEF TypeOK, Valid, Present, Node, NodeIds
  <2>3. Authenticated([pc |-> "auth", token |-> t, id |-> n, saw |-> nodes[n].online])
    BY <2>1, <2>2 DEF Authenticated, SocketHandler
  <2> QED BY <1>1, <1>2, <1>6, <2>1, <2>3 DEF Hello, SocketsTyped
<1>7. CASE Authenticate(k)
  BY <1>1, <1>5, <1>7 DEF Authenticate, SocketsTyped
<1>8. CASE RegisterSocket(k)
  <2>1. conns' \in [NodeIds -> Sockets \cup {None}]
    BY <1>1, <1>8 DEF RegisterSocket, SocketsTyped
  <2> QED BY <1>1, <1>2, <1>3, <1>8, <2>1 DEF RegisterSocket, SocketsTyped
<1>14. CASE CloseOld(k)
  <2>1. Authenticated([s EXCEPT !.pc = "enlist"])
    BY <1>3, <1>14 DEF CloseOld
  <2>2. \A j \in Sockets : sock[j].pc = "open" => Authenticated([sock[j] EXCEPT !.pc = "ending"])
    BY <1>1 DEF SocketsTyped, Authenticated, SocketHandler
  <2>3. \A j \in Sockets : sock'[j] \in {[s EXCEPT !.pc = "enlist"], [sock[j] EXCEPT !.pc = "ending"], sock[j]}
                           /\ Authenticated(sock'[j])
    BY <1>1, <1>14, <2>1, <2>2 DEF CloseOld, SocketsTyped
  <2>4. sock' \in [Sockets -> SocketHandler]
    BY <1>14, <2>3 DEF CloseOld, Authenticated
  <2>5. \A j \in Sockets : Authenticated(sock[j])'
    BY <1>1, <2>3 DEF Authenticated
  <2> QED BY <1>1, <1>14, <2>4, <2>5 DEF CloseOld, SocketsTyped
<1>9. CASE Heartbeat(k)
  <2>1. CASE Socket(k, [s EXCEPT !.pc = "ending"])
    BY <1>1, <1>2, <1>3, <1>9, <2>1 DEF Heartbeat, SocketsTyped
  <2>2. ASSUME NEW n \in Valid(s.token), s.pc = "open",
               Socket(k, [s EXCEPT !.pc = "beat", !.saw = nodes[n].online])
        PROVE  sock' \in [Sockets -> SocketHandler] /\ \A j \in Sockets : Authenticated(sock[j])'
    <3>1. nodes[n].online \in BOOLEAN
      BY <1>1 DEF Valid, Present, Node
    <3>2. Authenticated([s EXCEPT !.pc = "beat", !.saw = nodes[n].online])
      BY <1>1, <2>2, <3>1 DEF SocketHandler, Authenticated
    <3> QED BY <1>2, <2>2, <3>2
  <2> QED BY <1>1, <1>9, <2>1, <2>2 DEF Heartbeat, SocketsTyped
<1>10. CASE HeartbeatDone(k)
  BY <1>1, <1>5, <1>10 DEF HeartbeatDone, SocketsTyped
<1>11. CASE Disconnect(k)
  BY <1>1, <1>2, <1>3, <1>11 DEF Disconnect, SocketsTyped
<1>12. CASE Ending(k)
  <2>1. conns' \in [NodeIds -> Sockets \cup {None}]
    BY <1>1, <1>12 DEF Ending, SocketsTyped
  <2> QED BY <1>1, <1>2, <1>3, <1>4, <1>12, <2>1 DEF Ending, SocketsTyped
<1>13. CASE MarkOffline(k)
  <2>1. \A n \in NodeIds : nodes[n] # None => [nodes[n] EXCEPT !.online = FALSE] \in Node
    BY <1>1 DEF Node
  <2>2. nodes' \in [NodeIds -> Node \cup {None}]
    BY <1>1, <1>13, <2>1 DEF MarkOffline
  <2> QED BY <1>1, <1>2, <1>4, <1>13, <2>2 DEF MarkOffline, SocketsTyped
<1> QED BY <1>6, <1>7, <1>8, <1>9, <1>10, <1>11, <1>12, <1>13, <1>14 DEF StepOfSockets, Serve

-----------------------------------------------------------------------------
(* Type correctness                                                        *)

LEMMA TypedParts ==
    ASSUME AccountsTyped, NodesTyped, SocketsTyped, req \in [Requests -> Handler],
           had \cup moved \subseteq Requests
    PROVE  TypeOK
BY DEF AccountsTyped, NodesTyped, SocketsTyped, Authenticated, TypeOK

LEMMA InitTyped == Init => TypeOK /\ Fitted
<1> SUFFICES ASSUME Init PROVE TypeOK /\ Fitted
  OBVIOUS
<1>1. AccountsTyped
  <2>1. \A r \in RoleIds : roles[r] \in Role \cup {None}
    BY DEF Init, Role
  <2>2. (CHOOSE n \in Names : TRUE) \in Names /\ {1, 2} \subseteq RoleIds
    BY EnrolmentAssumption
  <2>3. \A r \in {1, 2} : [name |-> CHOOSE n \in Names : TRUE, role |-> r] \in User
    BY <2>2 DEF User
  <2>4. \A u \in UserIds : users[u] \in User \cup {None}
    <3>1. PICK r \in {1, 2} :
              users = [u \in UserIds |-> IF u > 1 THEN None
                                        ELSE [name |-> CHOOSE n \in Names : TRUE, role |-> r]]
      BY DEF Init
    <3> QED BY <2>3, <3>1
  <2> QED BY <2>1, <2>4 DEF Init, AccountsTyped
<1>2. NodesTyped
  <2>1. (CHOOSE h \in Hostnames : TRUE) \in Hostnames /\ 0 \in Tokens
    BY EnrolmentAssumption, AccountAssumption DEF Tokens
  <2>2. [name |-> CHOOSE h \in Hostnames : TRUE, token |-> 0, enabled |-> TRUE, online |-> FALSE]
           \in Node
    BY <2>1 DEF Node
  <2>3. nodes \in [NodeIds -> Node \cup {None}]
    BY <2>2 DEF Init
  <2>4. /\ [used |-> TRUE, expired |-> FALSE, node |-> 1] \in Invite
        /\ [used |-> FALSE, expired |-> FALSE, node |-> None] \in Invite
    BY EnrolmentAssumption, AccountAssumption DEF Invite, NodeIds
  <2>5. invites \in [InviteIds -> Invite \cup {None}]
    BY <2>4 DEF Init
  <2> QED BY <2>1, <2>3, <2>5 DEF Init, NodesTyped
<1>3. SocketsTyped
  BY GoneTyped DEF Init, SocketsTyped, Authenticated, NoSocket
<1>4. req \in [Requests -> Handler] /\ Fitted
  BY FreshTyped DEF Init, Fitted, InFlight
<1>5. had \cup moved \subseteq Requests
  BY DEF Init
<1> QED BY <1>1, <1>2, <1>3, <1>4, <1>5, TypedParts

\* A step of a request moves that request and nothing else's.
Moves(q) == Asked(q) \/ Admitted(q) \/ Handled(q)

LEMMA StepMoves ==
    ASSUME TypeOK, Fitted, NEW q \in Requests, StepOfAccounts(q) \/ StepOfNodes(q)
    PROVE  Moves(q)
BY ArriveMoves, AdmitMoves, HandleMoves DEF StepOfAccounts, StepOfNodes, Moves, TypeOK

LEMMA TypeKept == TypeOK /\ Fitted /\ [Next]_vars => TypeOK' /\ Fitted'
<1> SUFFICES ASSUME TypeOK, Fitted, [Next]_vars
             PROVE  TypeOK' /\ Fitted'
  OBVIOUS
<1>1. AccountsTyped /\ NodesTyped /\ SocketsTyped /\ req \in [Requests -> Handler]
  BY DEF AccountsTyped, NodesTyped, SocketsTyped, Authenticated, TypeOK
<1>2. ASSUME Notice, AccountsTyped', NodesTyped', SocketsTyped', (req \in [Requests -> Handler])'
      PROVE  TypeOK'
  <2>1. (had \cup moved \subseteq Requests)'
    BY <1>2 DEF Notice
  <2> QED BY <1>2, <2>1 DEF AccountsTyped, NodesTyped, SocketsTyped, Authenticated, TypeOK
<1>3. ASSUME NEW q \in Requests, StepOfAccounts(q), Notice
      PROVE  TypeOK' /\ Fitted'
  <2>1. NodesTyped' /\ SocketsTyped'
    BY <1>1, <1>3 DEF StepOfAccounts, NodesTyped, SocketsTyped, Authenticated, nodeVars, socketVars
  <2>2. req' \in [Requests -> Handler] /\ Fitted'
    BY <1>3, StepMoves, RequestKept DEF Moves
  <2>3. AccountsTyped'
    <3>1. CASE HandleAccount(q) BY <3>1, AccountRowsKept
    <3>2. CASE Arrive(q) \/ Admit(q)
      BY <1>1, <3>2 DEF Arrive, Admit, ReadUser, ReadGrants, accountVars, AccountsTyped
    <3> QED BY <1>3, <3>1, <3>2 DEF StepOfAccounts
  <2> QED BY <1>2, <1>3, <2>1, <2>2, <2>3
<1>4. ASSUME NEW q \in Requests, StepOfNodes(q), Notice
      PROVE  TypeOK' /\ Fitted'
  <2>1. NodesTyped' /\ known \subseteq known'
    BY <1>4, NodeRowsKept DEF StepOfNodes
  <2>2. req' \in [Requests -> Handler] /\ Fitted'
    BY <1>4, StepMoves, RequestKept DEF Moves
  <2>3. AccountsTyped' /\ SocketsTyped'
    BY <1>1, <1>4, <2>1
    DEF StepOfNodes, AccountsTyped, SocketsTyped, Authenticated, accountVars, socketVars
  <2> QED BY <1>2, <1>4, <2>1, <2>2, <2>3
<1>5. ASSUME NEW k \in Sockets, StepOfSockets(k), Notice
      PROVE  TypeOK' /\ Fitted'
  <2>1. SocketsTyped' /\ NodesTyped'
    BY <1>1, <1>5, SocketRowsKept DEF StepOfSockets, NodesTyped
  <2>2. AccountsTyped' /\ (req \in [Requests -> Handler])' /\ Fitted'
    BY <1>1, <1>5 DEF StepOfSockets, AccountsTyped, accountVars, Fitted, InFlight
  <2> QED BY <1>2, <1>5, <2>1, <2>2
<1>6. ASSUME NEW n \in NodeIds, Stale(n), Notice
      PROVE  TypeOK' /\ Fitted'
  <2>1. \A m \in NodeIds : nodes[m] # None => [nodes[m] EXCEPT !.online = FALSE] \in Node
    BY <1>1 DEF NodesTyped, Node
  <2>2. nodes' \in [NodeIds -> Node \cup {None}]
    BY <1>1, <1>6, <2>1 DEF Stale, NodesTyped
  <2>3. /\ NodesTyped' /\ SocketsTyped' /\ AccountsTyped' /\ (req \in [Requests -> Handler])'
        /\ Fitted'
    BY <1>1, <1>6, <2>2 DEF Stale, NodesTyped, AccountsTyped, SocketsTyped, Authenticated,
       accountVars, socketVars, Fitted, InFlight
  <2> QED BY <1>2, <1>6, <2>3
<1>7. CASE UNCHANGED vars
  BY <1>7 DEF vars, TypeOK, Fitted, InFlight
<1> QED BY <1>3, <1>4, <1>5, <1>6, <1>7 DEF Next, Step, Rests

(***************************************************************************)
(* The rows of the database, the registry of websockets, the websockets    *)
(* and the requests keep their types; a running websocket belongs to a     *)
(* node and carries a token that an agent has received.                    *)
(***************************************************************************)
THEOREM EnrolmentTyped == Spec => []TypeOK
<1>1. TypeOK /\ Fitted /\ [Next]_vars => TypeOK' /\ Fitted'
  BY TypeKept
<1> QED BY InitTyped, <1>1, PTL DEF Spec

-----------------------------------------------------------------------------
(* The permission check                                                    *)

(***************************************************************************)
(* AdmittedHadPermission says nothing of a check that is under way.  What  *)
(* is known then is where the role came from: the handler that is about to *)
(* read a role's permissions has it from an account of that name, which    *)
(* still has the role unless some account has changed since.               *)
(***************************************************************************)
Admissible(q) ==
    Checking(q) /\ req[q].pc \notin {"user", "grants"} => q \in had \cup moved
TracedOne(q) ==
    Checking(q) /\ req[q].pc = "grants" =>
        q \in moved \/ \E u \in Named(req[q].by) : users[u].role = req[q].role
Traced == \A q \in Requests : TracedOne(q)

LEMMA BystanderTraced ==
    ASSUME NEW q \in Requests, Notice, req'[q] = req[q], Admissible(q), TracedOne(q)
    PROVE  Admissible(q)' /\ TracedOne(q)'
<1>1. Checking(q)' <=> Checking(q)
  BY DEF Checking, InFlight
<1>2. Checking(q) /\ q \in had => q \in had'
  BY <1>1 DEF Notice
<1>3. Checking(q) /\ q \in moved => q \in moved'
  BY <1>1 DEF Notice
<1>4. Checking(q) /\ req[q].pc = "grants" /\ users' # users => q \in moved'
  BY <1>1 DEF Notice
<1>5. Admissible(q)'
  BY <1>1, <1>2, <1>3 DEF Admissible
<1>6. TracedOne(q)'
  <2>1. CASE users' = users
    BY <1>1, <1>3, <2>1 DEF TracedOne, Named, Present
  <2>2. CASE users' # users
    BY <1>1, <1>4, <2>2 DEF TracedOne
  <2> QED BY <2>1, <2>2
<1> QED BY <1>5, <1>6

LEMMA CheckedTraced ==
    ASSUME TypeOK, NEW q \in Requests, Notice, Admitted(q), UNCHANGED accountVars, Admissible(q), TracedOne(q)
    PROVE  Admissible(q)' /\ TracedOne(q)'
<1> req[q] \in Handler
  BY DEF TypeOK
<1>1. CASE req'[q] = Done
  BY <1>1, DoneTyped DEF Admissible, TracedOne, Checking, InFlight
<1>2. ASSUME NEW u \in Named(req[q].by), req'[q] = HasRole(req[q], users[u].role),
             users[u].role \in RoleIds \cup {None}
      PROVE  Admissible(q)' /\ TracedOne(q)'
  <2>1. /\ req'[q].by = req[q].by /\ req'[q].role = users[u].role /\ req'[q].pc = "grants"
    BY <1>2, HasRoleLater DEF Later
  <2> QED BY <2>1 DEF Admissible, TracedOne, Named, Present, accountVars
<1>3. CASE /\ req[q].pc = "grants" /\ Needed(req[q].kind) \in Grants(req[q].role)
           /\ req'[q] = Passes(req[q])
  <2>1. /\ req'[q].by = req[q].by /\ req'[q].kind = req[q].kind
        /\ req'[q].pc \in {"check", "user"}
    BY <1>3, PassesLater DEF Later
  <2>2. CASE ~Checking(q)'
    BY <2>1, <2>2 DEF Admissible, TracedOne
  <2>3. CASE Checking(q)'
    <3>1. Checking(q)
      BY <1>3, <2>1, <2>3 DEF Checking, InFlight
    <3>2. CASE q \in moved
      BY <2>1, <2>3, <3>2 DEF Notice, Admissible, TracedOne
    <3>3. CASE \E u \in Named(req[q].by) : users[u].role = req[q].role
      <4>1. Needed(req[q].kind) \in Allowed(req[q].by)
        BY <1>3, <3>3 DEF Allowed
      <4>2. Holds(q)'
        BY <2>1, <4>1 DEF Holds, Allowed, Named, Present, Grants, accountVars
      <4>3. q \in had'
        BY <2>3, <4>2 DEF Notice
      <4> QED BY <2>1, <4>3 DEF Admissible, TracedOne
    <3> QED BY <1>3, <3>1, <3>2, <3>3 DEF TracedOne
  <2> QED BY <2>2, <2>3
<1> QED BY <1>1, <1>2, <1>3 DEF Admitted, TypeOK, Named, Present, User

LEMMA HandlerTraced ==
    ASSUME TypeOK, NEW q \in Requests, Notice, Handled(q), Admissible(q)
    PROVE  Admissible(q)' /\ TracedOne(q)'
<1>1. CASE req'[q] = Done
  BY <1>1, DoneTyped DEF Admissible, TracedOne, Checking, InFlight
<1>2. CASE Later(req[q], req'[q]) /\ req'[q].pc \in {"check2", "check3", "write"}
  <2>1. Checking(q)' => Checking(q) /\ req[q].pc \notin {"user", "grants"}
    BY <1>2 DEF Handled, Checking, InFlight, Later
  <2>2. Checking(q)' => q \in had' \cup moved'
    BY <2>1 DEF Admissible, Notice
  <2> QED BY <1>2, <2>2 DEF Admissible, TracedOne
<1> QED BY <1>1, <1>2 DEF Handled

LEMMA TracedKept ==
    ASSUME TypeOK, Fitted, Traced, AdmittedHadPermission, [Next]_vars
    PROVE  Traced' /\ AdmittedHadPermission'
<1> SUFFICES ASSUME NEW p \in Requests
             PROVE  Admissible(p)' /\ TracedOne(p)'
  BY DEF Traced, AdmittedHadPermission, Admissible
<1>1. Admissible(p) /\ TracedOne(p)
  BY DEF Traced, AdmittedHadPermission, Admissible
<1>2. CASE Notice /\ req'[p] = req[p]
  BY <1>1, <1>2, BystanderTraced
<1>3. ASSUME NEW q \in Requests, Notice, StepOfAccounts(q) \/ StepOfNodes(q), req'[p] # req[p]
      PROVE  Admissible(p)' /\ TracedOne(p)'
  <2>1. Moves(q)
    BY <1>3, StepMoves
  <2>2. p = q
    BY <1>3, <2>1 DEF Moves, Asked, Admitted, Handled, TypeOK
  <2>3. CASE Asked(q)
    BY <2>2, <2>3, AccountAssumption DEF Asked, Admissible, TracedOne, Checking
  <2>4. CASE Admitted(q)
    <3>1. UNCHANGED accountVars
      <4>1. CASE HandleAccount(q)
        BY <2>4, <4>1, HandleMoves DEF Handled, Admitted
      <4>2. CASE Arrive(q) \/ Admit(q) \/ StepOfNodes(q)
        BY <4>2 DEF Arrive, Admit, ReadUser, ReadGrants, StepOfNodes
      <4> QED BY <1>3, <4>1, <4>2 DEF StepOfAccounts
    <3> QED BY <1>1, <1>3, <2>2, <2>4, <3>1, CheckedTraced
  <2>5. CASE Handled(q)
    BY <1>1, <1>3, <2>2, <2>5, HandlerTraced
  <2> QED BY <2>1, <2>3, <2>4, <2>5 DEF Moves
<1>4. CASE UNCHANGED vars
  BY <1>1, <1>4 DEF vars, Admissible, TracedOne, Checking, InFlight, Named, Present
<1>5. ASSUME NEW k \in Sockets, StepOfSockets(k)
      PROVE  req'[p] = req[p]
  BY <1>5 DEF StepOfSockets
<1>6. ASSUME NEW n \in NodeIds, Stale(n)
      PROVE  req'[p] = req[p]
  BY <1>6 DEF Stale
<1> QED BY <1>2, <1>3, <1>4, <1>5, <1>6 DEF Next, Step, Rests

(***************************************************************************)
(* A request reaches its endpoint only if its account's role granted the   *)
(* permission at some moment since the request arrived, or an account      *)
(* changed between the two SELECTs of its check: however many requests     *)
(* change accounts and roles meanwhile.                                    *)
(***************************************************************************)
THEOREM AdmissionSound == Spec => []AdmittedHadPermission
<1>1. Init => Traced /\ AdmittedHadPermission
  BY FreshTyped DEF Init, Traced, TracedOne, AdmittedHadPermission, Checking, InFlight
<1>2. /\ TypeOK /\ Fitted /\ [Next]_vars => TypeOK' /\ Fitted'
      /\ TypeOK /\ Fitted /\ Traced /\ AdmittedHadPermission /\ [Next]_vars
            => Traced' /\ AdmittedHadPermission'
  BY TypeKept, TracedKept
<1> QED BY InitTyped, <1>1, <1>2, PTL DEF Spec

-----------------------------------------------------------------------------
(* Replicas and their nodes                                                *)

\* A write to a row leaves a row.
LEMMA RowStays ==
    ASSUME TypeOK, NEW n \in Present(nodes), NEW e \in BOOLEAN, NEW o \in BOOLEAN
    PROVE  /\ [nodes[n] EXCEPT !.enabled = e] # None /\ [nodes[n] EXCEPT !.online = o] # None
           /\ [nodes[n] EXCEPT !.enabled = e, !.online = o] # None
<1>1. nodes[n] \in Node /\ None \notin Node
  BY EnrolmentAssumption DEF TypeOK, Present
<1>2. /\ [nodes[n] EXCEPT !.enabled = e] \in Node /\ [nodes[n] EXCEPT !.online = o] \in Node
      /\ [nodes[n] EXCEPT !.enabled = e, !.online = o] \in Node
  BY <1>1 DEF Node
<1> QED BY <1>1, <1>2

LEMMA StatusWrite ==
    ASSUME TypeOK, NEW n, NEW o \in BOOLEAN, nodes[n] # None,
           nodes' = [nodes EXCEPT ![n].online = o]
    PROVE  Present(nodes)' = Present(nodes)
<1>1. \A m \in Present(nodes) : [nodes[m] EXCEPT !.online = o] # None
  BY RowStays
<1> QED BY <1>1 DEF TypeOK, Present

Stable == Present(nodes)' = Present(nodes) /\ hosted' = hosted

LEMMA SocketsKeepNodes ==
    ASSUME TypeOK, NEW k \in Sockets, StepOfSockets(k)
    PROVE  Stable
<1>1. ASSUME NEW next, Online(k, next)
      PROVE  Present(nodes)' = Present(nodes)
  <2>1. CASE UNCHANGED nodes BY <2>1 DEF Present
  <2>2. CASE /\ nodes[sock[k].id] # None
             /\ nodes' = [nodes EXCEPT ![sock[k].id].online = @ \/ ~sock[k].saw]
    <3>1. PICK o \in BOOLEAN : o = (nodes[sock[k].id].online \/ ~sock[k].saw)
      OBVIOUS
    <3>2. nodes' = [nodes EXCEPT ![sock[k].id].online = o]
      BY <2>2, <3>1 DEF TypeOK
    <3> QED BY <2>2, <3>2, StatusWrite
  <2> QED BY <1>1, <2>1, <2>2 DEF Online
<1>2. ASSUME MarkOffline(k)
      PROVE  Present(nodes)' = Present(nodes)
  <2>1. CASE UNCHANGED nodes BY <2>1 DEF Present
  <2>2. CASE nodes[sock[k].id] # None /\ nodes' = [nodes EXCEPT ![sock[k].id].online = FALSE]
    BY <2>2, StatusWrite
  <2> QED BY <1>2, <2>1, <2>2 DEF MarkOffline
<1>3. ASSUME UNCHANGED nodes
      PROVE  Present(nodes)' = Present(nodes)
  BY <1>3 DEF Present
<1> QED BY <1>1, <1>2, <1>3 DEF StepOfSockets, Stable, Hello, Serve, Authenticate, CloseOld, RegisterSocket,
       Heartbeat, HeartbeatDone, Disconnect, Ending

\* How the nodes and the replicas on them come and go.
Placed == Present(nodes)' = Present(nodes) /\ \E n \in Present(nodes) : hosted' = hosted \cup {n}
Dropped ==
    \E n \in NodeIds \ hosted : Present(nodes)' = Present(nodes) \ {n} /\ hosted' = hosted
Enters(q) ==
    /\ Reads(q, "register", "write") /\ Register(q)
    /\ Present(nodes)' = Present(nodes) \cup {NextId(nodes)} /\ hosted' = hosted

LEMMA RequestsMoveNodes ==
    ASSUME TypeOK, TypeOK', Fitted, NEW q \in Requests, HandleNode(q)
    PROVE  Stable \/ Placed \/ Dropped \/ Enters(q)
<1> DEFINE r == req[q]
<1>1. /\ nodes \in [NodeIds -> Node \cup {None}] /\ nodes' \in [NodeIds -> Node \cup {None}]
      /\ None \notin Node /\ (r.pc \in {"check", "write"} => Fits(r))
  BY EnrolmentAssumption DEF TypeOK, Fitted, InFlight
<1>2. CASE UNCHANGED <<nodes, hosted>> BY <1>2 DEF Stable, Present
<1>3. CASE CreateInvite(q) BY <1>2, <1>3 DEF CreateInvite
<1>4. CASE Register(q)
  <2>1. CASE /\ Reads(q, "register", "write") /\ UNCHANGED hosted
             /\ NextId(nodes) \in NodeIds
             /\ nodes' = [nodes EXCEPT ![NextId(nodes)] =
                             [name |-> r.name, token |-> q, enabled |-> TRUE, online |-> TRUE]]
    <3>1. nodes'[NextId(nodes)] = [name |-> r.name, token |-> q, enabled |-> TRUE, online |-> TRUE]
      BY <1>1, <2>1
    <3>2. nodes'[NextId(nodes)] # None
      <4>1. Fits(r) /\ r.kind = "register"
        BY <1>1, <2>1 DEF Reads
      <4>2. [name |-> r.name, token |-> q, enabled |-> TRUE, online |-> TRUE] \in Node
        BY <4>1, AccountAssumption DEF Fits, Node, Tokens, Requests
      <4> QED BY <1>1, <3>1, <4>2
    <3>3. Present(nodes)' = Present(nodes) \cup {NextId(nodes)}
      BY <1>1, <2>1, <3>2 DEF Present
    <3> QED BY <1>4, <2>1, <3>3 DEF Enters
  <2> QED BY <1>2, <1>4, <2>1 DEF Register, Check, Expires, nodeVars
<1>5. CASE EnableNode(q)
  <2>1. CASE /\ nodes[r.on] # None /\ UNCHANGED hosted
             /\ nodes' = [nodes EXCEPT ![r.on].enabled = TRUE]
    <3>1. \A m \in Present(nodes) : [nodes[m] EXCEPT !.enabled = TRUE] # None
      BY RowStays
    <3> QED BY <1>1, <2>1, <3>1 DEF Stable, Present
  <2> QED BY <1>2, <1>5, <2>1 DEF EnableNode, Check, nodeVars
<1>6. CASE DisableNode(q)
  <2>1. CASE /\ nodes[r.on] # None /\ UNCHANGED hosted
             /\ nodes' = [nodes EXCEPT ![r.on].enabled = FALSE, ![r.on].online = @ /\ ~r.saw]
    <3>1. PICK o \in BOOLEAN : o = (nodes[r.on].online /\ ~r.saw)
      OBVIOUS
    <3>2. nodes' = [nodes EXCEPT ![r.on].enabled = FALSE, ![r.on].online = o]
      BY <1>1, <2>1, <3>1
    <3>3. \A m \in Present(nodes) : [nodes[m] EXCEPT !.enabled = FALSE, !.online = o] # None
      BY RowStays
    <3>4. \A m \in NodeIds : nodes'[m] = IF m = r.on THEN [nodes[m] EXCEPT !.enabled = FALSE, !.online = o]
                                         ELSE nodes[m]
      BY <1>1, <3>2
    <3>5. \A m \in NodeIds : nodes'[m] # None <=> nodes[m] # None
      BY <1>1, <2>1, <3>3, <3>4 DEF Present
    <3> QED BY <1>1, <2>1, <3>5 DEF Stable, Present
  <2> QED BY <1>2, <1>6, <2>1 DEF DisableNode, nodeVars
<1>7. CASE DeleteNode(q)
  <2>1. CASE /\ Reads(q, "delete_node", "write") /\ ~Restricted(r.on) /\ UNCHANGED hosted
             /\ nodes' = [nodes EXCEPT ![r.on] = None]
    <3>1. r.on \in NodeIds \ hosted
      BY <1>1, <2>1 DEF Reads, Fits, NodeKinds, Restricted
    <3>2. Present(nodes)' = Present(nodes) \ {r.on}
      BY <1>1, <2>1, <3>1 DEF Present
    <3> QED BY <2>1, <3>1, <3>2 DEF Dropped
  <2> QED BY <1>2, <1>7, <2>1 DEF DeleteNode, Check, nodeVars
<1>8. CASE ScaleOnNode(q)
  <2>1. CASE /\ Reads(q, "scale", "write") /\ nodes[r.on] # None /\ UNCHANGED nodes
             /\ hosted' = hosted \cup {r.on}
    <3>1. r.on \in Present(nodes)
      BY <1>1, <2>1 DEF Reads, Fits, NodeKinds, Present
    <3> QED BY <2>1, <3>1 DEF Placed, Present
  <2> QED BY <1>2, <1>8, <2>1 DEF ScaleOnNode, Check, nodeVars
<1> QED BY <1>3, <1>4, <1>5, <1>6, <1>7, <1>8 DEF HandleNode

LEMMA NodesMove ==
    ASSUME TypeOK, TypeOK', Fitted, [Next]_vars
    PROVE  Stable \/ Placed \/ Dropped \/ \E q \in Requests : StepOfNodes(q) /\ Notice /\ Enters(q)
<1>1. CASE UNCHANGED <<nodes, hosted>> BY <1>1 DEF Stable, Present
<1>2. ASSUME NEW q \in Requests, StepOfNodes(q)
      PROVE  Stable \/ Placed \/ Dropped \/ Enters(q)
  BY <1>2, RequestsMoveNodes DEF StepOfNodes
<1>3. ASSUME NEW n \in NodeIds, Stale(n)
      PROVE  Stable
  <2>1. Present(nodes)' = Present(nodes)
    BY <1>3, StatusWrite DEF Stale
  <2> QED BY <1>3, <2>1 DEF Stale, Stable
<1> QED BY <1>1, <1>2, <1>3, SocketsKeepNodes
    DEF Next, Step, Rests, StepOfAccounts, nodeVars, vars

(***************************************************************************)
(* A row of a replica never refers to a node that is gone, although        *)
(* delete_node and scale_app both write from what they read before.        *)
(***************************************************************************)
THEOREM ReplicasKeepNode == Spec => []ReplicasHaveNode
<1>1. Init => ReplicasHaveNode
  BY DEF Init, ReplicasHaveNode
<1>2. TypeOK /\ TypeOK' /\ Fitted /\ ReplicasHaveNode /\ [Next]_vars => ReplicasHaveNode'
  <2> SUFFICES ASSUME TypeOK, TypeOK', Fitted, ReplicasHaveNode, [Next]_vars
               PROVE  ReplicasHaveNode'
    OBVIOUS
  <2> QED BY NodesMove DEF Stable, Placed, Dropped, Enters, ReplicasHaveNode
<1>3. TypeOK /\ Fitted /\ [Next]_vars => TypeOK' /\ Fitted'
  BY TypeKept
<1> QED BY InitTyped, <1>1, <1>2, <1>3, PTL DEF Spec

-----------------------------------------------------------------------------
(* Registrations that do not overlap                                       *)

Registering(q) == req[q].kind = "register" /\ req[q].pc \in {"check2", "check3", "write"}

\* The step before has not seen two registrations at once.
LEMMA AloneRegisters ==
    ASSUME Notice, "registration" \notin raced', NEW p \in Requests, NEW q \in Requests,
           req[p].kind = "register", req[q].kind = "register"
    PROVE  p = q /\ "registration" \notin raced
BY DEF Notice

\* How a registration gets further.
LEMMA RegisterAdvances ==
    ASSUME TypeOK, Fitted, [Next]_vars, NEW p \in Requests, Registering(p)'
    PROVE  \/ req'[p] = req[p]
           \/ /\ req'[p].on = req[p].on /\ req[p].kind = "register"
              /\ \/ req[p].pc = "check" /\ req'[p].pc = "check2" /\ ~Unusable(req[p].on)
                 \/ req[p].pc = "check2" /\ req'[p].pc = "check3"
                 \/ req[p].pc = "check3" /\ req'[p].pc = "write" /\ ~Full
<1>1. ASSUME NEW q \in Requests, StepOfAccounts(q) \/ StepOfNodes(q), req'[p] # req[p]
      PROVE  /\ req'[p].on = req[p].on /\ req[p].kind = "register"
             /\ \/ req[p].pc = "check" /\ req'[p].pc = "check2" /\ ~Unusable(req[p].on)
                \/ req[p].pc = "check2" /\ req'[p].pc = "check3"
                \/ req[p].pc = "check3" /\ req'[p].pc = "write" /\ ~Full
  <2>1. Moves(q)
    BY <1>1, StepMoves
  <2>2. p = q
    BY <1>1, <2>1 DEF Moves, Asked, Admitted, Handled, TypeOK
  <2>3. CASE Asked(q)
    BY <2>2, <2>3 DEF Asked, Registering
  <2>4. CASE Admitted(q)
    <3>1. \A u \in Named(req[q].by) : users[u].role \in RoleIds \cup {None}
      BY DEF TypeOK, Named, Present, User
    <3>2. req[q] \in Handler
      BY DEF TypeOK
    <3>3. req'[q].pc \in {"done", "grants", "check", "user"}
      BY <2>4, <3>1, <3>2, DoneTyped, HasRoleLater, PassesLater DEF Admitted
    <3> QED BY <2>2, <3>3 DEF Registering
  <2>5. CASE Handled(q)
    <3>1. Later(req[q], req'[q])
      BY <2>2, <2>5, DoneTyped DEF Handled, Registering
    <3>2. req[q].kind = "register" /\ req'[p].on = req[p].on
      BY <2>2, <3>1 DEF Registering, Later
    <3>3. Register(q)
      BY <1>1, <2>5, <3>2 DEF StepOfAccounts, StepOfNodes, HandleAccount, HandleNode, Reads, Check,
         CreateUser, AssignRole, RenameUser, DeleteUser, CreateRole, UpdateRole, DeleteRole,
         CreateInvite, EnableNode, DisableNode, DeleteNode, ScaleOnNode, Arrive, Admit, Handled,
         ReadUser, ReadGrants, AskNode, AskAccount, Ask
    <3>4. req'[q] # Done
      BY <2>2, DoneTyped DEF Registering
    <3>5. req[q] \in Handler /\ req'[q] \in Handler
      BY <3>1 DEF TypeOK, Later
    <3>6. \A pc \in Points : Goto(q, pc) => req'[q].pc = pc
      BY <3>5, PointLater DEF Goto, Becomes, TypeOK
    <3> QED BY <2>2, <3>2, <3>3, <3>4, <3>6, SomePoints
         DEF Register, Reads, Check, Expires, Refuse, Becomes, TypeOK
  <2> QED BY <2>1, <2>3, <2>4, <2>5 DEF Moves
<1>2. ASSUME NEW k \in Sockets, StepOfSockets(k)
      PROVE  req'[p] = req[p]
  BY <1>2 DEF StepOfSockets
<1>3. ASSUME NEW n \in NodeIds, Stale(n)
      PROVE  req'[p] = req[p]
  BY <1>3 DEF Stale
<1>4. CASE UNCHANGED vars BY <1>4 DEF vars
<1> QED BY <1>1, <1>2, <1>3, <1>4 DEF Next, Step, Rests

(***************************************************************************)
(* NodesWithinLimit is not inductive: the registration that is about to    *)
(* insert its row has found room, and nobody has taken it since.           *)
(***************************************************************************)
RoomFound ==
    "registration" \notin raced =>
        \A q \in Requests :
            req[q].kind = "register" /\ req[q].pc = "write" => Cardinality(Present(nodes)) < NodeLimit

LEMMA NodesFinite ==
    ASSUME NEW S \in SUBSET NodeIds
    PROVE  IsFiniteSet(S) /\ Cardinality(S) \in Nat
<1>1. MaxNodeId \in Int
  BY EnrolmentAssumption, AccountAssumption
<1>2. IsFiniteSet(NodeIds)
  BY <1>1, FS_Interval DEF NodeIds
<1>3. IsFiniteSet(S)
  BY <1>2, FS_Subset
<1> QED BY <1>3, FS_CardinalityType

LEMMA LimitKept ==
    ASSUME TypeOK, TypeOK', Fitted, RoomFound, NodesWithinLimit, [Next]_vars
    PROVE  RoomFound' /\ NodesWithinLimit'
<1> SUFFICES ASSUME "registration" \notin raced'
             PROVE  /\ \A p \in Requests : req'[p].kind = "register" /\ req'[p].pc = "write"
                                          => Cardinality(Present(nodes)') < NodeLimit
                    /\ Cardinality(Present(nodes)') <= NodeLimit
  BY DEF RoomFound, NodesWithinLimit
<1> DEFINE c == Cardinality(Present(nodes))
           d == Cardinality(Present(nodes)')
<1>1. "registration" \notin raced /\ NodeLimit \in Nat /\ c \in Nat /\ d \in Nat
  <2>1. Present(nodes) \subseteq NodeIds /\ Present(nodes)' \subseteq NodeIds
    BY DEF TypeOK, Present
  <2>2. c \in Nat /\ d \in Nat
    BY <2>1, NodesFinite
  <2> QED BY <2>2, EnrolmentAssumption DEF Next, Notice, Rests, vars
<1> IsFiniteSet(Present(nodes))
  BY NodesFinite DEF TypeOK, Present
<1>2. c <= NodeLimit
  BY <1>1 DEF NodesWithinLimit
<1>3. ASSUME NEW p \in Requests, req'[p].kind = "register", req'[p].pc = "write"
      PROVE  c < NodeLimit
  <2>1. CASE req'[p] = req[p]
    BY <1>1, <1>3, <2>1 DEF RoomFound
  <2>2. CASE ~Full
    BY <1>1, <2>2 DEF Full
  <2> QED BY <1>3, <2>1, <2>2, RegisterAdvances DEF Registering
<1>4. CASE Stable \/ Placed \/ Dropped
  <2>1. d <= c
    BY <1>4, FS_Subset DEF Stable, Placed, Dropped
  <2> QED BY <1>1, <1>2, <1>3, <2>1
<1>5. ASSUME NEW q \in Requests, StepOfNodes(q), Notice, Enters(q)
      PROVE  d <= NodeLimit /\ \A p \in Requests : ~(req'[p].kind = "register" /\ req'[p].pc = "write")
  <2>1. d <= c + 1
    <3>1. PICK n : Present(nodes)' = Present(nodes) \cup {n}
      BY <1>5 DEF Enters
    <3>2. Cardinality(Present(nodes) \cup {n}) \in {c, c + 1}
      BY FS_AddElement
    <3> QED BY <1>1, <3>1, <3>2
  <2>2. c < NodeLimit
    BY <1>1, <1>5 DEF RoomFound, Enters, Reads
  <2>3. req'[q] = Done
    BY <1>5, HandleMoves, SomePoints DEF Enters, Register, Reads, Check, Expires, Refuse, Becomes, TypeOK
  <2>4. ASSUME NEW p \in Requests, req'[p].kind = "register"
        PROVE  FALSE
    <3>1. p # q
      BY <2>3, <2>4, DoneTyped, AccountAssumption DEF Kinds
    <3>2. req'[p] = req[p]
      BY <1>5, <3>1, StepMoves DEF Moves, Asked, Admitted, Handled, TypeOK
    <3> QED BY <1>5, <2>4, <3>1, <3>2, AloneRegisters DEF Enters, Reads
  <2> QED BY <1>1, <2>1, <2>2, <2>4
<1> QED BY <1>1, <1>2, <1>3, <1>4, <1>5, NodesMove

(***************************************************************************)
(* As long as registrations do not overlap, the nodes stay within          *)
(* limits.max_nodes.                                                       *)
(***************************************************************************)
THEOREM LimitHolds == Spec => []NodesWithinLimit
<1>1. Init => RoomFound /\ NodesWithinLimit
  <2> SUFFICES ASSUME Init PROVE RoomFound /\ NodesWithinLimit
    OBVIOUS
  <2>1. Present(nodes) \subseteq {1} /\ (NodeLimit = 0 => Present(nodes) = {}) /\ NodeLimit \in Nat
    <3>1. PICK first \in BOOLEAN :
              /\ first => NodeLimit > 0
              /\ \A n \in NodeIds : n > 1 \/ ~first => nodes[n] = None
              /\ DOMAIN nodes = NodeIds
      BY DEF Init
    <3> QED BY <3>1, EnrolmentAssumption DEF Present, NodeIds
  <2>2. Cardinality(Present(nodes)) <= NodeLimit
    <3>1. CASE Present(nodes) = {}
      BY <2>1, <3>1, FS_EmptySet
    <3>2. CASE Present(nodes) # {}
      <4>1. Present(nodes) = {1} /\ NodeLimit >= 1
        BY <2>1, <3>2
      <4>2. Cardinality({1}) = 1
        BY FS_Singleton
      <4> QED BY <4>1, <4>2
    <3> QED BY <3>1, <3>2
  <2> QED BY <2>2, FreshTyped DEF Init, RoomFound, NodesWithinLimit
<1>2. TypeOK /\ TypeOK' /\ Fitted /\ RoomFound /\ NodesWithinLimit /\ [Next]_vars
         => RoomFound' /\ NodesWithinLimit'
  BY LimitKept
<1>3. TypeOK /\ Fitted /\ [Next]_vars => TypeOK' /\ Fitted'
  BY TypeKept
<1> QED BY InitTyped, <1>1, <1>2, <1>3, PTL DEF Spec

(***************************************************************************)
(* OneNodePerInvite is not inductive either: an invite that a registration *)
(* has found unused has let nobody in, nor has any that is still unused.   *)
(***************************************************************************)
Unspent ==
    "registration" \notin raced =>
        /\ \A i \in InviteIds :
              \/ joined[i] = 0
              \/ joined[i] = 1 /\ (invites[i] = None \/ invites[i].used)
        /\ \A q \in Requests : Registering(q) => joined[req[q].on] = 0

\* Which invites change, and how.
InvitesKept(i) ==
    joined'[i] = joined[i] /\ (invites'[i] = None \/ (invites[i] # None /\ invites'[i].used = invites[i].used))

LEMMA InvitesMove ==
    ASSUME TypeOK, Fitted, [Next]_vars, NEW i \in InviteIds
    PROVE  \/ InvitesKept(i)
           \/ joined'[i] = 0
           \/ \E q \in Requests :
                 /\ StepOfNodes(q) /\ Notice /\ Reads(q, "register", "write") /\ req[q].on = i
                 /\ req'[q] = Done /\ joined'[i] = joined[i] + 1 /\ invites'[i].used
<1>1. invites \in [InviteIds -> Invite \cup {None}] /\ joined \in [InviteIds -> Nat]
  BY DEF TypeOK
<1>2. ASSUME UNCHANGED <<invites, joined>>
      PROVE  InvitesKept(i)
  BY <1>2 DEF InvitesKept
<1>3. ASSUME NEW q \in Requests, StepOfNodes(q), Notice
      PROVE  \/ InvitesKept(i)
             \/ joined'[i] = 0
             \/ /\ Reads(q, "register", "write") /\ req[q].on = i
                /\ req'[q] = Done /\ joined'[i] = joined[i] + 1 /\ invites'[i].used
  <2>1. CASE CreateInvite(q)
    BY <1>1, <2>1 DEF CreateInvite, InvitesKept
  <2>2. CASE Register(q)
    <3>1. CASE Expires(q, req[q].on)
      BY <1>1, <3>1 DEF Expires, InvitesKept, Invite
    <3>2. CASE /\ Reads(q, "register", "write") /\ Refuse(q)
               /\ invites' = [invites EXCEPT ![req[q].on].used = TRUE,
                                             ![req[q].on].node = NextId(nodes)]
               /\ joined' = [joined EXCEPT ![req[q].on] = @ + 1]
               /\ invites[req[q].on] # None
      <4>1. \A j \in InviteIds \ {req[q].on} : invites'[j] = invites[j] /\ joined'[j] = joined[j]
        BY <1>1, <3>2
      <4>2. CASE i # req[q].on
        BY <4>1, <4>2 DEF InvitesKept
      <4>3. CASE i = req[q].on
        <5>1. invites'[i] = [invites[i] EXCEPT !.used = TRUE, !.node = NextId(nodes)]
          BY <1>1, <3>2, <4>3
        <5>2. invites[i] \in Invite
          BY <1>1, <3>2, <4>3
        <5>3. invites'[i].used
          BY <5>1, <5>2 DEF Invite
        <5>4. req'[q] = Done /\ joined'[i] = joined[i] + 1
          BY <1>1, <3>2, <4>3 DEF Refuse, Becomes, TypeOK
        <5> QED BY <3>2, <4>3, <5>3, <5>4
      <4> QED BY <4>2, <4>3
    <3> QED BY <1>2, <2>2, <3>1, <3>2 DEF Register, Check, nodeVars
  <2>3. CASE DeleteNode(q)
    <3>1. CASE /\ joined' = joined
               /\ invites' = [j \in InviteIds |->
                     IF invites[j] # None /\ invites[j].node = req[q].on THEN None ELSE invites[j]]
      BY <1>1, <3>1 DEF InvitesKept
    <3> QED BY <1>2, <2>3, <3>1 DEF DeleteNode, Check, nodeVars
  <2>4. CASE EnableNode(q) \/ DisableNode(q) \/ ScaleOnNode(q)
    BY <1>2, <2>4 DEF EnableNode, DisableNode, ScaleOnNode, Check, nodeVars
  <2> QED BY <1>3, <2>1, <2>2, <2>3, <2>4 DEF StepOfNodes, HandleNode
<1> QED BY <1>2, <1>3 DEF Next, Step, Rests, StepOfAccounts, StepOfSockets, Stale, nodeVars, vars

LEMMA UnspentKept ==
    ASSUME TypeOK, TypeOK', Fitted, Unspent, [Next]_vars
    PROVE  Unspent'
<1> SUFFICES ASSUME "registration" \notin raced'
             PROVE  /\ \A i \in InviteIds :
                          \/ joined'[i] = 0
                          \/ joined'[i] = 1 /\ (invites'[i] = None \/ invites'[i].used)
                    /\ \A q \in Requests : Registering(q)' => joined'[req'[q].on] = 0
  BY DEF Unspent
<1>1. "registration" \notin raced
  BY DEF Next, Notice, Rests, vars
<1>2. /\ \A i \in InviteIds :
            \/ joined[i] = 0
            \/ joined[i] = 1 /\ (invites[i] = None \/ invites[i].used)
      /\ \A q \in Requests : Registering(q) => joined[req[q].on] = 0
  BY <1>1 DEF Unspent
<1>3. ASSUME NEW i \in InviteIds
      PROVE  joined'[i] = 0 \/ (joined'[i] = 1 /\ (invites'[i] = None \/ invites'[i].used))
  <2>1. CASE InvitesKept(i)
    BY <1>2, <2>1 DEF InvitesKept
  <2>2. ASSUME NEW q \in Requests, Reads(q, "register", "write"), req[q].on = i,
               joined'[i] = joined[i] + 1, invites'[i].used
        PROVE  joined'[i] = 1 /\ invites'[i].used
    BY <1>2, <2>2 DEF Reads, Registering
  <2> QED BY <2>1, <2>2, InvitesMove
<1>4. ASSUME NEW p \in Requests, Registering(p)'
      PROVE  joined'[req'[p].on] = 0
  <2>1. req[p].kind = "register" /\ req'[p].on = req[p].on /\ req[p].on \in InviteIds
    <3>1. req[p].kind = "register" /\ req'[p].on = req[p].on /\ InFlight(p)
      BY <1>4, RegisterAdvances DEF Registering, InFlight
    <3> QED BY <3>1 DEF Fitted, Fits
  <2>2. joined[req[p].on] = 0
    <3>1. CASE Registering(p) BY <1>2, <3>1
    <3>2. CASE ~Unusable(req[p].on) BY <1>2, <2>1, <3>2 DEF Unusable
    <3> QED BY <1>4, <3>1, <3>2, RegisterAdvances DEF Registering
  <2>3. ASSUME NEW q \in Requests, Notice, Reads(q, "register", "write"), req'[q] = Done
        PROVE  FALSE
    <3>1. p = q
      BY <2>1, <2>3, AloneRegisters DEF Reads
    <3> QED BY <1>4, <2>3, <3>1, DoneTyped DEF Registering
  <2>4. joined'[req[p].on] = joined[req[p].on] \/ joined'[req[p].on] = 0
    BY <2>1, <2>3, InvitesMove DEF InvitesKept
  <2> QED BY <2>1, <2>2, <2>4
<1> QED BY <1>3, <1>4

(***************************************************************************)
(* As long as registrations do not overlap, an invite lets one node in.    *)
(***************************************************************************)
THEOREM InvitesHold == Spec => []OneNodePerInvite
<1>1. Init => Unspent
  BY FreshTyped DEF Init, Unspent, Registering
<1>2. TypeOK /\ TypeOK' /\ Fitted /\ Unspent /\ [Next]_vars => Unspent'
  BY UnspentKept
<1>3. TypeOK /\ Fitted /\ [Next]_vars => TypeOK' /\ Fitted'
  BY TypeKept
<1>4. Unspent => OneNodePerInvite
  BY DEF Unspent, OneNodePerInvite
<1> QED BY InitTyped, <1>1, <1>2, <1>3, <1>4, PTL DEF Spec

-----------------------------------------------------------------------------
(* Roles that are deleted                                                  *)

(***************************************************************************)
(* A request that is about to delete a role has found that nobody holds    *)
(* it, and no account has changed since.                                   *)
(***************************************************************************)
Deleting(q) == Reads(q, "delete_role", "write")
Unheld == "role" \notin raced => \A q \in Requests : Deleting(q) => Holders(req[q].on) = {}

LEMMA DeletionAdvances ==
    ASSUME TypeOK, Fitted, [Next]_vars, NEW p \in Requests, Deleting(p)'
    PROVE  \/ req'[p] = req[p]
           \/ req'[p].on = req[p].on /\ UNCHANGED users /\ Holders(req[p].on) = {}
<1>1. ASSUME NEW q \in Requests, StepOfAccounts(q) \/ StepOfNodes(q), req'[p] # req[p]
      PROVE  req'[p].on = req[p].on /\ UNCHANGED users /\ Holders(req[p].on) = {}
  <2>1. Moves(q)
    BY <1>1, StepMoves
  <2>2. p = q
    BY <1>1, <2>1 DEF Moves, Asked, Admitted, Handled, TypeOK
  <2>3. CASE Asked(q)
    BY <2>2, <2>3 DEF Asked, Deleting, Reads
  <2>4. CASE Admitted(q)
    <3>1. \A u \in Named(req[q].by) : users[u].role \in RoleIds \cup {None}
      BY DEF TypeOK, Named, Present, User
    <3>2. req[q] \in Handler
      BY DEF TypeOK
    <3>3. req'[q].pc \in {"done", "grants", "check", "user"}
      BY <2>4, <3>1, <3>2, DoneTyped, HasRoleLater, PassesLater DEF Admitted
    <3> QED BY <2>2, <3>3 DEF Deleting, Reads
  <2>5. CASE Handled(q)
    <3>1. Later(req[q], req'[q])
      BY <2>2, <2>5, DoneTyped DEF Handled, Deleting, Reads
    <3>2. req[q].kind = "delete_role" /\ req'[p].on = req[p].on
      BY <2>2, <3>1 DEF Deleting, Reads, Later
    <3>3. DeleteRole(q)
      BY <1>1, <2>5, <3>2 DEF StepOfAccounts, StepOfNodes, HandleAccount, HandleNode, Reads, Check,
         CreateUser, AssignRole, RenameUser, DeleteUser, CreateRole, UpdateRole, Register,
         CreateInvite, EnableNode, DisableNode, DeleteNode, ScaleOnNode, Arrive, Admit, Handled,
         ReadUser, ReadGrants, AskNode, AskAccount, Ask
    <3>4. req'[q] # Done
      BY <2>2, DoneTyped DEF Deleting, Reads
    <3>5. req[q] \in Handler
      BY DEF TypeOK
    <3>6. \A pc \in Points : Goto(q, pc) => req'[q].pc = pc
      BY <3>5, PointLater DEF Goto, Becomes, TypeOK
    <3> QED BY <2>2, <3>2, <3>3, <3>4, <3>6, SomePoints
         DEF DeleteRole, Deleting, Reads, Unless, Refuse, Becomes, TypeOK, accountVars
  <2> QED BY <2>1, <2>3, <2>4, <2>5 DEF Moves
<1>2. ASSUME NEW k \in Sockets, StepOfSockets(k)
      PROVE  req'[p] = req[p]
  BY <1>2 DEF StepOfSockets
<1>3. ASSUME NEW n \in NodeIds, Stale(n)
      PROVE  req'[p] = req[p]
  BY <1>3 DEF Stale
<1>4. CASE UNCHANGED vars BY <1>4 DEF vars
<1> QED BY <1>1, <1>2, <1>3, <1>4 DEF Next, Step, Rests

LEMMA UnheldKept ==
    ASSUME TypeOK, Fitted, Unheld, [Next]_vars
    PROVE  Unheld'
<1> SUFFICES ASSUME "role" \notin raced', NEW p \in Requests, Deleting(p)'
             PROVE  Holders(req[p].on)' = {}
  BY DEF Unheld
<1>1. "role" \notin raced
  BY DEF Next, Notice, Rests, vars
<1>2. CASE req'[p] = req[p]
  <2>1. Deleting(p) /\ Holders(req[p].on) = {}
    BY <1>1, <1>2 DEF Unheld, Deleting, Reads
  <2>2. InFlight(p)'
    BY DEF Deleting, Reads, InFlight
  <2>3. users' = users
    BY <2>1, <2>2 DEF Next, Notice, Rests, vars, Deleting
  <2> QED BY <1>2, <2>1, <2>3 DEF Holders, Present
<1>3. CASE req'[p].on = req[p].on /\ UNCHANGED users /\ Holders(req[p].on) = {}
  BY <1>3 DEF Holders, Present
<1> QED BY <1>2, <1>3, DeletionAdvances

LEMMA RolesLost ==
    ASSUME TypeOK, Fitted, [Next]_vars, NEW u \in UserIds,
           users[u] # None, users'[u] # None, users'[u].role = None, users[u].role # None
    PROVE  \E q \in Requests : Deleting(q) /\ u \in Holders(req[q].on)
<1>1. users \in [UserIds -> User \cup {None}] /\ users[u] \in User /\ users'[u] # users[u]
  BY DEF TypeOK
<1>2. PICK q \in Requests : HandleAccount(q)
  BY <1>1 DEF Next, Step, Rests, StepOfAccounts, StepOfNodes, StepOfSockets, Stale, Arrive, Admit,
     ReadUser, ReadGrants, accountVars, vars
<1>3. req[q] \in Handler /\ (req[q].pc = "write" => Fits(req[q])) /\ None \notin RoleIds
  <2>1. None \notin Int /\ RoleIds \subseteq Int
    BY AccountAssumption DEF RoleIds
  <2> QED BY <2>1 DEF TypeOK, Fitted, InFlight
<1>4. CASE CreateUser(q)
  <2>1. /\ Reads(q, "create_user", "write")
        /\ users' = [users EXCEPT ![NextId(users)] = [name |-> req[q].name, role |-> req[q].to]]
    BY <1>1, <1>4 DEF CreateUser, Unless, accountVars
  <2>2. req[q].to \in RoleIds
    BY <1>3, <2>1 DEF Reads, Fits
  <2> QED BY <1>1, <1>3, <2>1, <2>2
<1>5. CASE AssignRole(q)
  <2>1. Reads(q, "assign", "write") /\ users' = [users EXCEPT ![req[q].on].role = req[q].to]
    BY <1>1, <1>5 DEF AssignRole, Unless, accountVars
  <2>2. req[q].to \in RoleIds
    BY <1>3, <2>1 DEF Reads, Fits
  <2> QED BY <1>1, <1>3, <2>1, <2>2 DEF User
<1>6. CASE RenameUser(q)
  <2>1. users' = [users EXCEPT ![req[q].on].name = req[q].name]
    BY <1>1, <1>6 DEF RenameUser, Unless, accountVars
  <2> QED BY <1>1, <2>1 DEF User
<1>7. CASE DeleteUser(q)
  BY <1>1, <1>7 DEF DeleteUser, Unless, accountVars
<1>8. CASE CreateRole(q) \/ UpdateRole(q)
  BY <1>1, <1>8 DEF CreateRole, UpdateRole, Unless, accountVars
<1>9. CASE DeleteRole(q)
  <2>1. /\ Deleting(q)
        /\ users'[u] = IF u \in Holders(req[q].on) THEN [users[u] EXCEPT !.role = None] ELSE users[u]
    BY <1>1, <1>9 DEF DeleteRole, Unless, accountVars, Deleting
  <2> QED BY <1>1, <2>1
<1> QED BY <1>2, <1>4, <1>5, <1>6, <1>7, <1>8, <1>9 DEF HandleAccount

(***************************************************************************)
(* An account loses its role only by an assignment, unless an account      *)
(* changed while a request was about to delete a role.                     *)
(***************************************************************************)
THEOREM RolesStay == Spec => RoleKept
<1>1. Init => Unheld
  BY FreshTyped DEF Init, Unheld, Deleting, Reads
<1>2. TypeOK /\ Fitted /\ Unheld /\ [Next]_vars => Unheld'
  BY UnheldKept
<1>3. TypeOK /\ Fitted /\ Unheld /\ [Next]_vars =>
        [ \A u \in UserIds :
            users[u] # None /\ users'[u] # None /\ users'[u].role = None
            => users[u].role = None \/ "role" \in raced ]_vars
  BY RolesLost DEF Unheld
<1>4. TypeOK /\ Fitted /\ [Next]_vars => TypeOK' /\ Fitted'
  BY TypeKept
<1> QED BY InitTyped, <1>1, <1>2, <1>3, <1>4, PTL DEF Spec, RoleKept
=============================================================================
