------------------------------ MODULE Accounts ------------------------------
(***************************************************************************)
(* The users and the roles of the panel, the permission check every request *)
(* passes, and the endpoints of main.py and routers/roles.py that change    *)
(* them.                                                                    *)
(*                                                                          *)
(* A handler reads in one or more SELECTs, each a step of its own, since    *)
(* SQLite opens no transaction before the first write; what it writes, it   *)
(* writes and commits in one step, as SQLite has one writer.  The database  *)
(* refuses a duplicate name and a reference to a role that is gone: the     *)
(* handler then fails and nothing is kept.                                  *)
(***************************************************************************)
EXTENDS Integers, FiniteSets
LOCAL INSTANCE FiniteSetsExt

CONSTANTS
    MaxRequests,    \* bound: requests ever made
    MaxRoleId,      \* bound: role ids
    MaxUserId,      \* bound: user ids, the root account left out
    MaxRowId,       \* bound: ids of the other tables that requests refer to
    Names,          \* user names
    Hostnames,      \* names that nodes register under
    Root,           \* the built-in "admin"
    Permissions,
    Grantable,      \* bound: sets of permissions a role may be given
    None

Requests == 1..MaxRequests
RoleIds == 1..MaxRoleId
UserIds == 1..MaxUserId
Ids == RoleIds \cup UserIds \cup 1..MaxRowId

Kinds == {"create_user", "assign", "rename", "delete_user", "create_role", "update_role",
          "delete_role", "create_invite", "register", "enable", "disable", "delete_node", "scale"}
Points == {"new", "user", "grants", "check", "check2", "check3", "write", "done"}

Role == [builtin : BOOLEAN, grants : SUBSET Permissions]
User == [name : Names, role : RoleIds \cup {None}]

ASSUME AccountAssumption ==
    /\ MaxRequests \in Nat /\ MaxRoleId \in Nat /\ MaxUserId \in Nat
    /\ MaxRowId \in Nat
    /\ Root \notin Names
    /\ Grantable \subseteq SUBSET Permissions
    /\ None \notin Names \cup Hostnames \cup {Root} \cup Int
    /\ None \notin Kinds \cup Role \cup User

VARIABLES
    roles,      \* roles[r]: the role's row, None when there is none
    users,      \* users[u]: the account's row
    req,        \* req[q]: the handler of request q
    had,        \* history: requests whose user held the permission since they arrived
    moved       \* history: requests during whose check an account changed

accountVars == <<roles, users>>
historyVars == <<had, moved>>

\* SQLite hands out the largest id in use plus one, so that ids come back.
Present(table) == {i \in DOMAIN table : table[i] # None}
NextId(table) == Max(Present(table) \cup {0}) + 1
HasRoom(table) == NextId(table) \in DOMAIN table

Named(name) == {u \in Present(users) : users[u].name = name}
Holders(r) == {u \in Present(users) : users[u].role = r}
Grants(r) == IF r = None \/ roles[r] = None THEN {} ELSE roles[r].grants
\* What an account of that name may do now.
Allowed(name) == UNION {Grants(users[u].role) : u \in Named(name)}

-----------------------------------------------------------------------------
(* Requests and the permission check                                        *)

\* A handler: the operation, who asks for it, the row it is on, its other
\* arguments, and what it has read.
Handler == [kind : Kinds \cup {None}, by : Names \cup {Root, None},
            on : Ids \cup {None}, to : RoleIds \cup {None},
            name : Names \cup Hostnames \cup {None}, grants : SUBSET Permissions,
            role : RoleIds \cup {None}, saw : BOOLEAN, again : BOOLEAN, pc : Points]
Fresh == [kind |-> None, by |-> None, on |-> None, to |-> None, name |-> None, grants |-> {},
          role |-> None, saw |-> FALSE, again |-> FALSE, pc |-> "new"]
Done == [Fresh EXCEPT !.pc = "done"]
InFlight(q) == req[q].pc \notin {"new", "done"}
Becomes(q, r) == req' = [req EXCEPT ![q] = r]
Goto(q, pc) == Becomes(q, [req[q] EXCEPT !.pc = pc])
\* The handler answers with an error, or the commit raises one.
Refuse(q) == Becomes(q, Done)

\* The middleware checks the endpoint's permission, and create_invite checks it
\* again.  The root account passes without a look at the database.
Begins(op) == [op EXCEPT !.again = (op.kind = "create_invite"),
                         !.pc = IF op.by = Root THEN "check" ELSE "user"]
Ask(q, op) ==
    /\ req[q].pc = "new" /\ \A o \in 1..(q - 1) : req[o].pc # "new"
    /\ Becomes(q, Begins(op))
Asks(kind, by) == [Fresh EXCEPT !.kind = kind, !.by = by]

HasRole(h, r) == [h EXCEPT !.role = r, !.pc = "grants"]
Passes(h) == [h EXCEPT !.again = FALSE, !.pc = IF h.again THEN "user" ELSE "check"]

\* get_user_permissions: the account by name, then the permissions of the role it had.
ReadUser(q) ==
    /\ req[q].pc = "user"
    /\ IF Named(req[q].by) = {} THEN Refuse(q)
       ELSE \E u \in Named(req[q].by) : Becomes(q, HasRole(req[q], users[u].role))
    /\ UNCHANGED accountVars

\* Mutant: the join lacks its condition on the role.
ReadGrantsOfAny(q, needed) ==
    /\ req[q].pc = "grants"
    /\ IF needed \in UNION {Grants(r) : r \in RoleIds}
       THEN Becomes(q, Passes(req[q])) ELSE Refuse(q)
    /\ UNCHANGED accountVars
ReadGrants(q, needed) ==
    /\ req[q].pc = "grants"
    /\ IF needed \in Grants(req[q].role)
       THEN Becomes(q, Passes(req[q])) ELSE Refuse(q)
    /\ UNCHANGED accountVars

-----------------------------------------------------------------------------
(* Accounts and roles, which only the root account may change               *)

Reads(q, kind, pc) == req[q].kind = kind /\ req[q].pc = pc
\* A SELECT that lets the handler go on, or ends it.
Unless(q, bad, pc) ==
    /\ IF bad THEN Refuse(q) ELSE Goto(q, pc)
    /\ UNCHANGED accountVars

CreateUser(q) ==
    \/ Reads(q, "create_user", "check") /\ Unless(q, roles[req[q].to] = None, "check2")
    \/ Reads(q, "create_user", "check2") /\ Unless(q, Named(req[q].name) # {}, "write")
    \/ /\ Reads(q, "create_user", "write") /\ Refuse(q) /\ HasRoom(users)
       /\ users' = IF roles[req[q].to] = None \/ Named(req[q].name) # {} THEN users
                   ELSE [users EXCEPT ![NextId(users)] = [name |-> req[q].name, role |-> req[q].to]]
       /\ UNCHANGED roles

\* update_user, once for each thing it may change; an UPDATE of an account
\* that is gone fails.
AssignRole(q) ==
    \/ Reads(q, "assign", "check") /\ Unless(q, users[req[q].on] = None, "check2")
    \/ Reads(q, "assign", "check2") /\ Unless(q, roles[req[q].to] = None, "write")
    \/ /\ Reads(q, "assign", "write") /\ Refuse(q)
       /\ users' = IF users[req[q].on] = None \/ roles[req[q].to] = None THEN users
                   ELSE [users EXCEPT ![req[q].on].role = req[q].to]
       /\ UNCHANGED roles
RenameUser(q) ==
    \/ Reads(q, "rename", "check") /\ Unless(q, users[req[q].on] = None, "check2")
    \/ Reads(q, "rename", "check2") /\ Unless(q, Named(req[q].name) # {}, "write")
    \/ /\ Reads(q, "rename", "write") /\ Refuse(q)
       /\ users' = IF users[req[q].on] = None \/ Named(req[q].name) # {} THEN users
                   ELSE [users EXCEPT ![req[q].on].name = req[q].name]
       /\ UNCHANGED roles

DeleteUser(q) ==
    \/ Reads(q, "delete_user", "check") /\ Unless(q, users[req[q].on] = None, "write")
    \/ /\ Reads(q, "delete_user", "write") /\ Refuse(q)
       /\ users' = [users EXCEPT ![req[q].on] = None]
       /\ UNCHANGED roles

CreateRole(q) ==
    /\ Reads(q, "create_role", "check") /\ Refuse(q)
    /\ HasRoom(roles)
    /\ roles' = [roles EXCEPT ![NextId(roles)] = [builtin |-> FALSE, grants |-> req[q].grants]]
    /\ UNCHANGED users

\* The old permissions are deleted and the new ones inserted in one transaction.
UpdateRole(q) ==
    LET r == req[q].on
    IN  \/ /\ Reads(q, "update_role", "check")
           /\ Unless(q, roles[r] = None \/ roles[r].builtin, "write")
        \/ /\ Reads(q, "update_role", "write") /\ Refuse(q)
           /\ roles' = IF roles[r] = None THEN roles
                       ELSE [roles EXCEPT ![r].grants = req[q].grants]
           /\ UNCHANGED users

\* Mutant: the accounts that hold the role are not looked for.
DeleteRoleUnchecked(q) ==
    LET r == req[q].on
    IN  \/ /\ Reads(q, "delete_role", "check")
           /\ Unless(q, roles[r] = None \/ roles[r].builtin, "write")
        \/ /\ Reads(q, "delete_role", "write") /\ Refuse(q)
           /\ roles' = [roles EXCEPT ![r] = None]
           /\ users' = [u \in UserIds |-> IF u \in Holders(r) THEN [users[u] EXCEPT !.role = None]
                                         ELSE users[u]]
\* The foreign key of an account whose role goes is set to NULL.
DeleteRole(q) ==
    LET r == req[q].on
    IN  \/ /\ Reads(q, "delete_role", "check")
           /\ Unless(q, roles[r] = None \/ roles[r].builtin, "check2")
        \/ Reads(q, "delete_role", "check2") /\ Unless(q, Holders(r) # {}, "write")
        \/ /\ Reads(q, "delete_role", "write") /\ Refuse(q)
           /\ roles' = [roles EXCEPT ![r] = None]
           /\ users' = [u \in UserIds |-> IF u \in Holders(r) THEN [users[u] EXCEPT !.role = None]
                                         ELSE users[u]]

\* Requests name rows that are there when they are made.
AskAccount(q) ==
    LET By(kind) == Asks(kind, Root)
    IN  \/ \E r \in Present(roles) :
              \/ \E n \in Names : Ask(q, [By("create_user") EXCEPT !.to = r, !.name = n])
              \/ \E g \in Grantable : Ask(q, [By("update_role") EXCEPT !.on = r, !.grants = g])
              \/ Ask(q, [By("delete_role") EXCEPT !.on = r])
        \/ \E u \in Present(users) :
              \/ \E r \in Present(roles) : Ask(q, [By("assign") EXCEPT !.on = u, !.to = r])
              \/ \E n \in Names : Ask(q, [By("rename") EXCEPT !.on = u, !.name = n])
              \/ Ask(q, [By("delete_user") EXCEPT !.on = u])
        \/ \E g \in Grantable : Ask(q, [By("create_role") EXCEPT !.grants = g])
HandleAccount(q) ==
    \/ CreateUser(q) \/ AssignRole(q) \/ RenameUser(q) \/ DeleteUser(q)
    \/ CreateRole(q) \/ UpdateRole(q) \/ DeleteRole(q)
=============================================================================
