------------------------------ MODULE LocalApp ------------------------------
(***************************************************************************)
(* One web application whose replicas run on the control plane's machine:  *)
(* the request handlers of routers/applications.py, the crash monitor and  *)
(* the start-up of main.py, and the background task that takes a start or  *)
(* restart page down again.                                                *)
(*                                                                         *)
(* A handler reads the rows, works on docker in threads, and writes what   *)
(* it changed at the end: a step here is one docker call, or a run of      *)
(* statements between two of them.  The session writes the columns whose   *)
(* value differs from the one it read, and fails when a row it touched is  *)
(* gone.  SQLite has one writer; a scale holds the write lock from its     *)
(* insert to its commit.                                                   *)
(***************************************************************************)
EXTENDS LocalHost, SitePages
LOCAL INSTANCE Functions

CONSTANTS
    MaxRequests,    \* bound: requests ever made
    Kinds,          \* the operations they may ask for
    MaxFaults,      \* bound: failures of docker, nginx, containers, processes
    MaxEvents,      \* bound: requests and failures together
    Starts,         \* how it may begin: replicas, their status, the restart policy
    AutoStart,
    MaxRestarts     \* MAX_RESTARTS_PER_WINDOW

Requests == 1..MaxRequests

ASSUME AppAssumption ==
    /\ MaxRequests \in Nat
    /\ MaxFaults \in Nat
    /\ MaxEvents \in Nat
    /\ MaxRestarts \in Nat
    /\ None \notin Kinds
    /\ Starts \subseteq [replicas : {0} \cup (Ids \cap 1..RangeEnd),
                         status : {"running", "stopped"}, policy : {"no", "always"}]
    /\ AutoStart \in BOOLEAN
    /\ Nobody \notin [page : TransitionPages, by : Requests]

VARIABLES
    status,     \* the application's status column, "deleted" once its row is gone
    policy,     \* its restart policy
    req,        \* req[q]: the handler of request q, then its restore task
    writer,     \* the request that holds the database's write lock, or None
    mon,        \* the crash monitor's session
    sync,       \* the session of a get_app that other handlers come between
    restarts,   \* restarts[r]: entries of r in _restart_history; none leaves the window
    faults,
    events      \* history: what has happened that the guarantees depend on

appVarsButFaults == <<status, policy, req, writer, mon, restarts>>
handlerVars == <<row, box, foreign, site, flag, trans, status, policy, req,
                 writer, mon, restarts, faults, events>>
vars == <<handlerVars, sync>>

-----------------------------------------------------------------------------
(* Handlers                                                                *)

Fresh == [kind |-> None, pc |-> "new", todo |-> {}, seen |-> NoRows, mem |-> NoRows,
          touched |-> {}, flag |-> "normal", app |-> None, shown |-> FALSE,
          new |-> {}, port |-> 0, late |-> FALSE, stable |-> FALSE]
Ended == [Fresh EXCEPT !.pc = "done"]

InFlight(q) == req[q].pc \notin {"new", "task", "restore", "done"}
Busy == \E q \in Requests : InFlight(q)
Alone(q) == \A o \in Requests \ {q} : ~InFlight(o)
Exists == status # "deleted"
MayWrite(q) == writer \in {None, q}

\* A live container of the application answers on a port of the upstream.
Served == site.page = "proxy" /\ \E r \in Ids : box[r] \in site.ups

Happened(what) == events' = events \cup what
Begun == Cardinality({q \in Requests : req[q].pc # "new"}) + (IF sync.pc = "new" THEN 0 ELSE 1)
MayFail == faults < MaxFaults /\ Begun + faults < MaxEvents
Fault(what) == MayFail /\ faults' = faults + 1 /\ Happened({what})
NoFault == UNCHANGED <<faults, events>>

\* nginx takes the configuration, or its test fails and the old one stays loaded.
\* It is noted when this happens between two steps of a request, and when that
\* request has a page up.
Meddling ==
    (IF Busy THEN {"meddled"} ELSE {})
    \cup (IF \E q \in Requests : InFlight(q) /\ req[q].shown THEN {"unhidden"} ELSE {})
Accepts(config) == site' = config /\ Happened(Meddling) /\ UNCHANGED faults
\* A handler writes the mode it read; it is noted when the operator's is another.
Stale(mode) == IF mode = flag THEN {} ELSE {"stale"}
\* What is observed of a container is recorded while a request works on it.
Recorded == IF Busy THEN {"recorded"} ELSE {}
AcceptsFor(mode, config) == site' = config /\ Happened(Stale(mode)) /\ UNCHANGED faults
Rejects == UNCHANGED site /\ Fault("nginx")

\* Replica ids that n more inserts may need (a bound, not the code's).
Inserts(q) ==
    CASE req[q].kind = "scale" /\ InFlight(q) -> 1
      [] req[q].kind = "zd" /\ req[q].pc \in {"pick", "insert", "start"}
                                             -> Cardinality(req[q].todo)
      [] OTHER                               -> 0
Room(n) == NextId(row) + n + FoldFunction(+, 0, [q \in Requests |-> Inserts(q)]) <= MaxId + 1

\* A request begins.
Begin(q, kind, handler) ==
    /\ kind \in Kinds /\ Begun + faults < MaxEvents
    /\ req[q].pc = "new" /\ \A o \in 1..(q - 1) : req[o].pc # "new"
    /\ Exists
    /\ req' = [req EXCEPT ![q] = handler]

\* It is an overlap when a request that works on containers begins while
\* another one does.
Overlap(q) == IF Alone(q) THEN {} ELSE {"overlap"}
\* get_db's session reads the application and some of its rows.
Reads(kind, rows, todo, pc) ==
    [Fresh EXCEPT !.kind = kind, !.flag = flag, !.app = status,
                  !.seen = rows, !.mem = rows, !.todo = todo, !.pc = pc]
\* Mutant: the last replica of a loop is left out.
StepOrFinishEarly(todo, pc) == IF Cardinality(todo) <= 1 THEN "finish" ELSE pc
StepOrFinish(todo, pc) == IF todo = {} THEN "finish" ELSE pc

\* The handler raises: the session rolls back, what docker did stays.
Raise(q, what) ==
    /\ req' = [req EXCEPT ![q] = Ended]
    /\ writer' = IF writer = q THEN None ELSE writer
    /\ Fault(what)

Turn(q) == Min(req[q].todo)

\* start_app and restart_app put up a page before they touch docker.
ShowPage(q, page, handler) ==
    /\ trans' = [page |-> page, by |-> q]
    /\ \/ /\ site' = Config(page, {})
          /\ Begin(q, handler.kind, [handler EXCEPT !.shown = TRUE])
          /\ Happened(Overlap(q)) /\ UNCHANGED faults
       \/ /\ Begin(q, handler.kind, Ended)
          /\ Rejects
    /\ UNCHANGED <<hostVars, flag, status, policy, writer, mon, restarts>>
NoPage(q, handler) ==
    /\ Begin(q, handler.kind, handler)
    /\ Happened(Overlap(q))
    /\ UNCHANGED <<hostVars, siteVars, status, policy, writer, mon, restarts, faults>>

\* Mutant: the start page does not look at the operator's mode.
StartAppAnyMode(q) ==
    LET todo == WithStatus(row, {"stopped", "error", "pending", "node_offline"})
    IN  /\ Rows(row) # {}
        /\ ShowPage(q, "starting", Reads("start", row, todo, StepOrFinish(todo, "start")))
StartApp(q) ==
    LET todo == WithStatus(row, {"stopped", "error", "pending", "node_offline"})
        handler == Reads("start", row, todo, StepOrFinish(todo, "start"))
    IN  /\ Rows(row) # {}
        /\ IF WithStatus(row, Live) = {} /\ flag = "normal"
           THEN ShowPage(q, "starting", handler)
           ELSE NoPage(q, handler)

StopApp(q) ==
    LET todo == WithStatus(row, Live \cup {"stopping", "node_offline"})
    IN  NoPage(q, Reads("stop", row, todo, StepOrFinish(todo, "stop")))

\* Restart: every replica in turn is stopped, if live, and started.
RestartPc(rows, todo) ==
    IF todo = {} THEN "finish"
    ELSE IF rows[Min(todo)].status \in Live \cup {"stopping", "node_offline"}
    THEN "stop" ELSE "start"
RestartApp(q) ==
    LET handler == Reads("restart", row, Rows(row), RestartPc(row, Rows(row)))
    IN  /\ Rows(row) # {}
        /\ IF WithStatus(row, Live) # {} /\ flag = "normal"
           THEN ShowPage(q, "restart", handler)
           ELSE NoPage(q, handler)

Only(r) == [NoRows EXCEPT ![r] = row[r]]
RestartInstance(q, r) ==
    /\ r \in Rows(row)
    /\ NoPage(q, Reads("restart_instance", Only(r), {r},
                       IF row[r].status = "running" THEN "stop" ELSE "start"))

DeleteInstance(q, r) ==
    /\ r \in Rows(row)
    /\ NoPage(q, Reads("delete_instance", Only(r), {r},
                       IF row[r].status \in {"stopped", "error"} THEN "finish" ELSE "stop"))

DeleteApp(q) ==
    NoPage(q, Reads("delete", row, Rows(row), StepOrFinish(Rows(row), "stop")))

\* scale_app picks a port in a thread, then inserts the row and keeps the lock.
ScaleApp(q) ==
    /\ FreePorts # {} /\ Room(1)
    /\ NoPage(q, [Reads("scale", NoRows, {}, "insert") EXCEPT !.port = AssignedPort])
InsertRow(q) ==
    LET id == NextId(row)
        mem == [NoRows EXCEPT ![id] = [status |-> "pending", port |-> req[q].port]]
    IN  /\ req[q].kind = "scale" /\ req[q].pc = "insert"
        /\ MayWrite(q) /\ Exists /\ id \in Ids
        /\ writer' = q
        /\ req' = [req EXCEPT ![q] = [@ EXCEPT !.pc = "start", !.todo = {id}, !.mem = mem]]
        /\ NoFault
        /\ UNCHANGED <<hostVars, siteVars, status, policy, mon, restarts>>

-----------------------------------------------------------------------------
(* Docker steps of the handlers                                            *)

\* stop_docker_replica; its failure is logged and ignored.
StopsBox(r) == \/ box' = Stopped(r) /\ NoFault
               \/ box[r] # 0 /\ box' = box /\ Fault("failed")

StopBox(q) ==
    LET r == Turn(q)
        rest == req[q].todo \ {r}
        down == [req[q].mem EXCEPT ![r].status = "stopped"]
        Then(todo, pc, mem) == [req[q] EXCEPT !.todo = todo, !.pc = pc, !.mem = mem,
                                    !.touched = IF mem = req[q].mem THEN @ ELSE @ \cup {r}]
    IN  /\ req[q].pc = "stop" /\ StopsBox(r)
        /\ req' = [req EXCEPT ![q] =
              CASE req[q].kind = "stop"    -> Then(rest, StepOrFinish(rest, "stop"), down)
                [] req[q].kind = "restart" -> Then({r} \cup rest, "start", down)
                [] req[q].kind = "restart_instance" -> Then({r}, "start", req[q].mem)
                [] req[q].kind = "delete_instance"  -> Then({}, "finish", req[q].mem)
                [] req[q].kind = "delete"  -> Then(rest, StepOrFinish(rest, "stop"), req[q].mem)]
        /\ UNCHANGED <<row, foreign, siteVars, status, policy, writer, mon, restarts>>

\* _start_instance_local: builds when needed, runs the container, moves to
\* another port after a bind conflict.
StartBox(q) ==
    LET r == Turn(q)
        rest == req[q].todo \ {r}
        p == req[q].mem[r].port
        After == IF req[q].kind = "restart" THEN RestartPc(req[q].mem, rest)
                 ELSE StepOrFinish(rest, "start")
        moved == IF CanStart(r, p) THEN {p, StartPort(r, p)} ELSE {p}
        With(state, port) ==
            [req[q] EXCEPT !.todo = rest, !.pc = After, !.touched = @ \cup {r},
                           !.mem[r] = [status |-> state, port |-> port]]
    IN  /\ req[q].pc = "start" /\ req[q].kind # "zd"
        /\ \/ /\ CanStart(r, p)
              /\ box' = Started(r, p)
              /\ req' = [req EXCEPT ![q] = With("running", StartPort(r, p))]
              /\ NoFault /\ UNCHANGED writer
           \* restart_instance and scale record the error and go on to commit it,
           \* with the port the retry moved to if it was the retry that failed
           \/ /\ req[q].kind \in {"restart_instance", "scale"}
              /\ \E port \in moved : req' = [req EXCEPT ![q] = With("error", port)]
              /\ Fault("failed") /\ UNCHANGED <<box, writer>>
           \/ /\ req[q].kind # "scale"
              /\ Raise(q, "failed") /\ UNCHANGED box
        /\ UNCHANGED <<row, foreign, siteVars, status, policy, mon, restarts>>

-----------------------------------------------------------------------------
(* The end of a handler: flush, nginx, commit                              *)

\* Mutant: the port a bind conflict led to is not written back.
FlushedStatus(q) ==
    [r \in Ids |-> IF row[r] = None \/ req[q].mem[r] = None THEN req[q].mem[r]
                   ELSE [row[r] EXCEPT !.status = req[q].mem[r].status]]
\* The rows as q's flush leaves them: inserts, and the columns that differ
\* from what the session read.
Flushed(q) ==
    [r \in Ids |->
        LET s == req[q].seen[r]
            m == req[q].mem[r]
        IN  IF m = s \/ (s # None /\ row[r] = None) THEN row[r]
            ELSE IF s = None THEN m
            ELSE [status |-> IF m.status = s.status THEN row[r].status ELSE m.status,
                  port |-> IF m.port = s.port THEN row[r].port ELSE m.port]]

\* An UPDATE of a row that is gone is a StaleDataError.
Lost(q) == \E r \in req[q].touched : req[q].seen[r] # None /\ row[r] = None

RowsAfter(q) ==
    CASE req[q].kind = "delete_instance" -> [row EXCEPT ![Min(Rows(req[q].seen))] = None]
      [] req[q].kind = "delete"          -> NoRows
      [] OTHER                           -> Flushed(q)

\* restart_instance and scale leave the application's status alone.
StatusAfter(q, rows) ==
    LET derived == CASE req[q].kind \in {"start", "stop", "restart"} -> DerivedStatus(req[q].mem)
                     [] req[q].kind = "delete_instance"              -> DerivedStatus(rows)
                     [] req[q].kind = "delete"                       -> "deleted"
                     [] OTHER                                        -> req[q].app
    IN  IF derived = req[q].app THEN status ELSE derived

\* Mutant: a stop leaves nginx as it is.
RewritesStarted(q) == req[q].kind \in {"start", "restart"} /\ ~req[q].shown
\* Which handlers write nginx, and what.
Rewrites(q) ==
    CASE req[q].kind \in {"start", "restart"} -> ~req[q].shown
      [] req[q].kind = "scale" -> req[q].mem[Max(Rows(req[q].mem))].status = "running"
      [] OTHER -> TRUE
ConfigAfter(q, rows) ==
    IF req[q].kind = "delete" THEN NoSite
    ELSE Config(Guarded(req[q].flag, trans), Backends(rows))

\* The session fails without anybody's fault: a stale row, a locked database,
\* a row of a deleted application.
Abort(q) ==
    /\ req' = [req EXCEPT ![q] = Ended]
    /\ writer' = IF writer = q THEN None ELSE writer
    /\ Happened({"failed"})
    /\ UNCHANGED <<hostVars, flag, trans, status, policy, mon, restarts, faults>>

Finish(q) ==
    LET rows == RowsAfter(q)
    IN  /\ req[q].pc = "finish" /\ req[q].kind # "zd"
        /\ MayWrite(q) /\ ~Lost(q) /\ Exists
        /\ \/ /\ IF Rewrites(q) THEN AcceptsFor(req[q].flag, ConfigAfter(q, rows))
                 ELSE UNCHANGED site /\ NoFault
              /\ row' = rows
              /\ status' = StatusAfter(q, rows)
              /\ req' = [req EXCEPT ![q] =
                    [Ended EXCEPT !.shown = req[q].shown, !.pc = IF req[q].shown THEN "task" ELSE "done"]]
              /\ writer' = IF writer = q THEN None ELSE writer
           \/ /\ Rewrites(q) /\ req[q].kind # "delete"
              /\ Raise(q, "nginx")
              /\ UNCHANGED <<row, site, status>>
        /\ UNCHANGED <<box, foreign, flag, trans, policy, mon, restarts>>

FinishFails(q) ==
    /\ req[q].pc = "finish"
    /\ \/ Lost(q) /\ UNCHANGED site
       \/ ~MayWrite(q) /\ UNCHANGED site        \* busy_timeout
       \* A deleted application: the flush finds nothing to write, nginx is
       \* written, and the audit entry's foreign key fails.
       \/ /\ ~Exists /\ ~Lost(q) /\ req[q].kind # "zd"
          /\ site' = IF Rewrites(q) /\ StatusAfter(q, RowsAfter(q)) = status
                     THEN ConfigAfter(q, row) ELSE site
       \/ ~Exists /\ req[q].kind = "zd" /\ UNCHANGED site
    /\ Abort(q)

-----------------------------------------------------------------------------
(* Zero-downtime deploy: one new replica per running one                   *)

\* Without a running replica one slot is filled all the same.
DeployZeroDowntime(q) ==
    LET running == WithStatus(row, {"running"})
        todo == IF running = {} THEN {1} ELSE running
    IN  /\ Room(Cardinality(todo))
        /\ NoPage(q, [Reads("zd", NoRows, todo, "pick") EXCEPT !.flag = "normal"])

ZdPick(q) ==
    /\ req[q].pc = "pick" /\ FreePorts # {}
    /\ req' = [req EXCEPT ![q] = [@ EXCEPT !.pc = "insert", !.port = AssignedPort]]
    /\ NoFault
    /\ UNCHANGED <<hostVars, siteVars, status, policy, writer, mon, restarts>>

\* No port is left: the exception leaves the slots filled so far as they are.
ZdPickFails(q) ==
    /\ req[q].pc = "pick" /\ FreePorts = {}
    /\ Abort(q) /\ UNCHANGED site

\* The row is committed before its container starts.
ZdInsert(q) ==
    LET id == NextId(row)
    IN  /\ req[q].kind = "zd" /\ req[q].pc = "insert"
        /\ MayWrite(q) /\ Exists /\ id \in Ids
        /\ row' = [row EXCEPT ![id] = [status |-> "starting", port |-> req[q].port]]
        /\ req' = [req EXCEPT ![q] = [req[q] EXCEPT !.pc = "start", !.new = @ \cup {id}]]
        /\ NoFault
        /\ UNCHANGED <<box, foreign, siteVars, status, policy, writer, mon, restarts>>

\* The application was deleted under a handler that is about to insert.
InsertFails(q) == req[q].pc = "insert" /\ ~Exists /\ Abort(q) /\ UNCHANGED site

Undo(q) == [req EXCEPT ![q] = [@ EXCEPT !.pc = "undo", !.todo = req[q].new]]

ZdStart(q) ==
    LET id == Max(req[q].new)
        p == req[q].port
        rest == req[q].todo \ {Turn(q)}
    IN  /\ req[q].kind = "zd" /\ req[q].pc = "start"
        /\ \/ /\ CanStart(id, p) /\ MayWrite(q)
              /\ box' = Started(id, p)
              /\ IF row[id] = None THEN req' = Undo(q) /\ UNCHANGED row
                 ELSE /\ row' = [row EXCEPT ![id].port = StartPort(id, p)]
                      /\ req' = [req EXCEPT ![q] =
                            [@ EXCEPT !.todo = rest,
                                      !.pc = IF rest = {} THEN "check" ELSE "pick"]]
              /\ NoFault
           \/ req' = Undo(q) /\ Fault("undone") /\ UNCHANGED <<row, box>>
        /\ UNCHANGED <<foreign, siteVars, status, policy, writer, mon, restarts>>

\* Every new replica must answer before its deadline.
Healthy(q) == \A id \in req[q].new : row[id] # None /\ row[id].port \in Bound
ZdCheck(q) ==
    /\ req[q].pc = "check"
    /\ \/ /\ Healthy(q) /\ NoFault
          /\ req' = [req EXCEPT ![q] = [@ EXCEPT !.pc = "switch"]]
       \/ req' = Undo(q) /\ IF Healthy(q) THEN Fault("undone") ELSE NoFault
    /\ UNCHANGED <<hostVars, siteVars, status, policy, writer, mon, restarts>>

Present(q) == {id \in req[q].new : row[id] # None}
\* Mutant: the backends are read before the new rows are flushed.
OldBackends(q) == Backends(row)
NewBackends(q) == {row[id].port : id \in Present(q)}

\* The new rows become running and nginx is given them and only them; when it
\* refuses, the deploy warns and goes on to stop the old replicas.  The mode is
\* the literal "normal" and is not read: an operator's page comes down.  A new
\* status is flushed here, and the lock kept until the commit.
ZdSwitch(q) ==
    LET rows == [r \in Ids |-> IF r \in Present(q) THEN [row[r] EXCEPT !.status = "running"]
                               ELSE row[r]]
        old == WithStatus(rows, {"running"}) \ req[q].new
        config == Config("normal", NewBackends(q))
        over == IF flag = "normal" THEN {} ELSE {"overridden"}
    IN  /\ req[q].pc = "switch" /\ MayWrite(q)
        /\ row' = rows
        /\ \/ site' = config /\ Happened(over) /\ UNCHANGED faults
           \/ Rejects
        /\ req' = [req EXCEPT ![q] = [@ EXCEPT !.todo = old, !.touched = old,
                                              !.pc = StepOrFinish(old, "retire")]]
        /\ writer' = IF req[q].app = "running" THEN writer ELSE q
        /\ UNCHANGED <<box, foreign, flag, trans, status, policy, mon, restarts>>

ZdRetire(q) ==
    LET rest == req[q].todo \ {Turn(q)}
    IN  /\ req[q].pc = "retire" /\ StopsBox(Turn(q))
        /\ req' = [req EXCEPT ![q] = [@ EXCEPT !.todo = rest, !.pc = StepOrFinish(rest, "retire")]]
        /\ UNCHANGED <<row, foreign, siteVars, status, policy, writer, mon, restarts>>

ZdFinish(q) ==
    /\ req[q].kind = "zd" /\ req[q].pc = "finish" /\ MayWrite(q) /\ Exists
    /\ row' = [r \in Ids |-> IF r \in req[q].touched THEN None ELSE row[r]]
    /\ status' = IF req[q].app = "running" THEN status ELSE "running"
    /\ req' = [req EXCEPT ![q] = Ended]
    /\ writer' = IF writer = q THEN None ELSE writer
    /\ NoFault
    /\ UNCHANGED <<box, foreign, siteVars, policy, mon, restarts>>

\* _zd_rollback: stop and delete the new replicas whose rows are still there.
ZdUndo(q) ==
    LET r == Turn(q)
        rest == req[q].todo \ {r}
    IN  /\ req[q].pc = "undo" /\ MayWrite(q)
        /\ IF row[r] = None THEN UNCHANGED <<row, box>> /\ NoFault
           ELSE StopsBox(r) /\ row' = [row EXCEPT ![r] = None]
        /\ req' = [req EXCEPT ![q] = IF rest = {} THEN Ended
                                     ELSE [@ EXCEPT !.todo = rest]]
        /\ UNCHANGED <<foreign, siteVars, status, policy, writer, mon, restarts>>

-----------------------------------------------------------------------------
(* Pages                                                                   *)

\* Toggles, nginx_refresh, save_maintenance_pages and update_app write nginx
\* for the operator's mode, whatever transition is in force.  A toggle flushes
\* the new mode first; a refresh writes no row.
ShowMode(q, kind, mode) ==
    /\ Begin(q, kind, Ended)
    /\ \/ Accepts(Config(mode, Backends(row))) /\ flag' = mode
       \/ Rejects /\ UNCHANGED flag
    /\ UNCHANGED <<hostVars, trans, status, policy, writer, mon, restarts>>
ToggleMaintenance(q) ==
    MayWrite(q) /\ ShowMode(q, "maintenance", IF flag = "maintenance" THEN "normal" ELSE "maintenance")
ToggleUpdate(q) ==
    MayWrite(q) /\ ShowMode(q, "update", IF flag = "update" THEN "normal" ELSE "update")
RefreshNginx(q) == ShowMode(q, "refresh", flag)

\* _wait_for_app_backends_ready: half the backends answer at two polls; polls
\* that find no backend count neither way.
Quorum ==
    LET backends == Backends(row)
        ready == backends \cap Bound
    IN  ready # {} /\ 2 * Cardinality(ready) >= Cardinality(backends)
Poll(q) ==
    /\ req[q].pc = "task" /\ Exists /\ Backends(row) # {}
    /\ req[q].stable \/ Quorum
    /\ req' = [req EXCEPT ![q] = [@ EXCEPT !.stable = Quorum,
                                    !.pc = IF req[q].stable /\ Quorum THEN "restore" ELSE "task"]]
    /\ NoFault
    /\ UNCHANGED <<hostVars, siteVars, status, policy, writer, mon, restarts>>

\* The wait ends without a quorum after 180 s: it is repeated once, since the
\* second wait outlasts TRANSITION_HOLD_MAX_SECONDS.
WaitEnds(q) ==
    /\ req[q].pc = "task"
    /\ req' = [req EXCEPT ![q] = [@ EXCEPT !.late = TRUE, !.stable = FALSE,
                                    !.pc = IF req[q].late THEN "restore" ELSE "task"]]
    /\ NoFault
    /\ UNCHANGED <<hostVars, siteVars, status, policy, writer, mon, restarts>>

\* Mutant: nginx is written before the transition is cleared.
ConfigUnderTransition(backends) == Config(Guarded(flag, trans), backends)
RestoredConfig(backends) == Config(flag, backends)

\* _restore_nginx_after_transition, once ready or past the cap: the transition
\* in force is cleared, whoever set it, and nginx gets the operator's mode.
\* Without a backend the wait is repeated before the cap and given up after it.
Restore(q) ==
    LET backends == Backends(row)
    IN  /\ req[q].pc = "restore"
        /\ trans' = Nobody
        /\ \/ /\ backends # {} /\ (Accepts(RestoredConfig(backends)) \/ Rejects)
              /\ req' = [req EXCEPT ![q] = Ended]
           \/ /\ backends = {} /\ Exists /\ ~req[q].late
              /\ req' = [req EXCEPT ![q] = [@ EXCEPT !.pc = "task", !.stable = FALSE]]
              /\ UNCHANGED site /\ NoFault
           \/ /\ backends = {} /\ (req[q].late \/ ~Exists)
              /\ req' = [req EXCEPT ![q] = Ended]
              /\ UNCHANGED site /\ NoFault
        /\ UNCHANGED <<hostVars, flag, status, policy, writer, mon, restarts>>

\* _get_active_transition_mode forgets a transition after 300 s, which a
\* handler in flight and a first wait do not reach.
Expire ==
    /\ trans # Nobody
    /\ \/ req[trans.by].pc = "done"
       \/ req[trans.by].pc = "task" /\ req[trans.by].late
    /\ trans' = Nobody
    /\ NoFault
    /\ UNCHANGED <<hostVars, site, flag, status, policy, req, writer, mon, restarts>>

-----------------------------------------------------------------------------
(* Reading the application: _sync_process_status                           *)

\* A deploying or starting row is left alone for ten minutes, which a deploy
\* in flight does not need.
Aged == {r \in WithStatus(row, {"starting", "deploying"}) :
            \A q \in Requests : InFlight(q) => r \notin req[q].new}
Observed(r) == IF box[r] # 0 THEN "running" ELSE "stopped"
\* Mutant: a row that says "stopped" is not looked at again.
SyncedLive(aged) ==
    [r \in Ids |-> IF r \in WithStatus(row, {"running", "error", "restarting"})
                   THEN [row[r] EXCEPT !.status = Observed(r)] ELSE row[r]]
Synced(aged) ==
    [r \in Ids |->
        IF r \in aged THEN [row[r] EXCEPT !.status = "error"]
        ELSE IF row[r] = None THEN None
        ELSE IF row[r].status \in {"deploying", "starting", "stopping"} THEN row[r]
        ELSE [row[r] EXCEPT !.status = Observed(r)]]
\* A poll of the panel that nothing comes between.
Sync(aged) ==
    LET rows == Synced(aged)
    IN  /\ Exists /\ MayWrite(None)
        /\ row' = rows
        /\ status' = DerivedStatus(rows)
        /\ rows # row \/ DerivedStatus(rows) # status
        /\ Happened(Recorded)
        /\ UNCHANGED faults
        /\ UNCHANGED <<box, foreign, siteVars, policy, req, writer, mon, restarts>>

\* The same in its steps, with whatever comes between them: the rows are read,
\* docker is asked for one replica after another, in a thread, and what changed
\* is committed.  (A change is flushed before the next replica is asked for; the
\* lock this takes until the commit is left out, so more can come between.)
NoSync == [pc |-> "new", todo |-> {}, seen |-> NoRows, mem |-> NoRows, app |-> None]
SyncOver == [NoSync EXCEPT !.pc = "done"]
SyncReads ==
    /\ sync.pc = "new" /\ Exists /\ Begun + faults < MaxEvents
    /\ \E aged \in {{}, Aged} :
          LET mem == [r \in Ids |-> IF r \in aged THEN [row[r] EXCEPT !.status = "error"] ELSE row[r]]
              todo == Rows(row) \ WithStatus(row, {"deploying", "starting", "stopping"})
          IN  sync' = [pc |-> IF todo = {} THEN "save" ELSE "look", todo |-> todo,
                       seen |-> row, mem |-> mem, app |-> status]
    /\ UNCHANGED handlerVars
SyncLooks ==
    LET r == Min(sync.todo)
        rest == sync.todo \ {r}
    IN  /\ sync.pc = "look"
        /\ sync' = [sync EXCEPT !.pc = IF rest = {} THEN "save" ELSE "look", !.todo = rest,
                                !.mem[r].status = Observed(r)]
        /\ UNCHANGED handlerVars

\* What it found is late when a poll at this moment would not write the same.
SyncedLate(rows, state) ==
    IF \E aged \in {{}, Aged} : rows = Synced(aged) /\ state = DerivedStatus(rows)
    THEN Recorded ELSE {"recorded"}
SyncSaves ==
    LET rows == [r \in Ids |-> IF row[r] = None \/ sync.mem[r] = sync.seen[r] THEN row[r]
                               ELSE [row[r] EXCEPT !.status = sync.mem[r].status]]
        derived == DerivedStatus(sync.mem)
        state == IF derived = sync.app THEN status ELSE derived
    IN  /\ sync.pc = "save" /\ Exists /\ MayWrite(None)
        /\ \A r \in Ids : sync.mem[r] # sync.seen[r] => row[r] # None
        /\ row' = rows /\ status' = state
        /\ Happened(IF rows = row /\ state = status THEN {} ELSE SyncedLate(rows, state))
        /\ sync' = SyncOver
        /\ UNCHANGED <<box, foreign, siteVars, policy, req, writer, mon, restarts, faults>>
\* A changed row is gone, or the application is, or the database stays locked.
SyncFails ==
    /\ sync.pc = "save"
    /\ \/ \E r \in Ids : sync.mem[r] # sync.seen[r] /\ row[r] = None
       \/ ~Exists \/ ~MayWrite(None)
    /\ sync' = SyncOver
    /\ UNCHANGED handlerVars
SyncSteps == SyncLooks \/ SyncSaves \/ SyncFails

-----------------------------------------------------------------------------
(* The crash monitor                                                       *)

Idle == [pc |-> "idle", todo |-> {}, seen |-> NoRows, flag |-> "normal", app |-> None]
Dead(todo) == {r \in todo : box[r] = 0}

\* A pass reads the running rows and goes through them; live ones need nothing.
Scan ==
    LET running == WithStatus(row, {"running"})
    IN  /\ mon.pc = "idle" /\ Dead(running) # {}
        /\ mon' = [pc |-> "scan", todo |-> running, flag |-> flag, app |-> status,
                   seen |-> [r \in Ids |-> IF r \in running THEN row[r] ELSE None]]
        /\ NoFault
        /\ UNCHANGED <<hostVars, siteVars, status, policy, req, writer, restarts>>

Case == Min(Dead(mon.todo))
Rest == {r \in mon.todo : r > Case}
NextCase(seen) == IF Rest = {} THEN Idle ELSE [mon EXCEPT !.pc = "scan", !.todo = Rest, !.seen = seen]
ScanEnds ==
    /\ mon.pc = "scan" /\ (Dead(mon.todo) = {} \/ ~Exists)
    /\ mon' = Idle
    /\ NoFault
    /\ UNCHANGED <<hostVars, siteVars, status, policy, req, writer, restarts>>

\* The row becomes what the monitor says and nginx loses a dead backend; a row
\* that is gone ends the pass with an exception.
Records(r, state) ==
    LET rows == [row EXCEPT ![r].status = state]
    IN  IF row[r] = None THEN mon' = Idle /\ UNCHANGED <<row, site>> /\ NoFault
        ELSE /\ row' = rows
             /\ mon' = NextCase([mon.seen EXCEPT ![r].status = state])
             /\ \/ /\ site' = Config(Guarded(mon.flag, trans), Backends(rows))
                   /\ Happened(Stale(mon.flag) \cup Recorded)
                   /\ UNCHANGED faults
                \/ Rejects

\* Restart policy "no", or too many restarts in the window.
GiveUp ==
    /\ mon.pc = "scan" /\ Dead(mon.todo) # {} /\ Exists /\ MayWrite(None)
    /\ \/ policy = "no" /\ Records(Case, "stopped")
       \/ policy # "no" /\ restarts[Case] >= MaxRestarts /\ Records(Case, "error")
    /\ UNCHANGED <<box, foreign, flag, trans, status, policy, req, writer, restarts>>

\* Mutant: the restarts of the window are not counted before the next one.
BackOffUncounted ==
    /\ mon.pc = "scan" /\ Dead(mon.todo) # {} /\ Exists /\ policy # "no"
    /\ restarts' = [restarts EXCEPT ![Case] = @ + 1]
    /\ mon' = [mon EXCEPT !.pc = "wait", !.todo = {Case} \cup Rest]
    /\ NoFault
    /\ UNCHANGED <<hostVars, siteVars, status, policy, req, writer>>

BackOff ==
    /\ mon.pc = "scan" /\ Dead(mon.todo) # {} /\ Exists
    /\ policy # "no" /\ restarts[Case] < MaxRestarts
    /\ restarts' = [restarts EXCEPT ![Case] = @ + 1]
    /\ mon' = [mon EXCEPT !.pc = "wait", !.todo = {Case} \cup Rest]
    /\ NoFault
    /\ UNCHANGED <<hostVars, siteVars, status, policy, req, writer>>

\* The status the pass derives: its own objects keep the values it read.
MonitorStatus(seen) ==
    LET known == [r \in Ids |-> IF row[r] # None /\ seen[r] # None THEN seen[r] ELSE row[r]]
    IN  IF DerivedStatus(known) = mon.app THEN status ELSE DerivedStatus(known)

\* After the back-off the container is started whatever has become of the row.
\* Writing "running" over the "running" it read changes no column.
Revive ==
    LET r == Min(mon.todo)
        p == mon.seen[r].port
        rest == mon.todo \ {r}
        unwanted == row[r] # mon.seen[r] \/ Busy
    IN  /\ mon.pc = "wait" /\ CanStartHere(r, p)
        /\ box' = [box EXCEPT ![r] = IF @ = 0 THEN p ELSE @]
        /\ Happened(IF unwanted THEN {"revived"} ELSE {})
        /\ mon' = IF rest = {} \/ row[r] = None \/ ~MayWrite(None) THEN Idle
                  ELSE [mon EXCEPT !.pc = "scan", !.todo = rest]
        /\ status' = IF row[r] = None \/ ~MayWrite(None) THEN status ELSE MonitorStatus(mon.seen)
        /\ UNCHANGED <<row, foreign, siteVars, policy, req, writer, restarts, faults>>

\* The start fails: the port is taken, or docker refuses.
ReviveFails ==
    LET r == Min(mon.todo)
        refused == CanStartHere(r, mon.seen[r].port)
        what == IF refused THEN {"failed"} ELSE {}
        rows == [row EXCEPT ![r].status = "error"]
        rest == mon.todo \ {r}
        seen == [mon.seen EXCEPT ![r].status = "error"]
    IN  /\ mon.pc = "wait" /\ MayWrite(None)
        /\ refused => MayFail
        /\ faults' = faults + Cardinality(what)
        /\ IF row[r] = None
           THEN mon' = Idle /\ Happened(what) /\ UNCHANGED <<row, site, status>>
           ELSE /\ row' = rows
                /\ status' = MonitorStatus(seen)
                /\ site' = Config(Guarded(mon.flag, trans), Backends(rows))
                /\ mon' = IF rest = {} THEN Idle
                          ELSE [mon EXCEPT !.pc = "scan", !.todo = rest, !.seen = seen]
                /\ Happened(what \cup Stale(mon.flag) \cup Recorded)
        /\ UNCHANGED <<box, foreign, flag, trans, policy, req, writer, restarts>>

-----------------------------------------------------------------------------
(* Faults, and the start-up                                                *)

ContainerDies(r) ==
    /\ box[r] # 0 /\ box' = Stopped(r) /\ Fault("died")
    /\ UNCHANGED <<row, foreign, siteVars, appVarsButFaults>>

PortTaken(p) ==
    /\ p \notin Bound /\ foreign' = foreign \cup {p} /\ Fault("foreign")
    /\ UNCHANGED <<row, box, siteVars, appVarsButFaults>>

\* A crash and the next lifespan start-up: handlers, tasks, the monitor and
\* its history, transitions and the lock are gone; rows follow the containers,
\* auto_start starts what is stopped, and nginx is generated again.
Reconciled ==
    [r \in Ids |-> IF row[r] = None THEN None
                   ELSE IF row[r].status \in {"starting", "stopping", "deploying"} THEN row[r]
                   ELSE [row[r] EXCEPT !.status = Observed(r)]]
Wanted == IF AutoStart THEN WithStatus(Reconciled, {"stopped"}) ELSE {}
\* In row order, a start fails when the port is bound by then.
AutoStarted ==
    {r \in Wanted : /\ Reconciled[r].port \notin Bound
                    /\ \A s \in Wanted : s < r => Reconciled[s].port # Reconciled[r].port}
\* A page the crash left up is taken down and the file written from the rows.
Regenerated(rows) == IF Exists THEN Config(flag, Backends(rows)) ELSE site
Reboot ==
    LET rows == [r \in Ids |-> IF r \in AutoStarted
                               THEN [Reconciled[r] EXCEPT !.status = "running"] ELSE Reconciled[r]]
    IN  /\ Fault("crash")
        /\ req' = [q \in Requests |-> IF req[q].pc = "new" THEN req[q] ELSE Ended]
        /\ row' = rows
        /\ box' = [r \in Ids |-> IF r \in AutoStarted THEN row[r].port ELSE box[r]]
        /\ status' = IF Rows(rows) = {} THEN status ELSE DerivedStatus(rows)
        /\ site' = Regenerated(rows)
        /\ trans' = Nobody /\ writer' = None /\ mon' = Idle
        /\ restarts' = [r \in Ids |-> 0]
        /\ sync' = IF sync.pc = "new" THEN sync ELSE SyncOver
        /\ UNCHANGED <<foreign, flag, policy>>

-----------------------------------------------------------------------------
(* Specification                                                           *)

\* An application with replicas that run, or that have not been started, and
\* the configuration its last request left.
Init ==
    /\ \E start \in Starts :
          LET Of(r) == [status |-> start.status, port |-> r]
          IN  /\ row = [r \in Ids |-> IF r <= start.replicas THEN Of(r) ELSE None]
              /\ box = [r \in Ids |-> IF row[r] = None \/ start.status = "stopped" THEN 0 ELSE r]
              /\ status = DerivedStatus(row)
              /\ site = Config("normal", Backends(row))
              /\ policy = start.policy
    /\ foreign = {} /\ flag = "normal" /\ trans = Nobody
    /\ req = [q \in Requests |-> Fresh]
    /\ writer = None
    /\ mon = Idle /\ sync = NoSync
    /\ restarts = [r \in Ids |-> 0]
    /\ faults = 0 /\ events = {}

Arrive(q) ==
    \/ StartApp(q) \/ StopApp(q) \/ RestartApp(q) \/ ScaleApp(q) \/ DeleteApp(q)
    \/ \E r \in Ids : RestartInstance(q, r) \/ DeleteInstance(q, r)
    \/ DeployZeroDowntime(q)
    \/ ToggleMaintenance(q) \/ ToggleUpdate(q) \/ RefreshNginx(q)
Handle(q) ==
    \/ InsertRow(q) \/ InsertFails(q) \/ StopBox(q) \/ StartBox(q)
    \/ Finish(q) \/ FinishFails(q)
    \/ ZdPick(q) \/ ZdPickFails(q) \/ ZdInsert(q) \/ ZdStart(q) \/ ZdCheck(q) \/ ZdSwitch(q)
    \/ ZdRetire(q) \/ ZdFinish(q) \/ ZdUndo(q)
Task(q) == Poll(q) \/ WaitEnds(q) \/ Restore(q)
Monitor == Scan \/ ScanEnds \/ GiveUp \/ BackOff \/ Revive \/ ReviveFails
Environment ==
    \/ (\E r \in Ids : ContainerDies(r)) /\ UNCHANGED sync
    \/ (\E p \in 1..RangeEnd : PortTaken(p)) /\ UNCHANGED sync
    \/ Reboot

\* All requests are answered.
Rests ==
    /\ \A q \in Requests : req[q].pc \in {"new", "done"}
    /\ sync.pc \in {"new", "done"}
    /\ UNCHANGED vars

Work ==
    \/ \E q \in Requests : Handle(q) \/ Task(q)
    \/ Sync({}) \/ Sync(Aged)
    \/ Monitor
Progress == (Work /\ UNCHANGED sync) \/ SyncSteps
Next ==
    \/ ((\E q \in Requests : Arrive(q)) \/ Expire) /\ UNCHANGED sync
    \/ SyncReads
    \/ Environment
    \/ Progress
    \/ Rests

Spec == Init /\ [][Next]_vars

\* Handlers, tasks and the monitor are coroutines that run on, and the panel
\* polls the application it shows.  None of them works for ever, so it is
\* enough that one of them takes a step while one can.
FairSpec == Spec /\ WF_vars(Progress)
-----------------------------------------------------------------------------
(* Properties                                                              *)

Points == {"new", "insert", "stop", "start", "finish", "pick", "check", "switch", "retire",
           "undo", "task", "restore", "done"}
RowTable == [Ids -> Row \cup {None}]
Sessions == [kind : Kinds \cup {None}, pc : Points, todo : SUBSET Ids, seen : RowTable,
             mem : RowTable, touched : SUBSET Ids, flag : Modes, app : Statuses \cup {None},
             shown : BOOLEAN, new : SUBSET Ids, port : Ports \cup {0}, late : BOOLEAN,
             stable : BOOLEAN]
\* Every variable keeps its type; the rows and statuses of a session included.
HandlersTyped ==
    /\ row \in RowTable
    /\ box \in [Ids -> Ports \cup {0}] /\ foreign \subseteq Ports
    /\ site \in [page : StaticPages \cup {"proxy", "downtime", "none"}, ups : SUBSET Ports]
    /\ flag \in Modes
    /\ trans \in [page : TransitionPages, by : Requests] \cup {Nobody}
    /\ status \in Statuses \cup {"deleted"} /\ policy \in {"no", "always"}
    /\ req \in [Requests -> Sessions]
    /\ writer \in Requests \cup {None}
    /\ mon \in [pc : {"idle", "scan", "wait"}, todo : SUBSET Ids, seen : RowTable,
                flag : Modes, app : Statuses \cup {"deleted", None}]
    /\ restarts \in [Ids -> 0..MaxRestarts] /\ faults \in 0..MaxFaults
TypeOK ==
    /\ HandlersTyped
    /\ sync \in [pc : {"new", "look", "save", "done"}, todo : SUBSET Ids, seen : RowTable,
                 mem : RowTable, app : Statuses \cup {None}]

Quiet == mon.pc = "idle" /\ ~Busy
Without(what) == events \cap what = {}

\* Between requests the rows tell the truth about the containers: a running
\* row has one that binds its port, every other row and every deleted one has
\* none.  It is what start, stop, restart, delete, scale and the deploy leave,
\* one after another and through port conflicts.  Each excluded event breaks
\* it in the code: requests that overlap, a container that dies, a roll-back
\* after docker or nginx failed, a monitor that restarts what was stopped
\* meanwhile, and a poll that records a container a request is replacing, or
\* one that has changed since the poll looked.
HostAgrees ==
    Quiet /\ Without({"overlap", "died", "nginx", "failed", "revived", "crash", "recorded"}) =>
        \A r \in Ids :
            IF row[r] # None /\ row[r].status = "running" THEN box[r] = row[r].port
            ELSE box[r] = 0

\* No container outlives its row: delete_instance, delete_app, the deploy's
\* retirement and its roll-back stop the container of every row they delete,
\* also when containers die, another process takes a port, or a deploy fails.
NoOrphan ==
    Quiet /\ Without({"overlap", "failed", "revived", "crash", "nginx", "recorded"}) =>
        \A r \in Ids : row[r] = None => box[r] = 0

\* No two replicas are given one host port by _assign_external_port, a scale
\* or a deploy, whatever fails, dies or crashes; requests that overlap pick
\* before the other's row is there, and the retry after a bind conflict, with
\* another process or a container the monitor revived, looks at the host and
\* not at the rows.
PortsDistinct ==
    Without({"overlap", "foreign", "revived"}) =>
        \A r, s \in Rows(row) : r # s => row[r].port # row[s].port

\* When handlers, restore tasks and the monitor are through, nginx serves what
\* the rows and the operator's mode ask for; a transition page is left only
\* when no backend runs, since the restore task then gives up.  Two of the
\* excluded events are about the mode: "stale", a handler or the monitor wrote
\* one it had read before the operator changed it, and "overridden", a deploy
\* wrote its literal "normal" while the operator had a page up.
SiteAgrees ==
    /\ mon.pc = "idle" /\ trans = Nobody /\ \A q \in Requests : req[q].pc \in {"new", "done"}
    /\ Without({"overlap", "died", "failed", "nginx", "stale", "revived", "recorded",
                "crash", "meddled", "overridden"})
    => \/ site = IF Exists THEN Config(flag, Backends(row)) ELSE NoSite
       \/ OnTransitionPage /\ Backends(row) = {}

\* The step with which a deploy hands nginx its new replicas.
Switches == \E q \in Requests : req[q].pc = "switch" /\ req'[q].pc \in {"retire", "finish"}

\* The page an operator put up, maintenance or update, is left alone by every
\* start, restart, scale, delete of an instance, refresh, restore task, monitor
\* pass and start-up.  It leaves by the operator, with the application, by a
\* handler or a monitor pass that writes a mode it read before the operator's
\* change, and by a deploy: deploy_zero_downtime writes the literal "normal"
\* and takes down any page it finds, with no other request beside it.
MaintenanceStays ==
    [][ site.page \in Modes /\ site'.page # site.page =>
            flag' # flag \/ ~Exists' \/ "stale" \in events' \/ Switches ]_vars

\* A deploy without downtime: from its first step to its last, roll-back
\* included, an application that is served stays served unless the operator has
\* a page up, whatever start or health check of the deploy fails, and also when
\* the operator or a restore task writes nginx between two of its steps.  It
\* does not hold when another request works on it, a container dies or nginx
\* refuses the new backends, nor when earlier trouble left containers without
\* rows or rows without containers, or the monitor's restart of a replica that
\* is up again fails.
ZeroDowntime ==
    [][ /\ \E q \in Requests : InFlight(q) /\ req[q].kind = "zd"
        /\ Served /\ flag' = "normal"
        => Served' \/ events' \cap {"overlap", "died", "nginx", "failed", "revived", "recorded",
                                   "crash", "unhidden"} # {} ]_vars

\* A start or restart page is taken down once the application has backends to
\* serve: by the restore task, by the end of the handler, or at the next
\* start-up when the process crashed with the page up.
PageLeaves ==
    <>[](/\ Backends(row) # {}
         /\ Without({"overlap", "died", "failed", "nginx", "recorded", "revived"}))
    => []<>~OnTransitionPage

\* Whatever failed, died, overlapped or crashed, the rows come to agree with the
\* containers: the panel's polls and the monitor repair what requests left.
Converges == <>[](\A r \in Rows(row) : row[r].status = "running" <=> box[r] # 0)
=============================================================================
