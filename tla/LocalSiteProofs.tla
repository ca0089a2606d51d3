---------------------------- MODULE LocalSiteProofs ----------------------------
(***************************************************************************)
(* nginx serves what the rows and the operator's mode ask for: the site    *)
(* of the application, and what each handler leaves of it until its end.   *)
(***************************************************************************)
EXTENDS LocalAppProofs

Pending == \E q \in Requests : req[q].pc \in {"task", "restore"}

\* The site between requests: what the rows and the mode ask for, or a page that
\* a task is about to take down, or one that no backend could replace.
SiteRight ==
    IF Exists THEN \/ site = Config(flag, Backends(row))
                   \/ OnTransitionPage /\ (Backends(row) = {} \/ Pending)
    ELSE site = NoSite

\* A transition in force is a request's that has shown its page and is not through.
PageOwned == trans # Nobody => req[trans.by].shown /\ req[trans.by].pc \notin {"new", "done"}

\* A handler that shows no page writes the site when it ends; a deploy leaves it
\* until its new replicas take over.
WorkSite(q) ==
    LET h == req[q]
    IN  /\ h.shown => OnTransitionPage /\ h.kind \in {"start", "restart"}
        /\ h.kind = "scale" /\ h.pc # "insert" => Rows(h.mem) # {}
        /\ h.kind = "zd" =>
             IF h.pc \in {"retire", "finish"}
             THEN flag = "normal" /\ site = Config("normal", {row[r].port : r \in h.new})
             ELSE SiteRight

SiteClean == UpClean /\ Without({"stale", "meddled", "overridden"})
SiteInv == SiteClean => /\ PageOwned
                        /\ ~Busy => SiteRight
                        /\ \A q \in Requests : InFlight(q) => WorkSite(q)

\* A step that leaves the running rows as they are.
SameRunning ==
    \A r \in Ids : /\ Down(row'[r]) <=> Down(row[r])
                   /\ ~Down(row[r]) => row'[r].port = row[r].port

LEMMA RunningRows ==
    ASSUME NEW rows
    PROVE  WithStatus(rows, {"running"}) = {r \in Ids : ~Down(rows[r])}
BY DEF WithStatus, Rows, Down

LEMMA SameBackends ==
    ASSUME SameRunning
    PROVE  Backends(row') = Backends(row)
<1>1. WithStatus(row', {"running"}) = WithStatus(row, {"running"})
  BY RunningRows DEF SameRunning
<1>2. \A r \in WithStatus(row, {"running"}) : row'[r].port = row[r].port
  BY RunningRows DEF SameRunning
<1> QED BY <1>1, <1>2 DEF Backends

\* A write for the mode in force is right, also when a transition hides it.
LEMMA GuardedRight ==
    ASSUME TypeInv, Exists', UNCHANGED flag,
           trans # Nobody => \E q \in Requests : req'[q].pc \in {"task", "restore"},
           site' = Config(Guarded(flag, trans), Backends(row'))
    PROVE  SiteRight'
<1>1. CASE flag = "normal" /\ trans # Nobody
  <2>1. trans.page \in TransitionPages
    BY <1>1, TypesOfState DEF Transitions
  <2>2. site'.page = trans.page
    <3>1. /\ site' = Config(trans.page, Backends(row'))
          /\ trans.page \in StaticPages /\ trans.page # "normal"
      BY <1>1, <2>1 DEF Guarded, StaticPages, TransitionPages
    <3>2. site' = StaticPage(trans.page)
      BY <3>1 DEF Config
    <3> QED BY <3>2 DEF StaticPage
  <2> QED BY <1>1, <2>1, <2>2 DEF SiteRight, OnTransitionPage, Pending
<1>2. CASE ~(flag = "normal" /\ trans # Nobody)
  BY <1>2 DEF Guarded, SiteRight
<1> QED BY <1>1, <1>2

\* Nothing but delete_app's end takes the application away.
LEMMA AsideExists ==
    ASSUME TypeInv, Gone, Aside, "crash" \notin events'
    PROVE  Exists' <=> Exists
<1>1. (\E q \in Requests : Task(q)) \/ Expire \/ UNCHANGED handlerVars => UNCHANGED status
  BY DEF Task, Poll, WaitEnds, Restore, Expire, handlerVars
<1>2. Sync({}) \/ Sync(Aged) \/ SyncsLate => (Exists' <=> Exists)
  BY DerivedExists DEF Sync, SyncsLate, Exists, Statuses
<1>3. Monitor => (Exists' <=> Exists)
  <2>1. Scan \/ ScanEnds \/ GiveUp \/ BackOff => UNCHANGED status
    BY DEF Scan, ScanEnds, GiveUp, BackOff
  <2>2. Revive \/ ReviveFails => UNCHANGED status \/ \E seen : status' = MonitorStatus(seen)
    BY DEF Revive, ReviveFails
  <2>3. \A seen : Exists => MonitorStatus(seen) # "deleted"
    BY DerivedExists DEF MonitorStatus, Exists
  <2> QED BY <2>1, <2>2, <2>3, GoneMonitor DEF Monitor, Exists, StaysGone
<1>4. Environment => UNCHANGED status
  BY DEF Environment, ContainerDies, PortTaken, appVarsButFaults, Reboot, Fault, Happened
<1> QED BY <1>1, <1>2, <1>3, <1>4 DEF Aside, Exists

LEMMA TaskSite ==
    ASSUME TypeInv, Gone, NEW q \in Requests, Task(q), SiteClean'
    PROVE  /\ UNCHANGED <<row, flag>> /\ (Busy => UNCHANGED site)
           /\ PageOwned => PageOwned'
           /\ SiteRight => SiteRight'
<1>1. UNCHANGED <<row, flag, status>>
  BY DEF Task, Poll, WaitEnds, Restore, hostVars, siteVars
<1>2. /\ req[q].pc \in {"task", "restore"} /\ \A o \in Requests : o # q => req'[o] = req[o]
      /\ req'[q].pc # "done" => req'[q].shown = req[q].shown
  <2>1. req[q].pc \in {"task", "restore"}
    BY TaskMoves
  <2>2. PICK h : TaskGoesOn(q, h)
    BY TaskMoves
  <2>3. req' = [req EXCEPT ![q] = h] /\ (h.pc # "done" => h.shown = req[q].shown)
    BY <2>2 DEF TaskGoesOn
  <2>4. req'[q] = h
    BY <2>3, SessionOf
  <2> QED BY <2>1, <2>3, <2>4
<1>3. CASE Poll(q) \/ WaitEnds(q)
  <2>1. UNCHANGED <<site, trans>>
    BY <1>3 DEF Poll, WaitEnds, siteVars
  <2>2. req'[q].pc \in {"task", "restore"}
    <3>1. CASE Poll(q)
      <4>1. req'[q] = [req[q] EXCEPT !.stable = Quorum,
                                     !.pc = IF req[q].stable /\ Quorum THEN "restore" ELSE "task"]
        BY <3>1, SessionOf DEF Poll
      <4> QED BY <4>1, SessionOf DEF Sessions
    <3>2. CASE WaitEnds(q)
      <4>1. req'[q] = [req[q] EXCEPT !.late = TRUE, !.stable = FALSE,
                                     !.pc = IF req[q].late THEN "restore" ELSE "task"]
        BY <3>2, SessionOf DEF WaitEnds
      <4> QED BY <4>1, SessionOf DEF Sessions
    <3> QED BY <1>3, <3>1, <3>2
  <2>3. Pending => Pending'
    BY <1>2, <2>2 DEF Pending
  <2>4. PageOwned => PageOwned'
    <3>1. trans # Nobody => trans.by \in Requests
      BY TypesOfState DEF Transitions
    <3> QED BY <1>2, <2>1, <2>2, <3>1 DEF PageOwned
  <2> QED BY <1>1, <2>1, <2>3, <2>4 DEF SiteRight, OnTransitionPage, Exists
<1>4. CASE Restore(q)
  <2>1. PageOwned'
    BY <1>4 DEF Restore, PageOwned
  <2>2. CASE Backends(row) = {}
    <3>1. UNCHANGED site
      BY <1>4, <2>2 DEF Restore
    <3> QED BY <1>1, <2>1, <2>2, <3>1 DEF SiteRight, OnTransitionPage, Exists
  <2>3. CASE Backends(row) # {}
    <3>1. site' = Config(flag, Backends(row)) /\ Happened(Meddling)
      BY <1>4, <2>3 DEF Restore, Accepts, Rejects, Fault, Happened, RestoredConfig, SiteClean,
                        UpClean, TruthClean, Without
    <3>2. ~Busy
      BY <3>1 DEF Happened, Meddling, SiteClean, Without
    <3>3. Exists
      BY <2>3 DEF Gone, Backends, WithStatus
    <3> QED BY <1>1, <2>1, <3>1, <3>2, <3>3 DEF SiteRight, Exists
  <2> QED BY <2>2, <2>3
<1> QED BY <1>3, <1>4 DEF Task

\* While a request works nothing aside touches the site.
LEMMA AsideLeavesSite ==
    ASSUME TypeInv, Gone, Aside, SiteClean', Busy
    PROVE  UNCHANGED <<row, site, flag>>
<1>0. {"crash", "recorded", "revived", "nginx", "failed"} \cap events' = {} /\ TruthClean'
  BY DEF SiteClean, UpClean, TruthClean, Without
<1>1. UNCHANGED row
  BY <1>0, AsideWhileBusy
<1>2. (\E q \in Requests : Task(q)) => UNCHANGED <<site, flag>>
  BY TaskSite
<1>3. ~(Sync({}) \/ Sync(Aged) \/ SyncsLate)
  BY <1>0, SyncQuietly, NotLate
<1>4. Monitor => UNCHANGED <<site, flag>>
  <2>1. Scan \/ ScanEnds \/ BackOff \/ Revive => UNCHANGED <<site, flag>>
    BY DEF Scan, ScanEnds, BackOff, Revive, siteVars
  <2>2. GiveUp \/ ReviveFails => UNCHANGED site
    BY <1>0, MonitorWritesDown DEF MonitorWrites
  <2>3. GiveUp \/ ReviveFails => UNCHANGED flag
    BY DEF GiveUp, ReviveFails
  <2> QED BY <2>1, <2>2, <2>3 DEF Monitor
<1>5. Expire \/ Environment \/ UNCHANGED handlerVars => UNCHANGED <<site, flag>>
  BY <1>0 DEF Expire, Environment, ContainerDies, PortTaken, Reboot, Fault, Happened, handlerVars, siteVars
<1> QED BY <1>1, <1>2, <1>3, <1>4, <1>5 DEF Aside

\* What is right stays right while nothing changes that it is made of.
LEMMA RightStays ==
    ASSUME SiteRight, UNCHANGED <<site, flag>>, Backends(row') = Backends(row),
           Exists' <=> Exists, Pending => Pending'
    PROVE  SiteRight'
BY DEF SiteRight, OnTransitionPage

LEMMA AsideSessions ==
    ASSUME TypeInv, Aside, "crash" \notin events'
    PROVE  (\E q \in Requests : Task(q)) \/ (UNCHANGED req /\ trans' \in {trans, Nobody})
<1>1. Sync({}) \/ Sync(Aged) \/ SyncsLate \/ Expire \/ UNCHANGED handlerVars
        => UNCHANGED req /\ trans' \in {trans, Nobody}
  BY DEF Sync, SyncsLate, Expire, handlerVars, siteVars
<1>2. Monitor => UNCHANGED <<req, trans>>
  BY DEF Monitor, Scan, ScanEnds, GiveUp, BackOff, Revive, ReviveFails, siteVars
<1>3. Environment => UNCHANGED <<req, trans>>
  BY DEF Environment, ContainerDies, PortTaken, appVarsButFaults, siteVars, Reboot, Fault, Happened
<1> QED BY <1>1, <1>2, <1>3 DEF Aside

\* A transition that is in force while no handler works has a task.
LEMMA PageHasTask ==
    ASSUME TypeInv, PageOwned, ~Busy, trans # Nobody
    PROVE  Pending
<1>1. trans.by \in Requests
  BY TypesOfState DEF Transitions
<1> QED BY <1>1 DEF PageOwned, Busy, InFlight, Pending

\* Where the rows tell the truth a poll finds nothing to correct in them.
LEMMA SyncSameRunning ==
    ASSUME TypeInv, Sync({}) \/ Sync(Aged), TruthClean', RowTruth, RowUp
    PROVE  SameRunning
<1>1. PICK aged \in SUBSET Aged : row' = Synced(aged)
  BY SyncQuietly
<1>2. aged = {}
  BY DEF Aged, WithStatus, RowTruth, Settled, Rows
<1>3. ASSUME NEW r \in Ids
      PROVE  /\ Down(row'[r]) <=> Down(row[r])
             /\ ~Down(row[r]) => row'[r].port = row[r].port
  <2>1. row'[r] = IF row[r] = None THEN None ELSE [row[r] EXCEPT !.status = Observed(r)]
    BY <1>1, <1>2 DEF Synced, RowTruth, Settled
  <2>2. CASE row[r] = None
    BY <2>1, <2>2 DEF Down
  <2>3. CASE row[r] # None
    <3>1. row[r] \in Row
      BY <2>3, TypesOfState DEF RowTable
    <3>2. row'[r].status = Observed(r) /\ row'[r].port = row[r].port /\ row'[r] \in Row
      BY <2>1, <2>3, <3>1 DEF Row, Observed, Statuses
    <3>3. box[r] # 0 <=> row[r].status = "running"
      BY <2>3, <3>1 DEF RowTruth, RowUp, Up, Down, Row, Ports
    <3> QED BY <2>3, <3>2, <3>3, Bounds DEF Down, Observed
  <2> QED BY <2>2, <2>3
<1> QED BY <1>3 DEF SameRunning

\* While no request works, what is aside leaves the site right.
LEMMA AsideKeepsSiteRight ==
    ASSUME TypeInv, Gone, Aside, SiteClean', ~Busy, RowTruth, RowUp, PageOwned, SiteRight
    PROVE  SiteRight'
<1>0. {"crash", "recorded", "revived", "nginx", "failed", "died"} \cap events' = {} /\ TruthClean'
      /\ "stale" \notin events'
  BY DEF SiteClean, UpClean, TruthClean, Without
<1>1. Exists' <=> Exists
  BY <1>0, AsideExists
<1>2. ASSUME UNCHANGED <<row, site, flag, req>> PROVE SiteRight'
  BY <1>1, <1>2, RightStays DEF Pending
<1>3. ASSUME Sync({}) \/ Sync(Aged) PROVE SiteRight'
  <2>4. Backends(row') = Backends(row)
    BY <1>0, <1>3, SyncSameRunning, SameBackends
  <2>5. UNCHANGED <<site, flag, req>>
    BY <1>3 DEF Sync, siteVars
  <2> QED BY <1>1, <2>4, <2>5, RightStays DEF Pending
<1>4. ASSUME MonitorWrites, UNCHANGED <<req, flag, trans>> PROVE SiteRight'
  <2>1. site' = Config(Guarded(mon.flag, trans), Backends(row')) /\ Exists /\ mon.flag = flag
    BY <1>0, <1>4 DEF MonitorWrites, Happened, Stale
  <2>2. trans # Nobody => Pending'
    BY <1>4, PageHasTask DEF Pending
  <2> QED BY <1>1, <1>4, <2>1, <2>2, GuardedRight DEF Pending
<1>5. Monitor => \/ MonitorWrites /\ UNCHANGED <<req, flag, trans>>
                 \/ UNCHANGED <<row, site, flag, req>>
  <2>1. Scan \/ ScanEnds \/ BackOff => UNCHANGED <<row, site, flag, req>>
    BY DEF Scan, ScanEnds, BackOff, hostVars, siteVars
  <2>2. Revive => UNCHANGED <<row, site, flag, req>>
    BY DEF Revive, siteVars
  <2>3. GiveUp \/ ReviveFails => UNCHANGED <<req, flag, trans>>
    BY DEF GiveUp, ReviveFails
  <2> QED BY <1>0, <2>1, <2>2, <2>3, MonitorWritesDown DEF Monitor, hostVars
<1>6. Expire \/ Environment \/ UNCHANGED handlerVars => UNCHANGED <<row, site, flag, req>>
  BY <1>0 DEF Expire, Environment, ContainerDies, PortTaken, Reboot, Fault, Happened, handlerVars,
              hostVars, siteVars, appVarsButFaults
<1> QED BY <1>0, <1>2, <1>3, <1>4, <1>5, <1>6, TaskSite, NotLate DEF Aside

LEMMA AsideSite ==
    ASSUME TypeInv, Gone, Aside, SiteClean', PageOwned,
           ~Busy => RowTruth /\ RowUp /\ SiteRight,
           \A q \in Requests : InFlight(q) => WorkSite(q)
    PROVE  /\ PageOwned'
           /\ ~Busy' => SiteRight'
           /\ \A q \in Requests : InFlight(q)' => WorkSite(q)'
<1>0. "crash" \notin events'
  BY DEF SiteClean, UpClean, TruthClean, Without
<1>1. PageOwned'
  BY <1>0, AsideSessions, TaskSite DEF PageOwned
<1>2. ~Busy' => ~Busy
  BY <1>0, AsideEndsNone DEF Busy, InFlight
<1>3. ASSUME NEW q \in Requests, InFlight(q)' PROVE WorkSite(q)'
  <2>1. InFlight(q) /\ req'[q] = req[q] /\ Busy
    BY <1>3, AsideMovesNone DEF Busy
  <2>2. UNCHANGED <<row, site, flag>>
    BY <2>1, AsideLeavesSite
  <2>3. SiteRight => SiteRight'
    <3>1. Exists' <=> Exists
      BY <1>0, AsideExists
    <3>2. UNCHANGED req /\ SiteRight => SiteRight'
      BY <2>2, <3>1, RightStays DEF Pending
    <3> QED BY <1>0, <3>2, AsideSessions, TaskSite
  <2> QED BY <2>1, <2>2, <2>3 DEF WorkSite, OnTransitionPage
<1> QED BY <1>1, <1>2, <1>3, AsideKeepsSiteRight

\* A static page is written as it is named.
LEMMA PageNamed ==
    ASSUME NEW page \in TransitionPages, NEW backends
    PROVE  Config(page, backends).page = page
<1>1. page \in StaticPages /\ page # "normal"
  BY DEF StaticPages, TransitionPages
<1>2. Config(page, backends) = StaticPage(page)
  BY <1>1 DEF Config
<1> QED BY <1>2 DEF StaticPage

LEMMA ArriveSite ==
    ASSUME TypeInv, NEW q \in Requests, Arrive(q), SiteClean', PageOwned,
           ~Busy => SiteRight,
           \A o \in Requests : InFlight(o) => WorkSite(o)
    PROVE  /\ PageOwned'
           /\ ~Busy' => SiteRight'
           /\ \A o \in Requests : InFlight(o)' => WorkSite(o)'
<1>0. {"overlap", "nginx", "meddled"} \cap events' = {}
  BY DEF SiteClean, UpClean, TruthClean, Without
<1>1. PICK h : Opens(q, h)
  BY ArriveOpens DEF TypeInv
<1>2. /\ req[q].pc = "new" /\ Exists /\ Exists' /\ UNCHANGED row /\ ~InFlight(q)
      /\ req'[q] = h /\ \A o \in Requests : o # q => req'[o] = req[o]
      /\ InFlight(q)' => ~Busy
  BY <1>0, <1>1, ArriveAlone DEF Opens, hostVars, Exists
<1>3. ~PageRefused(q, h)
  BY <1>0 DEF PageRefused, Fault, Happened
<1>4. trans # Nobody => trans.by \in Requests
  BY TypesOfState DEF Transitions
<1>5. ASSUME UNCHANGED trans PROVE PageOwned'
  BY <1>2, <1>4, <1>5 DEF PageOwned
<1>6. StartsOn(h) => InFlight(q)' /\ Busy'
  BY <1>2 DEF StartsOn, Acting, InFlight, Busy
<1>7. CASE OpensPlainly(q, h)
  <2>1. StartsOn(h) /\ ~h.shown /\ UNCHANGED <<site, flag, trans>> /\ ~Busy
    BY <1>2, <1>6, <1>7 DEF OpensPlainly, siteVars
  <2>2. Pending => Pending'
    BY <1>2 DEF Pending
  <2>3. SiteRight'
    BY <1>2, <2>1, <2>2, RightStays
  <2>4. WorkSite(q)'
    BY <1>2, <2>1, <2>3 DEF WorkSite, StartsOn
  <2> QED BY <1>2, <1>5, <1>6, <2>1, <2>4 DEF Busy, InFlight
<1>8. CASE OpensWithPage(q, h)
  <2>1. StartsOn(h) /\ h.shown /\ h.kind \in {"start", "restart"} /\ ~Busy
    BY <1>2, <1>6, <1>8 DEF OpensWithPage
  <2>2. PICK page \in TransitionPages : trans' = [page |-> page, by |-> q] /\ site' = Config(page, {})
    BY <1>8 DEF OpensWithPage
  <2>3. OnTransitionPage'
    BY <2>2, PageNamed DEF OnTransitionPage
  <2>4. PageOwned'
    BY <1>2, <2>1, <2>2 DEF PageOwned, StartsOn, Acting
  <2>5. WorkSite(q)'
    BY <1>2, <2>1, <2>3 DEF WorkSite
  <2> QED BY <1>2, <1>6, <2>1, <2>4, <2>5 DEF Busy, InFlight
<1>9. CASE ModeShown(q, h)
  <2>1. PICK mode \in Modes : Accepts(Config(mode, Backends(row))) /\ flag' = mode
    BY <1>0, <1>9 DEF ModeShown, Rejects, Fault, Happened
  <2>2. ~Busy /\ SiteRight'
    BY <1>0, <1>2, <2>1 DEF Accepts, Meddling, Happened, SiteRight
  <2>3. h = Ended /\ UNCHANGED trans
    BY <1>9 DEF ModeShown
  <2> QED BY <1>2, <1>5, <2>2, <2>3, FreshTyped DEF Busy, InFlight
<1> QED BY <1>1, <1>3, <1>7, <1>8, <1>9 DEF Opens

\* What a step of q's handler must leave.
SiteStep(q) ==
    PageOwned' /\ IF InFlight(q)' THEN WorkSite(q)' ELSE SiteRight'

\* A session that goes on with the page it showed keeps its transition.
LEMMA HandlerOwns ==
    ASSUME TypeInv, PageOwned, NEW q \in Requests, NEW h, req'[q] = h,
           \A o \in Requests : o # q => req'[o] = req[o],
           h.shown = req[q].shown, h.pc \notin {"new", "done"} \/ ~h.shown,
           UNCHANGED trans
    PROVE  PageOwned'
<1>1. trans # Nobody => trans.by \in Requests
  BY TypesOfState DEF Transitions
<1> QED BY <1>1 DEF PageOwned

\* A handler that leaves the site alone and is not a deploy.
LEMMA WorksOn ==
    ASSUME TypeInv, PageOwned, NEW q \in Requests, InFlight(q), WorkSite(q),
           NEW h, req'[q] = h, \A o \in Requests : o # q => req'[o] = req[o],
           h.pc \in {"stop", "start", "finish"}, h.shown = req[q].shown, h.kind = req[q].kind,
           h.kind # "zd", h.kind = "scale" => Rows(h.mem) # {},
           UNCHANGED <<site, flag, trans>>
    PROVE  SiteStep(q)
<1>1. PageOwned'
  BY HandlerOwns
<1>2. WorkSite(q)'
  BY DEF WorkSite, OnTransitionPage
<1>3. InFlight(q)'
  BY DEF InFlight
<1> QED BY <1>1, <1>2, <1>3 DEF SiteStep

\* A deploy that has not switched, or has been undone, leaves the running rows
\* as they are; it comes to the switch with a new replica.
DeployMoves(q, h) ==
    /\ req'[q] = h /\ h.kind = "zd" /\ h.shown = req[q].shown
    /\ h.pc \in {"insert", "pick", "start", "check", "switch", "undo"}
    /\ h.pc = "switch" => h.new # {}
    /\ SameRunning

LEMMA DeploysOn ==
    ASSUME TypeInv, PageOwned, NEW q \in Requests, InFlight(q), WorkSite(q), req[q].kind = "zd",
           req[q].pc \notin {"retire", "finish"},
           NEW h, DeployMoves(q, h), \A o \in Requests : o # q => req'[o] = req[o],
           UNCHANGED <<site, flag, trans, status>>
    PROVE  SiteStep(q)
<1>1. PageOwned'
  BY HandlerOwns DEF DeployMoves
<1>2. SiteRight'
  <2>1. Pending => Pending'
    BY DEF Pending, InFlight
  <2> QED BY <2>1, RightStays, SameBackends DEF WorkSite, Exists, DeployMoves
<1>3. WorkSite(q)'
  BY <1>2 DEF WorkSite, DeployMoves
<1>4. InFlight(q)'
  BY DEF InFlight, DeployMoves
<1> QED BY <1>1, <1>3, <1>4 DEF SiteStep

LEMMA InsertSite ==
    ASSUME TypeInv, PageOwned, NEW q \in Requests, WorkSite(q), Handle(q), InsertRow(q)
    PROVE  SiteStep(q)
<1> DEFINE id == NextId(row)
           rec == [status |-> "pending", port |-> req[q].port]
           mem == [NoRows EXCEPT ![id] = rec]
           h == [req[q] EXCEPT !.pc = "start", !.todo = {id}, !.mem = mem]
<1>1. /\ req[q].pc = "insert" /\ req[q].kind = "scale" /\ id \in Ids
      /\ req' = [req EXCEPT ![q] = h] /\ UNCHANGED <<site, flag, trans>>
  BY DEF InsertRow, siteVars
<1> HIDE DEF id
<1>2. /\ req[q] \in Sessions /\ Fits(req[q]) /\ req'[q] = h /\ InFlight(q)
      /\ \A o \in Requests : o # q => req'[o] = req[o]
  BY <1>1, SessionOf, HandleMovesOne
<1>3. Rows(mem) # {}
  <2>1. mem[id] = rec
    BY <1>1 DEF NoRows
  <2>2. rec # None
    BY <1>1, <1>2, Bounds DEF Fits, Row, Statuses
  <2> QED BY <1>1, <2>1, <2>2 DEF Rows
<1> HIDE DEF mem
<1>4. h.pc = "start" /\ h.kind = "scale" /\ h.mem = mem /\ h.shown = req[q].shown
  BY <1>1, <1>2 DEF Sessions
<1> HIDE DEF h
<1> QED BY <1>1, <1>2, <1>3, <1>4, WorksOn

LEMMA MovesOnSite ==
    ASSUME TypeInv, PageOwned, NEW q \in Requests, WorkSite(q), InFlight(q), req[q].kind # "zd",
           req[q].kind = "scale" => req[q].pc # "insert",
           NEW todo, NEW pc, NEW mem, NEW touched, MovesOn(q, todo, pc, mem, touched),
           \A o \in Requests : o # q => req'[o] = req[o],
           UNCHANGED <<site, flag, trans>>
    PROVE  SiteStep(q)
<1> DEFINE h == [req[q] EXCEPT !.todo = todo, !.pc = pc, !.mem = mem, !.touched = touched]
<1>1. /\ Rows(mem) = Rows(req[q].mem) /\ req'[q] = h /\ pc \in {"stop", "start", "finish"}
      /\ req[q] \in Sessions
  BY SessionOf DEF MovesOn
<1>2. h.pc = pc /\ h.kind = req[q].kind /\ h.mem = mem /\ h.shown = req[q].shown
  BY <1>1 DEF Sessions
<1> HIDE DEF h
<1>3. h.kind = "scale" => Rows(mem) # {}
  BY <1>1, <1>2 DEF WorkSite
<1> QED BY <1>1, <1>2, <1>3, WorksOn

LEMMA DockerSite ==
    ASSUME TypeInv, PageOwned, NEW q \in Requests, WorkSite(q), Handle(q),
           StopBox(q) \/ StartBox(q), "failed" \notin events'
    PROVE  SiteStep(q)
<1>1. InFlight(q) /\ \A o \in Requests : o # q => req'[o] = req[o]
  BY HandleMovesOne
<1>2. UNCHANGED <<site, flag, trans>> /\ req[q].pc \in {"stop", "start"}
  BY DEF StopBox, StartBox, siteVars
<1>3. req[q].kind # "zd" /\ \E todo, pc, mem, touched : MovesOn(q, todo, pc, mem, touched)
  <2>1. CASE StopBox(q)
    BY <2>1, StopMovesOn
  <2>2. CASE StartBox(q)
    <3>1. StartMoves(q, "running", StartPort(Turn(q), req[q].mem[Turn(q)].port)) /\ req[q].kind # "zd"
      BY <2>2, StartOutcomes DEF Raise, Fault, Happened
    <3> QED BY <3>1 DEF StartMoves
  <2> QED BY <2>1, <2>2
<1> QED BY <1>1, <1>2, <1>3, MovesOnSite

\* A deploy's early steps leave the running rows as they are.
LEMMA ZdEarlyMoves ==
    ASSUME TypeInv, NEW q \in Requests, DeployTruth(q), Handle(q),
           ZdPick(q) \/ ZdCheck(q) \/ ZdInsert(q) \/ ZdStart(q)
    PROVE  \E h : DeployMoves(q, h)
<1>1. /\ req[q] \in Sessions /\ Fits(req[q]) /\ req[q].kind = "zd"
      /\ req[q].pc \in {"pick", "check", "insert", "start"}
      /\ InFlight(q) /\ \A o \in Requests : o # q => req'[o] = req[o]
      /\ UNCHANGED <<site, flag, trans, status>>
  BY SessionOf, HandleMovesOne DEF ZdPick, ZdCheck, ZdInsert, ZdStart, DeployTruth, siteVars
<1>8. UNCHANGED row => SameRunning
  BY DEF SameRunning
<1>2. CASE ZdPick(q)
  <2> DEFINE h == [req[q] EXCEPT !.pc = "insert", !.port = AssignedPort]
  <2>1. req'[q] = h /\ UNCHANGED row
    BY <1>2, SessionOf DEF ZdPick, hostVars
  <2>2. h.kind = "zd" /\ h.pc = "insert" /\ h.shown = req[q].shown
    BY <1>1 DEF Sessions
  <2> HIDE DEF h
  <2> QED BY <1>1, <1>8, <2>1, <2>2 DEF DeployMoves
<1>3. CASE req' = Undo(q) /\ UNCHANGED row
  <2> DEFINE h == [req[q] EXCEPT !.pc = "undo", !.todo = req[q].new]
  <2>1. req'[q] = h
    BY <1>1, <1>3, SessionOf, UndoTyped DEF Acting, Undo
  <2>2. h.kind = "zd" /\ h.pc = "undo" /\ h.shown = req[q].shown
    BY <1>1 DEF Sessions
  <2> HIDE DEF h
  <2> QED BY <1>1, <1>3, <1>8, <2>1, <2>2 DEF DeployMoves
<1>4. CASE ZdCheck(q) /\ req' = [req EXCEPT ![q] = [@ EXCEPT !.pc = "switch"]]
  <2> DEFINE h == [req[q] EXCEPT !.pc = "switch"]
  <2>1. req'[q] = h /\ UNCHANGED row /\ req[q].new # {}
    BY <1>1, <1>4, SessionOf DEF ZdCheck, Fits, hostVars
  <2>2. h.kind = "zd" /\ h.pc = "switch" /\ h.shown = req[q].shown /\ h.new # {}
    BY <1>1, <2>1 DEF Sessions
  <2> HIDE DEF h
  <2> QED BY <1>1, <1>8, <2>1, <2>2 DEF DeployMoves
<1>5. CASE ZdInsert(q)
  <2> DEFINE id == NextId(row)
             rec == [status |-> "starting", port |-> req[q].port]
             h == [req[q] EXCEPT !.pc = "start", !.new = req[q].new \cup {id}]
  <2>1. /\ id \in Ids /\ req' = [req EXCEPT ![q] = h] /\ row' = [row EXCEPT ![id] = rec]
    BY <1>5 DEF ZdInsert
  <2>2. row[id] = None
    BY <2>1, NextIdAbove, TypesOfState DEF Rows
  <2> HIDE DEF id
  <2>3. req'[q] = h /\ h.kind = "zd" /\ h.pc = "start" /\ h.shown = req[q].shown
    BY <1>1, <2>1, SessionOf DEF Sessions
  <2> HIDE DEF h
  <2>4. \A r \in Ids : r # id => row'[r] = row[r]
    BY <2>1, TypesOfState DEF RowTable
  <2>5. row'[id].status = "starting"
    BY <2>1, TypesOfState DEF RowTable
  <2>6. SameRunning
    BY <2>2, <2>4, <2>5 DEF SameRunning, Down
  <2> QED BY <1>1, <2>3, <2>6 DEF DeployMoves
<1>6. CASE ZdStarts(q)
  <2> DEFINE id == Max(req[q].new)
             p == req[q].port
             rest == req[q].todo \ {Turn(q)}
             h == [req[q] EXCEPT !.todo = rest, !.pc = IF rest = {} THEN "check" ELSE "pick"]
  <2>1. /\ req[q].pc = "start" /\ req[q].new # {} /\ req[q].new \subseteq Rows(row)
        /\ row[id].status = "starting" /\ id \in Ids /\ id \in Rows(row)
    BY <1>1, <1>6, NewestTyped DEF ZdStarts, Fits, DeployTruth
  <2>2. row' = [row EXCEPT ![id].port = StartPort(id, p)] /\ req' = [req EXCEPT ![q] = h]
    BY <1>6 DEF ZdStarts
  <2> HIDE DEF id
  <2>3. req'[q] = h /\ h.kind = "zd" /\ h.pc \in {"check", "pick"} /\ h.shown = req[q].shown
    BY <1>1, <2>2, SessionOf DEF Sessions
  <2> HIDE DEF h
  <2>4. row[id] \in Row /\ row \in RowTable
    BY <2>1, TypesOfState DEF RowTable, Rows
  <2>5. \A r \in Ids : r # id => row'[r] = row[r]
    BY <2>2, <2>4 DEF RowTable
  <2>6. row'[id].status = "starting"
    BY <2>1, <2>2, <2>4 DEF RowTable, Row
  <2>7. SameRunning
    BY <2>1, <2>5, <2>6 DEF SameRunning, Down
  <2> QED BY <1>1, <2>3, <2>7 DEF DeployMoves
<1>7. ZdCheck(q) => \/ req' = Undo(q) /\ UNCHANGED row
                    \/ req' = [req EXCEPT ![q] = [@ EXCEPT !.pc = "switch"]]
  BY DEF ZdCheck, hostVars
<1>9. ZdTurnsBack(q) => req' = Undo(q) /\ UNCHANGED row
  BY DEF ZdTurnsBack
<1> QED BY <1>2, <1>3, <1>4, <1>5, <1>6, <1>7, <1>9, ZdStartOutcomes

LEMMA ZdEarlySite ==
    ASSUME TypeInv, PageOwned, NEW q \in Requests, DeployTruth(q), WorkSite(q), Handle(q),
           ZdPick(q) \/ ZdCheck(q) \/ ZdInsert(q) \/ ZdStart(q)
    PROVE  SiteStep(q)
<1>1. /\ req[q].kind = "zd" /\ req[q].pc \in {"pick", "check", "insert", "start"}
      /\ InFlight(q) /\ \A o \in Requests : o # q => req'[o] = req[o]
      /\ UNCHANGED <<site, flag, trans, status>>
  BY SessionOf, HandleMovesOne DEF ZdPick, ZdCheck, ZdInsert, ZdStart, DeployTruth, siteVars
<1> QED BY <1>1, ZdEarlyMoves, DeploysOn

\* A roll-back deletes rows that do not run yet.
LEMMA ZdUndoMoves ==
    ASSUME TypeInv, NEW q \in Requests, DeployTruth(q), ZdUndo(q)
    PROVE  SameRunning /\ (req'[q] = Ended \/ \E h : DeployMoves(q, h))
<1> DEFINE t == Turn(q)
           rest == req[q].todo \ {t}
           h == [req[q] EXCEPT !.todo = rest]
<1>1. /\ req[q].pc = "undo" /\ req[q] \in Sessions /\ req[q].kind = "zd" /\ Fits(req[q])
      /\ req[q].todo \subseteq req[q].new
      /\ \A r \in Rows(row) \cap req[q].new : row[r].status = "starting"
  BY SessionOf DEF ZdUndo, DeployTruth
<1>2. t \in req[q].todo /\ t \in Ids
  <2>1. req[q].todo \in SUBSET Nat /\ req[q].todo # {} /\ req[q].todo \subseteq Ids
    BY <1>1, Bounds DEF Fits, Sessions
  <2> QED BY <2>1, MinIsIn DEF Turn
<1>3. Down(row[t])
  BY <1>1, <1>2 DEF Down, Rows
<1>4. \A r \in Ids : row'[r] = IF r = t THEN None ELSE row[r]
  BY <1>1, <1>2, TypesOfState DEF ZdUndo, RowTable
<1> HIDE DEF t
<1>5. SameRunning
  BY <1>3, <1>4 DEF SameRunning, Down
<1>6. CASE rest = {}
  <2>1. req'[q] = Ended
    BY <1>6, SessionOf DEF ZdUndo, t
  <2> QED BY <1>5, <2>1
<1>7. CASE rest # {}
  <2>1. req'[q] = h
    BY <1>7, SessionOf DEF ZdUndo, t
  <2>2. h.kind = "zd" /\ h.pc = "undo" /\ h.shown = req[q].shown
    BY <1>1 DEF Sessions
  <2> HIDE DEF h
  <2> QED BY <1>5, <2>1, <2>2 DEF DeployMoves
<1> QED BY <1>6, <1>7

LEMMA ZdUndoSite ==
    ASSUME TypeInv, PageOwned, NEW q \in Requests, DeployTruth(q), WorkSite(q), Handle(q), ZdUndo(q)
    PROVE  SiteStep(q)
<1>1. /\ req[q].pc = "undo" /\ req[q] \in Sessions /\ req[q].kind = "zd"
      /\ InFlight(q) /\ \A o \in Requests : o # q => req'[o] = req[o]
      /\ UNCHANGED <<site, flag, trans, status>>
  BY SessionOf, HandleMovesOne DEF ZdUndo, DeployTruth, siteVars
<1>2. CASE req'[q] = Ended
  <2>1. ~req[q].shown
    BY <1>1 DEF WorkSite
  <2>2. PageOwned'
    <3>1. Ended.shown = req[q].shown
      BY <1>1, <2>1, FreshTyped DEF Sessions, Ended, Fresh
    <3> QED BY <1>1, <1>2, <2>1, <3>1, HandlerOwns
  <2>3. Pending => Pending'
    BY <1>1 DEF Pending
  <2>4. SiteRight'
    BY <1>1, <2>3, ZdUndoMoves, SameBackends, RightStays DEF WorkSite, Exists
  <2> QED BY <1>2, <2>2, <2>4, FreshTyped DEF SiteStep, InFlight
<1> QED BY <1>1, <1>2, ZdUndoMoves, DeploysOn

\* From the switch on nginx has the new replicas and only them.
LEMMA ZdSwitchSite ==
    ASSUME TypeInv, PageOwned, NEW q \in Requests, DeployTruth(q), WorkSite(q), Handle(q),
           ZdSwitch(q), {"nginx", "overridden"} \cap events' = {}
    PROVE  SiteStep(q)
<1> DEFINE old == WithStatus(row', {"running"}) \ req[q].new
           h == [req[q] EXCEPT !.todo = old, !.touched = old, !.pc = StepOrFinish(old, "retire")]
<1>1. /\ row' = [r \in Ids |-> IF r \in Present(q) THEN [row[r] EXCEPT !.status = "running"] ELSE row[r]]
      /\ req'[q] = h /\ req[q].pc = "switch" /\ UNCHANGED <<flag, trans>>
      /\ req[q] \in Sessions /\ req[q].kind = "zd" /\ req[q].new \subseteq Rows(row)
      /\ req[q].new \subseteq Ids /\ \A o \in Requests : o # q => req'[o] = req[o]
  <2>1. \A o \in Requests : o # q => req'[o] = req[o]
    BY HandleMovesOne
  <2> QED BY <2>1, SessionOf DEF ZdSwitch, DeployTruth, Sessions
<1>2. site' = Config("normal", NewBackends(q)) /\ flag = "normal"
  BY DEF ZdSwitch, Rejects, Fault, Happened
<1>3. /\ h.kind = "zd" /\ h.pc \in {"retire", "finish"} /\ h.new = req[q].new
      /\ h.shown = req[q].shown
  BY <1>1 DEF Sessions, StepOrFinish
<1> HIDE DEF h, old
<1>4. Present(q) = req[q].new
  BY <1>1 DEF Present, Rows
<1>5. ASSUME NEW r \in req[q].new PROVE row'[r].port = row[r].port
  <2>1. row[r] \in Row
    BY <1>1, <1>5, TypesOfState DEF Rows, RowTable
  <2> QED BY <1>1, <1>4, <1>5, <2>1 DEF Row
<1>6. NewBackends(q) = {row'[r].port : r \in req[q].new}
  BY <1>4, <1>5 DEF NewBackends
<1>7. PageOwned'
  BY <1>1, <1>3, HandlerOwns
<1>8. WorkSite(q)'
  BY <1>1, <1>2, <1>3, <1>6 DEF WorkSite
<1> QED BY <1>1, <1>3, <1>7, <1>8 DEF SiteStep, InFlight

LEMMA ZdRetireSite ==
    ASSUME TypeInv, PageOwned, NEW q \in Requests, DeployTruth(q), WorkSite(q), Handle(q), ZdRetire(q)
    PROVE  SiteStep(q)
<1> DEFINE rest == req[q].todo \ {Turn(q)}
           h == [req[q] EXCEPT !.todo = rest, !.pc = StepOrFinish(rest, "retire")]
<1>1. /\ req[q].pc = "retire" /\ UNCHANGED <<row, site, flag, trans>> /\ req'[q] = h
      /\ req[q] \in Sessions /\ req[q].kind = "zd" /\ \A o \in Requests : o # q => req'[o] = req[o]
  BY SessionOf, HandleMovesOne DEF ZdRetire, DeployTruth, siteVars
<1>2. /\ h.kind = "zd" /\ h.pc \in {"retire", "finish"} /\ h.new = req[q].new
      /\ h.shown = req[q].shown
  BY <1>1 DEF Sessions, StepOrFinish
<1> HIDE DEF h
<1>3. PageOwned'
  BY <1>1, <1>2, HandlerOwns
<1>4. WorkSite(q)'
  BY <1>1, <1>2 DEF WorkSite
<1> QED BY <1>1, <1>2, <1>3, <1>4 DEF SiteStep, InFlight

\* The running rows are then the new ones.
LEMMA ZdFinishSite ==
    ASSUME TypeInv, PageOwned, NEW q \in Requests, DeployTruth(q), WorkSite(q), Handle(q), ZdFinish(q)
    PROVE  SiteStep(q)
<1>1. /\ req[q].pc = "finish" /\ req[q].kind = "zd" /\ req[q] \in Sessions
      /\ row' = [r \in Ids |-> IF r \in req[q].touched THEN None ELSE row[r]]
      /\ req'[q] = Ended /\ UNCHANGED <<site, flag, trans>>
      /\ Exists /\ \A o \in Requests : o # q => req'[o] = req[o]
  BY SessionOf, HandleMovesOne DEF ZdFinish, siteVars
<1>2. Exists'
  BY <1>1 DEF ZdFinish, Exists
<1>3. /\ req[q].new \subseteq Rows(row) /\ \A r \in req[q].new : row[r].status = "running"
      /\ req[q].touched \cap req[q].new = {}
      /\ \A r \in Rows(row) \ (req[q].touched \cup req[q].new) : row[r].status # "running"
  BY <1>1 DEF DeployTruth
<1>4. \A r \in Ids : /\ r \in req[q].new <=> ~Down(row'[r])
                     /\ r \in req[q].new => row'[r] = row[r]
  BY <1>1, <1>3 DEF Down, Rows
<1>5. WithStatus(row', {"running"}) = {r \in Ids : ~Down(row'[r])}
  BY DEF WithStatus, Rows, Down
<1>6. WithStatus(row', {"running"}) = req[q].new
  BY <1>3, <1>4, <1>5 DEF Rows
<1>7. Backends(row') = {row[r].port : r \in req[q].new}
  BY <1>3, <1>4, <1>6 DEF Backends, Rows
<1>8. ~req[q].shown
  BY <1>1 DEF WorkSite
<1>9. PageOwned'
  <2>1. Ended.shown = req[q].shown
    BY <1>1, <1>8, FreshTyped DEF Sessions, Ended, Fresh
  <2> QED BY <1>1, <1>8, <2>1, HandlerOwns
<1>10. SiteRight'
  BY <1>1, <1>2, <1>7 DEF WorkSite, SiteRight
<1> QED BY <1>1, <1>9, <1>10, FreshTyped DEF SiteStep, InFlight

\* The end of every other handler writes the site, or leaves its page to the task.
LEMMA FinishSite ==
    ASSUME TypeInv, Gone, PageOwned, NEW q \in Requests, WorkTruth(q), WorkSite(q), Handle(q), Finish(q),
           {"nginx", "stale"} \cap events' = {}, \A o \in Requests : InFlight(o) => o = q
    PROVE  SiteStep(q)
<1> DEFINE rows == RowsAfter(q)
           h == [Ended EXCEPT !.shown = req[q].shown, !.pc = IF req[q].shown THEN "task" ELSE "done"]
<1>1. /\ req[q].pc = "finish" /\ req[q].kind # "zd" /\ Exists /\ req[q] \in Sessions
      /\ row' = rows /\ status' = StatusAfter(q, rows) /\ UNCHANGED <<flag, trans>>
      /\ IF Rewrites(q) THEN AcceptsFor(req[q].flag, ConfigAfter(q, rows)) ELSE UNCHANGED site
      /\ req' = [req EXCEPT ![q] = h] /\ req[q].app # "deleted"
      /\ InFlight(q) /\ \A o \in Requests : o # q => req'[o] = req[o]
  <2>1. req[q].app # "deleted"
    BY SessionOf DEF Finish, Fits, Acting, Statuses
  <2> QED BY <2>1, SessionOf, HandleMovesOne DEF Finish, Raise, Fault, Happened
<1>2. req'[q] = h /\ h.shown = req[q].shown /\ h.pc = IF req[q].shown THEN "task" ELSE "done"
  BY <1>1, SessionOf, FreshTyped DEF Sessions
<1> HIDE DEF h
<1>3. ~InFlight(q)'
  BY <1>2 DEF InFlight
<1>4. PageOwned'
  BY <1>1, <1>2, HandlerOwns
<1>5. CASE req[q].kind = "delete"
  <2>1. ~Exists'
    BY <1>1, <1>5 DEF StatusAfter, Exists
  <2>2. site' = NoSite
    BY <1>1, <1>5 DEF Rewrites, AcceptsFor, ConfigAfter
  <2> QED BY <1>3, <1>4, <2>1, <2>2 DEF SiteStep, SiteRight
<1>6. CASE req[q].kind # "delete"
  <2>1. Exists'
    BY <1>1, <1>6, DerivedExists DEF StatusAfter, Exists
  <2>2. CASE req[q].shown
    <3>1. OnTransitionPage /\ req[q].kind \in {"start", "restart"}
      BY <2>2 DEF WorkSite
    <3>2. UNCHANGED site
      BY <1>1, <2>2, <3>1 DEF Rewrites
    <3>3. Pending'
      BY <1>2, <2>2 DEF Pending
    <3> QED BY <1>3, <1>4, <2>1, <3>1, <3>2, <3>3 DEF SiteStep, SiteRight, OnTransitionPage
  <2>3. CASE ~req[q].shown
    <3>1. Rewrites(q)
      <4>1. CASE req[q].kind # "scale"
        BY <2>3, <4>1 DEF Rewrites
      <4>2. CASE req[q].kind = "scale"
        <5>1. Rows(req[q].mem) # {} /\ req[q].todo = {}
          BY <1>1, <4>2 DEF WorkSite, WorkTruth
        <5>2. Rows(req[q].mem) \in SUBSET (0..MaxId) /\ MaxId \in Nat
          BY Bounds DEF Rows, Ids
        <5>3. Max(Rows(req[q].mem)) \in Rows(req[q].mem)
          BY <5>1, <5>2, MaxIsIn
        <5> QED BY <4>2, <5>1, <5>3 DEF WorkTruth, Rewrites
      <4> QED BY <4>1, <4>2
    <3>2. site' = Config(Guarded(req[q].flag, trans), Backends(row')) /\ Happened(Stale(req[q].flag))
      BY <1>1, <1>6, <3>1 DEF AcceptsFor, ConfigAfter
    <3>3. req[q].flag = flag
      BY <3>2 DEF Happened, Stale
    <3>4. trans # Nobody => \E o \in Requests : req'[o].pc \in {"task", "restore"}
      <4> SUFFICES ASSUME trans # Nobody PROVE req'[trans.by].pc \in {"task", "restore"} /\ trans.by \in Requests
        OBVIOUS
      <4>1. trans.by \in Requests
        BY TypesOfState DEF Transitions
      <4>2. trans.by # q
        BY <2>3 DEF PageOwned
      <4> QED BY <1>1, <4>1, <4>2 DEF PageOwned, InFlight
    <3>5. SiteRight'
      BY <1>1, <2>1, <3>2, <3>3, <3>4, GuardedRight
    <3> QED BY <1>3, <1>4, <3>5 DEF SiteStep
  <2> QED BY <1>1, <2>2, <2>3 DEF Sessions
<1> QED BY <1>5, <1>6

LEMMA HandleSite ==
    ASSUME TypeInv, Gone, PageOwned, NEW q \in Requests, WorkTruth(q) \/ DeployTruth(q), WorkSite(q),
           Handle(q), SiteClean', \A o \in Requests : InFlight(o) => o = q
    PROVE  SiteStep(q)
<1>1. {"failed", "nginx", "stale", "overridden"} \cap events' = {}
  BY DEF SiteClean, UpClean, TruthClean, Without
<1>2. ~(FinishFails(q) \/ InsertFails(q) \/ ZdPickFails(q))
  BY <1>1 DEF FinishFails, InsertFails, ZdPickFails, Abort, Happened
<1>3. Finish(q) => WorkTruth(q)
  BY DEF Finish, DeployTruth
<1>4. ZdPick(q) \/ ZdCheck(q) \/ ZdInsert(q) \/ ZdStart(q) \/ ZdSwitch(q) \/ ZdRetire(q)
        \/ ZdFinish(q) \/ ZdUndo(q) => DeployTruth(q)
  BY SessionOf DEF ZdPick, ZdCheck, ZdInsert, ZdStart, ZdSwitch, ZdRetire, ZdFinish, ZdUndo,
                   Fits, DeployOnly, WorkTruth
<1> QED BY <1>1, <1>2, <1>3, <1>4, InsertSite, DockerSite, FinishSite, ZdEarlySite, ZdSwitchSite,
           ZdRetireSite, ZdFinishSite, ZdUndoSite DEF Handle

LEMMA SiteKept ==
    ASSUME AgreeingInv, SiteInv, Moves
    PROVE  SiteInv'
<1> SUFFICES ASSUME SiteClean'
             PROVE  /\ PageOwned'
                    /\ ~Busy' => SiteRight'
                    /\ \A o \in Requests : InFlight(o)' => WorkSite(o)'
  BY DEF SiteInv
<1>1. /\ TypeInv /\ Gone /\ PageOwned
      /\ ~Busy => RowTruth /\ RowUp /\ SiteRight
      /\ \A o \in Requests : InFlight(o) => WorkSite(o) /\ (WorkTruth(o) \/ DeployTruth(o))
  BY HistoryGrows DEF AgreeingInv, TruthfulInv, TruthInv, UpInv, SiteInv, SiteClean, UpClean,
                      TruthClean, Without
<1>2. \A p, o \in Requests : InFlight(p) /\ InFlight(o) => p = o
  BY HistoryGrows DEF AgreeingInv, TruthfulInv, Sole, SiteClean, UpClean, TruthClean, Without
<1>3. ASSUME NEW q \in Requests, Handle(q)
      PROVE  /\ PageOwned'
             /\ ~Busy' => SiteRight'
             /\ \A o \in Requests : InFlight(o)' => WorkSite(o)'
  <2>1. InFlight(q) /\ SiteStep(q)
    BY <1>1, <1>2, <1>3, HandleMovesOne, HandleSite
  <2>2. ASSUME NEW o \in Requests, InFlight(o)' PROVE o = q
    BY <1>1, <1>2, <1>3, <2>1, <2>2, HandleMovesOne DEF InFlight
  <2> QED BY <2>1, <2>2 DEF SiteStep, Busy
<1> QED BY <1>1, <1>3, ArriveSite, AsideSite, NextSteps

LEMMA SiteHolds == Spec => [](AgreeingInv /\ SiteInv)
<1>1. ASSUME Init PROVE SiteInv
  <2>1. trans = Nobody /\ site = Config(flag, Backends(row)) /\ Exists
    BY <1>1, DerivedExists DEF Init, Exists
  <2> QED BY <1>1, <2>1, NobodyAtFirst DEF SiteInv, PageOwned, SiteRight
<1>2. ASSUME AgreeingInv, SiteInv, Moves PROVE SiteInv'
  BY <1>2, SiteKept
<1> QED BY <1>1, <1>2, AgreementHolds, SpecMoves, StutterMoves, PTL DEF Spec

\* When handlers, restore tasks and the monitor are through, nginx serves the
\* running rows in the operator's mode, and nothing once the application is
\* deleted (SiteAgrees).
THEOREM SiteServesTheRows == Spec => []SiteAgrees
<1>1. ASSUME SiteInv PROVE SiteAgrees
  BY <1>1 DEF SiteInv, SiteClean, UpClean, TruthClean, Without, SiteAgrees, SiteRight, Busy, InFlight,
              Pending
<1> QED BY <1>1, SiteHolds, PTL

-----------------------------------------------------------------------------
(* A deploy keeps an application served                                    *)

Running == WithStatus(row, {"running"})

\* The upstream has one of these replicas, if there is an upstream.
Behind(replicas) == site.page = "proxy" => \E r \in replicas : row[r].port \in site.ups

\* nginx has an old replica until the switch, and then a new one.
ServeWork(q) ==
    LET h == req[q]
    IN  /\ h.shown => OnTransitionPage /\ h.kind \in {"start", "restart"}
        /\ h.kind = "scale" /\ h.pc # "insert" => Rows(h.mem) # {}
        /\ h.kind = "zd" => /\ h.pc \in {"switch", "retire", "finish"} => h.new # {}
                            /\ Behind(IF h.pc \in {"retire", "finish"} THEN h.new ELSE Running)

ServeClean == UpClean /\ Without({"unhidden"})
ServeInv == ServeClean => /\ ~Busy => Behind(Running)
                          /\ \A q \in Requests : InFlight(q) => ServeWork(q)

\* A file generated from the rows has all the running ones behind it.
LEMMA ConfigBehind ==
    ASSUME NEW mode \in Modes \cup TransitionPages, NEW backends,
           Config(mode, backends).page = "proxy"
    PROVE  Config(mode, backends).ups = backends /\ backends # {}
<1>1. mode \notin StaticPages
  <2>1. ASSUME mode \in StaticPages PROVE Config(mode, backends) = StaticPage(mode)
    <3>1. mode # "normal"
      BY <2>1 DEF StaticPages, TransitionPages
    <3> QED BY <2>1, <3>1 DEF Config
  <2> QED BY <2>1 DEF StaticPage, StaticPages, TransitionPages
<1>2. mode = "normal"
  BY <1>1 DEF Modes, StaticPages
<1>3. backends # {}
  BY <1>1, <1>2 DEF Config, StaticPage
<1>4. Config(mode, backends) = [page |-> "proxy", ups |-> backends]
  BY <1>1, <1>2, <1>3 DEF Config
<1> QED BY <1>3, <1>4

LEMMA WrittenBehind ==
    ASSUME NEW mode \in Modes \cup TransitionPages, site' = Config(mode, Backends(row'))
    PROVE  Behind(Running)'
<1> SUFFICES ASSUME site'.page = "proxy"
             PROVE  \E r \in WithStatus(row', {"running"}) : row'[r].port \in site'.ups
  BY DEF Behind, Running
<1>1. site'.ups = Backends(row') /\ Backends(row') # {}
  BY ConfigBehind
<1> QED BY <1>1 DEF Backends

LEMMA RunningStaysBehind ==
    ASSUME SameRunning, UNCHANGED site, Behind(Running)
    PROVE  Behind(Running)'
<1>1. WithStatus(row', {"running"}) = {r \in Ids : ~Down(row'[r])}
  BY RunningRows
<1>2. WithStatus(row, {"running"}) = {r \in Ids : ~Down(row[r])}
  BY RunningRows
<1> QED BY <1>1, <1>2 DEF Behind, Running, SameRunning

\* nginx is written aside for the mode in force.
LEMMA TaskShows ==
    ASSUME NEW q \in Requests, Task(q), "nginx" \notin events'
    PROVE  /\ UNCHANGED row
           /\ UNCHANGED site \/ (site' = Config(flag, Backends(row)) /\ Happened(Meddling))
BY DEF Task, Poll, WaitEnds, Restore, Accepts, Rejects, Fault, Happened, RestoredConfig, hostVars,
       siteVars

LEMMA BusyAsideShows ==
    ASSUME TypeInv, Gone, Aside, TruthClean', Busy
    PROVE  /\ UNCHANGED row
           /\ UNCHANGED site \/ (site' = Config(flag, Backends(row)) /\ Happened(Meddling))
<1>0. {"crash", "nginx"} \cap events' = {}
  BY DEF TruthClean, Without
<1>1. UNCHANGED row
  BY AsideWhileBusy
<1>2. ~(Sync({}) \/ Sync(Aged) \/ SyncsLate)
  BY SyncQuietly, NotLate
<1>3. Monitor => UNCHANGED site
  <2>1. Scan \/ ScanEnds \/ BackOff \/ Revive => UNCHANGED site
    BY DEF Scan, ScanEnds, BackOff, Revive, siteVars
  <2>2. GiveUp \/ ReviveFails => UNCHANGED site
    BY MonitorWritesDown DEF MonitorWrites
  <2> QED BY <2>1, <2>2 DEF Monitor
<1>4. Expire \/ Environment \/ UNCHANGED handlerVars => UNCHANGED site
  BY <1>0 DEF Expire, Environment, ContainerDies, PortTaken, Reboot, Fault, Happened, handlerVars, siteVars
<1> QED BY <1>0, <1>1, <1>2, <1>3, <1>4, TaskShows DEF Aside

\* A write between two steps of a handler leaves it what it counts on.
LEMMA WrittenUnder ==
    ASSUME TypeInv, NEW q \in Requests, InFlight(q), ServeWork(q), WorkTruth(q) \/ DeployTruth(q),
           req'[q] = req[q], UNCHANGED row, "unhidden" \notin events',
           NEW mode \in Modes, site' = Config(mode, Backends(row)), Happened(Meddling)
    PROVE  ServeWork(q)'
<1>1. ~req[q].shown
  BY DEF Happened, Meddling
<1>2. Behind(Running)'
  BY WrittenBehind
<1>3. CASE req[q].kind = "zd" /\ req[q].pc \in {"retire", "finish"}
  <2>1. req[q].new # {} /\ req[q].new \subseteq Rows(row)
        /\ \A r \in req[q].new : row[r].status = "running"
    BY <1>3 DEF ServeWork, DeployTruth, WorkTruth
  <2>2. site'.page = "proxy" => site'.ups = Backends(row)
    BY ConfigBehind
  <2>3. \A r \in req[q].new : row[r].port \in Backends(row)
    BY <2>1 DEF Backends, WithStatus
  <2>4. Behind(req[q].new)'
    BY <2>1, <2>2, <2>3 DEF Behind
  <2> QED BY <1>1, <1>3, <2>1, <2>4 DEF ServeWork
<1>4. CASE ~(req[q].kind = "zd" /\ req[q].pc \in {"retire", "finish"})
  BY <1>1, <1>2, <1>4 DEF ServeWork
<1> QED BY <1>3, <1>4

LEMMA AsideKeepsBehind ==
    ASSUME TypeInv, Gone, Aside, ServeClean', ~Busy, RowTruth, RowUp, Behind(Running)
    PROVE  Behind(Running)'
<1>0. {"crash", "nginx"} \cap events' = {} /\ TruthClean'
  BY DEF ServeClean, UpClean, TruthClean, Without
<1>1. flag \in Modes
  BY TypesOfState DEF TypeInv, HandlersTyped
<1>2. UNCHANGED <<row, site>> => Behind(Running)'
  BY DEF Behind, Running
<1>3. (\E q \in Requests : Task(q)) => Behind(Running)'
  BY <1>0, <1>1, <1>2, TaskShows, WrittenBehind
<1>4. Sync({}) \/ Sync(Aged) => Behind(Running)'
  BY <1>0, SyncSameRunning, SyncQuietly, RunningStaysBehind
<1>5. Monitor => Behind(Running)'
  <2>1. Scan \/ ScanEnds \/ BackOff \/ Revive => UNCHANGED <<row, site>>
    BY DEF Scan, ScanEnds, BackOff, Revive, hostVars, siteVars
  <2>2. MonitorWrites => Behind(Running)'
    <3>1. Guarded(mon.flag, trans) \in Modes \cup TransitionPages
      BY MonitorState, GuardedTyped DEF TypeInv, MonitorStates
    <3> QED BY <3>1, WrittenBehind DEF MonitorWrites
  <2> QED BY <1>0, <1>2, <2>1, <2>2, MonitorWritesDown DEF Monitor, hostVars
<1>6. Expire \/ Environment \/ UNCHANGED handlerVars => UNCHANGED <<row, site>>
  BY <1>0 DEF Expire, Environment, ContainerDies, PortTaken, Reboot, Fault, Happened, handlerVars,
              hostVars, siteVars
<1> QED BY <1>0, <1>2, <1>3, <1>4, <1>5, <1>6, NotLate DEF Aside

LEMMA AsideServe ==
    ASSUME TypeInv, Gone, Aside, ServeClean',
           ~Busy => RowTruth /\ RowUp /\ Behind(Running),
           \A q \in Requests : InFlight(q) => ServeWork(q) /\ (WorkTruth(q) \/ DeployTruth(q))
    PROVE  /\ ~Busy' => Behind(Running)'
           /\ \A q \in Requests : InFlight(q)' => ServeWork(q)'
<1>0. {"crash", "unhidden"} \cap events' = {} /\ TruthClean'
  BY DEF ServeClean, UpClean, TruthClean, Without
<1>1. ~Busy' => ~Busy
  BY <1>0, AsideEndsNone DEF Busy, InFlight
<1>2. ASSUME NEW q \in Requests, InFlight(q)' PROVE ServeWork(q)'
  <2>1. InFlight(q) /\ req'[q] = req[q] /\ Busy /\ flag \in Modes
    BY <1>2, AsideMovesNone, TypesOfState DEF Busy, TypeInv, HandlersTyped
  <2>2. UNCHANGED <<row, site>> => ServeWork(q)'
    BY <2>1 DEF ServeWork, Behind, Running, OnTransitionPage
  <2> QED BY <1>0, <2>1, <2>2, BusyAsideShows, WrittenUnder
<1> QED BY <1>1, <1>2, AsideKeepsBehind

LEMMA ArriveServe ==
    ASSUME TypeInv, NEW q \in Requests, Arrive(q), ServeClean',
           ~Busy => Behind(Running),
           \A o \in Requests : InFlight(o) => ServeWork(o) /\ (WorkTruth(o) \/ DeployTruth(o))
    PROVE  /\ ~Busy' => Behind(Running)'
           /\ \A o \in Requests : InFlight(o)' => ServeWork(o)'
<1>0. {"overlap", "nginx", "unhidden"} \cap events' = {}
  BY DEF ServeClean, UpClean, TruthClean, Without
<1>1. PICK h : Opens(q, h)
  BY ArriveOpens DEF TypeInv
<1>2. /\ UNCHANGED row /\ ~InFlight(q)
      /\ req'[q] = h /\ \A o \in Requests : o # q => req'[o] = req[o]
      /\ InFlight(q)' => ~Busy
  BY <1>0, <1>1, ArriveAlone DEF Opens, hostVars
<1>3. ~PageRefused(q, h)
  BY <1>0 DEF PageRefused, Fault, Happened
<1>4. StartsOn(h) => InFlight(q)' /\ Busy' /\ ~Busy
  BY <1>2 DEF StartsOn, Acting, InFlight, Busy
<1>5. CASE OpensPlainly(q, h)
  <2>1. StartsOn(h) /\ ~h.shown /\ UNCHANGED site
    BY <1>5 DEF OpensPlainly, siteVars
  <2>2. ServeWork(q)'
    BY <1>2, <1>4, <2>1 DEF ServeWork, StartsOn, Behind, Running
  <2> QED BY <1>2, <1>4, <2>1, <2>2 DEF Busy, InFlight
<1>6. CASE OpensWithPage(q, h)
  <2>1. StartsOn(h) /\ h.shown /\ h.kind \in {"start", "restart"} /\ ~Busy
    BY <1>4, <1>6 DEF OpensWithPage
  <2>2. PICK page \in TransitionPages : site' = Config(page, {})
    BY <1>6 DEF OpensWithPage
  <2>3. OnTransitionPage'
    BY <2>2, PageNamed DEF OnTransitionPage
  <2>4. ServeWork(q)'
    BY <1>2, <2>1, <2>3 DEF ServeWork
  <2> QED BY <1>2, <1>4, <2>1, <2>4 DEF Busy, InFlight
<1>7. CASE ModeShown(q, h)
  <2>1. PICK mode \in Modes : site' = Config(mode, Backends(row)) /\ Happened(Meddling)
    BY <1>0, <1>7 DEF ModeShown, Accepts, Rejects, Fault, Happened
  <2>2. ~InFlight(q)'
    BY <1>2, <1>7, FreshTyped DEF ModeShown, InFlight
  <2>3. Behind(Running)'
    BY <1>2, <2>1, WrittenBehind
  <2>4. ASSUME NEW o \in Requests, InFlight(o)' PROVE ServeWork(o)'
    <3>1. InFlight(o) /\ req'[o] = req[o]
      BY <1>2, <2>2, <2>4 DEF InFlight
    <3> QED BY <1>0, <1>2, <2>1, <3>1, WrittenUnder
  <2> QED BY <2>3, <2>4
<1> QED BY <1>1, <1>3, <1>5, <1>6, <1>7 DEF Opens

\* What a step of q's handler must leave behind nginx.
ServeStep(q) == IF InFlight(q)' THEN ServeWork(q)' ELSE Behind(Running)'

LEMMA InsertServe ==
    ASSUME TypeInv, NEW q \in Requests, ServeWork(q), InsertRow(q)
    PROVE  ServeStep(q)
<1> DEFINE id == NextId(row)
           rec == [status |-> "pending", port |-> req[q].port]
           mem == [NoRows EXCEPT ![id] = rec]
           h == [req[q] EXCEPT !.pc = "start", !.todo = {id}, !.mem = mem]
<1>1. /\ req[q].pc = "insert" /\ req[q].kind = "scale" /\ id \in Ids
      /\ req' = [req EXCEPT ![q] = h] /\ UNCHANGED site
  BY DEF InsertRow, siteVars
<1> HIDE DEF id
<1>2. req[q] \in Sessions /\ Fits(req[q]) /\ req'[q] = h
  BY <1>1, SessionOf
<1>3. Rows(mem) # {}
  <2>1. mem[id] = rec
    BY <1>1 DEF NoRows
  <2>2. rec # None
    BY <1>1, <1>2, Bounds DEF Fits, Row, Statuses
  <2> QED BY <1>1, <2>1, <2>2 DEF Rows
<1> HIDE DEF mem
<1>4. h.pc = "start" /\ h.kind = "scale" /\ h.mem = mem /\ h.shown = req[q].shown
  BY <1>1, <1>2 DEF Sessions
<1> HIDE DEF h
<1> QED BY <1>1, <1>2, <1>3, <1>4 DEF ServeWork, ServeStep, InFlight, OnTransitionPage

LEMMA DockerServe ==
    ASSUME TypeInv, NEW q \in Requests, ServeWork(q), StopBox(q) \/ StartBox(q), "failed" \notin events'
    PROVE  ServeStep(q)
<1>1. UNCHANGED site /\ req[q].pc \in {"stop", "start"}
  BY DEF StopBox, StartBox, siteVars
<1>2. req[q].kind # "zd" /\ \E todo, pc, mem, touched : MovesOn(q, todo, pc, mem, touched)
  <2>1. CASE StopBox(q)
    BY <2>1, StopMovesOn
  <2>2. CASE StartBox(q)
    <3>1. StartMoves(q, "running", StartPort(Turn(q), req[q].mem[Turn(q)].port)) /\ req[q].kind # "zd"
      BY <2>2, StartOutcomes DEF Raise, Fault, Happened
    <3> QED BY <3>1 DEF StartMoves
  <2> QED BY <2>1, <2>2
<1>3. PICK todo, pc, mem, touched : MovesOn(q, todo, pc, mem, touched)
  BY <1>2
<1> DEFINE h == [req[q] EXCEPT !.todo = todo, !.pc = pc, !.mem = mem, !.touched = touched]
<1>4. /\ Rows(mem) = Rows(req[q].mem) /\ req'[q] = h /\ pc \in {"stop", "start", "finish"}
      /\ req[q] \in Sessions
  BY <1>3, SessionOf DEF MovesOn
<1>5. h.pc = pc /\ h.kind = req[q].kind /\ h.mem = mem /\ h.shown = req[q].shown
  BY <1>4 DEF Sessions
<1> HIDE DEF h
<1> QED BY <1>1, <1>2, <1>4, <1>5 DEF ServeWork, ServeStep, InFlight, OnTransitionPage

\* A deploy before its switch, and its roll-back.
LEMMA ZdEarlyServe ==
    ASSUME TypeInv, NEW q \in Requests, DeployTruth(q), ServeWork(q), Handle(q),
           ZdPick(q) \/ ZdCheck(q) \/ ZdInsert(q) \/ ZdStart(q) \/ ZdUndo(q)
    PROVE  ServeStep(q)
<1>1. /\ UNCHANGED site /\ req[q].kind = "zd"
      /\ req[q].pc \in {"pick", "check", "insert", "start", "undo"}
  BY DEF ZdPick, ZdCheck, ZdInsert, ZdStart, ZdUndo, DeployTruth, siteVars
<1>2. Behind(Running) /\ ~req[q].shown
  BY <1>1 DEF ServeWork
<1>3. ASSUME NEW h, DeployMoves(q, h) PROVE ServeStep(q)
  <2>1. Behind(Running)'
    BY <1>1, <1>2, <1>3, RunningStaysBehind DEF DeployMoves
  <2> QED BY <1>2, <1>3, <2>1 DEF DeployMoves, ServeStep, ServeWork
<1>4. ASSUME SameRunning, req'[q] = Ended PROVE ServeStep(q)
  <2>1. Behind(Running)'
    BY <1>1, <1>2, <1>4, RunningStaysBehind
  <2> QED BY <1>4, <2>1, FreshTyped DEF ServeStep, InFlight
<1> QED BY <1>3, <1>4, ZdEarlyMoves, ZdUndoMoves

LEMMA ZdSwitchServe ==
    ASSUME TypeInv, NEW q \in Requests, DeployTruth(q), ServeWork(q), ZdSwitch(q), "nginx" \notin events'
    PROVE  ServeStep(q)
<1> DEFINE old == WithStatus(row', {"running"}) \ req[q].new
           h == [req[q] EXCEPT !.todo = old, !.touched = old, !.pc = StepOrFinish(old, "retire")]
<1>1. /\ row' = [r \in Ids |-> IF r \in Present(q) THEN [row[r] EXCEPT !.status = "running"] ELSE row[r]]
      /\ req'[q] = h /\ req[q].pc = "switch" /\ req[q] \in Sessions /\ req[q].kind = "zd"
      /\ req[q].new \subseteq Rows(row) /\ req[q].new \subseteq Ids
  BY SessionOf DEF ZdSwitch, DeployTruth, Sessions
<1>2. site' = Config("normal", NewBackends(q))
  BY DEF ZdSwitch, Rejects, Fault, Happened
<1>3. /\ h.kind = "zd" /\ h.pc \in {"retire", "finish"} /\ h.new = req[q].new
      /\ h.shown = req[q].shown
  BY <1>1 DEF Sessions, StepOrFinish
<1> HIDE DEF h, old
<1>4. Present(q) = req[q].new
  BY <1>1 DEF Present, Rows
<1>5. ASSUME NEW r \in req[q].new PROVE row'[r].port = row[r].port
  <2>1. row[r] \in Row
    BY <1>1, <1>5, TypesOfState DEF Rows, RowTable
  <2> QED BY <1>1, <1>4, <1>5, <2>1 DEF Row
<1>6. NewBackends(q) = {row'[r].port : r \in req[q].new}
  BY <1>4, <1>5 DEF NewBackends
<1>7. site'.page = "proxy" => site'.ups = NewBackends(q)
  BY <1>2, ConfigBehind DEF Modes
<1>8. req[q].new # {} /\ ~req[q].shown
  BY <1>1 DEF ServeWork
<1>9. Behind(req[q].new)'
  BY <1>1, <1>3, <1>6, <1>7, <1>8 DEF Behind
<1> QED BY <1>1, <1>3, <1>8, <1>9 DEF ServeStep, ServeWork, InFlight

LEMMA ZdRetireServe ==
    ASSUME TypeInv, NEW q \in Requests, ServeWork(q), ZdRetire(q)
    PROVE  ServeStep(q)
<1> DEFINE rest == req[q].todo \ {Turn(q)}
           h == [req[q] EXCEPT !.todo = rest, !.pc = StepOrFinish(rest, "retire")]
<1>1. /\ req[q].pc = "retire" /\ UNCHANGED <<row, site>> /\ req'[q] = h
      /\ req[q] \in Sessions /\ req[q].kind = "zd"
  BY SessionOf DEF ZdRetire, siteVars, Fits, DeployOnly
<1>2. /\ h.kind = "zd" /\ h.pc \in {"retire", "finish"} /\ h.new = req[q].new
      /\ h.shown = req[q].shown
  BY <1>1 DEF Sessions, StepOrFinish
<1> HIDE DEF h
<1>3. Behind(req[q].new)'
  BY <1>1, <1>2 DEF ServeWork, Behind
<1> QED BY <1>1, <1>2, <1>3 DEF ServeStep, ServeWork, InFlight

LEMMA ZdFinishServe ==
    ASSUME TypeInv, NEW q \in Requests, DeployTruth(q), ServeWork(q), ZdFinish(q)
    PROVE  ServeStep(q)
<1>1. /\ req[q].pc = "finish" /\ req[q].kind = "zd"
      /\ row' = [r \in Ids |-> IF r \in req[q].touched THEN None ELSE row[r]]
      /\ req'[q] = Ended /\ UNCHANGED site
  BY SessionOf DEF ZdFinish, siteVars
<1>2. /\ req[q].new \subseteq Rows(row) /\ \A r \in req[q].new : row[r].status = "running"
      /\ req[q].touched \cap req[q].new = {} /\ Behind(req[q].new)
  BY <1>1 DEF DeployTruth, ServeWork
<1>3. \A r \in req[q].new : r \in WithStatus(row', {"running"}) /\ row'[r] = row[r]
  BY <1>1, <1>2 DEF WithStatus, Rows
<1>4. Behind(Running)'
  BY <1>1, <1>2, <1>3 DEF Behind, Running
<1> QED BY <1>1, <1>4, FreshTyped DEF ServeStep, InFlight

\* Every other handler ends with a write, or with its page up.
LEMMA FinishServe ==
    ASSUME TypeInv, Gone, NEW q \in Requests, WorkTruth(q), ServeWork(q), Finish(q), "nginx" \notin events'
    PROVE  ServeStep(q)
<1> DEFINE rows == RowsAfter(q)
           h == [Ended EXCEPT !.shown = req[q].shown, !.pc = IF req[q].shown THEN "task" ELSE "done"]
<1>1. /\ req[q].pc = "finish" /\ req[q].kind # "zd" /\ req[q] \in Sessions
      /\ row' = rows /\ req' = [req EXCEPT ![q] = h]
      /\ IF Rewrites(q) THEN AcceptsFor(req[q].flag, ConfigAfter(q, rows)) ELSE UNCHANGED site
  BY SessionOf DEF Finish, Raise, Fault, Happened
<1>2. ~InFlight(q)'
  <2>1. req'[q] = h /\ h.pc \in {"task", "done"}
    BY <1>1, SessionOf, FreshTyped DEF Sessions
  <2> QED BY <2>1 DEF InFlight
<1> HIDE DEF h
<1>3. CASE req[q].kind = "delete"
  <2>1. site' = NoSite
    BY <1>1, <1>3 DEF Rewrites, AcceptsFor, ConfigAfter
  <2> QED BY <1>2, <2>1 DEF ServeStep, Behind, NoSite
<1>4. CASE req[q].kind # "delete" /\ req[q].shown
  <2>1. OnTransitionPage /\ req[q].kind \in {"start", "restart"}
    BY <1>4 DEF ServeWork
  <2>2. UNCHANGED site
    BY <1>1, <1>4, <2>1 DEF Rewrites
  <2> QED BY <1>2, <2>1, <2>2 DEF ServeStep, Behind, OnTransitionPage, TransitionPages
<1>5. CASE req[q].kind # "delete" /\ ~req[q].shown
  <2>1. Rewrites(q)
    <3>1. CASE req[q].kind # "scale"
      BY <1>5, <3>1 DEF Rewrites
    <3>2. CASE req[q].kind = "scale"
      <4>1. Rows(req[q].mem) # {} /\ req[q].todo = {}
        BY <1>1, <3>2 DEF ServeWork, WorkTruth
      <4>2. Rows(req[q].mem) \in SUBSET (0..MaxId) /\ MaxId \in Nat
        BY Bounds DEF Rows, Ids
      <4>3. Max(Rows(req[q].mem)) \in Rows(req[q].mem)
        BY <4>1, <4>2, MaxIsIn
      <4> QED BY <3>2, <4>1, <4>3 DEF WorkTruth, Rewrites
    <3> QED BY <3>1, <3>2
  <2>2. site' = Config(Guarded(req[q].flag, trans), Backends(row'))
    BY <1>1, <1>5, <2>1 DEF AcceptsFor, ConfigAfter
  <2>3. Guarded(req[q].flag, trans) \in Modes \cup TransitionPages
    BY <1>1, GuardedTyped DEF TypeInv, Sessions
  <2> QED BY <1>2, <2>2, <2>3, WrittenBehind DEF ServeStep
<1> QED BY <1>1, <1>3, <1>4, <1>5 DEF Sessions

LEMMA HandleServe ==
    ASSUME TypeInv, Gone, NEW q \in Requests, WorkTruth(q) \/ DeployTruth(q), ServeWork(q),
           Handle(q), ServeClean'
    PROVE  ServeStep(q)
<1>1. {"failed", "nginx"} \cap events' = {}
  BY DEF ServeClean, UpClean, TruthClean, Without
<1>2. ~(FinishFails(q) \/ InsertFails(q) \/ ZdPickFails(q))
  BY <1>1 DEF FinishFails, InsertFails, ZdPickFails, Abort, Happened
<1>3. Finish(q) => WorkTruth(q)
  BY DEF Finish, DeployTruth
<1>4. ZdPick(q) \/ ZdCheck(q) \/ ZdInsert(q) \/ ZdStart(q) \/ ZdSwitch(q) \/ ZdRetire(q)
        \/ ZdFinish(q) \/ ZdUndo(q) => DeployTruth(q)
  BY SessionOf DEF ZdPick, ZdCheck, ZdInsert, ZdStart, ZdSwitch, ZdRetire, ZdFinish, ZdUndo,
                   Fits, DeployOnly, WorkTruth
<1> QED BY <1>1, <1>2, <1>3, <1>4, InsertServe, DockerServe, FinishServe, ZdEarlyServe,
           ZdSwitchServe, ZdRetireServe, ZdFinishServe DEF Handle

LEMMA ServeKept ==
    ASSUME AgreeingInv, ServeInv, Moves
    PROVE  ServeInv'
<1> SUFFICES ASSUME ServeClean'
             PROVE  /\ ~Busy' => Behind(Running)'
                    /\ \A o \in Requests : InFlight(o)' => ServeWork(o)'
  BY DEF ServeInv
<1>1. /\ TypeInv /\ Gone
      /\ ~Busy => RowTruth /\ RowUp /\ Behind(Running)
      /\ \A o \in Requests : InFlight(o) => ServeWork(o) /\ (WorkTruth(o) \/ DeployTruth(o))
  BY HistoryGrows DEF AgreeingInv, TruthfulInv, TruthInv, UpInv, ServeInv, ServeClean, UpClean,
                      TruthClean, Without
<1>2. \A p, o \in Requests : InFlight(p) /\ InFlight(o) => p = o
  BY HistoryGrows DEF AgreeingInv, TruthfulInv, Sole, ServeClean, UpClean, TruthClean, Without
<1>3. ASSUME NEW q \in Requests, Handle(q)
      PROVE  /\ ~Busy' => Behind(Running)'
             /\ \A o \in Requests : InFlight(o)' => ServeWork(o)'
  <2>1. InFlight(q) /\ ServeStep(q)
    BY <1>1, <1>3, HandleMovesOne, HandleServe
  <2>2. ASSUME NEW o \in Requests, InFlight(o)' PROVE o = q
    BY <1>1, <1>2, <1>3, <2>1, <2>2, HandleMovesOne DEF InFlight
  <2> QED BY <2>1, <2>2 DEF ServeStep, Busy
<1> QED BY <1>1, <1>3, ArriveServe, AsideServe, NextSteps

LEMMA ServeHolds == Spec => [](AgreeingInv /\ ServeInv)
<1>1. ASSUME Init PROVE ServeInv
  <2>1. site = Config("normal", Backends(row))
    BY <1>1 DEF Init
  <2>2. site.page = "proxy" => site.ups = Backends(row) /\ Backends(row) # {}
    BY <2>1, ConfigBehind DEF Modes
  <2>3. Behind(Running)
    BY <2>2 DEF Behind, Running, Backends
  <2> QED BY <1>1, <2>3, NobodyAtFirst DEF ServeInv
<1>2. ASSUME AgreeingInv, ServeInv, Moves PROVE ServeInv'
  BY <1>2, ServeKept
<1> QED BY <1>1, <1>2, AgreementHolds, SpecMoves, StutterMoves, PTL DEF Spec

-----------------------------------------------------------------------------
(* What a step does to what is served                                      *)

\* nginx's upstream has a replica that runs, and the deploy's next step leaves
\* it: before the switch it is an old one, after it a new one.
Front(q) == IF req[q].pc \in {"retire", "finish"} THEN req[q].new ELSE Running \ req[q].new

LEMMA FrontLives ==
    ASSUME TypeInv, NEW q \in Requests, req[q].kind = "zd", InFlight(q),
           DeployTruth(q), WorkUp(q), ServeWork(q), site.page = "proxy"
    PROVE  \E r \in Front(q) : r \in Running /\ box[r] = row[r].port /\ row[r].port \in site.ups
<1>1. req[q].pc \in {"pick", "insert", "start", "check", "switch", "retire", "finish", "undo"}
  BY SessionOf DEF DeployTruth, Sessions, Points, InFlight, Fits, Stopping
<1>2. CASE req[q].pc \in {"retire", "finish"}
  <2>1. PICK r \in req[q].new : row[r].port \in site.ups
    BY <1>2 DEF ServeWork, Behind
  <2>2. r \in Rows(row) /\ row[r].status = "running" /\ box[r] = row[r].port
    BY <1>2 DEF DeployTruth, WorkUp
  <2> QED BY <1>2, <2>1, <2>2 DEF Front, Running, WithStatus
<1>3. CASE req[q].pc \notin {"retire", "finish"}
  <2>1. PICK r \in Running : row[r].port \in site.ups
    BY <1>3 DEF ServeWork, Behind
  <2>2. r \in Rows(row) /\ row[r].status = "running" /\ r \in Ids /\ row[r] # None
    BY DEF Running, WithStatus, Rows
  <2>3. r \notin req[q].new /\ req[q].touched = {}
    BY <1>1, <1>3, <2>2 DEF DeployTruth
  <2>4. box[r] = row[r].port
    BY <2>2, <2>3 DEF WorkUp, Up
  <2> QED BY <1>3, <2>1, <2>3, <2>4 DEF Front
<1> QED BY <1>2, <1>3

\* A file written for the rows has every live running replica in its upstream.
LEMMA WrittenServes ==
    ASSUME site' = Config("normal", Backends(row)), NEW r \in Running,
           box[r] = row[r].port, box'[r] = box[r]
    PROVE  Served'
<1>1. r \in Ids /\ box[r] \in Backends(row)
  BY DEF Running, WithStatus, Rows, Backends
<1>2. site'.page = "proxy" /\ site'.ups = Backends(row)
  BY <1>1 DEF Config, StaticPages, TransitionPages
<1> QED BY <1>1, <1>2 DEF Served

LEMMA DeployHandlerServes ==
    ASSUME TypeInv, NEW q \in Requests, req[q].kind = "zd", InFlight(q), DeployTruth(q), WorkUp(q),
           ServeWork(q), Handle(q), ServeClean', Served
    PROVE  Served'
<1>0. {"failed", "nginx"} \cap events' = {}
  BY DEF ServeClean, UpClean, TruthClean, Without
<1>1. PICK r \in Front(q) : r \in Running /\ box[r] = row[r].port /\ row[r].port \in site.ups
  BY FrontLives DEF Served
<1>2. r \in Ids /\ site.page = "proxy"
  BY <1>1 DEF Running, WithStatus, Rows, Served
<1>3. UNCHANGED site /\ box'[r] = box[r] => Served'
  BY <1>1, <1>2 DEF Served
<1>4. UNCHANGED <<site, box>> => Served'
  BY <1>3
<1>5. ~(FinishFails(q) \/ InsertFails(q) \/ ZdPickFails(q))
  BY <1>0 DEF FinishFails, InsertFails, ZdPickFails, Abort, Happened
<1>6. ZdPick(q) \/ ZdCheck(q) \/ ZdInsert(q) \/ ZdFinish(q) => UNCHANGED <<site, box>>
  BY DEF ZdPick, ZdCheck, ZdInsert, ZdFinish, hostVars, siteVars
<1>7. CASE ZdStart(q)
  <2>1. UNCHANGED site
    BY <1>7 DEF ZdStart, siteVars
  <2>2. CASE ZdTurnsBack(q)
    BY <1>4, <2>1, <2>2 DEF ZdTurnsBack
  <2>3. CASE ZdStarts(q)
    <3>1. req[q].pc = "start" /\ req[q].new # {} /\ req[q] \in Sessions
      BY <2>3, SessionOf DEF ZdStarts, Fits
    <3>2. Max(req[q].new) \in req[q].new /\ r \notin req[q].new
      BY <1>1, <3>1, NewestTyped DEF Front
    <3>3. box'[r] = box[r]
      BY <1>2, <2>3, <3>2, TypesOfState DEF ZdStarts, Started, BoxTable
    <3> QED BY <1>3, <2>1, <3>3
  <2> QED BY <1>7, <2>2, <2>3, ZdStartOutcomes
<1>8. CASE ZdSwitch(q)
  <2>1. site' = Config("normal", NewBackends(q)) /\ UNCHANGED box /\ req[q].pc = "switch"
    BY <1>0, <1>8 DEF ZdSwitch, Rejects, Fault, Happened
  <2>2. PICK n \in req[q].new : TRUE
    BY <2>1 DEF ServeWork
  <2>3. n \in Rows(row) /\ box[n] = row[n].port
    BY <2>1 DEF DeployTruth, WorkUp
  <2>4. n \in Ids /\ box[n] \in NewBackends(q)
    BY <2>2, <2>3 DEF NewBackends, Present, Rows
  <2>5. site'.page = "proxy" /\ site'.ups = NewBackends(q)
    BY <2>1, <2>4 DEF Config, StaticPages, TransitionPages
  <2> QED BY <2>1, <2>4, <2>5 DEF Served
<1>9. CASE ZdRetire(q) \/ ZdUndo(q)
  <2>1. UNCHANGED site /\ (UNCHANGED box \/ box' = Stopped(Turn(q)))
    BY <1>9 DEF ZdRetire, ZdUndo, StopsBox, siteVars
  <2>2. /\ req[q].pc \in {"retire", "undo"}
        /\ req[q].todo # {} /\ req[q].todo \subseteq Ids /\ req[q].todo \in SUBSET Nat
    BY <1>9, SessionOf, Bounds DEF ZdRetire, ZdUndo, Fits, Sessions
  <2>3. Turn(q) \in req[q].todo
    BY <2>2, MinIsIn DEF Turn
  <2>4. Turn(q) # r
    BY <1>1, <2>2, <2>3 DEF Front, DeployTruth
  <2>5. box'[r] = box[r]
    BY <1>2, <2>1, <2>4, TypesOfState DEF Stopped, BoxTable
  <2> QED BY <1>3, <2>1, <2>5
<1>10. ~(InsertRow(q) \/ StopBox(q) \/ StartBox(q) \/ Finish(q))
  BY StopMovesOn DEF InsertRow, StartBox, Finish
<1> QED BY <1>4, <1>5, <1>6, <1>7, <1>8, <1>9, <1>10 DEF Handle

\* Only the operator changes the mode.
LEMMA AsideKeepsFlag == Aside => UNCHANGED flag
BY DEF Aside, Task, Poll, WaitEnds, Restore, Sync, SyncsLate, Monitor, Scan, ScanEnds, GiveUp, BackOff, Revive,
       ReviveFails, Expire, Environment, ContainerDies, PortTaken, Reboot, siteVars, handlerVars

LEMMA OthersServe ==
    ASSUME TypeInv, Gone, NEW q \in Requests, req[q].kind = "zd", InFlight(q), DeployTruth(q), WorkUp(q),
           ServeWork(q), (\E o \in Requests : Arrive(o)) \/ Aside, ServeClean', Served, flag' = "normal"
    PROVE  Served'
<1>0. {"overlap", "nginx", "crash", "died", "failed", "revived", "recorded"} \cap events' = {} /\ TruthClean'
  BY DEF ServeClean, UpClean, TruthClean, Without
<1>1. PICK r \in Running : box[r] = row[r].port
  BY FrontLives DEF Served
<1>2. Busy
  BY DEF Busy
<1>3. ASSUME UNCHANGED site, \A s \in Ids : box'[s] = box[s] PROVE Served'
  BY <1>3 DEF Served
<1>4. ASSUME site' = Config("normal", Backends(row)), \A s \in Ids : box'[s] = box[s] PROVE Served'
  <2>1. r \in Ids
    BY DEF Running, WithStatus, Rows
  <2> QED BY <1>1, <1>4, <2>1, WrittenServes
<1>5. ASSUME NEW o \in Requests, Arrive(o) PROVE Served'
  <2>1. PICK h : Opens(o, h)
    BY <1>5, ArriveOpens DEF TypeInv
  <2>2. UNCHANGED box /\ req'[o] = h
    BY <1>0, <2>1, ArriveAlone DEF Opens, hostVars
  <2>3. ~StartsOn(h)
    BY <1>0, <1>2, <2>1, <2>2, ArriveAlone DEF StartsOn, Acting, InFlight
  <2>4. ~(OpensPlainly(o, h) \/ OpensWithPage(o, h) \/ PageRefused(o, h))
    BY <1>0, <2>3 DEF OpensPlainly, OpensWithPage, PageRefused, Fault, Happened
  <2>5. ModeShown(o, h)
    BY <2>1, <2>4 DEF Opens
  <2>6. site' = Config("normal", Backends(row))
    BY <1>0, <2>5 DEF ModeShown, Accepts, Rejects, Fault, Happened
  <2> QED BY <1>4, <2>2, <2>6
<1>6. ASSUME Aside PROVE Served'
  <2>1. \A s \in Ids : box'[s] = box[s]
    BY <1>0, <1>2, <1>6, AsideWhileBusy
  <2>2. UNCHANGED site \/ site' = Config(flag, Backends(row))
    BY <1>0, <1>2, <1>6, BusyAsideShows
  <2>3. UNCHANGED flag
    BY <1>6, AsideKeepsFlag
  <2> QED BY <1>3, <1>4, <2>1, <2>2, <2>3
<1> QED BY <1>5, <1>6

\* An application that is served when a deploy's step begins is served when it
\* ends, the roll-back's steps included (ZeroDowntime).
THEOREM DeployKeepsServing == Spec => ZeroDowntime
<1> DEFINE Bad == {"overlap", "died", "nginx", "failed", "revived", "recorded", "crash", "unhidden"}
           Serves == /\ \E q \in Requests : InFlight(q) /\ req[q].kind = "zd"
                     /\ Served /\ flag' = "normal"
                     => Served' \/ events' \cap Bad # {}
<1>1. ASSUME AgreeingInv, ServeInv, Moves, NEW q \in Requests, InFlight(q), req[q].kind = "zd",
             Served, flag' = "normal", events' \cap Bad = {}
      PROVE  Served'
  <2>1. ServeClean'
    BY <1>1 DEF ServeClean, UpClean, TruthClean, Without
  <2>2. TypeInv /\ Gone /\ ServeWork(q) /\ WorkUp(q) /\ (WorkTruth(q) \/ DeployTruth(q))
    BY <1>1, <2>1, HistoryGrows DEF AgreeingInv, TruthfulInv, TruthInv, UpInv, ServeInv, ServeClean,
                                    UpClean, TruthClean, Without
  <2>3. DeployTruth(q)
    BY <1>1, <2>2 DEF WorkTruth
  <2>4. \A o \in Requests : InFlight(o) => o = q
    BY <1>1, <2>1, HistoryGrows DEF AgreeingInv, TruthfulInv, Sole, ServeClean, UpClean, TruthClean,
                                    Without
  <2>5. ASSUME NEW o \in Requests, Handle(o) PROVE Served'
    <3>1. o = q
      BY <2>2, <2>4, <2>5, HandleMovesOne
    <3> QED BY <1>1, <2>1, <2>2, <2>3, <2>5, <3>1, DeployHandlerServes
  <2> QED BY <1>1, <2>1, <2>2, <2>3, <2>5, OthersServe, NextSteps
<1>2. ASSUME AgreeingInv, ServeInv, Moves PROVE Serves
  BY <1>1, <1>2
<1>3. Serves => [Serves]_vars
  OBVIOUS
<1> QED BY <1>2, <1>3, ServeHolds, SpecMoves, StutterMoves, PTL DEF Spec, ZeroDowntime

=============================================================================
