--------------------------- MODULE LocalAppProofs ---------------------------
(***************************************************************************)
(* What holds of the application on the control plane's machine for every  *)
(* number of replicas, ports, requests and failures.                       *)
(***************************************************************************)
EXTENDS LocalApp, FiniteSetTheorems, WellFoundedInduction, TLAPS

-----------------------------------------------------------------------------
(* The operators                                                           *)

LEMMA Bounds ==
    /\ MaxId \in Nat \ {0} /\ RangeEnd \in Nat \ {0} /\ MaxPort \in Nat /\ RangeEnd <= MaxPort
    /\ Ids \subseteq Nat \ {0} /\ Ports \subseteq Nat \ {0} /\ 1 \in Ids
    /\ 1..RangeEnd \subseteq Ports
    /\ None \notin Row /\ None \notin Statuses /\ None \notin Requests /\ None \notin Kinds
    /\ None \notin Ports /\ 0 \notin Ports
BY HostAssumption, AppAssumption DEF Ids, Ports, Requests

LEMMA LeastExists ==
    ASSUME NEW S \in SUBSET Nat, S # {}
    PROVE  \E x \in S : \A y \in S : x <= y
<1>1. PICK x \in S : \A y \in S : ~(<<y, x>> \in OpToRel(<, Nat))
  BY NatLessThanWellFounded, WFMin
<1>2. ASSUME NEW y \in S PROVE ~(y < x)
  BY <1>1, <1>2 DEF OpToRel
<1> QED BY <1>2

LEMMA MinIsIn ==
    ASSUME NEW S \in SUBSET Nat, S # {}
    PROVE  Min(S) \in S /\ \A y \in S : Min(S) <= y
BY LeastExists DEF Min

LEMMA MaxIsIn ==
    ASSUME NEW n \in Nat, NEW S \in SUBSET (0..n), S # {}
    PROVE  Max(S) \in S /\ \A y \in S : Max(S) >= y
<1> DEFINE T == {n - x : x \in S}
<1>1. T \subseteq Nat /\ T # {}
  <2>1. \A x \in S : n - x \in Nat
    OBVIOUS
  <2> QED BY <2>1
<1>2. PICK t \in T : \A u \in T : t <= u
  BY <1>1, LeastExists
<1>3. PICK x \in S : t = n - x
  OBVIOUS
<1>4. \A y \in S : x >= y
  BY <1>2, <1>3
<1> QED BY <1>4 DEF Max

\* The id of an insert is above every id in use.
LEMMA NextIdAbove ==
    ASSUME NEW rows \in RowTable
    PROVE  /\ NextId(rows) \in Nat
           /\ \A r \in Rows(rows) : r < NextId(rows)
           /\ NextId(rows) \notin Rows(rows)
<1>1. Rows(rows) \cup {0} \in SUBSET (0..MaxId) /\ MaxId \in Nat
  BY Bounds DEF Rows, Ids
<1>2. Max(Rows(rows) \cup {0}) \in Rows(rows) \cup {0}
      /\ \A y \in Rows(rows) \cup {0} : Max(Rows(rows) \cup {0}) >= y
  BY <1>1, MaxIsIn
<1> QED BY <1>1, <1>2 DEF NextId

LEMMA DerivedTyped == ASSUME NEW rows PROVE DerivedStatus(rows) \in Statuses
<1> DEFINE present == {i \in DOMAIN Priority : Priority[i] \in {rows[r].status : r \in Rows(rows)}}
<1>1. DOMAIN Priority = 1..5 /\ \A i \in 1..5 : Priority[i] \in Statuses
  BY DEF Priority, Statuses
<1>2. present # {} => Min(present) \in present
  <2>1. present \in SUBSET Nat
    BY <1>1
  <2> HIDE DEF present
  <2> QED BY <2>1, MinIsIn
<1>3. {"error", "stopped"} \subseteq Statuses
  BY DEF Statuses
<1> QED BY <1>1, <1>2, <1>3 DEF DerivedStatus

LEMMA BackendsTyped ==
    ASSUME NEW rows \in RowTable
    PROVE  Backends(rows) \subseteq Ports
BY Bounds DEF Backends, WithStatus, Rows, RowTable, Row

LEMMA PortsTyped ==
    ASSUME HandlersTyped, NEW r \in Ids, NEW p \in Ports
    PROVE  /\ FreePorts # {} => AssignedPort \in FreePorts
           /\ FreePorts \subseteq Ports
           /\ CanStart(r, p) => StartPort(r, p) \in Ports
           /\ CanStart(r, p) => Started(r, p) \in [Ids -> Ports \cup {0}]
           /\ Stopped(r) \in [Ids -> Ports \cup {0}]
<1>1. FreePorts \subseteq Ports /\ FreePorts \subseteq Nat
  BY Bounds DEF FreePorts
<1>2. FreePorts # {} => AssignedPort \in FreePorts
  BY <1>1, MinIsIn DEF AssignedPort
<1>3. Above(p) \subseteq Ports /\ Above(p) \subseteq Nat
  BY Bounds DEF Above
<1>4. CanStart(r, p) => StartPort(r, p) \in Ports
  BY <1>3, MinIsIn DEF CanStart, StartPort
<1>5. box \in [Ids -> Ports \cup {0}]
  BY DEF HandlersTyped
<1> QED BY <1>1, <1>2, <1>4, <1>5 DEF Started, Stopped

Configs == [page : StaticPages \cup {"proxy", "downtime", "none"}, ups : SUBSET Ports]

LEMMA ConfigTyped ==
    ASSUME NEW mode \in Modes \cup TransitionPages, NEW backends \in SUBSET Ports
    PROVE  Config(mode, backends) \in Configs
<1>1. CASE mode \in StaticPages
  BY <1>1 DEF Config, Configs, StaticPage, StaticPages, TransitionPages
<1>2. CASE mode = "normal" /\ backends = {}
  BY <1>2 DEF Config, Configs, StaticPage, StaticPages, TransitionPages
<1>3. CASE mode = "normal" /\ backends # {}
  BY <1>3 DEF Config, Configs, StaticPage, StaticPages, TransitionPages
<1> QED BY <1>1, <1>2, <1>3 DEF Modes, StaticPages

LEMMA GuardedTyped ==
    ASSUME HandlersTyped, NEW mode \in Modes
    PROVE  Guarded(mode, trans) \in Modes \cup TransitionPages
BY DEF HandlersTyped, Guarded

-----------------------------------------------------------------------------
(* Types: what a session and the monitor hold at each of their points      *)

Acting == {"insert", "stop", "start", "finish", "pick", "check", "switch", "retire", "undo"}
DeployOnly == {"pick", "check", "switch", "retire", "undo"}
Stopping == {"stop", "restart", "restart_instance", "delete_instance", "delete"}

\* A step has a replica to work on, and its row where it reads it.
Fits(h) ==
    /\ h.pc \in Acting => h.kind \in Kinds /\ h.app \in Statuses
    /\ h.pc \in Acting => Rows(h.seen) \subseteq Rows(h.mem)
    /\ h.pc \in Acting /\ h.kind # "scale" => Rows(h.mem) = Rows(h.seen)
    /\ h.pc \in Acting /\ h.kind \in {"scale", "zd"} => Rows(h.seen) = {}
    /\ h.pc = "stop" => h.kind \in Stopping
    /\ h.pc \in DeployOnly => h.kind = "zd"
    /\ h.pc \in {"stop", "start"} /\ h.kind # "zd" => h.todo # {} /\ h.todo \subseteq Rows(h.mem)
    /\ h.pc = "insert" => h.port \in Ports
    /\ h.pc = "start" /\ h.kind = "zd" => h.new # {} /\ h.port \in Ports
    /\ h.pc = "check" => h.new # {}
    /\ h.pc \in {"undo", "retire"} => h.todo # {}
SessionsFit == \A q \in Requests : Fits(req[q])
MonitorFits ==
    /\ mon.todo \subseteq WithStatus(mon.seen, {"running"})
    /\ mon.pc = "wait" => mon.todo # {}

TypeInv == HandlersTyped /\ SessionsFit /\ MonitorFits

\* How a session relates to the state it begins in.
StartsOn(h) ==
    /\ h.pc \in Acting /\ h.kind \in Kinds /\ h.app = status
    /\ h.new = {} /\ h.touched = {} /\ h.mem = h.seen
    /\ \A r \in Ids : h.seen[r] \in {None, row[r]}
    /\ h.pc = "finish" /\ h.kind # "delete_instance" => h.todo = {}
    /\ h.kind = "delete" => h.seen = row /\ h.todo = Rows(row)
    /\ h.kind = "delete_instance" =>
         \E r \in Rows(row) : /\ Rows(h.seen) = {r} /\ h.todo = {r}
                              /\ h.pc = "finish" => row[r].status # "running"
    /\ h.kind = "restart_instance" =>
         \E r \in Rows(row) : /\ Rows(h.seen) = {r}
                              /\ h.pc = "start" => row[r].status # "running"
    /\ h.kind \in {"delete", "delete_instance"} => h.pc \in {"stop", "finish"}
    /\ h.pc = "insert" => h.kind = "scale" /\ h.port \in FreePorts
    /\ h.kind = "zd" => h.pc = "pick" /\ h.seen = NoRows
    /\ h.kind = "scale" => h.pc = "insert" /\ h.seen = NoRows
    /\ h.kind # "zd" => h.flag = flag

\* The four ways a request may begin.
OpensPlainly(q, h) ==
    /\ StartsOn(h) /\ h.shown = FALSE /\ Happened(Overlap(q))
    /\ UNCHANGED <<siteVars, faults>>
OpensWithPage(q, h) ==
    /\ StartsOn(h) /\ h.shown = TRUE /\ h.kind \in {"start", "restart"} /\ Happened(Overlap(q))
    /\ flag = "normal" /\ UNCHANGED <<flag, faults>>
    /\ \E page \in TransitionPages : trans' = [page |-> page, by |-> q] /\ site' = Config(page, {})
PageRefused(q, h) ==
    /\ h = Ended /\ flag = "normal" /\ UNCHANGED <<flag, site>> /\ Fault("nginx")
    /\ \E page \in TransitionPages : trans' = [page |-> page, by |-> q]
ModeShown(q, h) ==
    /\ h = Ended /\ UNCHANGED trans
    /\ \/ \E mode \in Modes : Accepts(Config(mode, Backends(row))) /\ flag' = mode
       \/ Rejects /\ UNCHANGED flag
Opens(q, h) ==
    /\ req[q].pc = "new" /\ Exists /\ h \in Sessions /\ Fits(h)
    /\ req' = [req EXCEPT ![q] = h]
    /\ UNCHANGED <<hostVars, status, policy, writer, mon, restarts>>
    /\ OpensPlainly(q, h) \/ OpensWithPage(q, h) \/ PageRefused(q, h) \/ ModeShown(q, h)

LEMMA NoRowsTyped == NoRows \in RowTable /\ Rows(NoRows) = {}
BY DEF NoRows, RowTable, Rows

LEMMA FreshTyped ==
    /\ Fresh \in Sessions /\ Fresh.pc = "new" /\ Fits(Fresh)
    /\ Ended \in Sessions /\ Ended.pc = "done" /\ Fits(Ended)
BY NoRowsTyped DEF Fresh, Ended, Sessions, Points, Modes, Fits, Acting, DeployOnly

IsReading(h, kind, rows, todo, pc) ==
    /\ h \in Sessions /\ h.kind = kind /\ h.pc = pc /\ h.seen = rows
    /\ h.mem = rows /\ h.todo = todo /\ h.app = status /\ h.flag = flag
    /\ h.new = {} /\ h.touched = {} /\ h.shown = FALSE /\ h.app \in Statuses

LEMMA ReadsTyped ==
    ASSUME HandlersTyped, Exists, NEW kind \in Kinds, NEW rows \in RowTable,
           NEW todo \in SUBSET Ids, NEW pc \in Points
    PROVE  IsReading(Reads(kind, rows, todo, pc), kind, rows, todo, pc)
<1> DEFINE h == [Fresh EXCEPT !.kind = kind, !.flag = flag, !.app = status,
                              !.seen = rows, !.mem = rows, !.todo = todo, !.pc = pc]
<1>1. Fresh \in Sessions /\ Fresh.new = {} /\ Fresh.touched = {} /\ Fresh.shown = FALSE
  BY FreshTyped DEF Fresh
<1>2. status \in Statuses /\ flag \in Modes
  BY DEF HandlersTyped, Exists
<1>3. /\ h \in Sessions /\ h.kind = kind /\ h.pc = pc /\ h.seen = rows /\ h.mem = rows
      /\ h.todo = todo /\ h.app = status /\ h.flag = flag
      /\ h.new = Fresh.new /\ h.touched = Fresh.touched /\ h.shown = Fresh.shown
  BY <1>1, <1>2 DEF Sessions
<1>4. Reads(kind, rows, todo, pc) = h
  BY DEF Reads
<1> HIDE DEF h
<1> QED BY <1>1, <1>2, <1>3, <1>4 DEF IsReading

LEMMA RowsTyped ==
    ASSUME HandlersTyped
    PROVE  /\ row \in RowTable /\ Rows(row) \subseteq Ids
           /\ \A r \in Rows(row) : row[r] \in Row
           /\ \A s \in SUBSET Statuses : WithStatus(row, s) \subseteq Rows(row)
           /\ \A r \in Rows(row) : Only(r) \in RowTable /\ Rows(Only(r)) = {r}
                                   /\ Only(r)[r] = row[r]
                                   /\ \A s \in Ids : Only(r)[s] \in {None, row[s]}
BY DEF HandlersTyped, RowTable, Rows, WithStatus, Only, NoRows

-----------------------------------------------------------------------------
(* How requests begin                                                      *)

LEMMA PlainOpening ==
    ASSUME HandlersTyped, NEW q \in Requests, NEW h \in Sessions, Fits(h), StartsOn(h),
           h.shown = FALSE, NoPage(q, h)
    PROVE  Opens(q, h)
BY DEF NoPage, Begin, Opens, OpensPlainly, hostVars, siteVars

LEMMA PageOpening ==
    ASSUME HandlersTyped, NEW q \in Requests, NEW h \in Sessions, Fits(h), StartsOn(h),
           [h EXCEPT !.shown = TRUE] \in Sessions,
           h.kind \in {"start", "restart"}, flag = "normal",
           NEW page \in TransitionPages, ShowPage(q, page, h)
    PROVE  \E g : Opens(q, g)
<1> DEFINE g == [h EXCEPT !.shown = TRUE]
<1>1. CASE /\ site' = Config(page, {})
           /\ Begin(q, h.kind, g)
           /\ Happened(Overlap(q)) /\ UNCHANGED faults
  <2>1. /\ g.shown = TRUE /\ g.kind = h.kind /\ g.pc = h.pc /\ g.app = h.app /\ g.new = h.new
        /\ g.touched = h.touched /\ g.mem = h.mem /\ g.seen = h.seen /\ g.todo = h.todo
        /\ g.port = h.port /\ g.flag = h.flag
    BY DEF Sessions
  <2> HIDE DEF g
  <2>2. Fits(g) /\ StartsOn(g)
    <3>1. Fits(g)
      BY <2>1 DEF Fits
    <3>2. StartsOn(g)
      BY <2>1 DEF StartsOn
    <3> QED BY <3>1, <3>2
  <2>3. g \in Sessions
    BY DEF g
  <2>4. OpensWithPage(q, g)
    BY <1>1, <2>1, <2>2 DEF ShowPage, OpensWithPage
  <2> QED BY <1>1, <2>2, <2>3, <2>4 DEF ShowPage, Opens, Begin, hostVars
<1>2. CASE Begin(q, h.kind, Ended) /\ Rejects
  <2>1. PageRefused(q, Ended)
    BY <1>2 DEF ShowPage, PageRefused, Rejects
  <2> QED BY <1>2, <2>1, FreshTyped DEF ShowPage, Opens, Begin, hostVars
<1> QED BY <1>1, <1>2 DEF ShowPage

\* start_app, stop_app, restart_app and delete_app read every row.
OpensWhole(h, kind) ==
    h \in Sessions /\ Fits(h) /\ StartsOn(h) /\ h.shown = FALSE /\ h.kind = kind

LEMMA WholeAppFits ==
    ASSUME HandlersTyped, Exists, NEW kind \in {"start", "stop", "restart", "delete"}, kind \in Kinds,
           NEW todo \in SUBSET Rows(row), NEW pc \in {"stop", "start", "finish"},
           pc = "finish" <=> todo = {},
           pc = "stop" => kind \in Stopping,
           kind = "delete" => todo = Rows(row) /\ pc # "start"
    PROVE  OpensWhole(Reads(kind, row, todo, pc), kind)
<1> DEFINE g == Reads(kind, row, todo, pc)
<1>1. pc \in Points /\ todo \in SUBSET Ids
  BY RowsTyped DEF Points
<1>2. /\ g \in Sessions /\ g.kind = kind /\ g.pc = pc /\ g.seen = row
      /\ g.mem = row /\ g.todo = todo /\ g.app = status /\ g.flag = flag
      /\ g.new = {} /\ g.touched = {} /\ g.shown = FALSE /\ g.app \in Statuses
  <2>1. row \in RowTable
    BY RowsTyped
  <2> QED BY <1>1, <2>1, ReadsTyped DEF IsReading
<1> HIDE DEF g
<1>3. Fits(g)
  BY <1>2 DEF Fits, DeployOnly
<1>4. StartsOn(g)
  BY <1>2 DEF StartsOn, Acting
<1>5. OpensWhole(g, kind)
  BY <1>2, <1>3, <1>4 DEF OpensWhole
<1> QED BY <1>5 DEF g

LEMMA StartOpens ==
    ASSUME HandlersTyped, NEW q \in Requests, StartApp(q)
    PROVE  \E h : Opens(q, h)
<1> DEFINE todo == WithStatus(row, {"stopped", "error", "pending", "node_offline"})
           pc == StepOrFinish(todo, "start")
           h == Reads("start", row, todo, pc)
<1>1. Exists /\ "start" \in Kinds
  BY DEF StartApp, ShowPage, NoPage, Begin, Reads, Fresh
<1>2. todo \subseteq Rows(row) /\ pc \in {"start", "finish"} /\ (pc = "finish" <=> todo = {})
  BY DEF WithStatus, StepOrFinish
<1>3. h \in Sessions /\ Fits(h) /\ StartsOn(h) /\ h.shown = FALSE /\ h.kind = "start"
  <2>1. OpensWhole(h, "start")
    <3> HIDE DEF todo, pc
    <3> QED BY <1>1, <1>2, WholeAppFits
  <2> HIDE DEF h
  <2> QED BY <2>1 DEF OpensWhole
<1>4. [h EXCEPT !.shown = TRUE] \in Sessions
  BY <1>3 DEF Sessions
<1>5. (flag = "normal" /\ ShowPage(q, "starting", h)) \/ NoPage(q, h)
  BY DEF StartApp
<1> HIDE DEF h, todo, pc
<1> QED BY <1>3, <1>4, <1>5, PlainOpening, PageOpening DEF TransitionPages

LEMMA StopOpens ==
    ASSUME HandlersTyped, NEW q \in Requests, StopApp(q)
    PROVE  \E h : Opens(q, h)
<1> DEFINE todo == WithStatus(row, Live \cup {"stopping", "node_offline"})
           pc == StepOrFinish(todo, "stop")
           h == Reads("stop", row, todo, pc)
<1>1. Exists /\ "stop" \in Kinds
  BY DEF StopApp, NoPage, Begin, Reads, Fresh
<1>2. todo \subseteq Rows(row) /\ pc \in {"stop", "finish"} /\ (pc = "finish" <=> todo = {})
  BY DEF WithStatus, StepOrFinish
<1>3. h \in Sessions /\ Fits(h) /\ StartsOn(h) /\ h.shown = FALSE
  <2>1. OpensWhole(h, "stop")
    <3> HIDE DEF todo, pc
    <3> QED BY <1>1, <1>2, WholeAppFits DEF Stopping
  <2> HIDE DEF h
  <2> QED BY <2>1 DEF OpensWhole
<1>4. NoPage(q, h)
  BY DEF StopApp
<1> HIDE DEF h, todo, pc
<1> QED BY <1>3, <1>4, PlainOpening

LEMMA RestartOpens ==
    ASSUME HandlersTyped, NEW q \in Requests, RestartApp(q)
    PROVE  \E h : Opens(q, h)
<1> DEFINE todo == Rows(row)
           pc == RestartPc(row, todo)
           h == Reads("restart", row, todo, pc)
<1>1. Exists /\ "restart" \in Kinds
  BY DEF RestartApp, ShowPage, NoPage, Begin, Reads, Fresh
<1>2. todo \subseteq Rows(row) /\ pc \in {"stop", "start", "finish"} /\ (pc = "finish" <=> todo = {})
  BY DEF RestartPc
<1>3. h \in Sessions /\ Fits(h) /\ StartsOn(h) /\ h.shown = FALSE /\ h.kind = "restart"
  <2>1. OpensWhole(h, "restart")
    <3> HIDE DEF todo, pc
    <3> QED BY <1>1, <1>2, WholeAppFits DEF Stopping
  <2> HIDE DEF h
  <2> QED BY <2>1 DEF OpensWhole
<1>4. [h EXCEPT !.shown = TRUE] \in Sessions
  BY <1>3 DEF Sessions
<1>5. (flag = "normal" /\ ShowPage(q, "restart", h)) \/ NoPage(q, h)
  BY DEF RestartApp
<1> HIDE DEF h, todo, pc
<1> QED BY <1>3, <1>4, <1>5, PlainOpening, PageOpening DEF TransitionPages

LEMMA DeleteOpens ==
    ASSUME HandlersTyped, NEW q \in Requests, DeleteApp(q)
    PROVE  \E h : Opens(q, h)
<1> DEFINE todo == Rows(row)
           pc == StepOrFinish(todo, "stop")
           h == Reads("delete", row, todo, pc)
<1>1. Exists /\ "delete" \in Kinds
  BY DEF DeleteApp, NoPage, Begin, Reads, Fresh
<1>2. pc \in {"stop", "finish"} /\ (pc = "finish" <=> todo = {}) /\ todo = Rows(row)
  BY DEF StepOrFinish
<1>3. h \in Sessions /\ Fits(h) /\ StartsOn(h) /\ h.shown = FALSE
  <2>1. OpensWhole(h, "delete")
    <3> HIDE DEF todo, pc
    <3> QED BY <1>1, <1>2, WholeAppFits DEF Stopping
  <2> HIDE DEF h
  <2> QED BY <2>1 DEF OpensWhole
<1>4. NoPage(q, h)
  BY DEF DeleteApp
<1> HIDE DEF h, todo, pc
<1> QED BY <1>3, <1>4, PlainOpening

\* restart_instance and delete_instance read one row.
LEMMA InstanceOpens ==
    ASSUME HandlersTyped, NEW q \in Requests, NEW r \in Ids,
           RestartInstance(q, r) \/ DeleteInstance(q, r)
    PROVE  \E h : Opens(q, h)
<1> DEFINE kind == IF RestartInstance(q, r) THEN "restart_instance" ELSE "delete_instance"
           pc == IF RestartInstance(q, r)
                 THEN IF row[r].status = "running" THEN "stop" ELSE "start"
                 ELSE IF row[r].status \in {"stopped", "error"} THEN "finish" ELSE "stop"
           h == Reads(kind, Only(r), {r}, pc)
<1>1. r \in Rows(row) /\ NoPage(q, h)
  BY DEF RestartInstance, DeleteInstance
<1>2. /\ kind \in {"restart_instance", "delete_instance"} /\ pc \in {"start", "stop", "finish"}
      /\ pc = "start" => row[r].status # "running" /\ kind = "restart_instance"
      /\ pc = "finish" => row[r].status # "running" /\ kind = "delete_instance"
  OBVIOUS
<1>3. Exists /\ kind \in Kinds
  BY DEF RestartInstance, DeleteInstance, NoPage, Begin, Reads, Fresh
<1> HIDE DEF kind, pc
<1>4. /\ h \in Sessions /\ h.kind = kind /\ h.pc = pc /\ h.seen = Only(r)
      /\ h.mem = Only(r) /\ h.todo = {r} /\ h.app = status /\ h.flag = flag
      /\ h.new = {} /\ h.touched = {} /\ h.shown = FALSE /\ h.app \in Statuses
  <2>1. Only(r) \in RowTable /\ {r} \in SUBSET Ids
    BY <1>1, RowsTyped
  <2>2. pc \in Points
    BY <1>2 DEF Points
  <2> QED BY <1>3, <2>1, <2>2, ReadsTyped DEF IsReading
<1> HIDE DEF h
<1>5. Rows(h.seen) = {r} /\ Rows(h.mem) = {r} /\ \A s \in Ids : h.seen[s] \in {None, row[s]}
  BY <1>1, <1>4, RowsTyped
<1>6. Fits(h)
  BY <1>2, <1>3, <1>4, <1>5 DEF Fits, DeployOnly, Stopping
<1>7. StartsOn(h)
  BY <1>1, <1>2, <1>3, <1>4, <1>5 DEF StartsOn, Acting
<1> QED BY <1>1, <1>4, <1>6, <1>7, PlainOpening

LEMMA ScaleOpens ==
    ASSUME HandlersTyped, NEW q \in Requests, ScaleApp(q)
    PROVE  \E h : Opens(q, h)
<1> DEFINE g == Reads("scale", NoRows, {}, "insert")
           h == [g EXCEPT !.port = AssignedPort]
<1>1. NoPage(q, h) /\ FreePorts # {} /\ Exists
  BY DEF ScaleApp, NoPage, Begin
<1>2. "scale" \in Kinds
  BY DEF ScaleApp, NoPage, Begin, Reads, Fresh
<1>3. AssignedPort \in FreePorts /\ AssignedPort \in Ports
  <2>1. 1 \in Ids /\ 1 \in Nat /\ MaxPort \in Nat /\ RangeEnd <= MaxPort /\ RangeEnd \in Nat \ {0}
    BY Bounds
  <2>2. 1 \in Ports
    BY <2>1 DEF Ports
  <2> QED BY <1>1, <2>1, <2>2, PortsTyped
<1>4. /\ g \in Sessions /\ g.kind = "scale" /\ g.pc = "insert" /\ g.seen = NoRows
      /\ g.mem = NoRows /\ g.todo = {} /\ g.app = status /\ g.flag = flag
      /\ g.new = {} /\ g.touched = {} /\ g.shown = FALSE /\ g.app \in Statuses
  <2>1. "insert" \in Points /\ {} \in SUBSET Ids
    BY DEF Points
  <2> QED BY <1>1, <1>2, <2>1, ReadsTyped, NoRowsTyped DEF IsReading
<1> HIDE DEF g
<1>5. /\ h \in Sessions /\ h.kind = "scale" /\ h.pc = "insert" /\ h.seen = NoRows
      /\ h.mem = NoRows /\ h.todo = {} /\ h.app = status /\ h.flag = flag /\ h.port = AssignedPort
      /\ h.new = {} /\ h.touched = {} /\ h.shown = FALSE /\ h.app \in Statuses
  BY <1>3, <1>4 DEF Sessions
<1> HIDE DEF h
<1>6. Fits(h)
  BY <1>2, <1>3, <1>5, NoRowsTyped DEF Fits, DeployOnly
<1>7. StartsOn(h)
  BY <1>2, <1>3, <1>5, NoRowsTyped DEF StartsOn, Acting, NoRows
<1> QED BY <1>1, <1>5, <1>6, <1>7, PlainOpening

LEMMA DeployOpens ==
    ASSUME HandlersTyped, NEW q \in Requests, DeployZeroDowntime(q)
    PROVE  \E h : Opens(q, h)
<1>1. PICK todo \in SUBSET Ids :
           NoPage(q, [Reads("zd", NoRows, todo, "pick") EXCEPT !.flag = "normal"])
  <2>1. WithStatus(row, {"running"}) \subseteq Ids /\ {1} \subseteq Ids
    BY Bounds, RowsTyped DEF WithStatus
  <2> QED BY <2>1 DEF DeployZeroDowntime
<1> DEFINE g == Reads("zd", NoRows, todo, "pick")
           h == [g EXCEPT !.flag = "normal"]
<1>2. Exists /\ "zd" \in Kinds
  BY <1>1 DEF NoPage, Begin, Reads, Fresh
<1>3. NoRows \in RowTable /\ "pick" \in Points /\ todo \in SUBSET Ids
  BY <1>1, NoRowsTyped DEF Points
<1>4. /\ g \in Sessions /\ g.kind = "zd" /\ g.pc = "pick" /\ g.seen = NoRows
      /\ g.mem = NoRows /\ g.todo = todo /\ g.app = status
      /\ g.new = {} /\ g.touched = {} /\ g.shown = FALSE /\ g.app \in Statuses
  <2>1. IsReading(g, "zd", NoRows, todo, "pick")
    BY <1>2, <1>3, ReadsTyped
  <2> QED BY <2>1 DEF IsReading
<1>8. NoPage(q, h)
  BY <1>1
<1> HIDE DEF g
<1>5. /\ h \in Sessions /\ h.kind = "zd" /\ h.pc = "pick" /\ h.seen = NoRows
      /\ h.mem = NoRows /\ h.app = status
      /\ h.new = {} /\ h.touched = {} /\ h.shown = FALSE /\ h.app \in Statuses
  BY <1>4 DEF Sessions, Modes
<1> HIDE DEF h
<1>6. Fits(h)
  BY <1>2, <1>5, NoRowsTyped DEF Fits, DeployOnly
<1>7. StartsOn(h)
  BY <1>2, <1>5, NoRowsTyped DEF StartsOn, Acting, NoRows
<1> QED BY <1>8, <1>5, <1>6, <1>7, PlainOpening

LEMMA ModeOpens ==
    ASSUME HandlersTyped, NEW q \in Requests,
           ToggleMaintenance(q) \/ ToggleUpdate(q) \/ RefreshNginx(q)
    PROVE  Opens(q, Ended)
<1>1. PICK kind \in {"maintenance", "update", "refresh"}, mode \in Modes : ShowMode(q, kind, mode)
  BY DEF HandlersTyped, ToggleMaintenance, ToggleUpdate, RefreshNginx, Modes
<1>2. ModeShown(q, Ended)
  BY <1>1 DEF ShowMode, ModeShown
<1> QED BY <1>1, <1>2, FreshTyped DEF ShowMode, Begin, Opens, hostVars

\* Every request begins in one of the four ways.
LEMMA ArriveOpens ==
    ASSUME HandlersTyped, NEW q \in Requests, Arrive(q)
    PROVE  \E h : Opens(q, h)
BY StartOpens, StopOpens, RestartOpens, DeleteOpens, InstanceOpens, ScaleOpens, DeployOpens,
   ModeOpens DEF Arrive

-----------------------------------------------------------------------------
(* Every step keeps the types                                              *)

BoxTable == [Ids -> Ports \cup {0}]
Transitions == [page : TransitionPages, by : Requests] \cup {Nobody}

LEMMA FaultTyped ==
    ASSUME HandlersTyped
    PROVE  /\ \A what : Fault(what) => faults' \in 0..MaxFaults
           /\ Rejects => faults' \in 0..MaxFaults
           /\ NoFault => faults' \in 0..MaxFaults
BY AppAssumption DEF HandlersTyped, Fault, MayFail, Rejects, NoFault

\* What remains to be shown of a step that moves one session.
LEMMA SessionKeepsTypes ==
    ASSUME TypeInv, NEW q \in Requests, NEW h \in Sessions, Fits(h),
           req' = [req EXCEPT ![q] = h],
           row' \in RowTable, box' \in BoxTable, site' \in Configs, flag' \in Modes,
           trans' \in Transitions, status' \in Statuses \cup {"deleted"},
           writer' \in Requests \cup {None}, faults' \in 0..MaxFaults,
           UNCHANGED <<foreign, policy, mon, restarts>>
    PROVE  TypeInv'
<1>1. HandlersTyped'
  BY DEF TypeInv, HandlersTyped, BoxTable, Configs, Transitions
<1>2. SessionsFit'
  BY DEF TypeInv, HandlersTyped, SessionsFit
<1>3. MonitorFits'
  BY DEF TypeInv, MonitorFits, WithStatus
<1> QED BY <1>1, <1>2, <1>3 DEF TypeInv

LEMMA TypesOfState ==
    ASSUME TypeInv
    PROVE  /\ row \in RowTable /\ box \in BoxTable /\ site \in Configs /\ flag \in Modes
           /\ trans \in Transitions /\ status \in Statuses \cup {"deleted"}
           /\ writer \in Requests \cup {None} /\ faults \in 0..MaxFaults
           /\ \A q \in Requests : req[q] \in Sessions /\ Fits(req[q])
           /\ HandlersTyped
BY DEF TypeInv, HandlersTyped, BoxTable, Configs, Transitions, SessionsFit

LEMMA OpensTyped ==
    ASSUME TypeInv, NEW q \in Requests, NEW h, Opens(q, h)
    PROVE  TypeInv'
<1>1. /\ h \in Sessions /\ Fits(h) /\ req' = [req EXCEPT ![q] = h]
      /\ UNCHANGED <<row, box, foreign, status, policy, writer, mon, restarts>>
  BY DEF Opens, hostVars
<1>2. site' \in Configs /\ flag' \in Modes /\ trans' \in Transitions /\ faults' \in 0..MaxFaults
  <2>1. CASE OpensPlainly(q, h)
    BY <2>1, TypesOfState DEF OpensPlainly, siteVars
  <2>2. CASE OpensWithPage(q, h)
    BY <2>2, TypesOfState, ConfigTyped DEF OpensWithPage, Transitions
  <2>3. CASE PageRefused(q, h)
    BY <2>3, TypesOfState, FaultTyped DEF PageRefused, Transitions
  <2>4. CASE ModeShown(q, h)
    <3>1. Backends(row) \in SUBSET Ports
      BY TypesOfState, BackendsTyped
    <3>2. CASE \E mode \in Modes : Accepts(Config(mode, Backends(row))) /\ flag' = mode
      BY <2>4, <3>1, <3>2, TypesOfState, ConfigTyped DEF ModeShown, Accepts
    <3>3. CASE Rejects /\ UNCHANGED flag
      BY <2>4, <3>3, TypesOfState, FaultTyped DEF ModeShown, Rejects
    <3> QED BY <2>4, <3>2, <3>3 DEF ModeShown
  <2> QED BY <2>1, <2>2, <2>3, <2>4 DEF Opens
<1> QED BY <1>1, <1>2, TypesOfState, SessionKeepsTypes

LEMMA InsertRowTyped ==
    ASSUME TypeInv, NEW q \in Requests, InsertRow(q)
    PROVE  TypeInv'
<1> DEFINE id == NextId(row)
           mem == [NoRows EXCEPT ![id] = [status |-> "pending", port |-> req[q].port]]
           h == [req[q] EXCEPT !.pc = "start", !.todo = {id}, !.mem = mem]
<1>1. /\ req[q].pc = "insert" /\ req[q].kind = "scale" /\ id \in Ids
      /\ req' = [req EXCEPT ![q] = h] /\ writer' = q /\ NoFault
      /\ UNCHANGED <<row, box, foreign, site, flag, trans, status, policy, mon, restarts>>
  BY DEF InsertRow, hostVars, siteVars
<1> HIDE DEF id
<1>2. req[q] \in Sessions /\ Fits(req[q])
  BY TypesOfState
<1>3. mem \in RowTable /\ Rows(mem) = {id}
  <2>1. [status |-> "pending", port |-> req[q].port] \in Row
    BY <1>1, <1>2 DEF Fits, Row, Statuses
  <2> QED BY <1>1, <2>1, Bounds DEF RowTable, NoRows, Rows
<1> HIDE DEF mem
<1>4. /\ h \in Sessions /\ h.kind = "scale" /\ h.pc = "start" /\ h.todo = {id} /\ h.mem = mem
      /\ h.seen = req[q].seen /\ h.app = req[q].app
  BY <1>1, <1>2, <1>3 DEF Sessions, Points
<1> HIDE DEF h
<1>5. Fits(h)
  BY <1>1, <1>2, <1>3, <1>4 DEF Fits, Acting, DeployOnly
<1> QED BY <1>1, <1>4, <1>5, TypesOfState, FaultTyped, SessionKeepsTypes

LEMMA AbortTyped ==
    ASSUME TypeInv, NEW q \in Requests, Abort(q), site' \in Configs
    PROVE  TypeInv'
<1>1. /\ req' = [req EXCEPT ![q] = Ended]
      /\ UNCHANGED <<row, box, foreign, flag, trans, status, policy, mon, restarts, faults>>
      /\ writer' \in Requests \cup {None}
  BY TypesOfState DEF Abort, hostVars
<1> QED BY <1>1, FreshTyped, TypesOfState, SessionKeepsTypes

LEMMA BoxesTyped ==
    ASSUME TypeInv, NEW r, StopsBox(r)
    PROVE  box' \in BoxTable /\ faults' \in 0..MaxFaults
BY TypesOfState, FaultTyped DEF StopsBox, Stopped, BoxTable

\* A stop, or a start, goes on with the row's turn taken.
LEMMA TurnTyped ==
    ASSUME TypeInv, NEW q \in Requests, req[q].pc \in {"stop", "start"}, req[q].kind # "zd"
    PROVE  /\ Turn(q) \in req[q].todo /\ Turn(q) \in Ids /\ Turn(q) \in Rows(req[q].mem)
           /\ req[q].mem \in RowTable /\ req[q].mem[Turn(q)] \in Row
           /\ \A rec \in Row :
                 /\ [req[q].mem EXCEPT ![Turn(q)] = rec] \in RowTable
                 /\ Rows([req[q].mem EXCEPT ![Turn(q)] = rec]) = Rows(req[q].mem)
<1>1. req[q] \in Sessions /\ Fits(req[q])
  BY TypesOfState
<1>2. req[q].todo \in SUBSET Nat /\ req[q].todo # {} /\ req[q].todo \subseteq Rows(req[q].mem)
      /\ req[q].mem \in RowTable /\ req[q].todo \subseteq Ids
  BY <1>1, Bounds DEF Fits, Sessions
<1>3. Turn(q) \in req[q].todo
  BY <1>2, MinIsIn DEF Turn
<1>4. Turn(q) \in Ids /\ req[q].mem[Turn(q)] \in Row
  BY <1>2, <1>3 DEF Rows, RowTable
<1> QED BY <1>2, <1>3, <1>4, Bounds DEF Rows, RowTable

\* How a stop or a start leaves its session.
MovesOn(q, todo, pc, mem, touched) ==
    /\ mem \in RowTable /\ Rows(mem) = Rows(req[q].mem)
    /\ todo \subseteq req[q].todo /\ touched \subseteq Ids
    /\ pc \in {"stop", "start", "finish"} /\ (pc # "finish" => todo # {})
    /\ pc = "stop" => req[q].kind \in Stopping
    /\ req' = [req EXCEPT ![q] = [req[q] EXCEPT !.todo = todo, !.pc = pc, !.mem = mem,
                                                !.touched = touched]]

LEMMA MovesOnTyped ==
    ASSUME TypeInv, NEW q \in Requests, req[q].pc \in {"stop", "start"}, req[q].kind # "zd",
           NEW todo, NEW pc, NEW mem, NEW touched, MovesOn(q, todo, pc, mem, touched),
           box' \in BoxTable, faults' \in 0..MaxFaults,
           UNCHANGED <<row, foreign, siteVars, status, policy, writer, mon, restarts>>
    PROVE  TypeInv'
<1> DEFINE h == [req[q] EXCEPT !.todo = todo, !.pc = pc, !.mem = mem, !.touched = touched]
<1>1. req[q] \in Sessions /\ Fits(req[q])
  BY TypesOfState
<1>2. mem \in RowTable /\ touched \subseteq Ids /\ todo \subseteq req[q].todo
      /\ Rows(mem) = Rows(req[q].mem) /\ pc \in {"stop", "start", "finish"}
      /\ (pc # "finish" => todo # {}) /\ req' = [req EXCEPT ![q] = h]
      /\ (pc = "stop" => req[q].kind \in Stopping)
  BY DEF MovesOn
<1>3. /\ h \in Sessions /\ h.todo = todo /\ h.pc = pc /\ h.mem = mem /\ h.seen = req[q].seen
      /\ h.kind = req[q].kind /\ h.app = req[q].app
  BY <1>1, <1>2 DEF Sessions, Points
<1> HIDE DEF h
<1>4. Fits(h)
  BY <1>1, <1>2, <1>3 DEF Fits, Acting, DeployOnly
<1> QED BY <1>2, <1>3, <1>4, TypesOfState, SessionKeepsTypes DEF siteVars

\* What a stop leaves to do, and what it writes down.
StopsTo(q, todo, pc, mem) ==
    LET r == Turn(q)
        kind == req[q].kind
        rest == req[q].todo \ {r}
    IN  /\ mem = IF kind \in {"stop", "restart"} THEN [req[q].mem EXCEPT ![r].status = "stopped"]
                 ELSE req[q].mem
        /\ \/ kind \in {"stop", "delete"} /\ todo = rest /\ pc = StepOrFinish(rest, "stop")
           \/ kind = "restart" /\ todo = req[q].todo /\ pc = "start"
           \/ kind = "restart_instance" /\ todo = {r} /\ pc = "start"
           \/ kind = "delete_instance" /\ pc = "finish"

LEMMA StopMovesOn ==
    ASSUME TypeInv, NEW q \in Requests, StopBox(q)
    PROVE  /\ req[q].kind \in Stopping /\ req[q].kind # "zd" /\ Turn(q) \in req[q].todo
           /\ \E todo, pc, mem, touched :
                MovesOn(q, todo, pc, mem, touched) /\ StopsTo(q, todo, pc, mem)
<1> DEFINE r == Turn(q)
           rest == req[q].todo \ {r}
           rec == [req[q].mem[r] EXCEPT !.status = "stopped"]
           down == [req[q].mem EXCEPT ![r].status = "stopped"]
           seen(mem) == IF mem = req[q].mem THEN req[q].touched ELSE req[q].touched \cup {r}
<1>1. req[q].pc = "stop" /\ req[q] \in Sessions /\ req[q].kind \in Stopping
      /\ req[q].kind # "zd"
  BY TypesOfState DEF StopBox, Fits, Stopping
<1>2. /\ r \in req[q].todo /\ r \in Ids /\ req[q].mem \in RowTable
      /\ req[q].mem[r] \in Row /\ down \in RowTable /\ Rows(down) = Rows(req[q].mem)
  <2>1. rec \in Row /\ down = [req[q].mem EXCEPT ![r] = rec]
    BY <1>1, TurnTyped DEF Row, Statuses
  <2> QED BY <1>1, <2>1, TurnTyped
<1>3. \A mem : seen(mem) \subseteq Ids
  BY <1>1, <1>2 DEF Sessions
<1>4. /\ StepOrFinish(rest, "stop") \in {"stop", "finish"}
      /\ StepOrFinish(rest, "stop") # "finish" => rest # {}
  BY DEF StepOrFinish
<1>5. CASE req[q].kind = "stop"
  <2>1. /\ MovesOn(q, rest, StepOrFinish(rest, "stop"), down, seen(down))
        /\ StopsTo(q, rest, StepOrFinish(rest, "stop"), down)
    BY <1>1, <1>2, <1>3, <1>4, <1>5 DEF StopBox, MovesOn, StopsTo
  <2> QED BY <1>1, <1>2, <2>1
<1>6. CASE req[q].kind = "restart"
  <2>1. /\ MovesOn(q, {r} \cup rest, "start", down, seen(down))
        /\ StopsTo(q, {r} \cup rest, "start", down)
    BY <1>2, <1>3, <1>6 DEF StopBox, MovesOn, StopsTo
  <2> QED BY <1>1, <1>2, <2>1
<1>7. CASE req[q].kind = "restart_instance"
  <2>1. /\ MovesOn(q, {r}, "start", req[q].mem, seen(req[q].mem))
        /\ StopsTo(q, {r}, "start", req[q].mem)
    BY <1>2, <1>3, <1>7 DEF StopBox, MovesOn, StopsTo
  <2> QED BY <1>1, <1>2, <2>1
<1>8. CASE req[q].kind = "delete_instance"
  <2>1. /\ MovesOn(q, {}, "finish", req[q].mem, seen(req[q].mem))
        /\ StopsTo(q, {}, "finish", req[q].mem)
    BY <1>2, <1>3, <1>8 DEF StopBox, MovesOn, StopsTo
  <2> QED BY <1>1, <1>2, <2>1
<1>9. CASE req[q].kind = "delete"
  <2>1. /\ MovesOn(q, rest, StepOrFinish(rest, "stop"), req[q].mem, seen(req[q].mem))
        /\ StopsTo(q, rest, StepOrFinish(rest, "stop"), req[q].mem)
    BY <1>1, <1>2, <1>3, <1>4, <1>9 DEF StopBox, MovesOn, StopsTo
  <2> QED BY <1>1, <1>2, <2>1
<1> QED BY <1>1, <1>5, <1>6, <1>7, <1>8, <1>9 DEF Stopping

LEMMA StopBoxTyped ==
    ASSUME TypeInv, NEW q \in Requests, StopBox(q)
    PROVE  TypeInv'
<1>1. /\ req[q].pc = "stop" /\ StopsBox(Turn(q))
      /\ UNCHANGED <<row, foreign, siteVars, status, policy, writer, mon, restarts>>
  BY DEF StopBox
<1>2. box' \in BoxTable /\ faults' \in 0..MaxFaults
  BY <1>1, BoxesTyped
<1> QED BY <1>1, <1>2, StopMovesOn, MovesOnTyped

LEMMA RaiseTyped ==
    ASSUME TypeInv, NEW q \in Requests, NEW what, Raise(q, what),
           UNCHANGED <<row, box, foreign, siteVars, status, policy, mon, restarts>>
    PROVE  TypeInv'
<1>1. /\ req' = [req EXCEPT ![q] = Ended] /\ writer' \in Requests \cup {None}
      /\ faults' \in 0..MaxFaults
  BY TypesOfState, FaultTyped DEF Raise
<1> QED BY <1>1, FreshTyped, TypesOfState, SessionKeepsTypes DEF siteVars

\* A start that succeeds, or whose failure is recorded, moves its session on.
StartMoves(q, state, port) ==
    LET r == Turn(q)
        rest == req[q].todo \ {r}
        After == IF req[q].kind = "restart" THEN RestartPc(req[q].mem, rest)
                 ELSE StepOrFinish(rest, "start")
    IN  MovesOn(q, rest, After, [req[q].mem EXCEPT ![r] = [status |-> state, port |-> port]],
                req[q].touched \cup {r})

LEMMA StartMovesOn ==
    ASSUME TypeInv, NEW q \in Requests, req[q].pc = "start", req[q].kind # "zd",
           NEW state \in Statuses, NEW port \in Ports,
           req' = [req EXCEPT ![q] =
                     [req[q] EXCEPT !.todo = req[q].todo \ {Turn(q)},
                                    !.pc = IF req[q].kind = "restart"
                                           THEN RestartPc(req[q].mem, req[q].todo \ {Turn(q)})
                                           ELSE StepOrFinish(req[q].todo \ {Turn(q)}, "start"),
                                    !.touched = @ \cup {Turn(q)},
                                    !.mem[Turn(q)] = [status |-> state, port |-> port]]]
    PROVE  StartMoves(q, state, port)
<1> DEFINE r == Turn(q)
           rest == req[q].todo \ {r}
           rec == [status |-> state, port |-> port]
           After == IF req[q].kind = "restart" THEN RestartPc(req[q].mem, rest)
                    ELSE StepOrFinish(rest, "start")
           mem == [req[q].mem EXCEPT ![r] = rec]
<1>1. rec \in Row /\ r \in Ids /\ req[q] \in Sessions
  BY TurnTyped, TypesOfState DEF Row
<1>2. mem \in RowTable /\ Rows(mem) = Rows(req[q].mem)
  BY <1>1, TurnTyped
<1>3. /\ After \in {"stop", "start", "finish"} /\ (After # "finish" => rest # {})
      /\ (After = "stop" => req[q].kind \in Stopping)
  BY DEF StepOrFinish, RestartPc, Stopping
<1>4. rest \subseteq req[q].todo /\ req[q].touched \cup {r} \subseteq Ids
  BY <1>1 DEF Sessions
<1>5. req' = [req EXCEPT ![q] = [req[q] EXCEPT !.todo = rest, !.pc = After, !.mem = mem,
                                               !.touched = req[q].touched \cup {r}]]
  <2>1. [req[q] EXCEPT !.todo = rest, !.pc = After, !.touched = @ \cup {r}, !.mem[r] = rec]
          = [req[q] EXCEPT !.todo = rest, !.pc = After, !.mem = mem,
                           !.touched = req[q].touched \cup {r}]
    <3> HIDE DEF rest, After, rec
    <3> QED BY <1>1 DEF Sessions
  <2> QED BY <2>1
<1> QED BY <1>2, <1>3, <1>4, <1>5 DEF StartMoves, MovesOn

\* The three outcomes of a start; a failure that is recorded leaves the port
\* or moves it to where the container was tried next.
LEMMA StartOutcomes ==
    ASSUME TypeInv, NEW q \in Requests, StartBox(q)
    PROVE  /\ req[q].pc = "start" /\ req[q].kind # "zd" /\ Turn(q) \in req[q].todo
           /\ req[q].mem[Turn(q)] \in Row
           /\ UNCHANGED <<row, foreign, siteVars, status, policy, mon, restarts>>
           /\ \/ /\ CanStart(Turn(q), req[q].mem[Turn(q)].port)
                 /\ box' = Started(Turn(q), req[q].mem[Turn(q)].port)
                 /\ StartMoves(q, "running", StartPort(Turn(q), req[q].mem[Turn(q)].port))
                 /\ StartPort(Turn(q), req[q].mem[Turn(q)].port) \in Ports
                 /\ NoFault /\ UNCHANGED writer
              \/ /\ \E port \in Ports \cap {req[q].mem[Turn(q)].port,
                                         StartPort(Turn(q), req[q].mem[Turn(q)].port)} :
                      StartMoves(q, "error", port)
                 /\ Fault("failed") /\ UNCHANGED <<box, writer>>
              \/ Raise(q, "failed") /\ UNCHANGED box
<1> DEFINE r == Turn(q)
           p == req[q].mem[r].port
<1>1. /\ req[q].pc = "start" /\ req[q].kind # "zd"
      /\ UNCHANGED <<row, foreign, siteVars, status, policy, mon, restarts>>
  BY DEF StartBox
<1>2. r \in req[q].todo /\ r \in Ids /\ req[q].mem[r] \in Row /\ p \in Ports
  BY <1>1, TurnTyped DEF Row
<1>3. "running" \in Statuses /\ "error" \in Statuses
  BY DEF Statuses
<1>4. ASSUME CanStart(r, p), box' = Started(r, p), NoFault, UNCHANGED writer,
             req' = [req EXCEPT ![q] =
                       [req[q] EXCEPT !.todo = req[q].todo \ {r},
                                      !.pc = IF req[q].kind = "restart"
                                             THEN RestartPc(req[q].mem, req[q].todo \ {r})
                                             ELSE StepOrFinish(req[q].todo \ {r}, "start"),
                                      !.touched = @ \cup {r},
                                      !.mem[r] = [status |-> "running", port |-> StartPort(r, p)]]]
      PROVE  StartMoves(q, "running", StartPort(r, p)) /\ StartPort(r, p) \in Ports
  <2>1. StartPort(r, p) \in Ports
    BY <1>2, <1>4, PortsTyped DEF TypeInv
  <2> QED BY <1>1, <1>3, <1>4, <2>1, StartMovesOn
<1>5. ASSUME NEW port \in IF CanStart(r, p) THEN {p, StartPort(r, p)} ELSE {p},
             req' = [req EXCEPT ![q] =
                       [req[q] EXCEPT !.todo = req[q].todo \ {r},
                                      !.pc = IF req[q].kind = "restart"
                                             THEN RestartPc(req[q].mem, req[q].todo \ {r})
                                             ELSE StepOrFinish(req[q].todo \ {r}, "start"),
                                      !.touched = @ \cup {r},
                                      !.mem[r] = [status |-> "error", port |-> port]]]
      PROVE  \E t \in Ports \cap {p, StartPort(r, p)} : StartMoves(q, "error", t)
  <2>1. port \in Ports
    BY <1>2, PortsTyped DEF TypeInv
  <2> QED BY <1>1, <1>3, <1>5, <2>1, StartMovesOn
<1> QED BY <1>1, <1>2, <1>4, <1>5 DEF StartBox

LEMMA StartBoxTyped ==
    ASSUME TypeInv, NEW q \in Requests, StartBox(q)
    PROVE  TypeInv'
<1> DEFINE r == Turn(q)
           p == req[q].mem[r].port
<1>1. /\ req[q].pc = "start" /\ req[q].kind # "zd" /\ p \in Ports /\ r \in Ids
      /\ UNCHANGED <<row, foreign, siteVars, status, policy, mon, restarts>>
  BY StartOutcomes, TurnTyped DEF Row
<1>2. CASE /\ CanStart(r, p) /\ box' = Started(r, p)
           /\ StartMoves(q, "running", StartPort(r, p)) /\ NoFault /\ UNCHANGED writer
  <2>1. box' \in BoxTable
    BY <1>1, <1>2, PortsTyped DEF TypeInv, BoxTable
  <2> QED BY <1>1, <1>2, <2>1, FaultTyped, TypesOfState, MovesOnTyped DEF StartMoves
<1>3. CASE /\ \E port \in Ports : StartMoves(q, "error", port)
           /\ Fault("failed") /\ UNCHANGED <<box, writer>>
  BY <1>1, <1>3, FaultTyped, TypesOfState, MovesOnTyped DEF StartMoves
<1>4. CASE Raise(q, "failed") /\ UNCHANGED box
  BY <1>1, <1>4, RaiseTyped
<1> QED BY <1>2, <1>3, <1>4, StartOutcomes

LEMMA FlushedTyped ==
    ASSUME TypeInv, NEW q \in Requests, req[q].pc = "finish"
    PROVE  Flushed(q) \in RowTable /\ RowsAfter(q) \in RowTable
<1>1. /\ row \in RowTable /\ req[q].seen \in RowTable /\ req[q].mem \in RowTable
      /\ Rows(req[q].seen) \subseteq Rows(req[q].mem)
  BY TypesOfState DEF Fits, Acting, Sessions
<1>2. ASSUME NEW r \in Ids
      PROVE  Flushed(q)[r] \in Row \cup {None}
  <2>1. req[q].seen[r] \in Row \cup {None} /\ req[q].mem[r] \in Row \cup {None}
        /\ row[r] \in Row \cup {None} /\ (req[q].seen[r] # None => req[q].mem[r] # None)
    BY <1>1, <1>2 DEF RowTable, Rows
  <2> QED BY <1>2, <2>1 DEF Flushed, Row
<1>3. Flushed(q) \in RowTable
  BY <1>2 DEF Flushed, RowTable
<1>4. [row EXCEPT ![Min(Rows(req[q].seen))] = None] \in RowTable
  BY <1>1 DEF RowTable
<1> QED BY <1>3, <1>4, NoRowsTyped DEF RowsAfter

LEMMA StatusAfterTyped ==
    ASSUME TypeInv, NEW q \in Requests, req[q].pc = "finish", NEW rows
    PROVE  StatusAfter(q, rows) \in Statuses \cup {"deleted"}
<1>1. req[q].app \in Statuses /\ status \in Statuses \cup {"deleted"}
  BY TypesOfState DEF Fits, Acting
<1> QED BY <1>1, DerivedTyped DEF StatusAfter

LEMMA ConfigAfterTyped ==
    ASSUME TypeInv, NEW q \in Requests, NEW rows \in RowTable
    PROVE  ConfigAfter(q, rows) \in Configs
<1>1. req[q].flag \in Modes /\ Backends(rows) \in SUBSET Ports
  BY TypesOfState, BackendsTyped DEF Sessions
<1>2. Config(Guarded(req[q].flag, trans), Backends(rows)) \in Configs
  BY <1>1, TypesOfState, GuardedTyped, ConfigTyped
<1> QED BY <1>2 DEF ConfigAfter, NoSite, Configs

LEMMA EndedTyped ==
    ASSUME NEW shown \in BOOLEAN, NEW pc \in {"task", "done"}
    PROVE  LET h == [Ended EXCEPT !.shown = shown, !.pc = pc]
           IN  h \in Sessions /\ Fits(h) /\ h.pc = pc
<1> DEFINE h == [Ended EXCEPT !.shown = shown, !.pc = pc]
<1>1. Ended \in Sessions /\ pc \in Points
  BY FreshTyped DEF Points
<1>2. h \in Sessions /\ h.pc = pc
  BY <1>1 DEF Sessions
<1> HIDE DEF h
<1>3. Fits(h)
  BY <1>2 DEF Fits, Acting, DeployOnly
<1> QED BY <1>2, <1>3 DEF h

LEMMA FinishTyped ==
    ASSUME TypeInv, NEW q \in Requests, Finish(q)
    PROVE  TypeInv'
<1>1. /\ req[q].pc = "finish" /\ req[q].shown \in BOOLEAN
      /\ UNCHANGED <<box, foreign, flag, trans, policy, mon, restarts>>
  BY TypesOfState DEF Finish, Sessions
<1>2. CASE /\ \/ AcceptsFor(req[q].flag, ConfigAfter(q, RowsAfter(q)))
              \/ UNCHANGED site /\ NoFault
           /\ row' = RowsAfter(q) /\ status' = StatusAfter(q, RowsAfter(q))
           /\ req' = [req EXCEPT ![q] =
                 [Ended EXCEPT !.shown = req[q].shown, !.pc = IF req[q].shown THEN "task" ELSE "done"]]
           /\ writer' = IF writer = q THEN None ELSE writer
  <2> DEFINE h == [Ended EXCEPT !.shown = req[q].shown, !.pc = IF req[q].shown THEN "task" ELSE "done"]
  <2>1. h \in Sessions /\ Fits(h)
    BY <1>1, EndedTyped
  <2>2. row' \in RowTable /\ status' \in Statuses \cup {"deleted"} /\ writer' \in Requests \cup {None}
    BY <1>1, <1>2, FlushedTyped, StatusAfterTyped, TypesOfState
  <2>3. site' \in Configs /\ faults' \in 0..MaxFaults
    BY <1>1, <1>2, FlushedTyped, ConfigAfterTyped, TypesOfState, FaultTyped DEF AcceptsFor
  <2>4. req' = [req EXCEPT ![q] = h]
    BY <1>2
  <2> HIDE DEF h
  <2> QED BY <1>1, <2>1, <2>2, <2>3, <2>4, TypesOfState, SessionKeepsTypes
<1>3. CASE Raise(q, "nginx") /\ UNCHANGED <<row, site, status>>
  BY <1>1, <1>3, RaiseTyped DEF siteVars
<1> QED BY <1>2, <1>3 DEF Finish

LEMMA FailsTyped ==
    ASSUME TypeInv, NEW q \in Requests, FinishFails(q) \/ InsertFails(q) \/ ZdPickFails(q)
    PROVE  TypeInv'
<1>1. Abort(q)
  BY DEF FinishFails, InsertFails, ZdPickFails
<1>2. site' \in Configs
  BY TypesOfState, ConfigAfterTyped DEF FinishFails, InsertFails, ZdPickFails
<1> QED BY <1>1, <1>2, AbortTyped

LEMMA ZdPickTyped ==
    ASSUME TypeInv, NEW q \in Requests, ZdPick(q)
    PROVE  TypeInv'
<1> DEFINE h == [req[q] EXCEPT !.pc = "insert", !.port = AssignedPort]
<1>1. /\ req[q].pc = "pick" /\ req[q] \in Sessions /\ Fits(req[q])
      /\ req' = [req EXCEPT ![q] = h] /\ NoFault
      /\ UNCHANGED <<row, box, foreign, site, flag, trans, status, policy, writer, mon, restarts>>
  BY TypesOfState DEF ZdPick, hostVars, siteVars
<1>2. AssignedPort \in Ports
  BY PortsTyped, Bounds DEF ZdPick, TypeInv
<1>3. /\ h \in Sessions /\ h.kind = req[q].kind /\ h.pc = "insert" /\ h.port = AssignedPort
      /\ h.seen = req[q].seen /\ h.mem = req[q].mem /\ h.app = req[q].app
  BY <1>1, <1>2 DEF Sessions, Points
<1> HIDE DEF h
<1>4. Fits(h)
  BY <1>1, <1>2, <1>3 DEF Fits, Acting, DeployOnly
<1> QED BY <1>1, <1>3, <1>4, TypesOfState, FaultTyped, SessionKeepsTypes

LEMMA ZdInsertTyped ==
    ASSUME TypeInv, NEW q \in Requests, ZdInsert(q)
    PROVE  TypeInv'
<1> DEFINE id == NextId(row)
           h == [req[q] EXCEPT !.pc = "start", !.new = req[q].new \cup {id}]
<1>5. req[q] \in Sessions /\ Fits(req[q])
  BY TypesOfState
<1>1. /\ req[q].pc = "insert" /\ req[q].kind = "zd"
      /\ id \in Ids /\ req' = [req EXCEPT ![q] = h] /\ NoFault
      /\ row' = [row EXCEPT ![id] = [status |-> "starting", port |-> req[q].port]]
      /\ UNCHANGED <<box, foreign, site, flag, trans, status, policy, writer, mon, restarts>>
  BY <1>5 DEF ZdInsert, siteVars, Sessions
<1> HIDE DEF id
<1>2. row' \in RowTable
  <2>1. [status |-> "starting", port |-> req[q].port] \in Row
    BY <1>1, <1>5 DEF Fits, Row, Statuses
  <2> QED BY <1>1, <2>1, TypesOfState DEF RowTable
<1>3. /\ h \in Sessions /\ h.kind = "zd" /\ h.pc = "start" /\ h.port = req[q].port
      /\ h.new # {} /\ h.seen = req[q].seen /\ h.mem = req[q].mem /\ h.app = req[q].app
  BY <1>1, <1>5 DEF Sessions, Points
<1> HIDE DEF h
<1>4. Fits(h)
  BY <1>1, <1>3, <1>5 DEF Fits, Acting, DeployOnly
<1> QED BY <1>1, <1>2, <1>3, <1>4, TypesOfState, FaultTyped, SessionKeepsTypes

LEMMA UndoTyped ==
    ASSUME TypeInv, NEW q \in Requests, req[q].kind = "zd", req[q].pc \in Acting, req[q].new # {}
    PROVE  LET h == [req[q] EXCEPT !.pc = "undo", !.todo = req[q].new]
           IN  h \in Sessions /\ Fits(h) /\ Undo(q) = [req EXCEPT ![q] = h]
<1> DEFINE h == [req[q] EXCEPT !.pc = "undo", !.todo = req[q].new]
<1>1. req[q] \in Sessions /\ Fits(req[q]) /\ req \in [Requests -> Sessions]
  BY TypesOfState DEF TypeInv, HandlersTyped
<1>2. /\ h \in Sessions /\ h.kind = "zd" /\ h.pc = "undo" /\ h.todo = req[q].new
      /\ h.seen = req[q].seen /\ h.mem = req[q].mem /\ h.app = req[q].app
  BY <1>1 DEF Sessions, Points
<1>3. Undo(q) = [req EXCEPT ![q] = h]
  BY <1>1 DEF Undo
<1> HIDE DEF h
<1>4. Fits(h)
  BY <1>1, <1>2 DEF Fits, Acting, DeployOnly
<1> QED BY <1>2, <1>3, <1>4 DEF h

LEMMA UndoKeepsTypes ==
    ASSUME TypeInv, NEW q \in Requests, req[q].kind = "zd", req[q].pc \in Acting, req[q].new # {},
           req' = Undo(q), UNCHANGED row, box' \in BoxTable, faults' \in 0..MaxFaults,
           UNCHANGED <<foreign, site, flag, trans, status, policy, writer, mon, restarts>>
    PROVE  TypeInv'
<1> DEFINE h == [req[q] EXCEPT !.pc = "undo", !.todo = req[q].new]
<1>1. h \in Sessions /\ Fits(h) /\ req' = [req EXCEPT ![q] = h]
  BY UndoTyped
<1> HIDE DEF h
<1> QED BY <1>1, TypesOfState, SessionKeepsTypes

\* The replica a deploy starts is the one it has just inserted.
LEMMA NewestTyped ==
    ASSUME TypeInv, NEW q \in Requests, req[q].new # {}
    PROVE  /\ Max(req[q].new) \in req[q].new /\ Max(req[q].new) \in Ids
           /\ \A r \in req[q].new : r <= Max(req[q].new)
<1>1. req[q].new \in SUBSET Ids
  BY TypesOfState DEF Sessions
<1>2. MaxId \in Nat /\ req[q].new \in SUBSET (0..MaxId)
  BY <1>1, Bounds DEF Ids
<1>3. Max(req[q].new) \in req[q].new /\ \A r \in req[q].new : Max(req[q].new) >= r
  BY <1>2, MaxIsIn
<1> QED BY <1>1, <1>2, <1>3

LEMMA ZdStartTyped ==
    ASSUME TypeInv, NEW q \in Requests, ZdStart(q)
    PROVE  TypeInv'
<1> DEFINE id == Max(req[q].new)
           p == req[q].port
           rest == req[q].todo \ {Turn(q)}
           h == [req[q] EXCEPT !.todo = rest, !.pc = IF rest = {} THEN "check" ELSE "pick"]
<1>1. /\ req[q].pc = "start" /\ req[q].kind = "zd" /\ req[q] \in Sessions /\ Fits(req[q])
      /\ UNCHANGED <<foreign, site, flag, trans, status, policy, writer, mon, restarts>>
  BY TypesOfState DEF ZdStart, siteVars
<1>2. id \in Ids /\ p \in Ports
  BY <1>1, NewestTyped DEF Fits
<1> HIDE DEF id
<1>3. CASE req' = Undo(q) /\ Fault("undone") /\ UNCHANGED <<row, box>>
  BY <1>1, <1>3, UndoKeepsTypes, TypesOfState, FaultTyped DEF Acting, Fits
<1>4. CASE /\ CanStart(id, p) /\ box' = Started(id, p) /\ NoFault
           /\ IF row[id] = None THEN req' = Undo(q) /\ UNCHANGED row
              ELSE /\ row' = [row EXCEPT ![id].port = StartPort(id, p)]
                   /\ req' = [req EXCEPT ![q] = h]
  <2>1. box' \in BoxTable /\ StartPort(id, p) \in Ports
    BY <1>2, <1>4, PortsTyped DEF TypeInv, BoxTable
  <2>2. CASE row[id] = None
    BY <1>1, <1>4, <2>1, <2>2, UndoKeepsTypes, TypesOfState, FaultTyped DEF Acting, Fits
  <2>3. CASE row[id] # None
    <3>1. row' \in RowTable
      <4>1. row \in RowTable /\ row[id] \in Row
        BY <1>2, <2>3, TypesOfState DEF RowTable
      <4>2. [row[id] EXCEPT !.port = StartPort(id, p)] \in Row
        BY <2>1, <4>1 DEF Row
      <4> QED BY <1>4, <2>3, <4>1, <4>2 DEF RowTable
    <3>2. /\ h \in Sessions /\ h.kind = "zd" /\ h.pc \in {"check", "pick"} /\ h.new = req[q].new
          /\ h.seen = req[q].seen /\ h.mem = req[q].mem /\ h.app = req[q].app
      BY <1>1 DEF Sessions, Points
    <3>3. req' = [req EXCEPT ![q] = h]
      BY <1>4, <2>3
    <3> HIDE DEF h
    <3>4. Fits(h)
      BY <1>1, <3>2 DEF Fits, Acting, DeployOnly
    <3> QED BY <1>1, <1>4, <2>1, <3>1, <3>2, <3>3, <3>4, TypesOfState, FaultTyped,
               SessionKeepsTypes
  <2> QED BY <2>2, <2>3
<1> QED BY <1>3, <1>4 DEF ZdStart, id

LEMMA ZdCheckTyped ==
    ASSUME TypeInv, NEW q \in Requests, ZdCheck(q)
    PROVE  TypeInv'
<1> DEFINE h == [req[q] EXCEPT !.pc = "switch"]
<1>1. /\ req[q].pc = "check" /\ req[q].kind = "zd" /\ req[q] \in Sessions /\ Fits(req[q])
      /\ UNCHANGED <<row, box, foreign, site, flag, trans, status, policy, writer, mon, restarts>>
  BY TypesOfState DEF ZdCheck, hostVars, siteVars, Fits, DeployOnly
<1>2. faults' \in 0..MaxFaults
  BY TypesOfState, FaultTyped DEF ZdCheck
<1>3. CASE req' = [req EXCEPT ![q] = h]
  <2>1. /\ h \in Sessions /\ h.kind = "zd" /\ h.pc = "switch"
        /\ h.seen = req[q].seen /\ h.mem = req[q].mem /\ h.app = req[q].app
    BY <1>1 DEF Sessions, Points
  <2> HIDE DEF h
  <2>2. Fits(h)
    BY <1>1, <2>1 DEF Fits, Acting, DeployOnly
  <2> QED BY <1>1, <1>2, <1>3, <2>1, <2>2, TypesOfState, SessionKeepsTypes
<1>4. CASE req' = Undo(q)
  BY <1>1, <1>2, <1>4, UndoKeepsTypes, TypesOfState DEF Acting, Fits
<1> QED BY <1>3, <1>4 DEF ZdCheck

LEMMA ZdSwitchTyped ==
    ASSUME TypeInv, NEW q \in Requests, ZdSwitch(q)
    PROVE  TypeInv'
<1> DEFINE rows == [r \in Ids |-> IF r \in Present(q) THEN [row[r] EXCEPT !.status = "running"]
                                  ELSE row[r]]
           old == WithStatus(rows, {"running"}) \ req[q].new
           config == Config("normal", NewBackends(q))
           h == [req[q] EXCEPT !.todo = old, !.touched = old, !.pc = StepOrFinish(old, "retire")]
<1>1. /\ req[q].pc = "switch" /\ row' = rows
      /\ (site' = config /\ UNCHANGED faults) \/ Rejects
      /\ req' = [req EXCEPT ![q] = h]
      /\ writer' = IF req[q].app = "running" THEN writer ELSE q
      /\ UNCHANGED <<box, foreign, flag, trans, status, policy, mon, restarts>>
  BY DEF ZdSwitch
<1>2. req[q] \in Sessions /\ Fits(req[q]) /\ req[q].kind = "zd"
  BY <1>1, TypesOfState DEF Fits, DeployOnly
<1>3. Present(q) \subseteq Ids /\ \A r \in Present(q) : row[r] \in Row
  BY <1>2, TypesOfState DEF Present, Sessions, RowTable
<1>4. rows \in RowTable
  BY <1>3, TypesOfState DEF RowTable, Row, Statuses
<1>5. old \subseteq Ids
  BY DEF WithStatus, Rows
<1>6. NewBackends(q) \in SUBSET Ports
  BY <1>3 DEF NewBackends, Row
<1>7. site' \in Configs /\ faults' \in 0..MaxFaults /\ writer' \in Requests \cup {None}
  BY <1>1, <1>6, ConfigTyped, TypesOfState, FaultTyped DEF Rejects, Modes
<1> HIDE DEF rows, old
<1>8. /\ h \in Sessions /\ h.kind = "zd" /\ h.pc \in {"retire", "finish"}
      /\ h.pc = "retire" => h.todo # {}
      /\ h.seen = req[q].seen /\ h.mem = req[q].mem /\ h.app = req[q].app
  BY <1>2, <1>5 DEF Sessions, Points, StepOrFinish
<1> HIDE DEF h
<1>9. Fits(h)
  BY <1>1, <1>2, <1>8 DEF Fits, Acting, DeployOnly
<1> QED BY <1>1, <1>4, <1>7, <1>8, <1>9, TypesOfState, SessionKeepsTypes

LEMMA ZdRetireTyped ==
    ASSUME TypeInv, NEW q \in Requests, ZdRetire(q)
    PROVE  TypeInv'
<1> DEFINE rest == req[q].todo \ {Turn(q)}
           h == [req[q] EXCEPT !.todo = rest, !.pc = StepOrFinish(rest, "retire")]
<1>1. /\ req[q].pc = "retire" /\ StopsBox(Turn(q)) /\ req' = [req EXCEPT ![q] = h]
      /\ UNCHANGED <<row, foreign, site, flag, trans, status, policy, writer, mon, restarts>>
  BY DEF ZdRetire, siteVars
<1>2. req[q] \in Sessions /\ Fits(req[q]) /\ req[q].kind = "zd"
  BY <1>1, TypesOfState DEF Fits, DeployOnly
<1>3. box' \in BoxTable /\ faults' \in 0..MaxFaults
  BY <1>1, BoxesTyped
<1>4. /\ h \in Sessions /\ h.kind = "zd" /\ h.pc \in {"retire", "finish"}
      /\ h.pc = "retire" => h.todo # {}
      /\ h.seen = req[q].seen /\ h.mem = req[q].mem /\ h.app = req[q].app
  BY <1>2 DEF Sessions, Points, StepOrFinish
<1> HIDE DEF h
<1>5. Fits(h)
  BY <1>1, <1>2, <1>4 DEF Fits, Acting, DeployOnly
<1> QED BY <1>1, <1>3, <1>4, <1>5, TypesOfState, SessionKeepsTypes

LEMMA ZdFinishTyped ==
    ASSUME TypeInv, NEW q \in Requests, ZdFinish(q)
    PROVE  TypeInv'
<1>1. row' \in RowTable
  BY TypesOfState DEF ZdFinish, RowTable
<1>2. status' \in Statuses \cup {"deleted"} /\ writer' \in Requests \cup {None}
  BY TypesOfState DEF ZdFinish, Statuses
<1> QED BY <1>1, <1>2, FreshTyped, TypesOfState, FaultTyped, SessionKeepsTypes DEF ZdFinish, siteVars

LEMMA ZdUndoTyped ==
    ASSUME TypeInv, NEW q \in Requests, ZdUndo(q)
    PROVE  TypeInv'
<1> DEFINE r == Turn(q)
           rest == req[q].todo \ {r}
           h == IF rest = {} THEN Ended ELSE [req[q] EXCEPT !.todo = rest]
<1>1. /\ req[q].pc = "undo" /\ req[q] \in Sessions /\ Fits(req[q]) /\ req[q].kind = "zd"
      /\ UNCHANGED <<foreign, site, flag, trans, status, policy, writer, mon, restarts>>
  BY TypesOfState DEF ZdUndo, siteVars, Fits, DeployOnly
<1>2. row' \in RowTable /\ box' \in BoxTable /\ faults' \in 0..MaxFaults
  <2>1. CASE row[r] = None
    BY <2>1, TypesOfState, FaultTyped DEF ZdUndo
  <2>2. CASE row[r] # None
    <3>1. StopsBox(r) /\ row' = [row EXCEPT ![r] = None]
      BY <2>2 DEF ZdUndo
    <3> QED BY <3>1, BoxesTyped, TypesOfState DEF RowTable
  <2> QED BY <2>1, <2>2
<1>3. req' = [req EXCEPT ![q] = h]
  BY DEF ZdUndo
<1>4. h \in Sessions /\ Fits(h)
  <2>1. CASE rest = {}
    BY <2>1, FreshTyped
  <2>2. CASE rest # {}
    <3> DEFINE g == [req[q] EXCEPT !.todo = rest]
    <3>1. /\ g \in Sessions /\ g.kind = "zd" /\ g.pc = "undo" /\ g.todo = rest
          /\ g.seen = req[q].seen /\ g.mem = req[q].mem /\ g.app = req[q].app
      BY <1>1 DEF Sessions
    <3> HIDE DEF g
    <3>2. Fits(g)
      BY <1>1, <2>2, <3>1 DEF Fits, Acting, DeployOnly
    <3> QED BY <2>2, <3>1, <3>2 DEF g
  <2> QED BY <2>1, <2>2
<1> HIDE DEF h
<1> QED BY <1>1, <1>2, <1>3, <1>4, TypesOfState, SessionKeepsTypes

\* A restore task goes on as it was, or ends.
TaskGoesOn(q, h) ==
    /\ h \in Sessions /\ h.pc \in {"task", "restore", "done"}
    /\ h.pc # "done" => h.shown = req[q].shown
    /\ req' = [req EXCEPT ![q] = h]

LEMMA TaskMoves ==
    ASSUME TypeInv, NEW q \in Requests, Task(q)
    PROVE  /\ req[q].pc \in {"task", "restore"}
           /\ \E h : TaskGoesOn(q, h)
<1>1. req[q] \in Sessions /\ req[q].pc \in {"task", "restore"}
  BY TypesOfState DEF Task, Poll, WaitEnds, Restore
<1>2. CASE Poll(q)
  <2> DEFINE h == [req[q] EXCEPT !.stable = Quorum,
                                 !.pc = IF req[q].stable /\ Quorum THEN "restore" ELSE "task"]
  <2>1. req' = [req EXCEPT ![q] = h]
    BY <1>1, <1>2 DEF Poll, Sessions
  <2>2. h \in Sessions /\ h.pc \in {"task", "restore"} /\ h.shown = req[q].shown
    <3> DEFINE pc == IF req[q].stable /\ Quorum THEN "restore" ELSE "task"
    <3>1. Quorum \in BOOLEAN
      BY DEF Quorum
    <3>2. pc \in Points /\ pc \in {"task", "restore"}
      BY DEF Points
    <3>3. \A stable \in BOOLEAN, to \in Points :
            LET next == [req[q] EXCEPT !.stable = stable, !.pc = to]
            IN  next \in Sessions /\ next.pc = to /\ next.shown = req[q].shown
      BY <1>1 DEF Sessions
    <3> HIDE DEF pc
    <3> QED BY <3>1, <3>2, <3>3 DEF pc
  <2> QED BY <1>1, <2>1, <2>2 DEF TaskGoesOn
<1>3. CASE WaitEnds(q)
  <2> DEFINE h == [req[q] EXCEPT !.late = TRUE, !.stable = FALSE,
                                 !.pc = IF req[q].late THEN "restore" ELSE "task"]
  <2>1. req' = [req EXCEPT ![q] = h]
    BY <1>3 DEF WaitEnds
  <2>2. h \in Sessions /\ h.pc \in {"task", "restore"} /\ h.shown = req[q].shown
    BY <1>1 DEF Sessions, Points
  <2> QED BY <1>1, <2>1, <2>2 DEF TaskGoesOn
<1>4. CASE Restore(q)
  <2> DEFINE h == [req[q] EXCEPT !.pc = "task", !.stable = FALSE]
  <2>1. req' = [req EXCEPT ![q] = h] \/ req' = [req EXCEPT ![q] = Ended]
    BY <1>4 DEF Restore
  <2>2. h \in Sessions /\ h.pc = "task" /\ h.shown = req[q].shown
    BY <1>1 DEF Sessions, Points
  <2> QED BY <1>1, <2>1, <2>2, FreshTyped DEF TaskGoesOn
<1> QED BY <1>1, <1>2, <1>3, <1>4 DEF Task

LEMMA TaskTyped ==
    ASSUME TypeInv, NEW q \in Requests, Task(q)
    PROVE  TypeInv'
<1>1. UNCHANGED <<row, box, foreign, flag, status, policy, writer, mon, restarts>>
  BY DEF Task, Poll, WaitEnds, Restore, hostVars, siteVars
<1>2. Nobody \in Transitions
  BY DEF Transitions
<1>3. site' \in Configs /\ trans' \in Transitions /\ faults' \in 0..MaxFaults
  <2>1. CASE Poll(q) \/ WaitEnds(q)
    BY <2>1, TypesOfState, FaultTyped DEF Poll, WaitEnds, siteVars
  <2>2. CASE Restore(q)
    <3>1. Backends(row) \in SUBSET Ports
      BY TypesOfState, BackendsTyped
    <3> QED BY <1>2, <2>2, <3>1, ConfigTyped, TypesOfState, FaultTyped
            DEF Restore, Accepts, Rejects, RestoredConfig
  <2> QED BY <2>1, <2>2 DEF Task
<1>4. PICK h : TaskGoesOn(q, h)
  BY TaskMoves
<1>5. h \in Sessions /\ Fits(h) /\ req' = [req EXCEPT ![q] = h]
  BY <1>4 DEF TaskGoesOn, Fits, Acting, DeployOnly
<1> QED BY <1>1, <1>3, <1>5, TypesOfState, SessionKeepsTypes

\* What remains to be shown of a step that moves no session.
LEMMA OthersKeepTypes ==
    ASSUME TypeInv, UNCHANGED <<req, policy>>,
           row' \in RowTable, box' \in BoxTable, foreign' \subseteq Ports,
           site' \in Configs, flag' \in Modes,
           trans' \in Transitions, status' \in Statuses \cup {"deleted"},
           writer' \in Requests \cup {None}, faults' \in 0..MaxFaults,
           restarts' \in [Ids -> 0..MaxRestarts],
           mon' \in [pc : {"idle", "scan", "wait"}, todo : SUBSET Ids, seen : RowTable,
                     flag : Modes, app : Statuses \cup {"deleted", None}],
           MonitorFits'
    PROVE  TypeInv'
<1>1. HandlersTyped'
  BY DEF TypeInv, HandlersTyped, BoxTable, Configs, Transitions
<1>2. SessionsFit'
  BY DEF TypeInv, SessionsFit
<1> QED BY <1>1, <1>2 DEF TypeInv

MonitorStates == [pc : {"idle", "scan", "wait"}, todo : SUBSET Ids, seen : RowTable,
                  flag : Modes, app : Statuses \cup {"deleted", None}]
MonFits(m) ==
    m.todo \subseteq WithStatus(m.seen, {"running"}) /\ (m.pc = "wait" => m.todo # {})

LEMMA MonitorState ==
    ASSUME TypeInv
    PROVE  mon \in MonitorStates /\ MonFits(mon) /\ restarts \in [Ids -> 0..MaxRestarts]
           /\ foreign \subseteq Ports /\ mon.todo \in SUBSET Nat
BY Bounds DEF TypeInv, HandlersTyped, MonitorStates, MonFits, MonitorFits

\* What remains to be shown of a step of the monitor.
LEMMA MonitorKeepsTypes ==
    ASSUME TypeInv, UNCHANGED <<foreign, flag, trans, policy, req, writer>>,
           row' \in RowTable, box' \in BoxTable, site' \in Configs,
           status' \in Statuses \cup {"deleted"}, faults' \in 0..MaxFaults,
           restarts' \in [Ids -> 0..MaxRestarts],
           NEW m \in MonitorStates, MonFits(m), mon' = m
    PROVE  TypeInv'
<1>1. MonitorFits'
  BY DEF MonFits, MonitorFits
<1> QED BY <1>1, MonitorState, TypesOfState, OthersKeepTypes DEF MonitorStates

LEMMA IdleTyped == Idle \in MonitorStates /\ MonFits(Idle)
BY NoRowsTyped DEF Idle, MonitorStates, MonFits, Modes

LEMMA DeadTyped ==
    ASSUME TypeInv, Dead(mon.todo) # {}
    PROVE  Case \in Dead(mon.todo) /\ Case \in mon.todo /\ Case \in Ids /\ box[Case] = 0
           /\ mon.seen[Case] \in Row
<1>1. Dead(mon.todo) \subseteq mon.todo /\ mon.todo \in SUBSET Nat
  BY MonitorState DEF Dead
<1>2. Case \in Dead(mon.todo)
  BY <1>1, MinIsIn DEF Case
<1> QED BY <1>1, <1>2, MonitorState DEF MonitorStates, MonFits, WithStatus, Rows, RowTable, Dead

LEMMA ScanTyped ==
    ASSUME TypeInv, Scan \/ ScanEnds
    PROVE  TypeInv'
<1>1. CASE Scan
  <2> DEFINE running == WithStatus(row, {"running"})
             m == [pc |-> "scan", todo |-> running, flag |-> flag, app |-> status,
                   seen |-> [r \in Ids |-> IF r \in running THEN row[r] ELSE None]]
  <2>1. mon' = m
    BY <1>1 DEF Scan
  <2>2. running \subseteq Ids /\ \A r \in running : row[r] \in Row /\ row[r].status = "running"
    BY RowsTyped DEF TypeInv, WithStatus
  <2> HIDE DEF running
  <2>3. m \in MonitorStates
    BY <2>2, TypesOfState DEF MonitorStates, RowTable
  <2>4. MonFits(m)
    BY <2>2, Bounds DEF MonFits, Rows, WithStatus
  <2> HIDE DEF m
  <2> QED BY <1>1, <2>1, <2>3, <2>4, MonitorKeepsTypes, MonitorState, TypesOfState, FaultTyped
          DEF Scan, hostVars, siteVars
<1>2. CASE ScanEnds
  BY <1>2, IdleTyped, MonitorKeepsTypes, MonitorState, TypesOfState, FaultTyped
     DEF ScanEnds, hostVars, siteVars
<1> QED BY <1>1, <1>2

LEMMA NextCaseTyped ==
    ASSUME TypeInv, NEW seen \in RowTable, Rows(seen) = Rows(mon.seen),
           \A r \in Rest : seen[r] = mon.seen[r]
    PROVE  NextCase(seen) \in MonitorStates /\ MonFits(NextCase(seen))
<1>1. CASE Rest = {}
  BY <1>1, IdleTyped DEF NextCase
<1>2. CASE Rest # {}
  <2>1. Rest \subseteq mon.todo
    BY DEF Rest
  <2> QED BY <1>2, <2>1, MonitorState DEF NextCase, MonitorStates, MonFits, WithStatus
<1> QED BY <1>1, <1>2

\* A row and what the monitor knows of it get a new status.
LEMMA StatusTyped ==
    ASSUME NEW rows \in RowTable, NEW r \in Ids, rows[r] # None, NEW state \in Statuses
    PROVE  /\ [rows EXCEPT ![r].status = state] \in RowTable
           /\ Rows([rows EXCEPT ![r].status = state]) = Rows(rows)
<1>1. rows[r] \in Row /\ [rows[r] EXCEPT !.status = state] \in Row
  BY DEF RowTable, Row
<1> QED BY <1>1, Bounds DEF RowTable, Rows

LEMMA RecordsTyped ==
    ASSUME TypeInv, Dead(mon.todo) # {}, NEW state \in Statuses, Records(Case, state),
           UNCHANGED <<box, foreign, flag, trans, status, policy, req, writer, restarts>>
    PROVE  TypeInv'
<1> DEFINE rows == [row EXCEPT ![Case].status = state]
           seen == [mon.seen EXCEPT ![Case].status = state]
<1>1. Case \in Ids /\ mon.seen[Case] \in Row /\ mon \in MonitorStates
  BY DeadTyped, MonitorState
<1>2. CASE row[Case] = None
  BY <1>2, IdleTyped, MonitorKeepsTypes, MonitorState, TypesOfState, FaultTyped DEF Records
<1>3. CASE row[Case] # None
  <2>1. rows \in RowTable
    BY <1>1, <1>3, StatusTyped, TypesOfState
  <2>2. seen \in RowTable /\ Rows(seen) = Rows(mon.seen)
    BY <1>1, StatusTyped, Bounds DEF MonitorStates
  <2>7. \A s \in Rest : seen[s] = mon.seen[s]
    BY <1>1, Bounds, MonitorState DEF Rest, MonitorStates, RowTable
  <2>3. Backends(rows) \in SUBSET Ports /\ mon.flag \in Modes
    BY <1>1, <2>1, BackendsTyped DEF MonitorStates
  <2>4. Config(Guarded(mon.flag, trans), Backends(rows)) \in Configs
    BY <2>3, GuardedTyped, ConfigTyped, TypesOfState
  <2>5. /\ row' = rows /\ mon' = NextCase(seen)
        /\ \/ site' = Config(Guarded(mon.flag, trans), Backends(rows)) /\ UNCHANGED faults
           \/ Rejects
    BY <1>3 DEF Records
  <2>6. site' \in Configs /\ faults' \in 0..MaxFaults
    BY <2>4, <2>5, TypesOfState, FaultTyped DEF Rejects
  <2> HIDE DEF rows, seen
  <2> QED BY <2>1, <2>2, <2>5, <2>6, <2>7, NextCaseTyped, MonitorKeepsTypes, MonitorState, TypesOfState
<1> QED BY <1>2, <1>3

LEMMA GiveUpTyped ==
    ASSUME TypeInv, GiveUp
    PROVE  TypeInv'
<1>1. "stopped" \in Statuses /\ "error" \in Statuses
  BY DEF Statuses
<1> QED BY <1>1, RecordsTyped DEF GiveUp

LEMMA BackOffTyped ==
    ASSUME TypeInv, BackOff
    PROVE  TypeInv'
<1> DEFINE m == [mon EXCEPT !.pc = "wait", !.todo = {Case} \cup Rest]
<1>1. Case \in mon.todo /\ Case \in Ids /\ mon' = m /\ restarts[Case] < MaxRestarts
      /\ restarts' = [restarts EXCEPT ![Case] = restarts[Case] + 1]
  BY DeadTyped DEF BackOff
<1>2. Rest \subseteq mon.todo
  BY DEF Rest
<1>3. m \in MonitorStates /\ MonFits(m)
  BY <1>1, <1>2, MonitorState DEF MonitorStates, MonFits
<1>4. restarts' \in [Ids -> 0..MaxRestarts]
  BY <1>1, MonitorState, AppAssumption
<1> HIDE DEF m
<1> QED BY <1>1, <1>3, <1>4, MonitorKeepsTypes, TypesOfState, FaultTyped
        DEF BackOff, hostVars, siteVars

LEMMA WaitTyped ==
    ASSUME TypeInv, mon.pc = "wait"
    PROVE  /\ Min(mon.todo) \in mon.todo /\ Min(mon.todo) \in Ids
           /\ mon.seen[Min(mon.todo)] \in Row /\ mon.seen[Min(mon.todo)].port \in Ports
           /\ mon.seen[Min(mon.todo)].status = "running"
<1>1. mon.todo # {} /\ mon.todo \in SUBSET Nat
  BY MonitorState DEF MonFits
<1>2. Min(mon.todo) \in mon.todo
  BY <1>1, MinIsIn
<1> QED BY <1>2, MonitorState DEF MonitorStates, MonFits, WithStatus, Rows, RowTable, Row

LEMMA MonitorStatusTyped ==
    ASSUME TypeInv, NEW seen
    PROVE  MonitorStatus(seen) \in Statuses \cup {"deleted"}
BY TypesOfState, DerivedTyped DEF MonitorStatus

\* The monitor goes on to the replicas it has not looked at.
LEMMA ScansOnTyped ==
    ASSUME TypeInv, NEW todo \in SUBSET mon.todo, NEW seen \in RowTable,
           Rows(seen) = Rows(mon.seen), \A r \in todo : seen[r] = mon.seen[r],
           NEW m, m = [mon EXCEPT !.pc = "scan", !.todo = todo, !.seen = seen]
    PROVE  m \in MonitorStates /\ MonFits(m)
BY MonitorState DEF MonitorStates, MonFits, WithStatus

LEMMA ReviveTyped ==
    ASSUME TypeInv, Revive
    PROVE  TypeInv'
<1> DEFINE r == Min(mon.todo)
           p == mon.seen[r].port
           rest == mon.todo \ {r}
           m == [mon EXCEPT !.pc = "scan", !.todo = rest, !.seen = mon.seen]
<1>1. r \in Ids /\ p \in Ports
  BY WaitTyped DEF Revive
<1>2. /\ box' = [box EXCEPT ![r] = IF @ = 0 THEN p ELSE @]
      /\ UNCHANGED <<row, foreign, site, flag, trans, policy, req, writer, restarts, faults>>
  BY DEF Revive, siteVars
<1>3. box' \in BoxTable
  BY <1>1, <1>2, TypesOfState DEF BoxTable
<1>4. status' \in Statuses \cup {"deleted"}
  BY TypesOfState, MonitorStatusTyped DEF Revive
<1>5. m \in MonitorStates /\ MonFits(m)
  <2>1. mon.seen \in RowTable
    BY MonitorState DEF MonitorStates
  <2> QED BY <2>1, ScansOnTyped
<1>6. mon' \in {Idle, m}
  <2>1. mon = [mon EXCEPT !.seen = mon.seen]
    BY MonitorState DEF MonitorStates
  <2>2. m = [mon EXCEPT !.pc = "scan", !.todo = rest]
    BY MonitorState DEF MonitorStates
  <2>3. mon' = Idle \/ mon' = [mon EXCEPT !.pc = "scan", !.todo = rest]
    BY DEF Revive
  <2> QED BY <2>2, <2>3
<1> HIDE DEF m
<1> QED BY <1>2, <1>3, <1>4, <1>5, <1>6, IdleTyped, MonitorKeepsTypes, MonitorState, TypesOfState

\* One more failure, when docker refuses.
LEMMA RefusalCounted ==
    ASSUME TypeInv, NEW refused \in BOOLEAN, refused => MayFail,
           faults' = faults + Cardinality(IF refused THEN {"failed"} ELSE {})
    PROVE  faults' \in 0..MaxFaults
<1>1. Cardinality({}) = 0 /\ Cardinality({"failed"}) = 1
  BY FS_EmptySet, FS_Singleton
<1> QED BY <1>1, TypesOfState, AppAssumption DEF MayFail

LEMMA ReviveFailsTyped ==
    ASSUME TypeInv, ReviveFails
    PROVE  TypeInv'
<1> DEFINE r == Min(mon.todo)
           refused == CanStartHere(r, mon.seen[r].port)
           rows == [row EXCEPT ![r].status = "error"]
           rest == mon.todo \ {r}
           seen == [mon.seen EXCEPT ![r].status = "error"]
           m == [mon EXCEPT !.pc = "scan", !.todo = rest, !.seen = seen]
<1>1. r \in Ids /\ mon.seen[r] \in Row /\ r \in mon.todo
  BY WaitTyped DEF ReviveFails
<1>2. UNCHANGED <<box, foreign, flag, trans, policy, req, writer, restarts>>
  BY DEF ReviveFails
<1>3. faults' \in 0..MaxFaults
  <2>1. refused \in BOOLEAN
    BY DEF CanStartHere
  <2> QED BY <2>1, RefusalCounted DEF ReviveFails
<1>4. CASE row[r] = None
  <2>1. mon' = Idle /\ UNCHANGED <<row, site, status>>
    BY <1>4 DEF ReviveFails
  <2> QED BY <1>2, <1>3, <2>1, IdleTyped, MonitorKeepsTypes, MonitorState, TypesOfState
<1>5. CASE row[r] # None
  <2>1. /\ row' = rows /\ status' = MonitorStatus(seen)
        /\ site' = Config(Guarded(mon.flag, trans), Backends(rows))
        /\ mon' = IF rest = {} THEN Idle ELSE m
    BY <1>5 DEF ReviveFails
  <2>2. "error" \in Statuses /\ mon.seen \in RowTable /\ mon.flag \in Modes
    BY MonitorState DEF Statuses, MonitorStates
  <2>3. rows \in RowTable
    BY <1>1, <1>5, <2>2, StatusTyped, TypesOfState
  <2>4. seen \in RowTable /\ Rows(seen) = Rows(mon.seen)
    BY <1>1, <2>2, StatusTyped, Bounds
  <2>9. \A s \in rest : seen[s] = mon.seen[s]
    BY <2>2, MonitorState DEF MonitorStates, RowTable
  <2> HIDE DEF rows, seen
  <2>5. m \in MonitorStates /\ MonFits(m)
    BY <2>4, <2>9, ScansOnTyped
  <2>6. site' \in Configs
    <3>1. Backends(rows) \in SUBSET Ports /\ Guarded(mon.flag, trans) \in Modes \cup TransitionPages
      BY <2>2, <2>3, BackendsTyped, GuardedTyped, TypesOfState
    <3> QED BY <2>1, <3>1, ConfigTyped
  <2>7. status' \in Statuses \cup {"deleted"}
    BY <2>1, MonitorStatusTyped
  <2>8. mon' \in {Idle, m}
    BY <2>1
  <2> HIDE DEF m
  <2> QED BY <1>2, <1>3, <2>1, <2>3, <2>5, <2>6, <2>7, <2>8, IdleTyped, MonitorKeepsTypes,
             MonitorState, TypesOfState
<1> QED BY <1>4, <1>5

LEMMA SyncedTyped ==
    ASSUME TypeInv, NEW aged \in SUBSET Rows(row)
    PROVE  /\ Synced(aged) \in RowTable /\ Rows(Synced(aged)) = Rows(row)
           /\ \A r \in Rows(row) : Synced(aged)[r].port = row[r].port
<1>1. ASSUME NEW r \in Ids
      PROVE  /\ Synced(aged)[r] \in Row \cup {None}
             /\ (Synced(aged)[r] = None <=> row[r] = None)
             /\ row[r] # None => Synced(aged)[r].port = row[r].port
  <2>1. row[r] \in Row \cup {None} /\ None \notin Row
    BY TypesOfState, Bounds DEF RowTable
  <2>2. r \in aged => row[r] # None
    BY DEF Rows
  <2>3. Observed(r) \in Statuses /\ "error" \in Statuses
    BY DEF Observed, Statuses
  <2> QED BY <2>1, <2>2, <2>3 DEF Synced, Row
<1>2. Synced(aged) \in RowTable
  BY <1>1 DEF Synced, RowTable
<1>3. Rows(Synced(aged)) = Rows(row)
  BY <1>1 DEF Rows
<1> QED BY <1>1, <1>2, <1>3 DEF Rows

LEMMA SyncTyped ==
    ASSUME TypeInv, Sync({}) \/ Sync(Aged)
    PROVE  TypeInv'
<1>1. PICK aged \in SUBSET Rows(row) : Sync(aged)
  BY DEF Aged, WithStatus
<1>2. row' \in RowTable /\ status' \in Statuses \cup {"deleted"}
  BY <1>1, SyncedTyped, DerivedTyped DEF Sync
<1>3. UNCHANGED <<box, foreign, site, flag, trans, policy, req, writer, mon, restarts, faults>>
  BY <1>1 DEF Sync, siteVars
<1> QED BY <1>2, <1>3, MonitorKeepsTypes, MonitorState, TypesOfState

\* A get_app that others come between writes what it had looked at.
SyncsLate ==
    /\ row' \in RowTable /\ Rows(row') = Rows(row)
    /\ \A r \in Rows(row) : row'[r].port = row[r].port
    /\ Exists /\ status' \in Statuses /\ Happened({"recorded"})
    /\ UNCHANGED <<box, foreign, siteVars, policy, req, writer, mon, restarts, faults>>

LEMMA SyncsLateTyped ==
    ASSUME TypeInv, SyncsLate
    PROVE  TypeInv'
<1>1. UNCHANGED <<box, foreign, site, flag, trans, policy, req, writer, mon, restarts, faults>>
  BY DEF SyncsLate, siteVars
<1> QED BY <1>1, MonitorKeepsTypes, MonitorState, TypesOfState DEF SyncsLate

LEMMA ExpireTyped ==
    ASSUME TypeInv, Expire
    PROVE  TypeInv'
<1>1. trans' \in Transitions /\ faults' \in 0..MaxFaults
      /\ UNCHANGED <<row, box, foreign, site, flag, status, policy, req, writer, mon, restarts>>
  BY TypesOfState, FaultTyped DEF Expire, Transitions, hostVars
<1>2. MonitorFits'
  BY <1>1 DEF TypeInv, MonitorFits
<1> QED BY <1>1, <1>2, TypesOfState, MonitorState, OthersKeepTypes DEF MonitorStates

LEMMA FaultsTyped ==
    ASSUME TypeInv, (\E r \in Ids : ContainerDies(r)) \/ \E p \in 1..RangeEnd : PortTaken(p)
    PROVE  TypeInv'
<1>1. box' \in BoxTable /\ foreign' \subseteq Ports /\ faults' \in 0..MaxFaults
  BY TypesOfState, MonitorState, FaultTyped, Bounds DEF ContainerDies, PortTaken, Stopped, BoxTable
<1>2. UNCHANGED <<row, site, flag, trans, status, policy, req, writer, mon, restarts>>
  BY DEF ContainerDies, PortTaken, siteVars, appVarsButFaults
<1>3. MonitorFits'
  BY <1>2 DEF TypeInv, MonitorFits
<1> QED BY <1>1, <1>2, <1>3, TypesOfState, MonitorState, OthersKeepTypes DEF MonitorStates

LEMMA ReconciledTyped ==
    ASSUME TypeInv
    PROVE  /\ \A r \in Ids : /\ Reconciled[r] \in Row \cup {None}
                             /\ (Reconciled[r] = None <=> row[r] = None)
                             /\ row[r] # None => Reconciled[r].port = row[r].port
           /\ AutoStarted \subseteq Rows(row)
<1>1. ASSUME NEW r \in Ids
      PROVE  /\ Reconciled[r] \in Row \cup {None}
             /\ (Reconciled[r] = None <=> row[r] = None)
             /\ row[r] # None => Reconciled[r].port = row[r].port
  <2>1. row[r] \in Row \cup {None} /\ None \notin Row /\ Observed(r) \in Statuses
    BY TypesOfState, Bounds DEF RowTable, Observed, Statuses
  <2> QED BY <2>1 DEF Reconciled, Row
<1>2. AutoStarted \subseteq Rows(row)
  BY <1>1 DEF AutoStarted, Wanted, WithStatus, Rows
<1> QED BY <1>1, <1>2

\* The rows a start-up leaves: the same replicas on the same ports.
StartUpRows == [r \in Ids |-> IF r \in AutoStarted
                              THEN [Reconciled[r] EXCEPT !.status = "running"] ELSE Reconciled[r]]

LEMMA StartUpTyped ==
    ASSUME TypeInv
    PROVE  /\ StartUpRows \in RowTable /\ Rows(StartUpRows) = Rows(row)
           /\ \A r \in Rows(row) : StartUpRows[r].port = row[r].port
<1>1. ASSUME NEW r \in Ids
      PROVE  /\ StartUpRows[r] \in Row \cup {None}
             /\ (StartUpRows[r] = None <=> row[r] = None)
             /\ row[r] # None => StartUpRows[r].port = row[r].port
  <2>1. r \in AutoStarted => row[r] # None
    BY ReconciledTyped DEF Rows
  <2>2. "running" \in Statuses /\ None \notin Row
    BY Bounds DEF Statuses
  <2> QED BY <2>1, <2>2, ReconciledTyped DEF StartUpRows, Row
<1>2. StartUpRows \in RowTable
  BY <1>1 DEF StartUpRows, RowTable
<1>3. Rows(StartUpRows) = Rows(row)
  BY <1>1 DEF Rows
<1> QED BY <1>1, <1>2, <1>3 DEF Rows

LEMMA RebootTyped ==
    ASSUME TypeInv, Reboot
    PROVE  TypeInv'
<1>1. /\ row' = StartUpRows /\ Fault("crash")
      /\ req' = [q \in Requests |-> IF req[q].pc = "new" THEN req[q] ELSE Ended]
      /\ box' = [r \in Ids |-> IF r \in AutoStarted THEN row[r].port ELSE box[r]]
      /\ status' = IF Rows(StartUpRows) = {} THEN status ELSE DerivedStatus(StartUpRows)
      /\ site' = Regenerated(StartUpRows)
      /\ trans' = Nobody /\ writer' = None /\ mon' = Idle
      /\ restarts' = [r \in Ids |-> 0]
      /\ UNCHANGED <<foreign, flag, policy>>
  BY DEF Reboot, StartUpRows
<1>2. /\ req' \in [Requests -> Sessions] /\ SessionsFit'
  <2>1. \A q \in Requests : req'[q] \in Sessions /\ Fits(req'[q])
    BY <1>1, FreshTyped, TypesOfState
  <2>2. req' \in [Requests -> Sessions]
    BY <1>1, <2>1
  <2> QED BY <2>1, <2>2 DEF SessionsFit
<1>3. row' \in RowTable
  BY <1>1, StartUpTyped
<1>4. box' \in BoxTable
  BY <1>1, ReconciledTyped, TypesOfState DEF BoxTable, Rows, RowTable, Row
<1>5. status' \in Statuses \cup {"deleted"}
  BY <1>1, TypesOfState, DerivedTyped
<1>6. site' \in Configs
  <2>1. Backends(StartUpRows) \in SUBSET Ports
    BY StartUpTyped, BackendsTyped
  <2> QED BY <1>1, <2>1, ConfigTyped, TypesOfState DEF Regenerated
<1>7. trans' \in Transitions /\ faults' \in 0..MaxFaults /\ restarts' \in [Ids -> 0..MaxRestarts]
  BY <1>1, TypesOfState, FaultTyped, AppAssumption DEF Transitions
<1>8. mon' \in MonitorStates /\ MonitorFits'
  BY <1>1, IdleTyped DEF MonFits, MonitorFits
<1>9. HandlersTyped'
  BY <1>1, <1>2, <1>3, <1>4, <1>5, <1>6, <1>7, <1>8, TypesOfState
     DEF TypeInv, HandlersTyped, BoxTable, Configs, Transitions, MonitorStates
<1> QED BY <1>2, <1>8, <1>9 DEF TypeInv

LEMMA StutterTyped ==
    ASSUME TypeInv, UNCHANGED handlerVars
    PROVE  TypeInv'
<1>1. HandlersTyped'
  BY DEF TypeInv, HandlersTyped, handlerVars
<1>2. SessionsFit' /\ MonitorFits'
  BY DEF TypeInv, SessionsFit, MonitorFits, handlerVars
<1> QED BY <1>1, <1>2 DEF TypeInv

LEMMA HandleTyped ==
    ASSUME TypeInv, NEW q \in Requests, Handle(q)
    PROVE  TypeInv'
BY InsertRowTyped, FailsTyped, StopBoxTyped, StartBoxTyped, FinishTyped, ZdPickTyped,
   ZdInsertTyped, ZdStartTyped, ZdCheckTyped, ZdSwitchTyped, ZdRetireTyped, ZdFinishTyped,
   ZdUndoTyped DEF Handle

LEMMA MonitorTyped ==
    ASSUME TypeInv, Monitor
    PROVE  TypeInv'
BY ScanTyped, GiveUpTyped, BackOffTyped, ReviveTyped, ReviveFailsTyped DEF Monitor

\* What a step does to everything but the session of a get_app.
Moves ==
    \/ \E q \in Requests : Arrive(q)
    \/ \E q \in Requests : Handle(q) \/ Task(q)
    \/ Sync({}) \/ Sync(Aged) \/ SyncsLate \/ Monitor \/ Expire \/ Environment
    \/ UNCHANGED handlerVars

LEMMA TypesKept ==
    ASSUME TypeInv, Moves
    PROVE  TypeInv'
<1>1. CASE \E q \in Requests : Arrive(q)
  BY <1>1, ArriveOpens, OpensTyped DEF TypeInv
<1>2. CASE (\E q \in Requests : Handle(q) \/ Task(q)) \/ Monitor
  BY <1>2, HandleTyped, TaskTyped, MonitorTyped
<1>3. CASE Expire \/ Environment
  BY <1>3, ExpireTyped, FaultsTyped, RebootTyped DEF Environment
<1>4. CASE Sync({}) \/ Sync(Aged) \/ SyncsLate
  BY <1>4, SyncTyped, SyncsLateTyped
<1>5. CASE UNCHANGED handlerVars
  BY <1>5, StutterTyped
<1> QED BY <1>1, <1>2, <1>3, <1>4, <1>5 DEF Moves

\* What the session of a get_app holds: it looks at rows it read, and what it
\* means to write has the rows it read.
SyncSessions == [pc : {"new", "look", "save", "done"}, todo : SUBSET Ids, seen : RowTable,
                 mem : RowTable, app : Statuses \cup {None}]
SyncFits(s) ==
    /\ s \in SyncSessions
    /\ s.pc = "look" => s.todo # {} /\ s.todo \subseteq Rows(s.mem)
    /\ Rows(s.mem) = Rows(s.seen)
SyncInv == SyncFits(sync)

LEMMA SyncAtRest == SyncFits(NoSync) /\ SyncFits(SyncOver)
BY NoRowsTyped DEF SyncFits, SyncSessions, NoSync, SyncOver

LEMMA SyncReadsKeeps ==
    ASSUME TypeInv, SyncReads
    PROVE  SyncInv'
<1>1. PICK aged \in {{}, Aged} :
        sync' = [pc |-> IF Rows(row) \ WithStatus(row, {"deploying", "starting", "stopping"}) = {}
                        THEN "save" ELSE "look",
                 todo |-> Rows(row) \ WithStatus(row, {"deploying", "starting", "stopping"}),
                 seen |-> row,
                 mem |-> [r \in Ids |-> IF r \in aged THEN [row[r] EXCEPT !.status = "error"]
                                        ELSE row[r]],
                 app |-> status]
  BY DEF SyncReads
<1> DEFINE mem == [r \in Ids |-> IF r \in aged THEN [row[r] EXCEPT !.status = "error"] ELSE row[r]]
           todo == Rows(row) \ WithStatus(row, {"deploying", "starting", "stopping"})
<1>2. row \in RowTable /\ status \in Statuses /\ aged \subseteq Rows(row)
  BY TypesOfState DEF SyncReads, Exists, Aged, WithStatus
<1>3. \A r \in Ids : mem[r] \in Row \cup {None} /\ (mem[r] = None <=> row[r] = None)
  <2>1. \A r \in Rows(row) : [row[r] EXCEPT !.status = "error"] \in Row
    BY <1>2 DEF Rows, RowTable, Row, Statuses
  <2> QED BY <1>2, <2>1, Bounds DEF Rows, RowTable
<1>4. mem \in RowTable /\ Rows(mem) = Rows(row)
  BY <1>3 DEF RowTable, Rows
<1>5. todo \subseteq Rows(row) /\ Rows(row) \subseteq Ids
  BY DEF Rows
<1> HIDE DEF mem, todo
<1>6. sync' = [pc |-> IF todo = {} THEN "save" ELSE "look", todo |-> todo,
               seen |-> row, mem |-> mem, app |-> status]
  BY <1>1 DEF mem, todo
<1> QED BY <1>2, <1>4, <1>5, <1>6 DEF SyncInv, SyncFits, SyncSessions

LEMMA SyncLooksKeeps ==
    ASSUME SyncInv, SyncLooks
    PROVE  SyncInv'
<1> DEFINE r == Min(sync.todo)
           rest == sync.todo \ {r}
           mem == [sync.mem EXCEPT ![r].status = Observed(r)]
<1>1. sync \in SyncSessions /\ sync.pc = "look" /\ sync.todo # {} /\ sync.todo \subseteq Rows(sync.mem)
  BY DEF SyncLooks, SyncInv, SyncFits
<1>2. r \in Rows(sync.mem) /\ r \in Ids
  <2>1. sync.todo \in SUBSET Nat
    BY <1>1, Bounds DEF SyncSessions
  <2> QED BY <1>1, <2>1, MinIsIn DEF Rows
<1>3. sync.mem \in RowTable /\ sync.mem[r] \in Row /\ Observed(r) \in Statuses
  BY <1>1, <1>2 DEF SyncSessions, RowTable, Rows, Observed, Statuses
<1>4. mem \in RowTable /\ Rows(mem) = Rows(sync.mem)
  <2>1. [sync.mem[r] EXCEPT !.status = Observed(r)] \in Row
    BY <1>3 DEF Row
  <2>2. mem = [sync.mem EXCEPT ![r] = [sync.mem[r] EXCEPT !.status = Observed(r)]]
    OBVIOUS
  <2> QED BY <1>2, <1>3, <2>1, <2>2, Bounds DEF RowTable, Rows
<1>5. sync' = [sync EXCEPT !.pc = IF rest = {} THEN "save" ELSE "look", !.todo = rest, !.mem = mem]
  BY <1>1 DEF SyncLooks, SyncSessions
<1> HIDE DEF mem, rest
<1>6. rest \subseteq sync.todo
  BY DEF rest
<1> QED BY <1>1, <1>4, <1>5, <1>6 DEF SyncInv, SyncFits, SyncSessions

LEMMA SyncKept ==
    ASSUME TypeInv, SyncInv, [Next]_vars
    PROVE  SyncInv'
<1>1. UNCHANGED sync => SyncInv'
  BY DEF SyncInv
<1>2. SyncSaves \/ SyncFails => SyncInv'
  BY SyncAtRest DEF SyncSaves, SyncFails, SyncInv
<1>3. Reboot => SyncInv'
  BY SyncAtRest DEF Reboot, SyncInv
<1> QED BY <1>1, <1>2, <1>3, SyncReadsKeeps, SyncLooksKeeps
        DEF Next, Progress, SyncSteps, Environment, Rests, vars

\* What a get_app that others come between writes is what a poll at that
\* moment would, or it is late.
LEMMA SyncSavesMoves ==
    ASSUME TypeInv, SyncInv, SyncSaves
    PROVE  Moves
<1> DEFINE rows == [r \in Ids |-> IF row[r] = None \/ sync.mem[r] = sync.seen[r] THEN row[r]
                                  ELSE [row[r] EXCEPT !.status = sync.mem[r].status]]
           derived == DerivedStatus(sync.mem)
           state == IF derived = sync.app THEN status ELSE derived
<1>1. /\ Exists /\ MayWrite(None) /\ row' = rows /\ status' = state
      /\ Happened(IF rows = row /\ state = status THEN {} ELSE SyncedLate(rows, state))
      /\ UNCHANGED <<box, foreign, siteVars, policy, req, writer, mon, restarts, faults>>
  BY DEF SyncSaves
<1>2. rows \in RowTable /\ Rows(rows) = Rows(row)
      /\ \A r \in Rows(row) : rows[r].port = row[r].port
  <2>1. row \in RowTable /\ sync \in SyncSessions /\ Rows(sync.mem) = Rows(sync.seen)
    BY TypesOfState DEF SyncInv, SyncFits
  <2>2. ASSUME NEW r \in Ids
        PROVE  /\ rows[r] \in Row \cup {None} /\ (rows[r] = None <=> row[r] = None)
               /\ row[r] # None => rows[r].port = row[r].port
    <3>1. CASE row[r] = None \/ sync.mem[r] = sync.seen[r]
      BY <2>1, <3>1 DEF RowTable
    <3>2. CASE row[r] # None /\ sync.mem[r] # sync.seen[r]
      <4>1. row[r] \in Row /\ sync.mem[r] \in Row
        BY <2>1, <3>2 DEF RowTable, Rows, SyncSessions
      <4>2. /\ [row[r] EXCEPT !.status = sync.mem[r].status] \in Row
            /\ [row[r] EXCEPT !.status = sync.mem[r].status].port = row[r].port
        BY <4>1 DEF Row
      <4> QED BY <3>2, <4>2, Bounds
    <3> QED BY <3>1, <3>2
  <2> QED BY <2>2 DEF RowTable, Rows
<1>3. state \in Statuses
  BY <1>1, DerivedTyped, TypesOfState DEF Exists
<1> HIDE DEF rows, state
<1>4. CASE rows = row /\ state = status
  BY <1>1, <1>4 DEF Happened, handlerVars, siteVars, Moves
<1>5. CASE ~(rows = row /\ state = status)
  <2>1. CASE \E aged \in {{}, Aged} : rows = Synced(aged) /\ state = DerivedStatus(rows)
    <3>1. PICK aged \in {{}, Aged} : rows = Synced(aged) /\ state = DerivedStatus(rows)
      BY <2>1
    <3>2. Happened(Recorded)
      BY <1>1, <1>5, <2>1 DEF SyncedLate
    <3>3. Sync(aged)
      BY <1>1, <1>5, <3>1, <3>2 DEF Sync
    <3> QED BY <3>3 DEF Moves
  <2>2. CASE ~\E aged \in {{}, Aged} : rows = Synced(aged) /\ state = DerivedStatus(rows)
    BY <1>1, <1>2, <1>3, <1>5, <2>2 DEF SyncedLate, SyncsLate, Moves
  <2> QED BY <2>1, <2>2
<1> QED BY <1>4, <1>5

LEMMA MovesOf ==
    ASSUME TypeInv, SyncInv, [Next]_vars
    PROVE  Moves
<1>1. SyncReads \/ SyncLooks \/ SyncFails \/ Rests \/ UNCHANGED vars => UNCHANGED handlerVars
  BY DEF SyncReads, SyncLooks, SyncFails, Rests, vars
<1>2. Work => Moves
  BY DEF Work, Moves
<1> QED BY <1>1, <1>2, SyncSavesMoves DEF Next, Progress, SyncSteps, Moves

\* What a beginning gives its rows and containers.
StartingRow(start, r) ==
    IF r <= start.replicas THEN [status |-> start.status, port |-> r] ELSE None

LEMMA StartingTyped ==
    ASSUME Init
    PROVE  \E start \in Starts :
             /\ start.replicas \in 0..RangeEnd /\ start.status \in {"running", "stopped"}
             /\ policy = start.policy /\ policy \in {"no", "always"}
             /\ \A r \in Ids : row[r] = StartingRow(start, r) /\ (row[r] # None <=> r <= start.replicas)
             /\ row \in RowTable
             /\ box \in BoxTable
             /\ \A r \in Ids : box[r] = IF row[r] = None \/ start.status = "stopped" THEN 0 ELSE r
             /\ status = DerivedStatus(row) /\ site = Config("normal", Backends(row))
<1>1. PICK start \in Starts :
        /\ row = [r \in Ids |-> IF r <= start.replicas THEN [status |-> start.status, port |-> r] ELSE None]
        /\ box = [r \in Ids |-> IF row[r] = None \/ start.status = "stopped" THEN 0 ELSE r]
        /\ status = DerivedStatus(row) /\ site = Config("normal", Backends(row))
        /\ policy = start.policy
  BY DEF Init
<1>2. /\ start.replicas \in 0..RangeEnd /\ start.status \in {"running", "stopped"}
      /\ start.policy \in {"no", "always"}
  BY Bounds, AppAssumption
<1>3. \A r \in Ids : r <= start.replicas => r \in Ports
  BY <1>2, Bounds DEF Ids, Ports
<1>4. ASSUME NEW r \in Ids
      PROVE  row[r] = StartingRow(start, r) /\ row[r] \in Row \cup {None}
             /\ (row[r] # None <=> r <= start.replicas)
  <2>1. r <= start.replicas => [status |-> start.status, port |-> r] \in Row
    BY <1>2, <1>3 DEF Row, Statuses
  <2> QED BY <1>1, <2>1, Bounds DEF StartingRow
<1>5. row \in RowTable
  BY <1>1, <1>4 DEF RowTable
<1>6. box \in BoxTable
  BY <1>1, <1>3, <1>4 DEF BoxTable
<1> QED BY <1>1, <1>2, <1>4, <1>5, <1>6

LEMMA InitTyped == Init => TypeInv
<1> SUFFICES ASSUME Init PROVE TypeInv
  OBVIOUS
<1>1. PICK start \in Starts :
        /\ policy \in {"no", "always"} /\ row \in RowTable /\ box \in BoxTable
        /\ status = DerivedStatus(row) /\ site = Config("normal", Backends(row))
  BY StartingTyped
<1>2. /\ foreign = {} /\ flag = "normal" /\ trans = Nobody
      /\ req = [q \in Requests |-> Fresh] /\ writer = None /\ mon = Idle
      /\ restarts = [r \in Ids |-> 0] /\ faults = 0
  BY DEF Init
<1>3. status \in Statuses /\ site \in Configs
  BY <1>1, DerivedTyped, BackendsTyped, ConfigTyped DEF Modes
<1>4. HandlersTyped
  BY <1>1, <1>2, <1>3, FreshTyped, IdleTyped, AppAssumption
     DEF HandlersTyped, BoxTable, Configs, MonitorStates, Modes
<1>5. SessionsFit /\ MonitorFits
  BY <1>2, FreshTyped, IdleTyped DEF SessionsFit, MonitorFits, MonFits
<1> QED BY <1>4, <1>5 DEF TypeInv

\* Every variable keeps its type, whatever requests, failures and crashes
\* there are; with it goes what each handler holds at each of its points.
THEOREM TypesHold == Spec => [](TypeInv /\ SyncInv)
<1>1. Init => TypeInv /\ SyncInv
  BY InitTyped, SyncAtRest DEF Init, SyncInv
<1>2. (TypeInv /\ SyncInv) /\ [Next]_vars => (TypeInv /\ SyncInv)'
  BY MovesOf, TypesKept, SyncKept
<1> QED BY <1>1, <1>2, PTL DEF Spec

\* TypeOK for every number of replicas, ports, requests and failures.
THEOREM TypeCorrect == Spec => []TypeOK
<1>1. TypeInv /\ SyncInv => TypeOK
  BY DEF TypeInv, SyncInv, SyncFits, SyncSessions, TypeOK
<1> QED BY <1>1, TypesHold, PTL

\* Every step of the specification is one of Moves.
LEMMA SpecMoves == Spec => [][Moves]_vars
<1>1. TypeInv /\ SyncInv /\ [Next]_vars => [Moves]_vars
  BY MovesOf
<1> QED BY <1>1, TypesHold, PTL DEF Spec

LEMMA StutterMoves == [Moves]_vars => Moves
BY DEF Moves, vars

-----------------------------------------------------------------------------
(* The operator's page                                                     *)

LEMMA HistoryGrows ==
    ASSUME TypeInv, Moves
    PROVE  events \subseteq events'
<1>1. \A what : Fault(what) \/ Happened(what) \/ NoFault => events \subseteq events'
  BY DEF Fault, Happened, NoFault
<1>2. ASSUME NEW q \in Requests, Arrive(q) PROVE events \subseteq events'
  <2>1. PICK h : Opens(q, h)
    BY <1>2, ArriveOpens DEF TypeInv
  <2>2. UNCHANGED events \/ \E what : Fault(what) \/ Happened(what)
    BY <2>1 DEF Opens, OpensPlainly, OpensWithPage, PageRefused, ModeShown, Accepts, Rejects
  <2> QED BY <1>1, <2>2
<1>3. ASSUME NEW q \in Requests, Handle(q) PROVE events \subseteq events'
  <2>1. CASE InsertRow(q) \/ InsertFails(q) \/ StopBox(q) \/ StartBox(q)
    BY <1>1, <2>1 DEF InsertRow, InsertFails, Abort, StopBox, StopsBox, StartBox, Raise
  <2>2. CASE Finish(q) \/ FinishFails(q)
    BY <1>1, <2>2 DEF Finish, FinishFails, Abort, Raise, AcceptsFor
  <2>3. CASE ZdPick(q) \/ ZdPickFails(q) \/ ZdInsert(q) \/ ZdStart(q)
    BY <1>1, <2>3 DEF ZdPick, ZdPickFails, Abort, ZdInsert, ZdStart
  <2>4. CASE ZdCheck(q) \/ ZdSwitch(q) \/ ZdRetire(q) \/ ZdFinish(q) \/ ZdUndo(q)
    BY <1>1, <2>4 DEF ZdCheck, ZdSwitch, Rejects, ZdRetire, ZdFinish, ZdUndo, StopsBox
  <2> QED BY <1>3, <2>1, <2>2, <2>3, <2>4 DEF Handle
<1>4. ASSUME NEW q \in Requests, Task(q) PROVE events \subseteq events'
  BY <1>1, <1>4 DEF Task, Poll, WaitEnds, Restore, Accepts, Rejects
<1>5. Sync({}) \/ Sync(Aged) \/ SyncsLate => events \subseteq events'
  BY <1>1 DEF Sync, SyncsLate
<1>6. Monitor => events \subseteq events'
  BY <1>1 DEF Monitor, Scan, ScanEnds, GiveUp, Records, Rejects, BackOff, Revive, ReviveFails
<1>7. Expire \/ Environment => events \subseteq events'
  BY <1>1 DEF Expire, Environment, ContainerDies, PortTaken, Reboot
<1>8. UNCHANGED handlerVars => events \subseteq events'
  BY DEF handlerVars
<1> QED BY <1>2, <1>3, <1>4, <1>5, <1>6, <1>7, <1>8 DEF Moves

\* A deleted application has no rows, and stays deleted.
Gone == ~Exists => Rows(row) = {}
StaysGone == Gone' /\ (Exists' => Exists)

LEMMA SameRowsStayGone ==
    ASSUME Gone, UNCHANGED <<row, status>>
    PROVE  StaysGone
BY DEF Gone, StaysGone, Exists, Rows

LEMMA FewerRowsStayGone ==
    ASSUME Gone, Exists' <=> Exists, Rows(row') \subseteq Rows(row)
    PROVE  StaysGone
BY DEF Gone, StaysGone, Rows

LEMMA DerivedExists ==
    ASSUME NEW rows
    PROVE  DerivedStatus(rows) # "deleted"
BY DerivedTyped DEF Statuses

LEMMA GoneFinish ==
    ASSUME TypeInv, Gone, NEW q \in Requests, Finish(q)
    PROVE  StaysGone
<1>1. req[q].pc = "finish" /\ req[q].app \in Statuses /\ Exists
  BY TypesOfState DEF Finish, Fits, Acting
<1>2. CASE row' = RowsAfter(q) /\ status' = StatusAfter(q, RowsAfter(q))
  <2>1. CASE req[q].kind = "delete"
    BY <1>1, <1>2, <2>1, NoRowsTyped DEF RowsAfter, StaysGone, Gone, Rows
  <2>2. CASE req[q].kind # "delete"
    BY <1>1, <1>2, <2>2, DerivedExists DEF StatusAfter, StaysGone, Gone, Exists
  <2> QED BY <2>1, <2>2
<1>3. CASE UNCHANGED <<row, site, status>>
  BY <1>3, SameRowsStayGone
<1> QED BY <1>2, <1>3 DEF Finish

LEMMA GoneHandle ==
    ASSUME TypeInv, Gone, NEW q \in Requests, Handle(q)
    PROVE  StaysGone
<1>1. CASE InsertRow(q) \/ InsertFails(q) \/ FinishFails(q) \/ ZdPickFails(q)
  BY <1>1, SameRowsStayGone DEF InsertRow, InsertFails, FinishFails, ZdPickFails, Abort, hostVars
<1>2. CASE StopBox(q) \/ StartBox(q) \/ ZdPick(q) \/ ZdCheck(q) \/ ZdRetire(q)
  BY <1>2, SameRowsStayGone DEF StopBox, StartBox, ZdPick, ZdCheck, ZdRetire, hostVars
<1>3. CASE ZdInsert(q)
  BY <1>3 DEF ZdInsert, StaysGone, Gone, Exists
<1>4. CASE ZdStart(q) \/ ZdSwitch(q) \/ ZdUndo(q)
  <2>1. UNCHANGED status
    BY <1>4 DEF ZdStart, ZdSwitch, ZdUndo
  <2>2. \A r \in Ids : row[r] = None => row'[r] = None
    <3>1. CASE ZdStart(q)
      BY <3>1, TypesOfState DEF ZdStart, RowTable
    <3>2. CASE ZdSwitch(q)
      BY <3>2 DEF ZdSwitch, Present
    <3>3. CASE ZdUndo(q)
      BY <3>3, TypesOfState DEF ZdUndo, RowTable
    <3> QED BY <1>4, <3>1, <3>2, <3>3
  <2> QED BY <2>1, <2>2, FewerRowsStayGone DEF Rows, Exists
<1>5. CASE ZdFinish(q)
  BY <1>5 DEF ZdFinish, StaysGone, Gone, Exists
<1> QED BY <1>1, <1>2, <1>3, <1>4, <1>5, GoneFinish DEF Handle

LEMMA GoneMonitor ==
    ASSUME TypeInv, Gone, Monitor
    PROVE  StaysGone
<1>1. CASE Scan \/ ScanEnds \/ BackOff
  BY <1>1, SameRowsStayGone DEF Scan, ScanEnds, BackOff, hostVars
<1>2. CASE GiveUp
  <2>1. PICK state : Records(Case, state)
    BY <1>2 DEF GiveUp
  <2>2. UNCHANGED status
    BY <1>2 DEF GiveUp
  <2>3. \A r \in Ids : row[r] = None => row'[r] = None
    BY <2>1, TypesOfState DEF Records, RowTable
  <2> QED BY <2>2, <2>3, FewerRowsStayGone DEF Rows, Exists
<1>3. CASE Revive
  <2>1. UNCHANGED row /\ (UNCHANGED status \/ row[Min(mon.todo)] # None)
    BY <1>3 DEF Revive
  <2>2. row[Min(mon.todo)] # None => Exists
    BY <1>3, WaitTyped DEF Revive, Gone, Rows
  <2>3. Exists => status' # "deleted"
    BY <1>3, DerivedExists DEF Revive, MonitorStatus, Exists
  <2> QED BY <2>1, <2>2, <2>3 DEF Exists, StaysGone, Gone, Rows
<1>4. CASE ReviveFails
  <2> DEFINE r == Min(mon.todo)
  <2>1. CASE row[r] = None
    BY <1>4, <2>1, SameRowsStayGone DEF ReviveFails
  <2>2. CASE row[r] # None
    <3>1. Exists
      BY <1>4, <2>2, WaitTyped DEF ReviveFails, Gone, Rows
    <3>2. status' = MonitorStatus([mon.seen EXCEPT ![r].status = "error"])
      BY <1>4, <2>2 DEF ReviveFails
    <3>3. status' # "deleted"
      BY <3>1, <3>2, DerivedExists DEF MonitorStatus, Exists
    <3> QED BY <3>1, <3>3 DEF Exists, StaysGone, Gone
  <2> QED BY <2>1, <2>2
<1> QED BY <1>1, <1>2, <1>3, <1>4 DEF Monitor

LEMMA GoneKept ==
    ASSUME TypeInv, Gone, Moves
    PROVE  StaysGone
<1>1. ASSUME NEW q \in Requests, Arrive(q) PROVE StaysGone
  <2>1. PICK h : Opens(q, h)
    BY <1>1, ArriveOpens DEF TypeInv
  <2> QED BY <2>1, SameRowsStayGone DEF Opens, hostVars
<1>2. ASSUME NEW q \in Requests, Task(q) PROVE StaysGone
  BY <1>2, SameRowsStayGone DEF Task, Poll, WaitEnds, Restore, hostVars
<1>3. Sync({}) \/ Sync(Aged) \/ SyncsLate => StaysGone
  BY DerivedExists DEF Sync, SyncsLate, StaysGone, Gone, Exists, Statuses
<1>4. Expire => StaysGone
  BY SameRowsStayGone DEF Expire, hostVars
<1>5. Environment => StaysGone
  <2>1. ((\E r \in Ids : ContainerDies(r)) \/ \E p \in 1..RangeEnd : PortTaken(p)) => StaysGone
    BY SameRowsStayGone DEF ContainerDies, PortTaken, appVarsButFaults
  <2>2. ASSUME Reboot PROVE StaysGone
    <3>1. row' = StartUpRows /\ Rows(row') = Rows(row)
      BY <2>2, StartUpTyped DEF Reboot, StartUpRows
    <3>2. status' = IF Rows(StartUpRows) = {} THEN status ELSE DerivedStatus(StartUpRows)
      BY <2>2 DEF Reboot, StartUpRows
    <3> QED BY <3>1, <3>2, StartUpTyped, DerivedExists DEF StaysGone, Gone, Exists, Rows
  <2> QED BY <2>1, <2>2 DEF Environment
<1>6. UNCHANGED handlerVars => StaysGone
  BY SameRowsStayGone DEF handlerVars
<1> QED BY <1>1, <1>2, <1>3, <1>4, <1>5, <1>6, GoneHandle, GoneMonitor DEF Moves

\* A configuration of a mode shows that mode's page; normal has none.
Shows(config, mode) == IF mode = "normal" THEN config.page \notin Modes ELSE config.page = mode

LEMMA ConfigShows ==
    ASSUME NEW mode \in Modes, NEW backends, NEW t \in Transitions
    PROVE  /\ Shows(Config(mode, backends), mode)
           /\ Shows(Config(Guarded(mode, t), backends), mode)
           /\ Guarded(mode, t) \in TransitionPages => ~(Config(Guarded(mode, t), backends).page \in Modes)
<1>1. ASSUME NEW page \in TransitionPages PROVE Config(page, backends).page \notin Modes
  BY <1>1 DEF Config, StaticPage, StaticPages, TransitionPages, Modes
<1>2. CASE mode = "normal"
  <2>1. Config(mode, backends).page \notin Modes
    BY <1>2 DEF Config, StaticPage, StaticPages, TransitionPages, Modes
  <2>2. Guarded(mode, t) \in TransitionPages \cup {mode}
    BY <1>2 DEF Guarded, Transitions
  <2> QED BY <1>1, <1>2, <2>1, <2>2 DEF Shows
<1>3. CASE mode # "normal"
  <2>1. Guarded(mode, t) = mode /\ mode \in StaticPages /\ mode \notin TransitionPages
    BY <1>3 DEF Guarded, Modes, StaticPages, TransitionPages
  <2> QED BY <1>3, <2>1 DEF Shows, Config, StaticPage
<1> QED BY <1>2, <1>3

\* While the application exists, the page of a mode is that of the operator's,
\* unless a mode read before the operator changed it was written.  A step
\* leaves nginx as it is, or shows the operator's mode, or is a deploy's switch,
\* which shows no operator's page.
PageIsFlag == site.page \in Modes /\ Exists /\ Without({"stale"}) => flag = site.page
Fresher == Exists' /\ "stale" \notin events'
PageFollows ==
    Fresher => \/ UNCHANGED <<site, flag>>
               \/ Shows(site', flag')
               \/ Switches /\ UNCHANGED flag /\ site'.page \notin Modes

LEMMA StaleSeen ==
    ASSUME NEW mode, NEW what, Happened(Stale(mode) \cup what), "stale" \notin events'
    PROVE  mode = flag
BY DEF Happened, Stale

LEMMA ArrivePages ==
    ASSUME TypeInv, NEW q \in Requests, Arrive(q)
    PROVE  PageFollows
<1>1. PICK h : Opens(q, h)
  BY ArriveOpens DEF TypeInv
<1>2. CASE OpensPlainly(q, h) \/ PageRefused(q, h)
  BY <1>2 DEF OpensPlainly, PageRefused, siteVars, PageFollows
<1>3. CASE OpensWithPage(q, h)
  <2>1. PICK page \in TransitionPages : site' = Config(page, {})
    BY <1>3 DEF OpensWithPage
  <2>2. flag' = "normal" /\ Nobody \in Transitions /\ "normal" \in Modes
        /\ site'.page \notin Modes
    BY <1>3, <2>1 DEF OpensWithPage, Transitions, Modes, Config, StaticPage, StaticPages, TransitionPages
  <2> QED BY <2>2 DEF PageFollows, Shows
<1>4. CASE ModeShown(q, h)
  <2>1. (Rejects /\ UNCHANGED flag)
        \/ \E mode \in Modes : site' = Config(mode, Backends(row)) /\ flag' = mode
    BY <1>4 DEF ModeShown, Accepts
  <2> QED BY <2>1, TypesOfState, ConfigShows DEF PageFollows, Rejects
<1> QED BY <1>1, <1>2, <1>3, <1>4 DEF Opens

LEMMA FinishPages ==
    ASSUME TypeInv, NEW q \in Requests, Finish(q)
    PROVE  PageFollows
<1>1. /\ req[q].pc = "finish" /\ req[q].app \in Statuses /\ req[q].flag \in Modes
      /\ UNCHANGED flag
  BY TypesOfState DEF Finish, Fits, Acting, Sessions
<1>2. CASE /\ AcceptsFor(req[q].flag, ConfigAfter(q, RowsAfter(q)))
           /\ status' = StatusAfter(q, RowsAfter(q))
  <2>1. site' = ConfigAfter(q, RowsAfter(q)) /\ Happened(Stale(req[q].flag))
    BY <1>2 DEF AcceptsFor
  <2>2. CASE req[q].kind = "delete"
    <3>1. req[q].app # "deleted"
      BY <1>1 DEF Statuses
    <3>2. StatusAfter(q, RowsAfter(q)) = "deleted"
      BY <2>2, <3>1 DEF StatusAfter
    <3>3. ~Exists'
      BY <1>2, <3>2 DEF Exists
    <3> QED BY <3>3 DEF PageFollows, Fresher
  <2>3. CASE req[q].kind # "delete"
    <3>1. site' = Config(Guarded(req[q].flag, trans), Backends(RowsAfter(q)))
      BY <2>1, <2>3 DEF ConfigAfter
    <3>2. Fresher => req[q].flag = flag'
      BY <1>1, <2>1 DEF Fresher, Happened, Stale
    <3> QED BY <1>1, <3>1, <3>2, TypesOfState, ConfigShows DEF PageFollows
  <2> QED BY <2>2, <2>3
<1>3. CASE UNCHANGED site
  BY <1>1, <1>3 DEF PageFollows
<1> QED BY <1>2, <1>3 DEF Finish

LEMMA HandlePages ==
    ASSUME TypeInv, NEW q \in Requests, Handle(q)
    PROVE  PageFollows
<1>1. CASE InsertRow(q) \/ InsertFails(q) \/ StopBox(q) \/ StartBox(q)
  BY <1>1 DEF InsertRow, InsertFails, Abort, StopBox, StartBox, siteVars, PageFollows
<1>2. CASE FinishFails(q)
  <2>1. UNCHANGED <<flag, status>> /\ (UNCHANGED site \/ ~Exists)
    BY <1>2 DEF FinishFails, Abort
  <2> QED BY <2>1 DEF PageFollows, Fresher, Exists
<1>3. CASE ZdPick(q) \/ ZdPickFails(q) \/ ZdInsert(q) \/ ZdStart(q) \/ ZdCheck(q)
  BY <1>3 DEF ZdPick, ZdPickFails, Abort, ZdInsert, ZdStart, ZdCheck, siteVars, PageFollows
<1>4. CASE ZdSwitch(q)
  <2>1. UNCHANGED flag /\ (UNCHANGED site \/ site' = Config("normal", NewBackends(q)))
    BY <1>4 DEF ZdSwitch, Rejects
  <2>2. Config("normal", NewBackends(q)).page \notin Modes
    BY ConfigShows DEF Modes, Transitions, Shows
  <2>3. Switches
    <3> DEFINE rows == [r \in Ids |-> IF r \in Present(q) THEN [row[r] EXCEPT !.status = "running"]
                                      ELSE row[r]]
               old == WithStatus(rows, {"running"}) \ req[q].new
    <3>1. /\ req[q].pc = "switch" /\ req[q] \in Sessions
          /\ req' = [req EXCEPT ![q] = [req[q] EXCEPT !.todo = old, !.touched = old,
                                                      !.pc = StepOrFinish(old, "retire")]]
      BY <1>4, TypesOfState DEF ZdSwitch
    <3> HIDE DEF old
    <3>2. req'[q].pc \in {"retire", "finish"}
      BY <3>1, TypesOfState DEF StepOrFinish, Sessions, TypeInv, HandlersTyped
    <3> QED BY <3>1, <3>2 DEF Switches
  <2> QED BY <2>1, <2>2, <2>3 DEF PageFollows
<1>5. CASE ZdRetire(q) \/ ZdFinish(q) \/ ZdUndo(q)
  BY <1>5 DEF ZdRetire, ZdFinish, ZdUndo, siteVars, PageFollows
<1> QED BY <1>1, <1>2, <1>3, <1>4, <1>5, FinishPages DEF Handle

LEMMA TaskPages ==
    ASSUME TypeInv, NEW q \in Requests, Task(q)
    PROVE  PageFollows
<1>1. CASE Poll(q) \/ WaitEnds(q)
  BY <1>1 DEF Poll, WaitEnds, siteVars, PageFollows
<1>2. CASE Restore(q)
  <2>1. UNCHANGED flag /\ (UNCHANGED site \/ site' = Config(flag, Backends(row)))
    BY <1>2 DEF Restore, Accepts, Rejects, RestoredConfig
  <2> QED BY <2>1, TypesOfState, ConfigShows DEF PageFollows
<1> QED BY <1>1, <1>2 DEF Task

LEMMA MonitorPages ==
    ASSUME TypeInv, Monitor
    PROVE  PageFollows
<1>1. UNCHANGED flag /\ mon.flag \in Modes
  BY MonitorState
     DEF Monitor, Scan, ScanEnds, GiveUp, BackOff, Revive, ReviveFails, siteVars, MonitorStates
<1>2. UNCHANGED site \/ \E backends : /\ site' = Config(Guarded(mon.flag, trans), backends)
                                      /\ "stale" \notin events' => mon.flag = flag
  <2>1. CASE Scan \/ ScanEnds \/ BackOff \/ Revive
    BY <2>1 DEF Scan, ScanEnds, BackOff, Revive, siteVars
  <2>2. CASE GiveUp
    BY <2>2 DEF GiveUp, Records, Rejects, Happened, Stale
  <2>3. CASE ReviveFails
    BY <2>3 DEF ReviveFails, Happened, Stale
  <2> QED BY <2>1, <2>2, <2>3 DEF Monitor
<1> QED BY <1>1, <1>2, TypesOfState, ConfigShows DEF PageFollows, Fresher

LEMMA PagesFollow ==
    ASSUME TypeInv, Moves
    PROVE  PageFollows
<1>1. Sync({}) \/ Sync(Aged) \/ SyncsLate => PageFollows
  BY DEF Sync, SyncsLate, siteVars, PageFollows
<1>2. Expire \/ Environment => PageFollows
  <2>1. Expire \/ (\E r \in Ids : ContainerDies(r)) \/ (\E p \in 1..RangeEnd : PortTaken(p))
        => PageFollows
    BY DEF Expire, ContainerDies, PortTaken, siteVars, PageFollows
  <2>2. ASSUME Reboot PROVE PageFollows
    <3>1. UNCHANGED flag /\ (UNCHANGED site \/ \E backends : site' = Config(flag, backends))
      BY <2>2 DEF Reboot, Regenerated
    <3> QED BY <3>1, TypesOfState, ConfigShows DEF PageFollows
  <2> QED BY <2>1, <2>2 DEF Environment
<1>3. UNCHANGED handlerVars => PageFollows
  BY DEF handlerVars, PageFollows
<1> QED BY <1>1, <1>2, <1>3, ArrivePages, HandlePages, TaskPages, MonitorPages
        DEF Moves

\* The page on show, when it is the operator's, is the one in force: no step
\* but the operator's, or one with a mode that has gone stale, parts the two.
PagesInv == TypeInv /\ Gone /\ PageIsFlag

LEMMA PageIsFlagKept ==
    ASSUME PagesInv, Moves
    PROVE  PagesInv'
<1>1. TypeInv' /\ StaysGone /\ events \subseteq events' /\ PageFollows /\ flag' \in Modes
  BY TypesKept, GoneKept, HistoryGrows, PagesFollow, TypesOfState DEF PagesInv, TypeInv, HandlersTyped
<1>2. ASSUME site'.page \in Modes, Exists', "stale" \notin events'
      PROVE  flag' = site'.page
  BY <1>1, <1>2 DEF PagesInv, PageIsFlag, PageFollows, Fresher, Shows, StaysGone, Without
<1> QED BY <1>1, <1>2 DEF PagesInv, StaysGone, PageIsFlag, Without

LEMMA PagesHold == Spec => []PagesInv
<1>1. Init => PagesInv
  <2> SUFFICES ASSUME Init PROVE PagesInv
    OBVIOUS
  <2>1. TypeInv /\ status \in Statuses
    BY InitTyped, StartingTyped, DerivedTyped
  <2>2. Exists
    BY <2>1 DEF Exists, Statuses
  <2>3. site.page \notin Modes /\ flag = "normal"
    <3>1. site = Config("normal", Backends(row)) /\ "normal" \in Modes /\ Nobody \in Transitions
      BY StartingTyped DEF Modes, Transitions
    <3> QED BY <3>1, ConfigShows DEF Shows, Init
  <2> QED BY <2>1, <2>2, <2>3 DEF PagesInv, Gone, PageIsFlag
<1>2. PagesInv /\ Moves => PagesInv'
  BY PageIsFlagKept
<1> QED BY <1>1, <1>2, SpecMoves, StutterMoves, PTL DEF Spec

\* The page the operator put up leaves by the operator, with the application,
\* by a write of a mode read before the change, or by the switch of a deploy,
\* which never reads the mode; and by nothing else: no start, restart, scale,
\* delete of an instance, refresh, restore task, monitor pass or start-up.
THEOREM PageStays == Spec => MaintenanceStays
<1> DEFINE Leaves == site.page \in Modes /\ site'.page # site.page =>
                        flag' # flag \/ ~Exists' \/ "stale" \in events' \/ Switches
<1>1. ASSUME PagesInv, Moves PROVE Leaves
  <2>1. StaysGone /\ events \subseteq events' /\ PageFollows
    BY <1>1, GoneKept, HistoryGrows, PagesFollow DEF PagesInv
  <2>2. site.page # "normal"
    BY <1>1, TypesOfState DEF PagesInv, Configs, StaticPages, TransitionPages
  <2> QED BY <1>1, <2>1, <2>2
          DEF PagesInv, PageIsFlag, PageFollows, Fresher, Shows, StaysGone, Without
<1>2. Leaves => [Leaves]_vars
  OBVIOUS
<1> QED BY <1>1, PagesHold, SpecMoves, StutterMoves, PTL DEF Spec, MaintenanceStays

-----------------------------------------------------------------------------
(* One handler at a time                                                   *)

LEMMA ActingInFlight ==
    ASSUME TypeInv, NEW q \in Requests
    PROVE  InFlight(q) <=> req[q].pc \in Acting
BY TypesOfState DEF InFlight, Acting, Sessions, Points

\* A step of a handler moves its own session only.
LEMMA HandleMovesOne ==
    ASSUME TypeInv, NEW q \in Requests, Handle(q)
    PROVE  /\ InFlight(q) /\ UNCHANGED mon
           /\ \A o \in Requests : o # q => req'[o] = req[o]
<1>1. req[q].pc \in Acting
  BY DEF Handle, InsertRow, InsertFails, StopBox, StartBox, Finish, FinishFails, ZdPick,
         ZdPickFails, ZdInsert, ZdStart, ZdCheck, ZdSwitch, ZdRetire, ZdFinish, ZdUndo, Acting
<1>2. UNCHANGED mon
  BY DEF Handle, InsertRow, InsertFails, StopBox, StartBox, Finish, FinishFails, ZdPick, Abort,
         ZdPickFails, ZdInsert, ZdStart, ZdCheck, ZdSwitch, ZdRetire, ZdFinish, ZdUndo
<1>3. \E h : req' = [req EXCEPT ![q] = h]
  <2>1. CASE InsertRow(q) \/ InsertFails(q) \/ StopBox(q) \/ StartBox(q)
    BY <2>1 DEF InsertRow, InsertFails, Abort, StopBox, StartBox, Raise
  <2>2. CASE Finish(q) \/ FinishFails(q)
    BY <2>2 DEF Finish, FinishFails, Abort, Raise
  <2>3. CASE ZdPick(q) \/ ZdPickFails(q) \/ ZdInsert(q) \/ ZdStart(q)
    BY <2>3 DEF ZdPick, ZdPickFails, Abort, ZdInsert, ZdStart, Undo
  <2>4. CASE ZdCheck(q) \/ ZdSwitch(q) \/ ZdRetire(q) \/ ZdFinish(q) \/ ZdUndo(q)
    BY <2>4 DEF ZdCheck, Undo, ZdSwitch, ZdRetire, ZdFinish, ZdUndo
  <2> QED BY <2>1, <2>2, <2>3, <2>4 DEF Handle
<1> QED BY <1>1, <1>2, <1>3, ActingInFlight

\* The steps that are no request's: restore tasks, polls, the monitor, faults.
Aside ==
    \/ \E q \in Requests : Task(q)
    \/ Sync({}) \/ Sync(Aged) \/ SyncsLate \/ Monitor \/ Expire \/ Environment
    \/ UNCHANGED handlerVars

LEMMA NextSteps ==
    ASSUME Moves
    PROVE  (\E q \in Requests : Arrive(q) \/ Handle(q)) \/ Aside
BY DEF Moves, Aside

\* They start no handler and move none, though a crash may end them all.
LEMMA AsideMovesNone ==
    ASSUME TypeInv, Aside, NEW o \in Requests, InFlight(o)'
    PROVE  InFlight(o) /\ req'[o] = req[o]
<1>1. CASE \E q \in Requests : Task(q)
  <2>1. PICK q \in Requests : Task(q)
    BY <1>1
  <2>2. PICK h : TaskGoesOn(q, h)
    BY <2>1, TaskMoves
  <2> QED BY <2>1, <2>2, TypesOfState DEF TaskGoesOn, InFlight
<1>2. CASE UNCHANGED req
  BY <1>2 DEF InFlight
<1>3. CASE Reboot
  <2>1. req'[o] = IF req[o].pc = "new" THEN req[o] ELSE Ended
    BY <1>3 DEF Reboot
  <2> QED BY <2>1, FreshTyped DEF InFlight
<1>4. Sync({}) \/ Sync(Aged) \/ SyncsLate \/ Monitor \/ Expire \/ UNCHANGED handlerVars
        => UNCHANGED req
  BY DEF Sync, SyncsLate, Monitor, Scan, ScanEnds, GiveUp, BackOff, Revive, ReviveFails, Expire, handlerVars
<1>5. Environment => UNCHANGED req \/ Reboot
  BY DEF Environment, ContainerDies, PortTaken, appVarsButFaults
<1> QED BY <1>1, <1>2, <1>3, <1>4, <1>5 DEF Aside

\* Until requests overlap, one handler at most is under way.
Sole == Without({"overlap"}) => \A q, o \in Requests : InFlight(q) /\ InFlight(o) => q = o

LEMMA ArriveAlone ==
    ASSUME TypeInv, NEW q \in Requests, NEW h, Opens(q, h), "overlap" \notin events'
    PROVE  /\ ~InFlight(q) /\ req'[q] = h
           /\ \A o \in Requests : o # q => req'[o] = req[o]
           /\ InFlight(q)' => ~Busy /\ StartsOn(h) /\ (OpensPlainly(q, h) \/ OpensWithPage(q, h))
<1>1. /\ req[q].pc = "new" /\ req' = [req EXCEPT ![q] = h]
      /\ req'[q] = h /\ \A o \in Requests : o # q => req'[o] = req[o]
  BY TypesOfState DEF Opens, TypeInv, HandlersTyped
<1>2. OpensPlainly(q, h) \/ OpensWithPage(q, h) => Happened(Overlap(q)) /\ StartsOn(h)
  BY DEF OpensPlainly, OpensWithPage
<1>3. Happened(Overlap(q)) => Alone(q)
  BY DEF Happened, Overlap
<1>4. ~InFlight(q)
  BY <1>1 DEF InFlight
<1>5. PageRefused(q, h) \/ ModeShown(q, h) => ~InFlight(q)'
  BY <1>1, FreshTyped DEF PageRefused, ModeShown, InFlight
<1> QED BY <1>1, <1>2, <1>3, <1>4, <1>5 DEF Opens, Alone, Busy

LEMMA SoleKept ==
    ASSUME TypeInv, Sole, Moves
    PROVE  Sole'
<1> SUFFICES ASSUME "overlap" \notin events' PROVE \A q, o \in Requests : InFlight(q)' /\ InFlight(o)' => q = o
  BY DEF Sole, Without
<1>1. \A q, o \in Requests : InFlight(q) /\ InFlight(o) => q = o
  BY HistoryGrows DEF Sole, Without
<1>2. ASSUME NEW q \in Requests, Arrive(q)
      PROVE  \A p, o \in Requests : InFlight(p)' /\ InFlight(o)' => p = o
  <2>1. PICK h : Opens(q, h)
    BY <1>2, ArriveOpens DEF TypeInv
  <2> QED BY <1>1, <2>1, ArriveAlone DEF InFlight, Busy
<1>3. ASSUME NEW q \in Requests, Handle(q)
      PROVE  \A p, o \in Requests : InFlight(p)' /\ InFlight(o)' => p = o
  BY <1>1, <1>3, HandleMovesOne DEF InFlight
<1>4. Aside => \A p, o \in Requests : InFlight(p)' /\ InFlight(o)' => p = o
  BY <1>1, AsideMovesNone
<1> QED BY <1>2, <1>3, <1>4, NextSteps

-----------------------------------------------------------------------------
(* No two replicas are given one port                                      *)

\* No other process has a port, and each row has its port to itself.
Apart ==
    /\ foreign = {}
    /\ \A r, s \in Rows(row) : r # s => row[r].port # row[s].port
    /\ \A r \in Ids, s \in Rows(row) : r # s => box[r] # row[s].port

\* So has each row that a session has yet to insert; the rows it read are
\* still there, on the ports it read.
PortsHeld(q) ==
    LET h == req[q]
    IN  /\ \A r \in Rows(h.seen) : /\ row[r] # None /\ row[r].port = h.seen[r].port
                                   /\ h.mem[r].port = h.seen[r].port
        /\ h.pc = "insert" => h.port \notin Bound /\ \A r \in Rows(row) : row[r].port # h.port
        /\ \A r \in Rows(h.mem) \ Rows(h.seen) :
             /\ row[r] = None
             /\ \A s \in Rows(row) : row[s].port # h.mem[r].port
             /\ \A s \in Ids \ {r} : box[s] # h.mem[r].port
             /\ \A s \in Rows(h.mem) \ Rows(h.seen) : s = r
        /\ h.kind = "zd" /\ h.pc \in {"pick", "insert", "start", "check", "switch"} =>
             h.new \subseteq Rows(row)
        /\ h.kind = "zd" /\ h.pc = "start" => row[Max(h.new)].port = h.port

PortsClean == Without({"overlap", "foreign", "revived"})
PortsInv == PortsClean => Apart /\ \A q \in Requests : InFlight(q) => PortsHeld(q)

\* Rows and containers go, or containers come where their rows say.
Narrows ==
    /\ UNCHANGED foreign
    /\ \A r \in Rows(row') : r \in Rows(row) /\ row'[r].port = row[r].port
    /\ \A r \in Ids : \/ box'[r] \in {0, box[r]}
                      \/ r \in Rows(row) /\ box'[r] = row[r].port

LEMMA RowPort ==
    ASSUME TypeInv, NEW r \in Rows(row)
    PROVE  r \in Ids /\ row[r] \in Row /\ row[r].port \in Ports /\ row[r].port # 0
BY TypesOfState, Bounds DEF Rows, RowTable, Row

LEMMA NarrowsApart ==
    ASSUME TypeInv, Apart, Narrows
    PROVE  Apart'
<1>1. foreign' = {}
  BY DEF Apart, Narrows
<1>2. ASSUME NEW r \in Rows(row'), NEW s \in Rows(row'), r # s PROVE row'[r].port # row'[s].port
  BY <1>2 DEF Apart, Narrows
<1>3. ASSUME NEW r \in Ids, NEW s \in Rows(row'), r # s PROVE box'[r] # row'[s].port
  <2>1. s \in Rows(row) /\ row'[s].port = row[s].port /\ row[s].port # 0
    BY RowPort DEF Narrows
  <2> QED BY <1>3, <2>1 DEF Apart, Narrows
<1> QED BY <1>1, <1>2, <1>3 DEF Apart, Rows

LEMMA NarrowsHolds ==
    ASSUME TypeInv, Apart, Narrows, Rows(row') = Rows(row), NEW q \in Requests,
           req'[q] = req[q], InFlight(q), PortsHeld(q)
    PROVE  PortsHeld(q)'
<1> DEFINE h == req[q]
<1>1. /\ h \in Sessions /\ Fits(h) /\ \A r \in Rows(row) : row'[r].port = row[r].port
      /\ \A r \in Ids : row[r] = None <=> row'[r] = None
      /\ h.new \subseteq Ids
  BY TypesOfState DEF Narrows, Rows, Sessions
<1>2. \A r \in Rows(h.seen) : row'[r] # None /\ row'[r].port = row[r].port
  BY <1>1 DEF PortsHeld, Rows
<1>3. ASSUME h.pc = "insert" PROVE h.port \notin Bound' /\ \A r \in Rows(row') : row'[r].port # h.port
  <2>1. h.port \notin Bound /\ \A r \in Rows(row) : row[r].port # h.port
    BY <1>3 DEF PortsHeld
  <2>2. \A r \in Ids : box'[r] # 0 => box'[r] # h.port
    BY <2>1 DEF Narrows, Bound
  <2>3. foreign' = foreign /\ h.port \notin foreign
    BY <2>1 DEF Narrows, Bound
  <2> QED BY <1>1, <2>1, <2>2, <2>3 DEF Bound
<1>4. ASSUME NEW r \in Rows(h.mem) \ Rows(h.seen)
      PROVE  /\ row'[r] = None
             /\ \A s \in Rows(row') : row'[s].port # h.mem[r].port
             /\ \A s \in Ids \ {r} : box'[s] # h.mem[r].port
             /\ \A s \in Rows(h.mem) \ Rows(h.seen) : s = r
  <2>1. /\ row[r] = None /\ \A s \in Rows(row) : row[s].port # h.mem[r].port
        /\ \A s \in Ids \ {r} : box[s] # h.mem[r].port
        /\ \A s \in Rows(h.mem) \ Rows(h.seen) : s = r
    BY <1>4 DEF PortsHeld
  <2>2. r \in Ids /\ h.mem[r].port # 0
    BY <1>1, <1>4, Bounds DEF Sessions, RowTable, Rows, Row
  <2> QED BY <1>1, <2>1, <2>2 DEF Narrows
<1>5. h.kind = "zd" /\ h.pc = "start" => Max(h.new) \in h.new
  BY <1>1, NewestTyped DEF Fits
<1>6. h.kind = "zd" /\ h.pc = "start" => row'[Max(h.new)].port = h.port
  BY <1>1, <1>5 DEF PortsHeld
<1> HIDE DEF h
<1>7. /\ \A r \in Rows(h.seen) : h.mem[r].port = h.seen[r].port /\ row[r].port = h.seen[r].port
      /\ h.kind = "zd" /\ h.pc \in {"pick", "insert", "start", "check", "switch"} =>
           h.new \subseteq Rows(row)
  BY DEF PortsHeld, h
<1>8. h = req'[q]
  BY DEF h
<1> QED BY <1>1, <1>2, <1>3, <1>4, <1>6, <1>7, <1>8 DEF PortsHeld

LEMMA AsideNarrows ==
    ASSUME TypeInv, Aside, PortsClean'
    PROVE  Narrows /\ Rows(row') = Rows(row)
<1>1. UNCHANGED hostVars => Narrows /\ Rows(row') = Rows(row)
  BY DEF hostVars, Narrows, Rows
<1>2. ASSUME UNCHANGED <<box, foreign>>, NEW r \in Rows(row), NEW state \in Statuses,
             row' = [row EXCEPT ![r].status = state]
      PROVE  Narrows /\ Rows(row') = Rows(row)
  <2>1. r \in Ids /\ row \in RowTable /\ row[r] # None
    BY TypesOfState DEF Rows
  <2>2. Rows(row') = Rows(row)
    BY <1>2, <2>1, StatusTyped
  <2> QED BY <1>2, <2>1, <2>2 DEF Narrows, RowTable, Rows, Row
<1>3. (\E q \in Requests : Task(q)) \/ Expire \/ UNCHANGED handlerVars => UNCHANGED hostVars
  BY DEF Task, Poll, WaitEnds, Restore, Expire, handlerVars, hostVars
<1>4. ASSUME Sync({}) \/ Sync(Aged) \/ SyncsLate PROVE Narrows /\ Rows(row') = Rows(row)
  <2>1. CASE Sync({}) \/ Sync(Aged)
    <3>1. PICK aged \in SUBSET Rows(row) : Sync(aged)
      BY <2>1 DEF Aged, WithStatus
    <3>2. row' = Synced(aged) /\ UNCHANGED <<box, foreign>>
      BY <3>1 DEF Sync
    <3> QED BY <3>2, SyncedTyped DEF Narrows
  <2>2. CASE SyncsLate
    BY <2>2 DEF SyncsLate, Narrows
  <2> QED BY <1>4, <2>1, <2>2
<1>5. ASSUME Monitor PROVE Narrows /\ Rows(row') = Rows(row)
  <2>1. Scan \/ ScanEnds \/ BackOff => UNCHANGED hostVars
    BY DEF Scan, ScanEnds, BackOff
  <2>2. CASE GiveUp
    <3>1. PICK state \in {"stopped", "error"} : Records(Case, state)
      BY <2>2 DEF GiveUp
    <3>2. UNCHANGED <<box, foreign>> /\ Case \in Ids
      BY <2>2, DeadTyped DEF GiveUp
    <3>3. row[Case] = None => UNCHANGED row
      BY <3>1 DEF Records
    <3>4. row[Case] # None => row' = [row EXCEPT ![Case].status = state]
      BY <3>1 DEF Records
    <3>5. state \in Statuses
      BY <3>1 DEF Statuses
    <3> QED BY <1>1, <1>2, <3>2, <3>3, <3>4, <3>5 DEF Rows, hostVars
  <2>3. CASE Revive
    <3> DEFINE r == Min(mon.todo)
    <3>1. /\ UNCHANGED <<row, foreign>> /\ r \in Ids
          /\ box' = [box EXCEPT ![r] = IF @ = 0 THEN mon.seen[r].port ELSE @]
          /\ Happened(IF row[r] # mon.seen[r] \/ Busy THEN {"revived"} ELSE {})
      BY <2>3, WaitTyped DEF Revive
    <3>2. row[r] = mon.seen[r] /\ row[r] # None
      BY <2>3, <3>1, WaitTyped, Bounds DEF Revive, PortsClean, Without, Happened
    <3> HIDE DEF r
    <3> QED BY <3>1, <3>2, TypesOfState DEF Narrows, Rows, BoxTable
  <2>4. CASE ReviveFails
    <3> DEFINE r == Min(mon.todo)
    <3>1. UNCHANGED <<box, foreign>> /\ r \in Ids
      BY <2>4, WaitTyped DEF ReviveFails
    <3>2. /\ row[r] = None => UNCHANGED row
          /\ row[r] # None => row' = [row EXCEPT ![r].status = "error"]
      BY <2>4 DEF ReviveFails
    <3>3. "error" \in Statuses
      BY DEF Statuses
    <3> HIDE DEF r
    <3> QED BY <1>1, <1>2, <3>1, <3>2, <3>3 DEF Rows, hostVars
  <2> QED BY <1>1, <1>5, <2>1, <2>2, <2>3, <2>4 DEF Monitor
<1>6. ASSUME Environment PROVE Narrows /\ Rows(row') = Rows(row)
  <2>1. (\E p \in 1..RangeEnd : PortTaken(p)) => FALSE
    BY DEF PortTaken, Fault, Happened, PortsClean, Without
  <2>2. ASSUME NEW r \in Ids, ContainerDies(r) PROVE Narrows /\ Rows(row') = Rows(row)
    BY <2>2, TypesOfState DEF ContainerDies, Stopped, Narrows, Rows, BoxTable
  <2>3. ASSUME Reboot PROVE Narrows /\ Rows(row') = Rows(row)
    <3>1. row' = StartUpRows /\ UNCHANGED foreign
          /\ box' = [r \in Ids |-> IF r \in AutoStarted THEN row[r].port ELSE box[r]]
      BY <2>3 DEF Reboot, StartUpRows
    <3> QED BY <3>1, StartUpTyped, ReconciledTyped DEF Narrows
  <2> QED BY <1>6, <2>1, <2>2, <2>3 DEF Environment
<1> QED BY <1>1, <1>3, <1>4, <1>5, <1>6 DEF Aside

LEMMA ArrivePorts ==
    ASSUME TypeInv, Sole, PortsInv, PortsClean', NEW q \in Requests, Arrive(q)
    PROVE  Apart' /\ \A o \in Requests : InFlight(o)' => PortsHeld(o)'
<1>1. PICK h : Opens(q, h)
  BY ArriveOpens DEF TypeInv
<1>2. PortsClean /\ "overlap" \notin events'
  BY HistoryGrows DEF PortsClean, Without, Moves
<1>3. Apart /\ \A o \in Requests : InFlight(o) => PortsHeld(o)
  BY <1>2 DEF PortsInv
<1>4. UNCHANGED hostVars /\ Narrows /\ Rows(row') = Rows(row)
  BY <1>1 DEF Opens, hostVars, Narrows, Rows
<1>5. Apart'
  BY <1>3, <1>4, NarrowsApart
<1>6. ASSUME NEW o \in Requests, InFlight(o)', o # q PROVE PortsHeld(o)'
  <2>1. req'[o] = req[o] /\ InFlight(o)
    BY <1>1, <1>2, <1>6, ArriveAlone DEF InFlight
  <2> QED BY <1>3, <1>4, <2>1, NarrowsHolds
<1>7. ASSUME InFlight(q)' PROVE PortsHeld(q)'
  <2>1. req'[q] = h /\ StartsOn(h) /\ h \in Sessions
    BY <1>1, <1>2, <1>7, ArriveAlone DEF Opens
  <2>2. /\ \A r \in Rows(h.seen) : row[r] # None /\ row[r] = h.seen[r]
        /\ h.mem = h.seen /\ h.new = {} /\ (h.pc = "insert" => h.port \in FreePorts)
        /\ (h.kind = "zd" => h.pc = "pick")
    BY <2>1 DEF StartsOn, Rows
  <2>3. h.pc = "insert" => h.port \notin Bound /\ \A r \in Rows(row) : row[r].port # h.port
    BY <2>2 DEF FreePorts
  <2>4. Bound' = Bound
    BY <1>4 DEF hostVars, Bound
  <2> QED BY <1>4, <2>1, <2>2, <2>3, <2>4 DEF PortsHeld, hostVars, Rows
<1> QED BY <1>5, <1>6, <1>7

\* A handler's step leaves these two to be shown.
PortsStep(q) == Apart' /\ (InFlight(q)' => PortsHeld(q)')

LEMMA EndedPorts ==
    ASSUME TypeInv, Apart, Narrows, NEW q \in Requests, req'[q].pc \in {"done", "task"}
    PROVE  PortsStep(q)
BY NarrowsApart DEF PortsStep, InFlight

LEMMA SessionOf ==
    ASSUME TypeInv, NEW q \in Requests
    PROVE  /\ req[q] \in Sessions /\ Fits(req[q])
           /\ \A h : req' = [req EXCEPT ![q] = h] => req'[q] = h
BY TypesOfState DEF TypeInv, HandlersTyped

LEMMA InsertPorts ==
    ASSUME TypeInv, Apart, NEW q \in Requests, PortsHeld(q), InsertRow(q)
    PROVE  PortsStep(q)
<1> DEFINE id == NextId(row)
           mem == [NoRows EXCEPT ![id] = [status |-> "pending", port |-> req[q].port]]
           h == [req[q] EXCEPT !.pc = "start", !.todo = {id}, !.mem = mem]
<1>1. /\ req[q].pc = "insert" /\ req[q].kind = "scale" /\ id \in Ids
      /\ req' = [req EXCEPT ![q] = h] /\ UNCHANGED hostVars
  BY DEF InsertRow
<1>2. row[id] = None
  BY <1>1, NextIdAbove, TypesOfState DEF Rows
<1> HIDE DEF id
<1>3. /\ req[q] \in Sessions /\ Rows(req[q].seen) = {} /\ req'[q] = h /\ None \notin Row
      /\ [status |-> "pending", port |-> req[q].port] \in Row
  BY <1>1, SessionOf, Bounds DEF Fits, Acting, Row, Statuses
<1>4. Rows(mem) = {id} /\ mem[id].port = req[q].port
  BY <1>1, <1>3 DEF NoRows, Rows
<1> HIDE DEF mem
<1>5. /\ h.pc = "start" /\ h.kind = "scale" /\ h.mem = mem /\ h.seen = req[q].seen
  BY <1>1, <1>3 DEF Sessions
<1> HIDE DEF h
<1>6. /\ \A r \in Rows(row) : row[r].port # req[q].port
      /\ \A r \in Ids : box[r] # req[q].port
  <2>1. req[q].port # 0 /\ req[q].port \notin Bound /\ \A r \in Rows(row) : row[r].port # req[q].port
    BY <1>1, SessionOf, Bounds DEF PortsHeld, Fits
  <2> QED BY <2>1 DEF Bound
<1>7. Apart'
  BY <1>1, NarrowsApart DEF Narrows, hostVars, Rows
<1>8. PortsHeld(q)'
  BY <1>1, <1>2, <1>3, <1>4, <1>5, <1>6 DEF PortsHeld, hostVars, Rows
<1> QED BY <1>7, <1>8 DEF PortsStep

\* A session that only moves on keeps its claims, as its rows keep their ports.
LEMMA MovesOnPorts ==
    ASSUME TypeInv, Apart, NEW q \in Requests, PortsHeld(q), req[q].kind # "zd",
           InFlight(q), Narrows, Rows(row') = Rows(row),
           NEW todo, NEW pc, NEW mem, NEW touched, MovesOn(q, todo, pc, mem, touched),
           \A r \in Rows(mem) : mem[r].port = req[q].mem[r].port,
           \A r \in Rows(mem) \ Rows(req[q].seen) : \A s \in Ids \ {r} : box'[s] \in {0, box[s]}
    PROVE  PortsStep(q)
<1> DEFINE h == [req[q] EXCEPT !.todo = todo, !.pc = pc, !.mem = mem, !.touched = touched]
<1>1. /\ mem \in RowTable /\ Rows(mem) = Rows(req[q].mem) /\ req'[q] = h
      /\ pc \in {"stop", "start", "finish"} /\ req[q] \in Sessions
  BY SessionOf DEF MovesOn
<1>2. h.kind = req[q].kind /\ h.pc = pc /\ h.mem = mem /\ h.seen = req[q].seen
  BY <1>1 DEF Sessions
<1> HIDE DEF h
<1>3. \A r \in Rows(row) : row'[r].port = row[r].port
  BY DEF Narrows
<1>4. ASSUME NEW r \in Rows(mem) \ Rows(req[q].seen)
      PROVE  /\ row'[r] = None
             /\ \A s \in Rows(row') : row'[s].port # mem[r].port
             /\ \A s \in Ids \ {r} : box'[s] # mem[r].port
             /\ \A s \in Rows(mem) \ Rows(req[q].seen) : s = r
  <2>1. /\ row[r] = None /\ \A s \in Rows(row) : row[s].port # mem[r].port
        /\ \A s \in Ids \ {r} : box[s] # mem[r].port
        /\ \A s \in Rows(mem) \ Rows(req[q].seen) : s = r
    BY <1>1, <1>4 DEF PortsHeld
  <2>2. r \in Ids /\ mem[r].port # 0
    BY <1>1, <1>4, Bounds DEF RowTable, Rows, Row
  <2> QED BY <1>3, <2>1, <2>2 DEF Rows
<1>5. ASSUME NEW r \in Rows(req[q].seen)
      PROVE  row'[r] # None /\ row'[r].port = req[q].seen[r].port /\ mem[r].port = req[q].seen[r].port
  <2>1. row[r] # None /\ row[r].port = req[q].seen[r].port /\ req[q].mem[r].port = req[q].seen[r].port
    BY <1>5 DEF PortsHeld
  <2>2. r \in Rows(row) /\ r \in Rows(mem)
    BY <1>1, <1>5, <2>1, SessionOf, ActingInFlight DEF Rows, Fits
  <2> QED BY <1>3, <2>1, <2>2 DEF Rows
<1>6. PortsHeld(q)'
  BY <1>1, <1>2, <1>4, <1>5 DEF PortsHeld
<1> QED BY <1>6, NarrowsApart DEF PortsStep

LEMMA StopPorts ==
    ASSUME TypeInv, Apart, NEW q \in Requests, PortsHeld(q), StopBox(q)
    PROVE  PortsStep(q)
<1>1. PICK todo, pc, mem, touched :
        MovesOn(q, todo, pc, mem, touched) /\ StopsTo(q, todo, pc, mem)
  BY StopMovesOn
<1>2. /\ req[q].kind # "zd" /\ req[q].pc = "stop" /\ UNCHANGED <<row, foreign>>
      /\ \A r \in Ids : box'[r] \in {0, box[r]}
  BY StopMovesOn, TypesOfState DEF StopBox, StopsBox, Stopped, BoxTable
<1>3. Narrows /\ Rows(row') = Rows(row)
  BY <1>2 DEF Narrows, Rows
<1>4. /\ req[q].mem \in RowTable /\ Turn(q) \in Ids /\ Turn(q) \in Rows(req[q].mem)
      /\ Rows(mem) = Rows(req[q].mem)
  BY <1>1, <1>2, TurnTyped DEF MovesOn
<1>5. \A r \in Rows(mem) : mem[r].port = req[q].mem[r].port
  BY <1>1, <1>4 DEF StopsTo, Rows, RowTable, Row
<1> QED BY <1>1, <1>2, <1>3, <1>5, MovesOnPorts DEF InFlight

\* No start has to move: nobody else has the port of the replica's row.
LEMMA StartsInPlace ==
    ASSUME TypeInv, Apart, NEW r \in Ids, NEW p \in Ports,
           \A s \in Ids \ {r} : box[s] # p
    PROVE  /\ StartPort(r, p) = p
           /\ \A s \in Ids \ {r} : Started(r, p)[s] = box[s]
           /\ Started(r, p)[r] \in {box[r], p} /\ (box[r] = 0 => Started(r, p)[r] = p)
<1>1. box[r] # 0 \/ p \notin Bound
  BY DEF Apart, Bound
<1> QED BY <1>1, TypesOfState DEF StartPort, Started, BoxTable

LEMMA StartPorts ==
    ASSUME TypeInv, Apart, NEW q \in Requests, PortsHeld(q), StartBox(q)
    PROVE  PortsStep(q)
<1> DEFINE r == Turn(q)
           p == req[q].mem[r].port
<1>1. /\ req[q].pc = "start" /\ req[q].kind # "zd" /\ r \in Ids /\ p \in Ports
      /\ r \in Rows(req[q].mem) /\ req[q].mem \in RowTable
      /\ UNCHANGED <<row, foreign>> /\ InFlight(q)
  BY StartOutcomes, TurnTyped DEF Row, InFlight
<1>2. \A s \in Ids \ {r} : box[s] # p
  <2>1. CASE r \in Rows(req[q].seen)
    <3>1. p = row[r].port /\ r \in Rows(row)
      BY <2>1 DEF PortsHeld, Rows
    <3> QED BY <3>1 DEF Apart
  <2>2. CASE r \notin Rows(req[q].seen)
    BY <1>1, <2>2 DEF PortsHeld
  <2> QED BY <2>1, <2>2
<1>3. StartPort(r, p) = p /\ (\A s \in Ids \ {r} : Started(r, p)[s] = box[s])
      /\ Started(r, p)[r] \in {box[r], p}
  BY <1>1, <1>2, StartsInPlace
<1>4. ASSUME NEW state, StartMoves(q, state, p), box' \in {box, Started(r, p)}
      PROVE  PortsStep(q)
  <2> DEFINE todo == req[q].todo \ {r}
             pc == IF req[q].kind = "restart" THEN RestartPc(req[q].mem, todo)
                   ELSE StepOrFinish(todo, "start")
             mem == [req[q].mem EXCEPT ![r] = [status |-> state, port |-> p]]
             touched == req[q].touched \cup {r}
  <2>1. MovesOn(q, todo, pc, mem, touched)
    BY <1>4 DEF StartMoves
  <2>2. \A s \in Rows(mem) : mem[s].port = req[q].mem[s].port
    BY <1>1 DEF Rows, RowTable
  <2>3. Rows(mem) = Rows(req[q].mem)
    BY <2>1 DEF MovesOn
  <2>4. \A s \in Rows(mem) \ Rows(req[q].seen) : s = r \/ r \in Rows(req[q].seen)
    BY <1>1, <2>3 DEF PortsHeld
  <2> HIDE DEF pc, mem, touched
  <2>5. CASE r \in Rows(req[q].seen)
    <3>1. p = row[r].port /\ r \in Rows(row)
      BY <2>5 DEF PortsHeld, Rows
    <3>2. Narrows /\ Rows(row') = Rows(row)
      BY <1>1, <1>3, <1>4, <3>1 DEF Narrows, Rows
    <3>3. Rows(mem) \ Rows(req[q].seen) = {}
      <4>1. req[q].kind # "scale"
        BY <1>1, <2>5, SessionOf DEF Fits, Acting
      <4> QED BY <1>1, <2>3, <4>1, SessionOf DEF Fits, Acting
    <3> QED BY <1>1, <2>1, <2>2, <3>2, <3>3, MovesOnPorts
  <2>6. CASE r \notin Rows(req[q].seen)
    <3>1. /\ row[r] = None /\ \A s \in Rows(row) : row[s].port # p
      BY <1>1, <2>6 DEF PortsHeld
    <3>2. Apart'
      <4>1. \A s \in Ids, t \in Rows(row) : s # t => box'[s] # row[t].port
        BY <1>3, <1>4, <3>1 DEF Apart
      <4> QED BY <1>1, <4>1 DEF Apart, Rows
    <3>3. PortsHeld(q)'
      <4> DEFINE h == [req[q] EXCEPT !.todo = todo, !.pc = pc, !.mem = mem, !.touched = touched]
      <4>1. req'[q] = h /\ pc \in {"stop", "start", "finish"} /\ req[q] \in Sessions
        BY <2>1, SessionOf DEF MovesOn
      <4>2. h.kind = req[q].kind /\ h.pc = pc /\ h.mem = mem /\ h.seen = req[q].seen
        BY <4>1 DEF Sessions
      <4> HIDE DEF h
      <4>3. Rows(req[q].seen) = {}
        BY <1>1, <2>6, SessionOf DEF Fits, Acting
      <4>4. \A s \in Rows(mem) : s = r /\ mem[s].port = p
        BY <1>1, <2>2, <2>3, <4>3 DEF PortsHeld
      <4>5. \A s \in Ids \ {r} : box'[s] # p
        BY <1>2, <1>3, <1>4
      <4> QED BY <1>1, <3>1, <4>1, <4>2, <4>3, <4>4, <4>5 DEF PortsHeld, Rows
    <3> QED BY <3>2, <3>3 DEF PortsStep
  <2> QED BY <2>5, <2>6
<1>5. Raise(q, "failed") /\ UNCHANGED box => PortsStep(q)
  <2>1. Raise(q, "failed") => req'[q].pc = "done"
    BY FreshTyped, SessionOf DEF Raise
  <2>2. UNCHANGED box => Narrows
    BY <1>1 DEF Narrows, Rows
  <2> QED BY <2>1, <2>2, EndedPorts
<1> QED BY <1>1, <1>3, <1>4, <1>5, StartOutcomes

\* A flush inserts the rows of the session and keeps the ports of the others.
LEMMA FlushedPorts ==
    ASSUME TypeInv, NEW q \in Requests, req[q].pc = "finish", PortsHeld(q),
           NEW r \in Rows(Flushed(q))
    PROVE  /\ r \in Ids
           /\ \/ r \in Rows(row) /\ Flushed(q)[r].port = row[r].port
              \/ r \in Rows(req[q].mem) \ Rows(req[q].seen) /\ Flushed(q)[r].port = req[q].mem[r].port
<1>1. r \in Ids /\ Flushed(q)[r] # None
  BY DEF Rows
<1>2. /\ req[q].seen \in RowTable /\ req[q].mem \in RowTable /\ row \in RowTable
      /\ req[q].seen[r] # None => req[q].mem[r] # None
  BY <1>1, SessionOf, TypesOfState DEF Fits, Acting, Sessions, Rows
<1>3. req[q].seen[r] # None => req[q].mem[r].port = req[q].seen[r].port
  BY <1>1 DEF PortsHeld, Rows
<1> QED BY <1>1, <1>2, <1>3 DEF Flushed, Rows

LEMMA FinishPorts ==
    ASSUME TypeInv, Apart, NEW q \in Requests, PortsHeld(q), Finish(q)
    PROVE  PortsStep(q)
<1>1. /\ req[q].pc = "finish" /\ UNCHANGED <<box, foreign>>
      /\ row' = RowsAfter(q) \/ UNCHANGED row
  BY DEF Finish
<1>2. req'[q].pc \in {"done", "task"}
  <2>1. req'[q] = Ended \/ req'[q] = [Ended EXCEPT !.shown = req[q].shown,
                                                  !.pc = IF req[q].shown THEN "task" ELSE "done"]
    BY SessionOf DEF Finish, Raise
  <2> QED BY <2>1, FreshTyped DEF Sessions
<1>3. ASSUME \A r \in Rows(row') : r \in Rows(row) /\ row'[r].port = row[r].port
      PROVE  PortsStep(q)
  BY <1>1, <1>2, <1>3, EndedPorts DEF Narrows
<1>4. CASE row' = Flushed(q)
  <2>1. ASSUME NEW r \in Rows(row'), NEW s \in Rows(row'), r # s
        PROVE  row'[r].port # row'[s].port
    BY <1>1, <1>4, <2>1, FlushedPorts DEF Apart, PortsHeld
  <2>2. ASSUME NEW r \in Ids, NEW s \in Rows(row'), r # s
        PROVE  box'[r] # row'[s].port
    BY <1>1, <1>4, <2>2, FlushedPorts DEF Apart, PortsHeld
  <2>3. Apart'
    BY <1>1, <2>1, <2>2 DEF Apart, Rows
  <2> QED BY <1>2, <2>3 DEF PortsStep, InFlight
<1>5. CASE row' # Flushed(q)
  <2>1. row' \in {NoRows, row, [row EXCEPT ![Min(Rows(req[q].seen))] = None]}
    BY <1>1, <1>5 DEF RowsAfter
  <2> QED BY <1>3, <2>1, NoRowsTyped, TypesOfState DEF Rows, RowTable
<1> QED BY <1>4, <1>5

LEMMA AbortPorts ==
    ASSUME TypeInv, Apart, NEW q \in Requests, FinishFails(q) \/ InsertFails(q) \/ ZdPickFails(q)
    PROVE  PortsStep(q)
<1>1. UNCHANGED hostVars /\ req'[q].pc = "done"
  BY SessionOf, FreshTyped DEF FinishFails, InsertFails, ZdPickFails, Abort
<1>2. Narrows
  BY <1>1 DEF hostVars, Narrows, Rows
<1> QED BY <1>1, <1>2, EndedPorts

\* A deploy claims the port it has picked and the rows it has added.
DeployHeld(q, h) ==
    /\ h.pc = "insert" => h.port \notin Bound' /\ \A r \in Rows(row') : row'[r].port # h.port
    /\ h.pc \in {"pick", "insert", "start", "check", "switch"} => h.new \subseteq Rows(row')
    /\ h.pc = "start" => row'[Max(h.new)].port = h.port

LEMMA DeployPorts ==
    ASSUME TypeInv, Apart', NEW q \in Requests, req[q].kind = "zd", req[q].pc \in Acting,
           NEW h, req' = [req EXCEPT ![q] = h], h.kind = "zd",
           h.seen = req[q].seen, h.mem = req[q].mem, DeployHeld(q, h)
    PROVE  PortsStep(q)
<1>1. Rows(req[q].seen) = {} /\ Rows(req[q].mem) = {} /\ req'[q] = h
  BY SessionOf DEF Fits
<1>2. PortsHeld(q)'
  BY <1>1 DEF DeployHeld, PortsHeld
<1> QED BY <1>2 DEF PortsStep

LEMMA ZdPickPorts ==
    ASSUME TypeInv, Apart, NEW q \in Requests, PortsHeld(q), ZdPick(q)
    PROVE  PortsStep(q)
<1> DEFINE h == [req[q] EXCEPT !.pc = "insert", !.port = AssignedPort]
<1>1. /\ req[q].pc = "pick" /\ req[q].kind = "zd" /\ req[q] \in Sessions
      /\ req' = [req EXCEPT ![q] = h] /\ UNCHANGED hostVars /\ FreePorts # {}
  BY SessionOf DEF ZdPick, Fits, DeployOnly
<1>2. /\ h.kind = "zd" /\ h.pc = "insert" /\ h.port = AssignedPort
      /\ h.seen = req[q].seen /\ h.mem = req[q].mem /\ h.new = req[q].new
  BY <1>1 DEF Sessions
<1> HIDE DEF h
<1>3. AssignedPort \in FreePorts
  BY <1>1, PortsTyped, Bounds DEF TypeInv
<1>4. Apart' /\ row' = row /\ Bound' = Bound
  BY <1>1, NarrowsApart DEF hostVars, Narrows, Rows, Bound
<1>5. DeployHeld(q, h)
  BY <1>1, <1>2, <1>3, <1>4 DEF DeployHeld, FreePorts, PortsHeld
<1> QED BY <1>1, <1>2, <1>4, <1>5, DeployPorts DEF Acting

\* The row just inserted is the newest of the deploy's.
LEMMA NewestInserted ==
    ASSUME TypeInv, NEW new \in SUBSET Rows(row), NextId(row) \in Ids
    PROVE  Max(new \cup {NextId(row)}) = NextId(row)
<1> DEFINE id == NextId(row)
           all == new \cup {id}
<1>1. \A r \in all : r <= id /\ r \in Int
  BY NextIdAbove, TypesOfState, Bounds DEF Rows
<1>2. all \in SUBSET (0..MaxId) /\ all # {} /\ MaxId \in Nat
  <2>1. \A r \in all : r \in Ids
    BY DEF Rows
  <2>2. all # {}
    OBVIOUS
  <2> HIDE DEF all
  <2> QED BY <2>1, <2>2, Bounds DEF Ids
<1> HIDE DEF id
<1>3. Max(all) \in all /\ \A y \in all : Max(all) >= y
  BY <1>2, MaxIsIn
<1> HIDE DEF all
<1>4. id \in all
  BY DEF all
<1>5. Max(all) >= id /\ Max(all) <= id /\ Max(all) \in Int /\ id \in Int
  BY <1>1, <1>3, <1>4
<1>6. Max(all) = id
  BY <1>5
<1> QED BY <1>6 DEF all, id

LEMMA ZdInsertPorts ==
    ASSUME TypeInv, Apart, NEW q \in Requests, PortsHeld(q), ZdInsert(q)
    PROVE  PortsStep(q)
<1> DEFINE id == NextId(row)
           h == [req[q] EXCEPT !.pc = "start", !.new = req[q].new \cup {id}]
           rec == [status |-> "starting", port |-> req[q].port]
<1>1. /\ req[q].pc = "insert" /\ req[q].kind = "zd" /\ req[q] \in Sessions /\ Fits(req[q])
      /\ id \in Ids /\ req' = [req EXCEPT ![q] = h] /\ row' = [row EXCEPT ![id] = rec]
      /\ UNCHANGED <<box, foreign>>
  BY SessionOf DEF ZdInsert, Sessions
<1>2. row[id] = None /\ \A r \in Rows(row) : r <= id
  BY <1>1, NextIdAbove, TypesOfState, Bounds DEF Rows
<1> HIDE DEF id
<1>3. /\ h.kind = "zd" /\ h.pc = "start" /\ h.port = req[q].port
      /\ h.seen = req[q].seen /\ h.mem = req[q].mem /\ h.new = req[q].new \cup {id}
  BY <1>1 DEF Sessions
<1> HIDE DEF h
<1>4. rec \in Row /\ None \notin Row /\ rec.port = req[q].port
  BY <1>1, Bounds DEF Fits, Row, Statuses
<1> HIDE DEF rec
<1>5. Rows(row') = Rows(row) \cup {id} /\ row'[id].port = req[q].port
      /\ \A r \in Rows(row) : row'[r] = row[r]
  BY <1>1, <1>2, <1>4, TypesOfState DEF Rows, RowTable
<1>6. /\ \A r \in Rows(row) : row[r].port # req[q].port
      /\ \A r \in Ids : box[r] # req[q].port
  <2>1. req[q].port # 0 /\ req[q].port \notin Bound /\ \A r \in Rows(row) : row[r].port # req[q].port
    BY <1>1, Bounds DEF PortsHeld, Fits
  <2> QED BY <2>1 DEF Bound
<1>7. Apart'
  BY <1>1, <1>2, <1>5, <1>6 DEF Apart, Rows
<1>8. h.new \subseteq Rows(row')
  BY <1>1, <1>3, <1>5 DEF PortsHeld
<1>9. Max(h.new) = id
  <2>1. req[q].new \in SUBSET Rows(row) /\ NextId(row) \in Ids
    BY <1>1 DEF PortsHeld, id
  <2> QED BY <1>3, <2>1, NewestInserted DEF id
<1>10. DeployHeld(q, h)
  BY <1>3, <1>5, <1>8, <1>9 DEF DeployHeld
<1> QED BY <1>1, <1>3, <1>7, <1>10, DeployPorts DEF Acting

\* A roll-back claims nothing.
LEMMA UndoPorts ==
    ASSUME TypeInv, Apart', NEW q \in Requests, req[q].kind = "zd", req[q].pc \in Acting,
           req[q].new # {}, req' = Undo(q)
    PROVE  PortsStep(q)
<1> DEFINE h == [req[q] EXCEPT !.pc = "undo", !.todo = req[q].new]
<1>1. req' = [req EXCEPT ![q] = h] /\ req[q] \in Sessions
  BY UndoTyped, SessionOf
<1>2. h.kind = "zd" /\ h.pc = "undo" /\ h.seen = req[q].seen /\ h.mem = req[q].mem
  BY <1>1 DEF Sessions
<1> HIDE DEF h
<1> QED BY <1>1, <1>2, DeployPorts DEF DeployHeld

LEMMA ZdStartPorts ==
    ASSUME TypeInv, Apart, NEW q \in Requests, PortsHeld(q), ZdStart(q)
    PROVE  PortsStep(q)
<1> DEFINE id == Max(req[q].new)
           p == req[q].port
           rest == req[q].todo \ {Turn(q)}
           h == [req[q] EXCEPT !.todo = rest, !.pc = IF rest = {} THEN "check" ELSE "pick"]
<1>1. /\ req[q].pc = "start" /\ req[q].kind = "zd" /\ req[q] \in Sessions /\ Fits(req[q])
      /\ req[q].new # {} /\ req[q].new \subseteq Rows(row) /\ UNCHANGED foreign
  BY SessionOf DEF ZdStart, Fits, PortsHeld
<1>2. id \in Rows(row) /\ id \in Ids /\ p \in Ports /\ row[id].port = p
  BY <1>1, NewestTyped DEF Fits, PortsHeld
<1>3. StartPort(id, p) = p /\ (\A s \in Ids \ {id} : Started(id, p)[s] = box[s])
      /\ Started(id, p)[id] \in {box[id], p}
  BY <1>2, StartsInPlace DEF Apart
<1>4. CASE req' = Undo(q) /\ UNCHANGED <<row, box>>
  <2>1. Apart'
    BY <1>1, <1>4, NarrowsApart DEF Narrows, Rows
  <2> QED BY <1>1, <1>4, <2>1, UndoPorts DEF Acting
<1>5. CASE /\ box' = Started(id, p) /\ row' = [row EXCEPT ![id].port = StartPort(id, p)]
           /\ req' = [req EXCEPT ![q] = h]
  <2>1. row' = row
    BY <1>2, <1>3, <1>5, TypesOfState DEF RowTable, Row, Rows
  <2>2. Apart'
    BY <1>1, <1>2, <1>3, <1>5, <2>1, NarrowsApart DEF Narrows, Rows
  <2>3. /\ h.kind = "zd" /\ h.pc \in {"check", "pick"} /\ h.new = req[q].new
        /\ h.seen = req[q].seen /\ h.mem = req[q].mem
    BY <1>1 DEF Sessions
  <2> HIDE DEF h
  <2>4. DeployHeld(q, h)
    BY <1>1, <2>1, <2>3 DEF DeployHeld
  <2> QED BY <1>1, <1>5, <2>2, <2>3, <2>4, DeployPorts DEF Acting
<1>6. row[id] # None
  BY <1>2 DEF Rows
<1> QED BY <1>4, <1>5, <1>6 DEF ZdStart

LEMMA ZdLaterPorts ==
    ASSUME TypeInv, Apart, NEW q \in Requests, PortsHeld(q),
           ZdCheck(q) \/ ZdSwitch(q) \/ ZdRetire(q) \/ ZdFinish(q) \/ ZdUndo(q)
    PROVE  PortsStep(q)
<1>1. req[q] \in Sessions /\ Fits(req[q]) /\ req[q].kind = "zd" /\ req[q].pc \in Acting
  BY SessionOf DEF ZdCheck, ZdSwitch, ZdRetire, ZdFinish, ZdUndo, Fits, Acting, DeployOnly
<1>2. CASE ZdCheck(q)
  <2> DEFINE h == [req[q] EXCEPT !.pc = "switch"]
  <2>1. Apart' /\ row' = row
    BY <1>2, NarrowsApart DEF ZdCheck, hostVars, Narrows, Rows
  <2>2. CASE req' = Undo(q)
    BY <1>1, <1>2, <2>1, <2>2, UndoPorts DEF ZdCheck, Fits
  <2>3. CASE req' = [req EXCEPT ![q] = h]
    <3>1. /\ h.kind = "zd" /\ h.pc = "switch" /\ h.new = req[q].new
          /\ h.seen = req[q].seen /\ h.mem = req[q].mem
      BY <1>1 DEF Sessions
    <3> HIDE DEF h
    <3>2. DeployHeld(q, h)
      BY <1>1, <1>2, <2>1, <3>1 DEF DeployHeld, PortsHeld, ZdCheck
    <3> QED BY <1>1, <2>1, <2>3, <3>1, <3>2, DeployPorts
  <2> QED BY <1>2, <2>2, <2>3 DEF ZdCheck
<1>3. CASE ZdSwitch(q)
  <2> DEFINE old == WithStatus(row', {"running"}) \ req[q].new
             h == [req[q] EXCEPT !.todo = old, !.touched = old, !.pc = StepOrFinish(old, "retire")]
  <2>1. /\ row' = [r \in Ids |-> IF r \in Present(q) THEN [row[r] EXCEPT !.status = "running"] ELSE row[r]]
        /\ UNCHANGED <<box, foreign>> /\ req' = [req EXCEPT ![q] = h]
    BY <1>3 DEF ZdSwitch
  <2>2. \A r \in Rows(row') : r \in Rows(row) /\ row'[r].port = row[r].port
    BY <2>1, TypesOfState DEF Rows, Present, RowTable, Row
  <2>3. Apart'
    BY <2>1, <2>2, NarrowsApart DEF Narrows
  <2>4. h.kind = "zd" /\ h.pc \in {"retire", "finish"} /\ h.seen = req[q].seen /\ h.mem = req[q].mem
    BY <1>1 DEF Sessions, StepOrFinish
  <2> HIDE DEF h
  <2> QED BY <1>1, <2>1, <2>3, <2>4, DeployPorts DEF DeployHeld
<1>4. CASE ZdRetire(q)
  <2> DEFINE rest == req[q].todo \ {Turn(q)}
             h == [req[q] EXCEPT !.todo = rest, !.pc = StepOrFinish(rest, "retire")]
  <2>1. UNCHANGED <<row, foreign>> /\ StopsBox(Turn(q)) /\ req' = [req EXCEPT ![q] = h]
    BY <1>4 DEF ZdRetire
  <2>2. Apart'
    BY <2>1, NarrowsApart, TypesOfState DEF Narrows, StopsBox, Stopped, BoxTable, Rows
  <2>3. h.kind = "zd" /\ h.pc \in {"retire", "finish"} /\ h.seen = req[q].seen /\ h.mem = req[q].mem
    BY <1>1 DEF Sessions, StepOrFinish
  <2> HIDE DEF h
  <2> QED BY <1>1, <2>1, <2>2, <2>3, DeployPorts DEF DeployHeld
<1>5. CASE ZdFinish(q)
  <2>1. Narrows
    BY <1>5 DEF ZdFinish, Narrows, Rows
  <2>2. req'[q].pc = "done"
    BY <1>5, SessionOf, FreshTyped DEF ZdFinish
  <2> QED BY <2>1, <2>2, EndedPorts
<1>6. CASE ZdUndo(q)
  <2> DEFINE r == Turn(q)
             rest == req[q].todo \ {r}
             h == [req[q] EXCEPT !.todo = rest]
  <2>1. Narrows
    <3>1. CASE row[r] = None
      BY <1>6, <3>1 DEF ZdUndo, Narrows, Rows
    <3>2. CASE row[r] # None
      <4>1. StopsBox(r) /\ row' = [row EXCEPT ![r] = None] /\ UNCHANGED foreign
        BY <1>6, <3>2 DEF ZdUndo
      <4> QED BY <4>1, TypesOfState DEF Narrows, StopsBox, Stopped, BoxTable, RowTable, Rows
    <3> QED BY <3>1, <3>2
  <2>2. req' = [req EXCEPT ![q] = Ended] \/ req' = [req EXCEPT ![q] = h]
    BY <1>6 DEF ZdUndo
  <2>3. req' = [req EXCEPT ![q] = Ended] => req'[q].pc = "done"
    BY SessionOf, FreshTyped
  <2>4. h.kind = "zd" /\ h.pc = "undo" /\ h.seen = req[q].seen /\ h.mem = req[q].mem
    BY <1>1, <1>6 DEF Sessions, ZdUndo
  <2> HIDE DEF h
  <2>5. DeployHeld(q, h)
    BY <2>4 DEF DeployHeld
  <2> QED BY <1>1, <2>1, <2>2, <2>3, <2>4, <2>5, EndedPorts, NarrowsApart, DeployPorts
<1> QED BY <1>2, <1>3, <1>4, <1>5, <1>6

LEMMA HandlePorts ==
    ASSUME TypeInv, Apart, NEW q \in Requests, PortsHeld(q), Handle(q)
    PROVE  PortsStep(q)
BY InsertPorts, StopPorts, StartPorts, FinishPorts, AbortPorts, ZdPickPorts, ZdInsertPorts,
   ZdStartPorts, ZdLaterPorts DEF Handle

LEMMA PortsKept ==
    ASSUME TypeInv, Sole, PortsInv, Moves
    PROVE  PortsInv'
<1> SUFFICES ASSUME PortsClean'
             PROVE  Apart' /\ \A o \in Requests : InFlight(o)' => PortsHeld(o)'
  BY DEF PortsInv
<1>1. Apart /\ \A o \in Requests : InFlight(o) => PortsHeld(o)
  BY HistoryGrows DEF PortsInv, PortsClean, Without
<1>2. \A p, o \in Requests : InFlight(p) /\ InFlight(o) => p = o
  BY HistoryGrows DEF Sole, PortsClean, Without
<1>3. ASSUME NEW q \in Requests, Handle(q)
      PROVE  Apart' /\ \A o \in Requests : InFlight(o)' => PortsHeld(o)'
  <2>1. InFlight(q) /\ PortsStep(q)
    BY <1>1, <1>3, HandleMovesOne, HandlePorts
  <2>2. ASSUME NEW o \in Requests, InFlight(o)' PROVE o = q
    BY <1>2, <1>3, <2>1, <2>2, HandleMovesOne DEF InFlight
  <2> QED BY <2>1, <2>2 DEF PortsStep
<1>4. ASSUME Aside
      PROVE  Apart' /\ \A o \in Requests : InFlight(o)' => PortsHeld(o)'
  <2>1. Narrows /\ Rows(row') = Rows(row)
    BY <1>4, AsideNarrows
  <2> QED BY <1>1, <1>4, <2>1, NarrowsApart, NarrowsHolds, AsideMovesNone
<1> QED BY <1>3, <1>4, ArrivePorts, NextSteps

PlacesInv == TypeInv /\ Sole /\ PortsInv

LEMMA NobodyAtFirst ==
    ASSUME Init
    PROVE  /\ \A q \in Requests : ~InFlight(q) /\ req[q] = Fresh
           /\ trans = Nobody /\ flag = "normal" /\ mon = Idle /\ foreign = {} /\ events = {}
           /\ Exists
<1>1. \A q \in Requests : req[q] = Fresh
  BY DEF Init
<1>2. status \in Statuses
  BY StartingTyped, DerivedTyped
<1> QED BY <1>1, <1>2, FreshTyped DEF Init, InFlight, Exists, Statuses

LEMMA PlacesAtFirst == Init => PlacesInv
<1> SUFFICES ASSUME Init PROVE PlacesInv
  OBVIOUS
<1>1. TypeInv /\ \A q \in Requests : ~InFlight(q)
  BY InitTyped, NobodyAtFirst
<1>2. PICK start \in Starts :
        /\ \A r \in Ids : row[r] = StartingRow(start, r) /\ (row[r] # None <=> r <= start.replicas)
        /\ \A r \in Ids : box[r] = IF row[r] = None \/ start.status = "stopped" THEN 0 ELSE r
  BY StartingTyped
<1>3. \A r \in Rows(row) : row[r].port = r /\ r # 0
  <2>1. ASSUME NEW r \in Rows(row) PROVE row[r].port = r /\ r # 0
    <3>1. r \in Ids /\ row[r] # None /\ r # 0
      BY Bounds DEF Rows
    <3>2. row[r] = [status |-> start.status, port |-> r]
      BY <1>2, <3>1 DEF StartingRow
    <3> QED BY <3>1, <3>2
  <2> QED BY <2>1
<1>4. \A r \in Ids : box[r] \in {0, r}
  BY <1>2
<1>5. Apart
  BY <1>3, <1>4, NobodyAtFirst DEF Apart, Rows
<1> QED BY <1>1, <1>5 DEF PlacesInv, Sole, PortsInv

LEMMA PlacesKept ==
    ASSUME PlacesInv, Moves
    PROVE  PlacesInv'
BY TypesKept, SoleKept, PortsKept DEF PlacesInv

LEMMA PlacesHold == Spec => []PlacesInv
<1>1. PlacesInv /\ Moves => PlacesInv'
  BY PlacesKept
<1> QED BY <1>1, PlacesAtFirst, SpecMoves, StutterMoves, PTL DEF Spec

\* No two replicas are given one host port, whatever fails, dies or crashes,
\* until requests overlap, another process takes a port, or the monitor
\* revives a container its row does not ask for.
THEOREM PortsStayDistinct == Spec => []PortsDistinct
<1>1. PlacesInv => PortsDistinct
  BY DEF PlacesInv, PortsInv, PortsClean, PortsDistinct, Apart
<1> QED BY <1>1, PlacesHold, PTL

-----------------------------------------------------------------------------
(* The rows tell the truth                                                 *)

Settled == {"running", "stopped", "error"}
Down(x) == x = None \/ x.status # "running"

\* Between requests: a replica that is not said to run has no container.
RowTruth ==
    \A r \in Ids : /\ row[r] # None => row[r].status \in Settled
                   /\ Down(row[r]) => box[r] = 0

\* A handler knows of every container what its rows do not say yet.
Known(q, r) == IF req[q].mem[r] # None THEN req[q].mem[r] ELSE row[r]
WorkTruth(q) ==
    LET h == req[q]
    IN  /\ h.kind # "zd"
        /\ \A r \in Ids : Down(Known(q, r)) => box[r] = 0
        /\ \A r \in Rows(h.seen) : row[r] = h.seen[r]
        /\ \A r \in Rows(row) : row[r].status \in Settled
        /\ h.kind # "scale" => \A r \in Rows(h.mem) : h.mem[r].status \in Settled
        /\ h.pc = "insert" => Rows(h.mem) = {}
        /\ h.pc = "finish" /\ h.kind # "delete_instance" => h.todo = {}
        /\ h.kind = "scale" => \A r \in Rows(h.mem) : r \in h.todo \/ h.mem[r].status = "running"
        /\ h.kind \in {"delete", "delete_instance"} => h.pc \in {"stop", "finish"}
        /\ h.kind = "delete" =>
             Rows(h.seen) = Rows(row) /\ \A r \in Rows(h.seen) \ h.todo : box[r] = 0
        /\ h.kind = "delete_instance" =>
             \E r \in Ids : /\ Rows(h.seen) = {r}
                            /\ h.pc = "stop" => h.todo = {r}
                            /\ h.pc = "finish" => box[r] = 0

\* A deploy without downtime has its new replicas apart from the old ones.
DeployTruth(q) ==
    LET h == req[q]
    IN  /\ h.kind = "zd"
        /\ \A r \in Ids : row[r] = None => box[r] = 0
        /\ \A r \in Rows(row) \ h.new : /\ row[r].status \in Settled
                                        /\ Down(row[r]) => box[r] = 0
        /\ h.pc \in {"pick", "insert", "start", "check", "switch"} =>
             h.new \subseteq Rows(row) /\ h.touched = {}
        /\ h.pc = "undo" => Rows(row) \cap h.new \subseteq h.todo /\ h.todo \subseteq h.new /\ h.touched = {}
        /\ h.pc \in {"pick", "insert", "start", "check", "switch", "undo"} =>
             \A r \in Rows(row) \cap h.new : row[r].status = "starting"
        /\ h.pc \in {"retire", "finish"} =>
             /\ h.new \subseteq Rows(row) /\ \A r \in h.new : row[r].status = "running"
             /\ h.todo \subseteq h.touched /\ h.touched \subseteq Rows(row) \ h.new
             /\ \A r \in h.touched \ h.todo : box[r] = 0
             /\ \A r \in Rows(row) \ (h.touched \cup h.new) : row[r].status # "running"
        /\ h.pc = "finish" => h.todo = {}

TruthClean == Without({"overlap", "failed", "revived", "crash", "nginx", "recorded"})
TruthInv ==
    TruthClean => /\ ~Busy => RowTruth
                  /\ \A q \in Requests : InFlight(q) => WorkTruth(q) \/ DeployTruth(q)

\* The monitor writes a row down only while no request works, and then one
\* whose container is gone.
MonitorWrites ==
    \E r \in Ids, state \in {"stopped", "error"} :
        /\ ~Busy /\ row[r] # None /\ box[r] = 0 /\ Exists
        /\ row' = [row EXCEPT ![r].status = state] /\ UNCHANGED box
        /\ site' = Config(Guarded(mon.flag, trans), Backends(row'))
        /\ Happened(Stale(mon.flag))

LEMMA MonitorWritesDown ==
    ASSUME TypeInv, Gone, GiveUp \/ ReviveFails, TruthClean'
    PROVE  MonitorWrites \/ (UNCHANGED <<hostVars, site>> /\ events \subseteq events')
<1>0. {"failed", "nginx", "recorded"} \cap events' = {}
  BY DEF TruthClean, Without
<1>1. CASE GiveUp
  <2>1. PICK state \in {"stopped", "error"} : Records(Case, state)
    BY <1>1 DEF GiveUp
  <2>2. UNCHANGED <<box, foreign>> /\ Case \in Ids /\ box[Case] = 0 /\ Exists
    BY <1>1, DeadTyped DEF GiveUp
  <2>3. CASE row[Case] = None
    BY <2>1, <2>2, <2>3 DEF Records, NoFault, hostVars
  <2>4. CASE row[Case] # None
    <3>1. /\ row' = [row EXCEPT ![Case].status = state]
          /\ site' = Config(Guarded(mon.flag, trans), Backends(row'))
          /\ Happened(Stale(mon.flag) \cup Recorded)
      BY <1>0, <2>1, <2>4 DEF Records, Rejects, Fault, Happened
    <3>2. ~Busy /\ Happened(Stale(mon.flag))
      BY <1>0, <3>1 DEF Happened, Recorded
    <3> QED BY <2>1, <2>2, <2>4, <3>1, <3>2 DEF MonitorWrites
  <2> QED BY <2>3, <2>4
<1>2. CASE ReviveFails
  <2> DEFINE r == Min(mon.todo)
             refused == CanStartHere(r, mon.seen[r].port)
             what == IF refused THEN {"failed"} ELSE {}
  <2>1. r \in Ids /\ UNCHANGED <<box, foreign>>
    BY <1>2, WaitTyped DEF ReviveFails
  <2>2. CASE row[r] = None
    BY <1>2, <2>1, <2>2 DEF ReviveFails, Happened, hostVars
  <2>3. CASE row[r] # None
    <3>1. /\ row' = [row EXCEPT ![r].status = "error"]
          /\ site' = Config(Guarded(mon.flag, trans), Backends(row'))
          /\ Happened(what \cup Stale(mon.flag) \cup Recorded)
      BY <1>2, <2>3 DEF ReviveFails
    <3>2. ~refused /\ ~Busy
      BY <1>0, <3>1 DEF Happened, Recorded
    <3>3. Happened(Stale(mon.flag))
      BY <3>1, <3>2 DEF Happened, Recorded
    <3>4. box[r] = 0
      BY <3>2 DEF CanStartHere
    <3>5. Exists
      BY <2>1, <2>3 DEF Gone, Rows
    <3> HIDE DEF r
    <3> QED BY <2>1, <2>3, <3>1, <3>2, <3>3, <3>4, <3>5 DEF MonitorWrites
  <2> QED BY <2>2, <2>3
<1> QED BY <1>1, <1>2

\* What it revives is a running row's container, on the row's port.
LEMMA RevivesRunning ==
    ASSUME TypeInv, Revive, "revived" \notin events'
    PROVE  /\ ~Busy /\ UNCHANGED <<row, foreign, site>>
           /\ \E r \in Rows(row) : row[r].status = "running"
                                   /\ box' = [box EXCEPT ![r] = IF @ = 0 THEN row[r].port ELSE @]
<1> DEFINE r == Min(mon.todo)
<1>1. /\ UNCHANGED <<row, foreign, site>> /\ r \in Ids
      /\ mon.seen[r] \in Row /\ mon.seen[r].status = "running"
      /\ box' = [box EXCEPT ![r] = IF @ = 0 THEN mon.seen[r].port ELSE @]
      /\ Happened(IF row[r] # mon.seen[r] \/ Busy THEN {"revived"} ELSE {})
  BY WaitTyped DEF Revive, siteVars
<1>2. row[r] = mon.seen[r] /\ ~Busy
  BY <1>1 DEF Happened
<1> HIDE DEF r
<1>3. r \in Rows(row)
  BY <1>1, <1>2, Bounds DEF Rows
<1> QED BY <1>1, <1>2, <1>3

\* A poll writes rows only while no request works.
LEMMA SyncQuietly ==
    ASSUME TypeInv, Sync({}) \/ Sync(Aged), TruthClean'
    PROVE  ~Busy /\ UNCHANGED <<box, foreign, site>> /\ \E aged \in SUBSET Aged : row' = Synced(aged)
<1>1. PICK aged \in SUBSET Aged : Sync(aged)
  OBVIOUS
<1>2. ~Busy
  BY <1>1 DEF Sync, Recorded, Happened, TruthClean, Without
<1> QED BY <1>1, <1>2 DEF Sync, siteVars

LEMMA NotLate == TruthClean' => ~SyncsLate
BY DEF SyncsLate, Happened, TruthClean, Without

LEMMA AsideWhileBusy ==
    ASSUME TypeInv, Gone, Aside, TruthClean', Busy
    PROVE  UNCHANGED row /\ \A r \in Ids : box'[r] # box[r] => box'[r] = 0 /\ "died" \in events'
<1>1. (\E q \in Requests : Task(q)) \/ Expire \/ UNCHANGED handlerVars => UNCHANGED hostVars
  BY DEF Task, Poll, WaitEnds, Restore, Expire, handlerVars, hostVars
<1>2. ~(Sync({}) \/ Sync(Aged))
  BY SyncQuietly
<1>3. Monitor => UNCHANGED hostVars
  <2>1. Scan \/ ScanEnds \/ BackOff => UNCHANGED hostVars
    BY DEF Scan, ScanEnds, BackOff
  <2>2. GiveUp \/ ReviveFails => UNCHANGED hostVars
    BY MonitorWritesDown DEF MonitorWrites
  <2>3. ~Revive
    BY RevivesRunning DEF TruthClean, Without
  <2> QED BY <2>1, <2>2, <2>3 DEF Monitor
<1>4. Environment => UNCHANGED <<row, box>> \/ \E r \in Ids : ContainerDies(r)
  BY DEF Environment, PortTaken, Reboot, Fault, Happened, TruthClean, Without
<1>5. ASSUME NEW r \in Ids, ContainerDies(r)
      PROVE  UNCHANGED row /\ box' = Stopped(r) /\ "died" \in events'
  BY <1>5 DEF ContainerDies, Fault, Happened
<1> QED BY <1>1, <1>2, <1>3, <1>4, <1>5, NotLate, TypesOfState DEF Aside, hostVars, Stopped, BoxTable

LEMMA AsideKeepsRowTruth ==
    ASSUME TypeInv, Gone, Aside, TruthClean', ~Busy, RowTruth
    PROVE  RowTruth'
<1>1. UNCHANGED hostVars => RowTruth'
  BY DEF hostVars, RowTruth
<1>2. (\E q \in Requests : Task(q)) \/ Expire \/ UNCHANGED handlerVars => UNCHANGED hostVars
  BY DEF Task, Poll, WaitEnds, Restore, Expire, handlerVars, hostVars
<1>3. ASSUME Sync({}) \/ Sync(Aged) PROVE RowTruth'
  <2>1. PICK aged \in SUBSET Aged : row' = Synced(aged) /\ UNCHANGED box
    BY <1>3, SyncQuietly
  <2>2. aged = {}
    BY DEF Aged, WithStatus, RowTruth, Settled, Rows
  <2>3. \A r \in Ids : row[r] = None \/ row[r] \in Row
    BY TypesOfState DEF RowTable
  <2>4. ASSUME NEW r \in Ids
        PROVE  row'[r] = IF row[r] = None THEN None ELSE [row[r] EXCEPT !.status = Observed(r)]
    BY <2>1, <2>2 DEF Synced, RowTruth, Settled
  <2>5. ASSUME NEW r \in Ids
        PROVE  /\ row'[r] # None => row'[r].status \in Settled
               /\ Down(row'[r]) => box[r] = 0
    <3>1. row[r] # None => row'[r].status = Observed(r) /\ row'[r] # None
      <4>1. Observed(r) \in Statuses
        BY DEF Observed, Statuses
      <4>2. ASSUME NEW x \in Row
            PROVE  /\ [x EXCEPT !.status = Observed(r)] \in Row
                   /\ [x EXCEPT !.status = Observed(r)].status = Observed(r)
        BY <4>1 DEF Row
      <4>3. row[r] # None => row[r] \in Row
        BY <2>3
      <4>4. row'[r] = IF row[r] = None THEN None ELSE [row[r] EXCEPT !.status = Observed(r)]
        BY <2>4
      <4> QED BY <4>2, <4>3, <4>4, Bounds
    <3> QED BY <2>4, <3>1 DEF RowTruth, Settled, Down, Observed
  <2> QED BY <2>1, <2>5 DEF RowTruth
<1>4. ASSUME Monitor PROVE RowTruth'
  <2>1. Scan \/ ScanEnds \/ BackOff => UNCHANGED hostVars
    BY DEF Scan, ScanEnds, BackOff
  <2>2. ASSUME MonitorWrites PROVE RowTruth'
    <3>1. PICK r \in Ids, state \in {"stopped", "error"} :
            /\ row[r] # None /\ box[r] = 0 /\ UNCHANGED box
            /\ row' = [row EXCEPT ![r].status = state]
      BY <2>2 DEF MonitorWrites
    <3>2. row \in RowTable
      BY TypesOfState
    <3> QED BY <3>1, <3>2 DEF RowTruth, Settled, Down, RowTable, Row
  <2>3. ASSUME Revive PROVE RowTruth'
    <3>1. PICK r \in Rows(row) :
            /\ row[r].status = "running" /\ UNCHANGED row
            /\ box' = [box EXCEPT ![r] = IF @ = 0 THEN row[r].port ELSE @]
      BY <2>3, RevivesRunning DEF TruthClean, Without
    <3> QED BY <3>1, TypesOfState DEF RowTruth, Down, Rows, BoxTable
  <2> QED BY <1>1, <1>4, <2>1, <2>2, <2>3, MonitorWritesDown DEF Monitor
<1>5. ASSUME Environment PROVE RowTruth'
  <2>1. UNCHANGED <<row, box>> \/ \E r \in Ids : ContainerDies(r)
    BY <1>5 DEF Environment, PortTaken, Reboot, Fault, Happened, TruthClean, Without
  <2>2. ASSUME NEW r \in Ids, ContainerDies(r) PROVE RowTruth'
    BY <2>2, TypesOfState DEF ContainerDies, Stopped, RowTruth, Down, BoxTable
  <2> QED BY <2>1, <2>2 DEF RowTruth
<1> QED BY <1>1, <1>2, <1>3, <1>4, <1>5, NotLate DEF Aside

\* Apart from a crash they end no handler either.
LEMMA AsideEndsNone ==
    ASSUME TypeInv, Aside, "crash" \notin events', NEW o \in Requests, InFlight(o)
    PROVE  req'[o] = req[o]
<1>1. ASSUME NEW q \in Requests, Task(q) PROVE req'[o] = req[o]
  <2>1. PICK h : TaskGoesOn(q, h)
    BY <1>1, TaskMoves
  <2>2. o # q
    BY <1>1, TaskMoves DEF InFlight
  <2> QED BY <2>1, <2>2, TypesOfState DEF TaskGoesOn
<1>2. Sync({}) \/ Sync(Aged) \/ SyncsLate \/ Monitor \/ Expire \/ UNCHANGED handlerVars
        => UNCHANGED req
  BY DEF Sync, SyncsLate, Monitor, Scan, ScanEnds, GiveUp, BackOff, Revive, ReviveFails, Expire, handlerVars
<1>3. Environment => UNCHANGED req
  BY DEF Environment, ContainerDies, PortTaken, appVarsButFaults, Reboot, Fault, Happened
<1> QED BY <1>1, <1>2, <1>3 DEF Aside

LEMMA AsideTruth ==
    ASSUME TypeInv, Gone, Aside, TruthClean',
           ~Busy => RowTruth,
           \A q \in Requests : InFlight(q) => WorkTruth(q) \/ DeployTruth(q)
    PROVE  /\ ~Busy' => RowTruth'
           /\ \A q \in Requests : InFlight(q)' => WorkTruth(q)' \/ DeployTruth(q)'
<1>1. "crash" \notin events'
  BY DEF TruthClean, Without
<1>2. ~Busy' => ~Busy
  BY <1>1, AsideEndsNone DEF Busy, InFlight
<1>3. ASSUME NEW q \in Requests, InFlight(q)'
      PROVE  WorkTruth(q)' \/ DeployTruth(q)'
  <2>1. InFlight(q) /\ req'[q] = req[q] /\ Busy
    BY <1>3, AsideMovesNone DEF Busy
  <2>2. UNCHANGED row /\ \A r \in Ids : box[r] = 0 => box'[r] = 0
    BY <2>1, AsideWhileBusy
  <2>3. WorkTruth(q) => WorkTruth(q)'
    <3> SUFFICES ASSUME WorkTruth(q) PROVE WorkTruth(q)'
      OBVIOUS
    <3>1. \A r \in Ids : Down(Known(q, r)') => box'[r] = 0
      BY <2>1, <2>2 DEF WorkTruth, Known, Down
    <3>2. Rows(row') = Rows(row) /\ \A r \in Rows(req[q].seen) : r \in Ids
      BY <2>2 DEF Rows
    <3> QED BY <2>1, <2>2, <3>1, <3>2 DEF WorkTruth
  <2>4. DeployTruth(q) => DeployTruth(q)'
    <3>1. Rows(row') = Rows(row) /\ \A r \in Rows(row) : r \in Ids
      BY <2>2 DEF Rows
    <3> QED BY <2>1, <2>2, <3>1 DEF DeployTruth
  <2> QED BY <2>1, <2>3, <2>4
<1> QED BY <1>2, <1>3, AsideKeepsRowTruth

LEMMA ArriveTruth ==
    ASSUME TypeInv, Sole, TruthClean', NEW q \in Requests, Arrive(q),
           ~Busy => RowTruth,
           \A o \in Requests : InFlight(o) => WorkTruth(o) \/ DeployTruth(o)
    PROVE  /\ ~Busy' => RowTruth'
           /\ \A o \in Requests : InFlight(o)' => WorkTruth(o)' \/ DeployTruth(o)'
<1>1. PICK h : Opens(q, h)
  BY ArriveOpens DEF TypeInv
<1>2. "overlap" \notin events' /\ UNCHANGED <<row, box>>
  BY <1>1 DEF TruthClean, Without, Opens, hostVars
<1>3. /\ ~InFlight(q) /\ req'[q] = h /\ \A o \in Requests : o # q => req'[o] = req[o]
      /\ InFlight(q)' => ~Busy /\ StartsOn(h)
  BY <1>1, <1>2, ArriveAlone
<1>4. ~Busy' => ~Busy
  BY <1>3 DEF Busy, InFlight
<1>5. ASSUME NEW o \in Requests, o # q, InFlight(o)'
      PROVE  WorkTruth(o)' \/ DeployTruth(o)'
  <2>1. req'[o] = req[o] /\ InFlight(o)
    BY <1>3, <1>5 DEF InFlight
  <2> QED BY <1>2, <2>1 DEF WorkTruth, DeployTruth, Known
<1>6. ASSUME InFlight(q)'
      PROVE  WorkTruth(q)' \/ DeployTruth(q)'
  <2>1. StartsOn(h) /\ RowTruth /\ h \in Sessions /\ Fits(h)
    BY <1>1, <1>3, <1>6 DEF Opens
  <2>2. CASE h.kind = "zd"
    <3>1. h.pc = "pick" /\ h.new = {} /\ h.touched = {}
      BY <2>1, <2>2 DEF StartsOn
    <3> QED BY <1>2, <1>3, <2>1, <2>2, <3>1 DEF DeployTruth, RowTruth, Down, Rows
  <2>3. CASE h.kind # "zd"
    <3>1. h.mem = h.seen /\ \A r \in Ids : h.seen[r] \in {None, row[r]}
      BY <2>1 DEF StartsOn
    <3>2. \A r \in Ids : Down(IF h.mem[r] # None THEN h.mem[r] ELSE row[r]) => box[r] = 0
      BY <2>1, <3>1 DEF RowTruth
    <3>3. /\ \A r \in Rows(h.seen) : row[r] = h.seen[r]
          /\ \A r \in Rows(row) : row[r].status \in Settled
          /\ \A r \in Rows(h.mem) : h.mem[r].status \in Settled
      BY <2>1, <3>1 DEF RowTruth, Rows
    <3>4. h.pc = "insert" => Rows(h.mem) = {}
      BY <2>1, <3>1, NoRowsTyped DEF StartsOn
    <3>5. h.pc = "finish" /\ h.kind # "delete_instance" => h.todo = {}
      BY <2>1 DEF StartsOn
    <3>6. h.kind = "scale" => Rows(h.mem) = {}
      BY <2>1, <3>1, NoRowsTyped DEF StartsOn
    <3>7. h.kind = "delete" => Rows(h.seen) = Rows(row) /\ Rows(h.seen) \ h.todo = {}
      BY <2>1 DEF StartsOn
    <3>8. h.kind = "delete_instance" =>
            \E r \in Ids : /\ Rows(h.seen) = {r} /\ h.todo = {r}
                           /\ h.pc = "finish" => box[r] = 0
      BY <2>1 DEF StartsOn, RowTruth, Down, Rows
    <3>9. h.kind \in {"delete", "delete_instance"} => h.pc \in {"stop", "finish"}
      BY <2>1 DEF StartsOn
    <3> QED BY <1>2, <1>3, <2>3, <3>2, <3>3, <3>4, <3>5, <3>6, <3>7, <3>8, <3>9 DEF WorkTruth, Known
  <2> QED BY <2>2, <2>3
<1>7. ~Busy' => RowTruth'
  BY <1>2, <1>4 DEF RowTruth
<1> QED BY <1>5, <1>6, <1>7

\* What a step of q's handler must leave: the handler's knowledge while it
\* works on, the truth of the rows when it is through.
TruthStep(q) ==
    IF InFlight(q)' THEN WorkTruth(q)' \/ DeployTruth(q)' ELSE RowTruth'

LEMMA InsertTruth ==
    ASSUME TypeInv, NEW q \in Requests, WorkTruth(q), InsertRow(q)
    PROVE  TruthStep(q)
<1> DEFINE id == NextId(row)
           rec == [status |-> "pending", port |-> req[q].port]
           mem == [NoRows EXCEPT ![id] = rec]
           h == [req[q] EXCEPT !.pc = "start", !.todo = {id}, !.mem = mem]
<1>1. /\ req[q].pc = "insert" /\ req[q].kind = "scale" /\ id \in Ids
      /\ req' = [req EXCEPT ![q] = h] /\ UNCHANGED hostVars
  BY DEF InsertRow
<1>2. row[id] = None /\ req[q].mem[id] = None
  <2>1. row[id] = None
    BY <1>1, NextIdAbove, TypesOfState DEF Rows
  <2> HIDE DEF id
  <2> QED BY <1>1, <2>1 DEF WorkTruth, Rows
<1> HIDE DEF id
<1>3. req[q] \in Sessions /\ req'[q] = h /\ Rows(req[q].seen) = {} /\ rec # None
  <2>1. req[q] \in Sessions /\ Fits(req[q]) /\ req'[q] = h
    BY <1>1, SessionOf
  <2>2. rec \in Row
    BY <1>1, <2>1 DEF Fits, Row, Statuses
  <2> QED BY <1>1, <2>1, <2>2, Bounds DEF Fits, Acting
<1>4. Rows(mem) = {id} /\ mem[id].status = "pending" /\ \A r \in Ids : r # id => mem[r] = None
  BY <1>1, <1>3 DEF NoRows, Rows
<1> HIDE DEF mem
<1>5. /\ h.pc = "start" /\ h.kind = "scale" /\ h.mem = mem /\ h.seen = req[q].seen /\ h.todo = {id}
  BY <1>1, <1>3 DEF Sessions
<1> HIDE DEF h
<1>6. UNCHANGED <<row, box>> /\ box[id] = 0
  BY <1>1, <1>2 DEF hostVars, WorkTruth, Known, Down
<1>7. \A r \in Ids : Down(Known(q, r)') => box'[r] = 0
  <2>1. \A r \in Ids : req[q].mem[r] = None
    BY <1>1 DEF WorkTruth, Rows
  <2> QED BY <1>3, <1>4, <1>5, <1>6, <2>1 DEF Known, WorkTruth
<1>8. WorkTruth(q)'
  BY <1>3, <1>4, <1>5, <1>6, <1>7 DEF WorkTruth
<1> QED BY <1>3, <1>5, <1>8 DEF TruthStep, InFlight

\* A stop or a start touches one container and knows what has become of it.
LEMMA MovesOnTruth ==
    ASSUME TypeInv, NEW q \in Requests, WorkTruth(q), req[q].pc \in {"stop", "start"},
           UNCHANGED row,
           NEW todo, NEW pc, NEW mem, NEW touched, MovesOn(q, todo, pc, mem, touched),
           \A r \in Ids \ {Turn(q)} : mem[r] = req[q].mem[r] /\ box'[r] = box[r],
           mem[Turn(q)].status \in Settled \/ mem = req[q].mem,
           mem[Turn(q)].status = "running" \/ box'[Turn(q)] = 0,
           req[q].kind \in {"scale", "delete"} => req[q].todo \ {Turn(q)} \subseteq todo,
           pc = "finish" /\ req[q].kind # "delete_instance" => todo = {},
           req[q].kind = "scale" => mem[Turn(q)].status = "running",
           req[q].kind \in {"delete", "delete_instance"} =>
               pc \in {"stop", "finish"} /\ box'[Turn(q)] = 0,
           req[q].kind = "delete_instance" => pc = "finish"
    PROVE  TruthStep(q)
<1> DEFINE h == [req[q] EXCEPT !.todo = todo, !.pc = pc, !.mem = mem, !.touched = touched]
           t == Turn(q)
<1>1. /\ mem \in RowTable /\ Rows(mem) = Rows(req[q].mem) /\ req'[q] = h
      /\ pc \in {"stop", "start", "finish"} /\ req[q] \in Sessions /\ Fits(req[q])
  BY SessionOf DEF MovesOn
<1>2. h.kind = req[q].kind /\ h.pc = pc /\ h.mem = mem /\ h.seen = req[q].seen /\ h.todo = todo
  BY <1>1 DEF Sessions
<1> HIDE DEF h
<1>3. req[q].kind # "zd" /\ t \in req[q].todo /\ t \in Ids /\ t \in Rows(req[q].mem)
  BY TurnTyped DEF WorkTruth
<1> HIDE DEF t
<1>4. \A r \in Ids : Down(Known(q, r)') => box'[r] = 0
  <2>1. mem[t] # None
    BY <1>1, <1>3 DEF Rows
  <2> QED BY <1>1, <1>2, <1>3, <2>1 DEF Known, WorkTruth, Down, t
<1>5. req[q].kind # "scale" => \A r \in Rows(mem) : mem[r].status \in Settled
  BY <1>1, <1>3 DEF WorkTruth, Rows, t
<1>6. req[q].kind = "scale" => \A r \in Rows(mem) : r \in todo \/ mem[r].status = "running"
  BY <1>1, <1>3 DEF WorkTruth, Rows, t
<1>7. req[q].kind = "delete" => \A r \in Rows(req[q].seen) \ todo : box'[r] = 0
  BY <1>1, <1>3 DEF WorkTruth, Rows, t
<1>8. req[q].kind = "delete_instance" =>
        \E r \in Ids : /\ Rows(req[q].seen) = {r}
                       /\ pc = "stop" => todo = {r}
                       /\ pc = "finish" => box'[r] = 0
  <2> SUFFICES ASSUME req[q].kind = "delete_instance"
               PROVE  \E r \in Ids : Rows(req[q].seen) = {r} /\ box'[r] = 0
    OBVIOUS
  <2>1. PICK r \in Ids : Rows(req[q].seen) = {r} /\ (req[q].pc = "stop" => req[q].todo = {r})
    BY DEF WorkTruth
  <2>2. req[q].pc = "stop"
    BY DEF WorkTruth
  <2>3. t = r
    BY <1>3, <2>1, <2>2
  <2> QED BY <2>1, <2>3 DEF t
<1>9. WorkTruth(q)'
  BY <1>1, <1>2, <1>4, <1>5, <1>6, <1>7, <1>8 DEF WorkTruth, Rows
<1> QED BY <1>1, <1>2, <1>9 DEF TruthStep, InFlight

LEMMA StopTruth ==
    ASSUME TypeInv, NEW q \in Requests, WorkTruth(q), StopBox(q), "failed" \notin events'
    PROVE  TruthStep(q)
<1>1. PICK todo, pc, mem, touched :
        MovesOn(q, todo, pc, mem, touched) /\ StopsTo(q, todo, pc, mem)
  BY StopMovesOn
<1>2. /\ req[q].kind # "zd" /\ req[q].pc = "stop" /\ UNCHANGED row /\ box' = Stopped(Turn(q))
  BY StopMovesOn DEF StopBox, StopsBox, Fault, Happened
<1>3. /\ req[q].mem \in RowTable /\ Turn(q) \in Ids /\ req[q].mem[Turn(q)] \in Row
  BY <1>2, TurnTyped
<1>4. box'[Turn(q)] = 0 /\ \A r \in Ids \ {Turn(q)} : box'[r] = box[r]
  BY <1>2, <1>3, TypesOfState DEF Stopped, BoxTable
<1>5. /\ \A r \in Ids \ {Turn(q)} : mem[r] = req[q].mem[r]
      /\ mem[Turn(q)].status \in Settled \/ mem = req[q].mem
  BY <1>1, <1>3 DEF StopsTo, RowTable, Row, Settled
<1>6. /\ req[q].kind = "delete" => req[q].todo \ {Turn(q)} \subseteq todo
      /\ pc = "finish" /\ req[q].kind # "delete_instance" => todo = {}
      /\ req[q].kind # "scale"
      /\ req[q].kind \in {"delete", "delete_instance"} => pc \in {"stop", "finish"}
      /\ req[q].kind = "delete_instance" => pc = "finish"
  BY <1>1 DEF StopsTo, StepOrFinish
<1> QED BY <1>1, <1>2, <1>4, <1>5, <1>6, MovesOnTruth

LEMMA StartTruth ==
    ASSUME TypeInv, NEW q \in Requests, WorkTruth(q), StartBox(q), "failed" \notin events'
    PROVE  TruthStep(q)
<1> DEFINE r == Turn(q)
           p == req[q].mem[r].port
           todo == req[q].todo \ {r}
           pc == IF req[q].kind = "restart" THEN RestartPc(req[q].mem, todo)
                 ELSE StepOrFinish(todo, "start")
           mem == [req[q].mem EXCEPT ![r] = [status |-> "running", port |-> StartPort(r, p)]]
           touched == req[q].touched \cup {r}
<1>1. /\ req[q].pc = "start" /\ req[q].kind # "zd" /\ UNCHANGED row
      /\ box' = Started(r, p) /\ MovesOn(q, todo, pc, mem, touched)
  BY StartOutcomes DEF StartMoves, Raise, Fault, Happened
<1>2. r \in Ids /\ req[q].mem \in RowTable
  BY <1>1, TurnTyped
<1>3. \A s \in Ids \ {r} : mem[s] = req[q].mem[s] /\ box'[s] = box[s]
  BY <1>1, <1>2, TypesOfState DEF Started, BoxTable, RowTable
<1>4. mem[r].status = "running"
  BY <1>2 DEF RowTable
<1>5. pc = "finish" => todo = {}
  BY DEF StepOrFinish, RestartPc
<1>6. req[q].kind \notin {"delete", "delete_instance"}
  BY <1>1 DEF WorkTruth
<1> HIDE DEF mem, pc
<1> QED BY <1>1, <1>3, <1>4, <1>5, <1>6, MovesOnTruth DEF Settled

\* A flush commits what the handler knows.
LEMMA FlushedKnown ==
    ASSUME TypeInv, NEW q \in Requests, WorkTruth(q), req[q].pc = "finish", NEW r \in Ids
    PROVE  Flushed(q)[r] = Known(q, r)
<1> DEFINE s == req[q].seen[r]
           m == req[q].mem[r]
<1>1. /\ s \in Row \cup {None} /\ m \in Row \cup {None} /\ row[r] \in Row \cup {None}
      /\ s # None => m # None
  BY SessionOf, TypesOfState DEF Fits, Acting, Sessions, RowTable, Rows
<1>2. s # None => row[r] = s
  BY DEF WorkTruth, Rows
<1>3. Flushed(q)[r] = IF m = s \/ (s # None /\ row[r] = None) THEN row[r]
                      ELSE IF s = None THEN m
                      ELSE [status |-> IF m.status = s.status THEN row[r].status ELSE m.status,
                            port |-> IF m.port = s.port THEN row[r].port ELSE m.port]
  BY DEF Flushed
<1>4. Known(q, r) = IF m # None THEN m ELSE row[r]
  BY DEF Known
<1> HIDE DEF s, m
<1>5. CASE m = s
  BY <1>2, <1>3, <1>4, <1>5
<1>6. CASE m # s /\ s = None
  BY <1>3, <1>4, <1>6
<1>7. CASE m # s /\ s # None
  <2>1. m \in Row /\ row[r] = s /\ row[r] # None /\ m # None
    BY <1>1, <1>2, <1>7
  <2>2. Flushed(q)[r] = [status |-> m.status, port |-> m.port]
    BY <1>3, <1>7, <2>1
  <2>3. [status |-> m.status, port |-> m.port] = m
    BY <2>1 DEF Row
  <2> QED BY <1>4, <2>1, <2>2, <2>3
<1> QED BY <1>5, <1>6, <1>7

LEMMA FinishTruth ==
    ASSUME TypeInv, NEW q \in Requests, WorkTruth(q), Finish(q), "nginx" \notin events'
    PROVE  TruthStep(q)
<1>1. /\ req[q].pc = "finish" /\ UNCHANGED box /\ row' = RowsAfter(q)
      /\ req'[q] = [Ended EXCEPT !.shown = req[q].shown, !.pc = IF req[q].shown THEN "task" ELSE "done"]
  BY SessionOf DEF Finish, Raise, Fault, Happened
<1>2. ~InFlight(q)'
  BY <1>1, FreshTyped DEF Sessions, InFlight
<1>3. /\ req[q].seen \in RowTable /\ req[q].mem \in RowTable /\ row \in RowTable
      /\ Rows(req[q].seen) \subseteq Rows(req[q].mem)
      /\ req[q].kind # "scale" => Rows(req[q].mem) = Rows(req[q].seen)
  BY <1>1, SessionOf, TypesOfState DEF Fits, Acting, Sessions
<1>4. CASE req[q].kind \notin {"delete", "delete_instance"}
  <2>1. row' = Flushed(q) /\ req[q].todo = {}
    BY <1>1, <1>4 DEF RowsAfter, WorkTruth
  <2>2. ASSUME NEW r \in Ids
        PROVE  /\ row'[r] # None => row'[r].status \in Settled
               /\ Down(row'[r]) => Down(Known(q, r))
    <3>1. row'[r] = Known(q, r)
      BY <1>1, <2>1, <2>2, FlushedKnown
    <3>2. Known(q, r) # None => Known(q, r).status \in Settled
      BY <2>1 DEF WorkTruth, Known, Rows, Settled
    <3> QED BY <3>1, <3>2
  <2>3. RowTruth'
    BY <1>1, <2>2 DEF RowTruth, WorkTruth
  <2> QED BY <1>2, <2>3 DEF TruthStep
<1>5. CASE req[q].kind = "delete"
  <2>1. row' = NoRows /\ req[q].todo = {}
    BY <1>1, <1>5 DEF RowsAfter, WorkTruth
  <2>2. ASSUME NEW r \in Ids PROVE box[r] = 0
    <3>1. CASE r \in Rows(req[q].seen)
      BY <1>5, <2>1, <3>1 DEF WorkTruth
    <3>2. CASE r \notin Rows(req[q].seen)
      BY <1>3, <1>5, <3>2 DEF WorkTruth, Rows, Known, Down
    <3> QED BY <3>1, <3>2
  <2> QED BY <1>1, <1>2, <2>1, <2>2 DEF TruthStep, RowTruth, NoRows
<1>6. CASE req[q].kind = "delete_instance"
  <2>1. PICK r \in Ids : Rows(req[q].seen) = {r} /\ box[r] = 0
    BY <1>1, <1>6 DEF WorkTruth
  <2>2. Min({r}) = r
    BY <2>1, MinIsIn, Bounds
  <2>3. row' = [row EXCEPT ![r] = None]
    BY <1>1, <1>6, <2>1, <2>2 DEF RowsAfter
  <2>4. ASSUME NEW s \in Ids, s # r PROVE Known(q, s) = row[s]
    BY <1>3, <1>6, <2>1, <2>4 DEF Known, Rows
  <2>5. RowTruth'
    BY <1>1, <1>3, <2>1, <2>3, <2>4 DEF RowTruth, WorkTruth, RowTable, Rows
  <2> QED BY <1>2, <2>5 DEF TruthStep
<1> QED BY <1>4, <1>5, <1>6

\* A deploy starts its newest replica, or goes back on what it did.
ZdTurnsBack(q) ==
    req[q].kind = "zd" /\ req[q].pc = "start" /\ req' = Undo(q) /\ UNCHANGED <<row, box>>
ZdStarts(q) ==
    LET id == Max(req[q].new)
        p == req[q].port
        rest == req[q].todo \ {Turn(q)}
    IN  /\ req[q].kind = "zd" /\ req[q].pc = "start" /\ CanStart(id, p)
        /\ box' = Started(id, p) /\ row' = [row EXCEPT ![id].port = StartPort(id, p)]
        /\ req' = [req EXCEPT ![q] = [req[q] EXCEPT !.todo = rest,
                                             !.pc = IF rest = {} THEN "check" ELSE "pick"]]

LEMMA ZdStartOutcomes ==
    ASSUME TypeInv, NEW q \in Requests, DeployTruth(q), ZdStart(q)
    PROVE  ZdStarts(q) \/ ZdTurnsBack(q)
<1> DEFINE id == Max(req[q].new)
           p == req[q].port
           rest == req[q].todo \ {Turn(q)}
           h == [req[q] EXCEPT !.todo = rest, !.pc = IF rest = {} THEN "check" ELSE "pick"]
<1>1. /\ req[q].pc = "start" /\ req[q].kind = "zd" /\ Fits(req[q])
      /\ req[q].new # {} /\ req[q].new \subseteq Rows(row)
  BY SessionOf DEF ZdStart, Fits, DeployTruth
<1>2. row[id] # None
  BY <1>1, NewestTyped DEF Rows
<1>3. \/ /\ CanStart(id, p) /\ box' = Started(id, p)
         /\ IF row[id] = None THEN req' = Undo(q) /\ UNCHANGED row
            ELSE /\ row' = [row EXCEPT ![id].port = StartPort(id, p)]
                 /\ req' = [req EXCEPT ![q] = h]
      \/ req' = Undo(q) /\ UNCHANGED <<row, box>>
  BY DEF ZdStart
<1> QED BY <1>1, <1>2, <1>3 DEF ZdStarts, ZdTurnsBack

LEMMA ZdAdvances ==
    ASSUME TypeInv, NEW q \in Requests, DeployTruth(q),
           ZdPick(q) \/ ZdCheck(q) \/ ZdTurnsBack(q)
    PROVE  TruthStep(q)
<1>1. /\ req[q].pc \in {"pick", "check", "start"} /\ req[q].kind = "zd" /\ req[q] \in Sessions
      /\ UNCHANGED <<row, box>>
  BY SessionOf DEF ZdPick, ZdCheck, ZdTurnsBack, Fits, DeployOnly, hostVars
<1>2. CASE ZdPick(q)
  <2> DEFINE h == [req[q] EXCEPT !.pc = "insert", !.port = AssignedPort]
  <2>1. req'[q] = h
    BY <1>2, SessionOf DEF ZdPick
  <2>2. h.kind = "zd" /\ h.pc = "insert" /\ h.new = req[q].new /\ h.touched = req[q].touched
    BY <1>1 DEF Sessions
  <2> HIDE DEF h
  <2>3. DeployTruth(q)'
    BY <1>1, <2>1, <2>2 DEF DeployTruth, Rows
  <2> QED BY <2>1, <2>2, <2>3 DEF TruthStep, InFlight
<1>3. CASE req' = Undo(q)
  <2> DEFINE h == [req[q] EXCEPT !.pc = "undo", !.todo = req[q].new]
  <2>1. req'[q] = h
    BY <1>1, <1>3, SessionOf, UndoTyped DEF Acting, Undo
  <2>2. /\ h.kind = "zd" /\ h.pc = "undo" /\ h.new = req[q].new /\ h.touched = req[q].touched
        /\ h.todo = req[q].new
    BY <1>1 DEF Sessions
  <2> HIDE DEF h
  <2>3. DeployTruth(q)'
    BY <1>1, <2>1, <2>2 DEF DeployTruth, Rows
  <2> QED BY <2>1, <2>2, <2>3 DEF TruthStep, InFlight
<1>4. CASE req' = [req EXCEPT ![q] = [@ EXCEPT !.pc = "switch"]]
  <2> DEFINE h == [req[q] EXCEPT !.pc = "switch"]
  <2>1. req'[q] = h
    BY <1>4, SessionOf
  <2>2. h.kind = "zd" /\ h.pc = "switch" /\ h.new = req[q].new /\ h.touched = req[q].touched
    BY <1>1 DEF Sessions
  <2> HIDE DEF h
  <2>3. DeployTruth(q)'
    BY <1>1, <2>1, <2>2 DEF DeployTruth, Rows
  <2> QED BY <2>1, <2>2, <2>3 DEF TruthStep, InFlight
<1> QED BY <1>2, <1>3, <1>4 DEF ZdCheck, ZdTurnsBack

LEMMA ZdInsertTruth ==
    ASSUME TypeInv, NEW q \in Requests, DeployTruth(q), ZdInsert(q)
    PROVE  TruthStep(q)
<1> DEFINE id == NextId(row)
           rec == [status |-> "starting", port |-> req[q].port]
           h == [req[q] EXCEPT !.pc = "start", !.new = req[q].new \cup {id}]
<1>1. /\ req[q].pc = "insert" /\ req[q].kind = "zd" /\ req[q] \in Sessions /\ Fits(req[q])
      /\ id \in Ids /\ req' = [req EXCEPT ![q] = h] /\ row' = [row EXCEPT ![id] = rec]
      /\ UNCHANGED box
  BY SessionOf DEF ZdInsert, Sessions
<1>2. row[id] = None
  BY <1>1, NextIdAbove, TypesOfState DEF Rows
<1> HIDE DEF id
<1>3. /\ req'[q] = h /\ h.kind = "zd" /\ h.pc = "start" /\ h.new = req[q].new \cup {id}
      /\ h.touched = req[q].touched
  BY <1>1, SessionOf DEF Sessions
<1> HIDE DEF h
<1>4. rec # None /\ rec.status = "starting"
  BY <1>1, Bounds DEF Fits, Row, Statuses
<1> HIDE DEF rec
<1>5. /\ Rows(row') = Rows(row) \cup {id} /\ row'[id].status = "starting" /\ row'[id] # None
      /\ \A r \in Ids : r # id => row'[r] = row[r]
  BY <1>1, <1>2, <1>4, TypesOfState DEF Rows, RowTable
<1>6. DeployTruth(q)'
  BY <1>1, <1>2, <1>3, <1>5 DEF DeployTruth, Rows
<1> QED BY <1>6, <1>3 DEF TruthStep, InFlight

LEMMA ZdStartTruth ==
    ASSUME TypeInv, NEW q \in Requests, DeployTruth(q), ZdStarts(q)
    PROVE  TruthStep(q)
<1> DEFINE id == Max(req[q].new)
           p == req[q].port
           rest == req[q].todo \ {Turn(q)}
           h == [req[q] EXCEPT !.todo = rest, !.pc = IF rest = {} THEN "check" ELSE "pick"]
<1>1. /\ req[q].pc = "start" /\ req[q].kind = "zd" /\ req[q] \in Sessions /\ Fits(req[q])
      /\ req[q].new # {} /\ req[q].new \subseteq Rows(row) /\ req[q].touched = {}
  BY SessionOf DEF ZdStarts, Fits, DeployTruth
<1>2. id \in Ids /\ id \in req[q].new /\ id \in Rows(row)
  BY <1>1, NewestTyped
<1>3. /\ box' = Started(id, p) /\ row' = [row EXCEPT ![id].port = StartPort(id, p)]
      /\ req' = [req EXCEPT ![q] = h]
  BY DEF ZdStarts
<1> HIDE DEF id
<1>4. /\ req'[q] = h /\ h.kind = "zd" /\ h.pc \in {"check", "pick"} /\ h.new = req[q].new
      /\ h.touched = {}
  BY <1>1, <1>3, SessionOf DEF Sessions
<1> HIDE DEF h
<1>5. \A r \in Ids \ {id} : row'[r] = row[r] /\ box'[r] = box[r]
  BY <1>2, <1>3, TypesOfState DEF Started, BoxTable, RowTable
<1>6. row'[id] # None /\ row'[id].status = row[id].status
  <2>1. row[id] \in Row /\ row \in RowTable
    BY <1>2, TypesOfState DEF RowTable, Rows
  <2>2. CanStart(id, p) => StartPort(id, p) \in Ports
    BY <1>1, <1>2, PortsTyped DEF Fits, TypeInv
  <2>3. CanStart(id, p)
    BY DEF ZdStarts, id
  <2>4. row'[id] = [row[id] EXCEPT !.port = StartPort(id, p)]
    BY <1>2, <1>3, <2>1 DEF RowTable
  <2>5. row'[id] \in Row /\ row'[id].status = row[id].status
    BY <2>1, <2>2, <2>3, <2>4 DEF Row
  <2> QED BY <2>5, Bounds
<1>7. Rows(row') = Rows(row)
  BY <1>2, <1>5, <1>6 DEF Rows
<1>8. DeployTruth(q)'
  BY <1>1, <1>2, <1>4, <1>5, <1>6, <1>7 DEF DeployTruth, Rows
<1> QED BY <1>4, <1>8 DEF TruthStep, InFlight

LEMMA ZdSwitchTruth ==
    ASSUME TypeInv, NEW q \in Requests, DeployTruth(q), ZdSwitch(q)
    PROVE  TruthStep(q)
<1> DEFINE old == WithStatus(row', {"running"}) \ req[q].new
           h == [req[q] EXCEPT !.todo = old, !.touched = old, !.pc = StepOrFinish(old, "retire")]
<1>1. /\ row' = [r \in Ids |-> IF r \in Present(q) THEN [row[r] EXCEPT !.status = "running"] ELSE row[r]]
      /\ UNCHANGED box /\ req' = [req EXCEPT ![q] = h] /\ req[q].pc = "switch"
      /\ req[q] \in Sessions /\ req[q].kind = "zd"
  BY SessionOf DEF ZdSwitch, DeployTruth
<1>2. /\ req'[q] = h /\ h.kind = "zd" /\ h.pc \in {"retire", "finish"} /\ h.new = req[q].new
      /\ h.todo = old /\ h.touched = old /\ (h.pc = "finish" => old = {})
  BY <1>1, SessionOf DEF Sessions, StepOrFinish
<1> HIDE DEF h
<1>3. Present(q) = req[q].new /\ req[q].new \subseteq Rows(row)
  BY <1>1 DEF DeployTruth, Present, Rows
<1>4. ASSUME NEW r \in Ids
      PROVE  /\ r \in req[q].new => row'[r] # None /\ row'[r].status = "running"
             /\ r \notin req[q].new => row'[r] = row[r]
  <2>1. r \in req[q].new => row[r] \in Row
    BY <1>3, TypesOfState DEF Rows, RowTable
  <2>2. r \in req[q].new => [row[r] EXCEPT !.status = "running"] \in Row
    BY <2>1 DEF Row, Statuses
  <2>3. r \in req[q].new => [row[r] EXCEPT !.status = "running"].status = "running"
    BY <2>1 DEF Row
  <2> QED BY <1>1, <1>3, <2>2, <2>3, Bounds
<1>5. Rows(row') = Rows(row)
  BY <1>3, <1>4 DEF Rows
<1>6. /\ old \subseteq Rows(row) \ req[q].new
      /\ \A r \in Rows(row) \ (old \cup req[q].new) : row'[r].status # "running"
  BY <1>5 DEF WithStatus
<1> HIDE DEF old
<1>7. DeployTruth(q)'
  <2>1. \A r \in Ids : row'[r] = None => box'[r] = 0
    BY <1>1, <1>4, <1>3 DEF DeployTruth
  <2>2. \A r \in Rows(row') \ h.new : row'[r].status \in Settled /\ (Down(row'[r]) => box'[r] = 0)
    BY <1>1, <1>2, <1>4, <1>5 DEF DeployTruth, Rows
  <2>3. h.new \subseteq Rows(row') /\ \A r \in h.new : row'[r].status = "running"
    BY <1>2, <1>3, <1>4, <1>5 DEF Rows
  <2>4. /\ h.todo \subseteq h.touched /\ h.touched \subseteq Rows(row') \ h.new
        /\ h.touched \ h.todo = {}
        /\ \A r \in Rows(row') \ (h.touched \cup h.new) : row'[r].status # "running"
    BY <1>2, <1>5, <1>6
  <2> QED BY <1>2, <2>1, <2>2, <2>3, <2>4 DEF DeployTruth
<1> QED BY <1>2, <1>7 DEF TruthStep, InFlight

LEMMA ZdRetireTruth ==
    ASSUME TypeInv, NEW q \in Requests, DeployTruth(q), ZdRetire(q), "failed" \notin events'
    PROVE  TruthStep(q)
<1> DEFINE t == Turn(q)
           rest == req[q].todo \ {t}
           h == [req[q] EXCEPT !.todo = rest, !.pc = StepOrFinish(rest, "retire")]
<1>1. /\ req[q].pc = "retire" /\ UNCHANGED row /\ box' = Stopped(t)
      /\ req' = [req EXCEPT ![q] = h] /\ req[q] \in Sessions /\ req[q].kind = "zd"
  BY SessionOf DEF ZdRetire, StopsBox, Fault, Happened, DeployTruth
<1>2. /\ req'[q] = h /\ h.kind = "zd" /\ h.pc \in {"retire", "finish"} /\ h.new = req[q].new
      /\ h.todo = rest /\ h.touched = req[q].touched /\ (h.pc = "finish" => rest = {})
  BY <1>1, SessionOf DEF Sessions, StepOrFinish
<1> HIDE DEF h
<1>3. \A r \in Ids : box'[r] = IF r = t THEN 0 ELSE box[r]
  BY <1>1, TypesOfState DEF Stopped, BoxTable
<1>4. DeployTruth(q)'
  <2>1. \A r \in Ids : box[r] = 0 => box'[r] = 0
    BY <1>3
  <2>2. \A r \in req[q].touched \ rest : box'[r] = 0
    <3>1. req[q].touched \subseteq Ids
      BY <1>1 DEF Sessions
    <3> QED BY <1>1, <1>3, <3>1 DEF DeployTruth
  <2> QED BY <1>1, <1>2, <2>1, <2>2 DEF DeployTruth, Rows
<1> QED BY <1>2, <1>4 DEF TruthStep, InFlight

LEMMA ZdFinishTruth ==
    ASSUME TypeInv, NEW q \in Requests, DeployTruth(q), ZdFinish(q)
    PROVE  TruthStep(q)
<1>1. /\ req[q].pc = "finish" /\ req[q].kind = "zd" /\ UNCHANGED box
      /\ row' = [r \in Ids |-> IF r \in req[q].touched THEN None ELSE row[r]]
      /\ req'[q].pc = "done"
  BY SessionOf, FreshTyped DEF ZdFinish
<1>2. ASSUME NEW r \in Ids
      PROVE  /\ row'[r] # None => row'[r].status \in Settled
             /\ Down(row'[r]) => box'[r] = 0
  <2>1. CASE r \in req[q].touched
    BY <1>1, <2>1 DEF DeployTruth
  <2>2. CASE r \notin req[q].touched
    BY <1>1, <2>2 DEF DeployTruth, Rows, Down, Settled
  <2> QED BY <2>1, <2>2
<1> QED BY <1>1, <1>2 DEF TruthStep, InFlight, RowTruth

LEMMA ZdUndoTruth ==
    ASSUME TypeInv, NEW q \in Requests, DeployTruth(q), ZdUndo(q), "failed" \notin events'
    PROVE  TruthStep(q)
<1> DEFINE t == Turn(q)
           rest == req[q].todo \ {t}
           h == [req[q] EXCEPT !.todo = rest]
<1>1. /\ req[q].pc = "undo" /\ req[q] \in Sessions /\ req[q].kind = "zd" /\ Fits(req[q])
  BY SessionOf DEF ZdUndo, DeployTruth
<1>2. t \in req[q].todo /\ t \in Ids
  <2>1. req[q].todo \in SUBSET Nat /\ req[q].todo # {} /\ req[q].todo \subseteq Ids
    BY <1>1, Bounds DEF Fits, Sessions
  <2> QED BY <2>1, MinIsIn DEF Turn
<1>3. ASSUME NEW r \in Ids
      PROVE  IF r = t THEN row'[r] = None /\ box'[r] = 0 ELSE row'[r] = row[r] /\ box'[r] = box[r]
  <2>1. CASE row[t] = None
    BY <1>1, <1>2, <2>1 DEF ZdUndo, DeployTruth
  <2>2. CASE row[t] # None
    <3>1. box' = Stopped(t) /\ row' = [row EXCEPT ![t] = None]
      BY <2>2 DEF ZdUndo, StopsBox, Fault, Happened
    <3> QED BY <1>2, <3>1, TypesOfState DEF Stopped, BoxTable, RowTable
  <2> QED BY <2>1, <2>2
<1>4. /\ Rows(row') = Rows(row) \ {t} /\ t \in req[q].new
      /\ Rows(row) \cap req[q].new \subseteq req[q].todo /\ req[q].touched = {}
      /\ rest \subseteq req[q].new
  BY <1>1, <1>2, <1>3 DEF Rows, DeployTruth
<1>5. /\ \A r \in Ids : row'[r] = None => box'[r] = 0
      /\ \A r \in Rows(row') \ req[q].new : row'[r].status \in Settled /\ (Down(row'[r]) => box'[r] = 0)
      /\ \A r \in Rows(row') \cap req[q].new : row'[r].status = "starting"
      /\ Rows(row') \cap req[q].new \subseteq rest
  BY <1>1, <1>3, <1>4 DEF DeployTruth, Rows
<1>6. CASE rest = {}
  <2>1. req'[q].pc = "done"
    BY <1>6, SessionOf, FreshTyped DEF ZdUndo
  <2>2. RowTruth'
    BY <1>5, <1>6 DEF RowTruth, Down, Rows
  <2> QED BY <2>1, <2>2 DEF TruthStep, InFlight
<1>7. CASE rest # {}
  <2>1. req'[q] = h
    BY <1>7, SessionOf DEF ZdUndo
  <2>2. /\ h.kind = "zd" /\ h.pc = "undo" /\ h.new = req[q].new /\ h.todo = rest
        /\ h.touched = {}
    BY <1>1, <1>4 DEF Sessions
  <2> HIDE DEF h
  <2>3. DeployTruth(q)'
    BY <1>4, <1>5, <2>1, <2>2 DEF DeployTruth
  <2> QED BY <2>1, <2>2, <2>3 DEF TruthStep, InFlight
<1> QED BY <1>6, <1>7

LEMMA HandleTruth ==
    ASSUME TypeInv, NEW q \in Requests, WorkTruth(q) \/ DeployTruth(q), Handle(q), TruthClean'
    PROVE  TruthStep(q)
<1>1. "failed" \notin events' /\ "nginx" \notin events'
  BY DEF TruthClean, Without
<1>2. ~(FinishFails(q) \/ InsertFails(q) \/ ZdPickFails(q))
  BY <1>1 DEF FinishFails, InsertFails, ZdPickFails, Abort, Happened
<1>3. InsertRow(q) \/ StopBox(q) \/ StartBox(q) \/ Finish(q) => WorkTruth(q)
  BY StopMovesOn DEF InsertRow, StartBox, Finish, DeployTruth
<1>4. ZdPick(q) \/ ZdCheck(q) \/ ZdInsert(q) \/ ZdStart(q) \/ ZdSwitch(q) \/ ZdRetire(q)
        \/ ZdFinish(q) \/ ZdUndo(q) => DeployTruth(q)
  BY SessionOf DEF ZdPick, ZdCheck, ZdInsert, ZdStart, ZdSwitch, ZdRetire, ZdFinish, ZdUndo,
                   Fits, DeployOnly, WorkTruth
<1> QED BY <1>1, <1>2, <1>3, <1>4, InsertTruth, StopTruth, StartTruth, FinishTruth, ZdAdvances,
           ZdInsertTruth, ZdStartOutcomes, ZdStartTruth, ZdSwitchTruth, ZdRetireTruth, ZdFinishTruth, ZdUndoTruth
        DEF Handle

LEMMA TruthKept ==
    ASSUME TypeInv, Gone, Sole, TruthInv, Moves
    PROVE  TruthInv'
<1> SUFFICES ASSUME TruthClean'
             PROVE  /\ ~Busy' => RowTruth'
                    /\ \A o \in Requests : InFlight(o)' => WorkTruth(o)' \/ DeployTruth(o)'
  BY DEF TruthInv
<1>1. /\ ~Busy => RowTruth
      /\ \A o \in Requests : InFlight(o) => WorkTruth(o) \/ DeployTruth(o)
  BY HistoryGrows DEF TruthInv, TruthClean, Without
<1>2. \A p, o \in Requests : InFlight(p) /\ InFlight(o) => p = o
  BY HistoryGrows DEF Sole, TruthClean, Without
<1>3. ASSUME NEW q \in Requests, Handle(q)
      PROVE  /\ ~Busy' => RowTruth'
             /\ \A o \in Requests : InFlight(o)' => WorkTruth(o)' \/ DeployTruth(o)'
  <2>1. InFlight(q) /\ TruthStep(q)
    BY <1>1, <1>3, HandleMovesOne, HandleTruth
  <2>2. ASSUME NEW o \in Requests, InFlight(o)' PROVE o = q
    BY <1>2, <1>3, <2>1, <2>2, HandleMovesOne DEF InFlight
  <2> QED BY <2>1, <2>2 DEF TruthStep, Busy
<1> QED BY <1>1, <1>3, ArriveTruth, AsideTruth, NextSteps

\* At first the containers are those of the rows, each on the row's port.
LEMMA RowsAtFirst ==
    ASSUME Init
    PROVE  \A r \in Ids :
             /\ row[r] # None => row[r].status \in Settled
             /\ box[r] = IF Down(row[r]) THEN 0 ELSE row[r].port
<1>1. PICK start \in Starts :
        /\ start.status \in {"running", "stopped"}
        /\ \A r \in Ids : row[r] = StartingRow(start, r) /\ (row[r] # None <=> r <= start.replicas)
        /\ \A r \in Ids : box[r] = IF row[r] = None \/ start.status = "stopped" THEN 0 ELSE r
  BY StartingTyped
<1>2. ASSUME NEW r \in Ids
      PROVE  /\ row[r] # None => row[r].status = start.status /\ row[r].port = r
             /\ box[r] = IF row[r] = None \/ start.status = "stopped" THEN 0 ELSE r
  <2>1. row[r] = StartingRow(start, r) /\ (row[r] # None <=> r <= start.replicas)
    BY <1>1
  <2> QED BY <1>1, <2>1 DEF StartingRow
<1> QED BY <1>1, <1>2 DEF Settled, Down

TruthfulInv == TypeInv /\ Gone /\ Sole /\ TruthInv

LEMMA TruthHolds == Spec => []TruthfulInv
<1>1. ASSUME Init PROVE TruthfulInv
  <2>1. TypeInv
    BY <1>1, InitTyped
  <2>2. Gone
    BY <1>1, NobodyAtFirst DEF Gone
  <2>3. Sole
    BY <1>1, NobodyAtFirst DEF Sole
  <2>4. TruthInv
    <3>1. RowTruth
      BY <1>1, RowsAtFirst DEF RowTruth
    <3> QED BY <1>1, <3>1, NobodyAtFirst DEF TruthInv
  <2> QED BY <2>1, <2>2, <2>3, <2>4 DEF TruthfulInv
<1>2. ASSUME TruthfulInv, Moves PROVE TruthfulInv'
  BY <1>2, TypesKept, GoneKept, SoleKept, TruthKept DEF TruthfulInv, StaysGone
<1> QED BY <1>1, <1>2, SpecMoves, StutterMoves, PTL DEF Spec

\* No container outlives its row (NoOrphan), for every number of replicas,
\* requests and failures of the kinds it admits.
THEOREM NoContainerOutlivesItsRow == Spec => []NoOrphan
<1>1. ASSUME TruthfulInv PROVE NoOrphan
  BY <1>1 DEF TruthfulInv, TruthInv, TruthClean, NoOrphan, Quiet, RowTruth, Down
<1> QED BY <1>1, TruthHolds, PTL

-----------------------------------------------------------------------------
(* A running row has its container                                         *)

Up(x, b) == x # None /\ x.status = "running" => b = x.port

RowUp == \A r \in Ids : Up(row[r], box[r])

\* What a handler is about to delete or to start again need not run.
Exempt(h) ==
    IF h.kind \in {"delete", "delete_instance"} \/ (h.kind = "restart_instance" /\ h.pc = "start")
    THEN Rows(h.seen) ELSE {}
WorkUp(q) ==
    LET h == req[q]
    IN  /\ h.kind # "zd" => \A r \in Ids \ Exempt(h) : Up(Known(q, r), box[r])
        /\ h.kind = "restart_instance" =>
             \E r \in Ids : Rows(h.seen) = {r} /\ (h.pc = "start" => box[r] = 0)
        /\ h.kind = "zd" =>
             /\ \A r \in Ids \ (h.new \cup h.touched) : Up(row[r], box[r])
             /\ h.pc # "undo" =>
                  \A r \in h.new : IF h.pc = "start" /\ r = Max(h.new) THEN box[r] = 0
                                   ELSE box[r] = row[r].port

UpClean == TruthClean /\ Without({"died"})
UpInv == UpClean => /\ ~Busy => RowUp
                    /\ \A q \in Requests : InFlight(q) => WorkUp(q)

LEMMA AsideKeepsRowUp ==
    ASSUME TypeInv, Gone, Aside, UpClean', ~Busy, RowTruth, RowUp
    PROVE  RowUp'
<1>0. TruthClean' /\ "died" \notin events'
  BY DEF UpClean, Without
<1>1. UNCHANGED <<row, box>> => RowUp'
  BY DEF RowUp
<1>2. (\E q \in Requests : Task(q)) \/ Expire \/ UNCHANGED handlerVars => UNCHANGED <<row, box>>
  BY DEF Task, Poll, WaitEnds, Restore, Expire, handlerVars, hostVars
<1>3. ASSUME Sync({}) \/ Sync(Aged) PROVE RowUp'
  <2>1. PICK aged \in SUBSET Aged : row' = Synced(aged) /\ UNCHANGED box
    BY <1>0, <1>3, SyncQuietly
  <2>2. aged = {}
    BY DEF Aged, WithStatus, RowTruth, Settled, Rows
  <2>3. ASSUME NEW r \in Ids
        PROVE  row'[r] = IF row[r] = None THEN None ELSE [row[r] EXCEPT !.status = Observed(r)]
    BY <2>1, <2>2 DEF Synced, RowTruth, Settled
  <2>4. ASSUME NEW r \in Ids PROVE Up(row'[r], box[r])
    <3>1. CASE row[r] = None
      BY <2>3, <3>1 DEF Up
    <3>2. CASE row[r] # None
      <4>1. row[r] \in Row
        BY <3>2, TypesOfState DEF RowTable
      <4>2. row'[r].status = Observed(r) /\ row'[r].port = row[r].port
        BY <2>3, <3>2, <4>1 DEF Row
      <4>3. box[r] # 0 => row[r].status = "running"
        BY DEF RowTruth, Down
      <4> QED BY <3>2, <4>2, <4>3 DEF RowUp, Up, Observed
    <3> QED BY <3>1, <3>2
  <2> QED BY <2>1, <2>4 DEF RowUp
<1>4. ASSUME Monitor PROVE RowUp'
  <2>1. Scan \/ ScanEnds \/ BackOff => UNCHANGED <<row, box>>
    BY DEF Scan, ScanEnds, BackOff, hostVars
  <2>2. ASSUME MonitorWrites PROVE RowUp'
    <3>1. PICK r \in Ids, state \in {"stopped", "error"} :
            row[r] # None /\ UNCHANGED box /\ row' = [row EXCEPT ![r].status = state]
      BY <2>2 DEF MonitorWrites
    <3>2. row \in RowTable
      BY TypesOfState
    <3> QED BY <3>1, <3>2 DEF RowUp, Up, RowTable, Row
  <2>3. ASSUME Revive PROVE RowUp'
    <3>1. PICK r \in Rows(row) :
            /\ row[r].status = "running" /\ UNCHANGED row
            /\ box' = [box EXCEPT ![r] = IF @ = 0 THEN row[r].port ELSE @]
      BY <1>0, <2>3, RevivesRunning DEF TruthClean, Without
    <3> QED BY <3>1, TypesOfState DEF RowUp, Up, Rows, BoxTable
  <2>4. UNCHANGED hostVars => UNCHANGED <<row, box>>
    BY DEF hostVars
  <2> QED BY <1>0, <1>1, <1>4, <2>1, <2>2, <2>3, <2>4, MonitorWritesDown DEF Monitor
<1>5. Environment => UNCHANGED <<row, box>>
  BY <1>0 DEF Environment, ContainerDies, PortTaken, Reboot, Fault, Happened, TruthClean, Without
<1> QED BY <1>0, <1>1, <1>2, <1>3, <1>4, <1>5, NotLate DEF Aside

LEMMA AsideUp ==
    ASSUME TypeInv, Gone, Aside, UpClean', ~Busy => RowTruth /\ RowUp,
           \A q \in Requests : InFlight(q) => WorkUp(q)
    PROVE  /\ ~Busy' => RowUp'
           /\ \A q \in Requests : InFlight(q)' => WorkUp(q)'
<1>0. TruthClean' /\ "crash" \notin events' /\ "died" \notin events'
  BY DEF UpClean, TruthClean, Without
<1>1. ~Busy' => ~Busy
  BY <1>0, AsideEndsNone DEF Busy, InFlight
<1>2. ASSUME NEW q \in Requests, InFlight(q)' PROVE WorkUp(q)'
  <2>1. InFlight(q) /\ req'[q] = req[q] /\ Busy
    BY <1>2, AsideMovesNone DEF Busy
  <2>2. UNCHANGED row /\ \A r \in Ids : box'[r] = box[r]
    BY <1>0, <2>1, AsideWhileBusy
  <2>3. req[q].new \subseteq Ids
    BY SessionOf DEF Sessions
  <2> QED BY <1>0, <2>1, <2>2, <2>3 DEF WorkUp, Known
<1> QED BY <1>0, <1>1, <1>2, AsideKeepsRowUp

LEMMA ArriveUp ==
    ASSUME TypeInv, NEW q \in Requests, Arrive(q), UpClean', ~Busy => RowTruth /\ RowUp,
           \A o \in Requests : InFlight(o) => WorkUp(o)
    PROVE  /\ ~Busy' => RowUp'
           /\ \A o \in Requests : InFlight(o)' => WorkUp(o)'
<1>1. PICK h : Opens(q, h)
  BY ArriveOpens DEF TypeInv
<1>2. "overlap" \notin events' /\ UNCHANGED <<row, box>>
  BY <1>1 DEF UpClean, TruthClean, Without, Opens, hostVars
<1>3. /\ ~InFlight(q) /\ req'[q] = h /\ \A o \in Requests : o # q => req'[o] = req[o]
      /\ InFlight(q)' => ~Busy /\ StartsOn(h)
  BY <1>1, <1>2, ArriveAlone
<1>5. ~Busy' => ~Busy
  BY <1>3 DEF Busy, InFlight
<1>6. ASSUME NEW o \in Requests, o # q, InFlight(o)' PROVE WorkUp(o)'
  <2>1. req'[o] = req[o] /\ InFlight(o)
    BY <1>3, <1>6 DEF InFlight
  <2> QED BY <1>2, <2>1 DEF WorkUp, Known
<1>7. ASSUME InFlight(q)' PROVE WorkUp(q)'
  <2>1. StartsOn(h) /\ RowTruth /\ RowUp
    BY <1>3, <1>7
  <2>2. h.mem = h.seen /\ \A r \in Ids : h.seen[r] \in {None, row[r]}
    BY <2>1 DEF StartsOn
  <2>3. \A r \in Ids : Known(q, r)' = row[r]
    BY <1>2, <1>3, <2>2 DEF Known
  <2>4. h.kind = "restart_instance" =>
          \E r \in Ids : Rows(h.seen) = {r} /\ (h.pc = "start" => box[r] = 0)
    BY <2>1 DEF StartsOn, RowTruth, Down, Rows
  <2>5. h.kind = "zd" => h.new = {} /\ h.touched = {}
    BY <2>1 DEF StartsOn
  <2> QED BY <1>2, <1>3, <2>1, <2>3, <2>4, <2>5 DEF WorkUp, RowUp
<1> QED BY <1>2, <1>5, <1>6, <1>7 DEF RowUp

UpStep(q) == IF InFlight(q)' THEN WorkUp(q)' ELSE RowUp'

LEMMA InsertUp ==
    ASSUME TypeInv, NEW q \in Requests, WorkTruth(q), WorkUp(q), InsertRow(q)
    PROVE  UpStep(q)
<1> DEFINE id == NextId(row)
           rec == [status |-> "pending", port |-> req[q].port]
           mem == [NoRows EXCEPT ![id] = rec]
           h == [req[q] EXCEPT !.pc = "start", !.todo = {id}, !.mem = mem]
<1>1. /\ req[q].pc = "insert" /\ req[q].kind = "scale" /\ id \in Ids
      /\ req' = [req EXCEPT ![q] = h] /\ UNCHANGED <<row, box>>
  BY DEF InsertRow, hostVars
<1> HIDE DEF id
<1>2. req[q] \in Sessions /\ req'[q] = h
  BY <1>1, SessionOf
<1>3. /\ mem[id].status = "pending" /\ \A r \in Ids : r # id => mem[r] = None
  BY <1>1 DEF NoRows
<1> HIDE DEF mem
<1>4. h.pc = "start" /\ h.kind = "scale" /\ h.mem = mem
  BY <1>1, <1>2 DEF Sessions
<1> HIDE DEF h
<1>5. \A r \in Ids : Up(Known(q, r)', box'[r])
  <2>1. \A r \in Ids : req[q].mem[r] = None
    BY <1>1 DEF WorkTruth, Rows
  <2>2. \A r \in Ids : Up(row[r], box[r])
    BY <1>1, <2>1 DEF WorkUp, Known, Exempt
  <2>3. mem[id] # None => Up(mem[id], box[id])
    BY <1>3 DEF Up
  <2> QED BY <1>1, <1>2, <1>3, <1>4, <2>1, <2>2, <2>3 DEF Known
<1>6. WorkUp(q)'
  BY <1>2, <1>4, <1>5 DEF WorkUp
<1> QED BY <1>2, <1>4, <1>6 DEF UpStep, InFlight

LEMMA StopUp ==
    ASSUME TypeInv, NEW q \in Requests, WorkUp(q), StopBox(q), "failed" \notin events'
    PROVE  UpStep(q)
<1> DEFINE t == Turn(q)
<1>1. PICK todo, pc, mem, touched :
        MovesOn(q, todo, pc, mem, touched) /\ StopsTo(q, todo, pc, mem)
  BY StopMovesOn
<1> DEFINE h == [req[q] EXCEPT !.todo = todo, !.pc = pc, !.mem = mem, !.touched = touched]
<1>2. /\ req[q].kind # "zd" /\ req[q].pc = "stop" /\ UNCHANGED row /\ box' = Stopped(t)
      /\ t \in req[q].todo
  BY StopMovesOn DEF StopBox, StopsBox, Fault, Happened
<1>3. /\ req[q].mem \in RowTable /\ t \in Ids /\ req[q].mem[t] \in Row /\ t \in Rows(req[q].mem)
  BY <1>2, TurnTyped
<1>4. /\ req[q] \in Sessions /\ Fits(req[q]) /\ req'[q] = h /\ Rows(mem) = Rows(req[q].mem)
      /\ pc \in {"stop", "start", "finish"}
  BY <1>1, SessionOf DEF MovesOn
<1>5. h.kind = req[q].kind /\ h.pc = pc /\ h.mem = mem /\ h.seen = req[q].seen
  BY <1>4 DEF Sessions
<1> HIDE DEF h
<1>6. \A r \in Ids : box'[r] = IF r = t THEN 0 ELSE box[r]
  BY <1>2, <1>3, TypesOfState DEF Stopped, BoxTable
<1>7. \A r \in Ids \ {t} : mem[r] = req[q].mem[r]
  BY <1>1, <1>3 DEF StopsTo, RowTable
<1>8. mem[t].status = "stopped" \/ t \in Exempt(h)
  <2>1. req[q].kind \in {"stop", "restart"} => mem[t].status = "stopped"
    BY <1>1, <1>3 DEF StopsTo, RowTable, Row
  <2>2. t \in Rows(req[q].seen)
    BY <1>2, <1>3, <1>4, StopMovesOn DEF Fits, Acting, Stopping
  <2> QED BY <1>1, <1>5, <2>1, <2>2 DEF StopsTo, Exempt
<1>9. Exempt(req[q]) \subseteq Exempt(h)
  BY <1>2, <1>5 DEF Exempt
<1>10. ASSUME NEW r \in Ids \ Exempt(h) PROVE Up(Known(q, r)', box'[r])
  <2>1. CASE r = t
    <3>1. mem[t] # None
      BY <1>3, <1>4 DEF Rows
    <3> QED BY <1>4, <1>5, <1>8, <1>10, <2>1, <3>1 DEF Known, Up
  <2>2. CASE r # t
    BY <1>2, <1>4, <1>5, <1>6, <1>7, <1>9, <1>10, <2>2 DEF Known, WorkUp
  <2> QED BY <2>1, <2>2
<1>11. req[q].kind = "restart_instance" =>
         \E r \in Ids : Rows(req[q].seen) = {r} /\ (pc = "start" => box'[r] = 0)
  <2> SUFFICES ASSUME req[q].kind = "restart_instance"
               PROVE  Rows(req[q].seen) = {t}
    BY <1>3, <1>6
  <2> QED BY <1>2, <1>3, <1>4 DEF WorkUp, Fits, Acting
<1>12. WorkUp(q)'
  BY <1>2, <1>4, <1>5, <1>10, <1>11 DEF WorkUp
<1> QED BY <1>4, <1>5, <1>12 DEF UpStep, InFlight

LEMMA StartUp ==
    ASSUME TypeInv, NEW q \in Requests, WorkTruth(q), WorkUp(q), StartBox(q), "failed" \notin events'
    PROVE  UpStep(q)
<1> DEFINE t == Turn(q)
           p == req[q].mem[t].port
           todo == req[q].todo \ {t}
           pc == IF req[q].kind = "restart" THEN RestartPc(req[q].mem, todo)
                 ELSE StepOrFinish(todo, "start")
           rec == [status |-> "running", port |-> StartPort(t, p)]
           mem == [req[q].mem EXCEPT ![t] = rec]
           touched == req[q].touched \cup {t}
           h == [req[q] EXCEPT !.todo = todo, !.pc = pc, !.mem = mem, !.touched = touched]
<1>1. /\ req[q].pc = "start" /\ req[q].kind # "zd" /\ UNCHANGED row
      /\ box' = Started(t, p) /\ MovesOn(q, todo, pc, mem, touched)
      /\ req[q].kind \notin {"delete", "delete_instance"}
  BY StartOutcomes DEF StartMoves, Raise, Fault, Happened, WorkTruth
<1>2. /\ t \in Ids /\ req[q].mem \in RowTable /\ req[q].mem[t] # None /\ t \in req[q].todo
  BY <1>1, TurnTyped DEF Rows
<1>3. /\ req[q] \in Sessions /\ Fits(req[q]) /\ req'[q] = h
      /\ pc \in {"stop", "start", "finish"} /\ Rows(mem) = Rows(req[q].mem)
  BY <1>1, SessionOf DEF MovesOn
<1>4. h.kind = req[q].kind /\ h.pc = pc /\ h.mem = mem /\ h.seen = req[q].seen
  BY <1>3 DEF Sessions
<1> HIDE DEF h
<1>5. \A r \in Ids \ {t} : mem[r] = req[q].mem[r] /\ box'[r] = box[r]
  BY <1>1, <1>2, TypesOfState DEF Started, BoxTable, RowTable
<1>6. mem[t] = rec /\ mem[t] # None
  <2>1. mem[t] = rec
    BY <1>2 DEF RowTable
  <2>2. t \in Rows(mem)
    BY <1>2, <1>3 DEF Rows
  <2> HIDE DEF mem
  <2> QED BY <2>1, <2>2 DEF Rows
<1>7. req[q].kind = "restart_instance" => box[t] = 0 /\ Rows(req[q].seen) = {t} /\ pc = "finish"
  <2> SUFFICES ASSUME req[q].kind = "restart_instance"
               PROVE  box[t] = 0 /\ Rows(req[q].seen) = {t} /\ pc = "finish"
    OBVIOUS
  <2>1. PICK r \in Ids : Rows(req[q].seen) = {r} /\ box[r] = 0
    BY <1>1 DEF WorkUp
  <2>2. req[q].todo \subseteq {r}
    BY <1>1, <1>3, <2>1 DEF Fits, Acting
  <2>3. t = r /\ todo = {}
    BY <1>2, <2>2
  <2> QED BY <2>1, <2>3 DEF StepOrFinish
<1>8. box'[t] = StartPort(t, p)
  <2>1. box[t] # 0 => box[t] = p
    <3> SUFFICES ASSUME box[t] # 0 PROVE box[t] = p
      OBVIOUS
    <3>1. ~Down(Known(q, t))
      BY <1>2 DEF WorkTruth
    <3>2. Up(Known(q, t), box[t])
      BY <1>1, <1>2, <1>7 DEF WorkUp, Exempt
    <3> QED BY <1>2, <3>1, <3>2 DEF Known, Down, Up
  <2>2. Started(t, p)[t] = IF box[t] # 0 THEN box[t] ELSE StartPort(t, p)
    BY <1>2, TypesOfState DEF Started, BoxTable
  <2> QED BY <1>1, <2>1, <2>2 DEF StartPort
<1>9. ASSUME NEW r \in Ids PROVE Up(Known(q, r)', box'[r])
  <2>1. CASE r = t
    <3>1. Known(q, r)' = rec
      BY <1>3, <1>4, <1>6, <2>1 DEF Known
    <3> QED BY <1>8, <2>1, <3>1 DEF Up
  <2>2. CASE r # t
    <3>1. r \notin Exempt(req[q])
      BY <1>1, <1>7, <2>2 DEF Exempt
    <3> QED BY <1>1, <1>3, <1>4, <1>5, <2>2, <3>1 DEF Known, WorkUp
  <2> QED BY <2>1, <2>2
<1> HIDE DEF pc, mem, rec
<1>10. WorkUp(q)'
  BY <1>1, <1>2, <1>3, <1>4, <1>7, <1>9 DEF WorkUp
<1> QED BY <1>3, <1>4, <1>10 DEF UpStep, InFlight

LEMMA FinishUp ==
    ASSUME TypeInv, NEW q \in Requests, WorkTruth(q), WorkUp(q), Finish(q), "nginx" \notin events'
    PROVE  UpStep(q)
<1>1. /\ req[q].pc = "finish" /\ UNCHANGED box /\ row' = RowsAfter(q) /\ req[q].kind # "zd"
      /\ req'[q] = [Ended EXCEPT !.shown = req[q].shown, !.pc = IF req[q].shown THEN "task" ELSE "done"]
  BY SessionOf DEF Finish, Raise, Fault, Happened
<1>2. ~InFlight(q)'
  BY <1>1, FreshTyped DEF Sessions, InFlight
<1>3. CASE req[q].kind \notin {"delete", "delete_instance"}
  <2>1. \A r \in Ids : row'[r] = Known(q, r)
    BY <1>1, <1>3, FlushedKnown DEF RowsAfter
  <2> QED BY <1>1, <1>2, <1>3, <2>1 DEF UpStep, RowUp, WorkUp, Exempt
<1>4. CASE req[q].kind = "delete"
  BY <1>1, <1>2, <1>4 DEF RowsAfter, NoRows, UpStep, RowUp, Up
<1>5. CASE req[q].kind = "delete_instance"
  <2>1. PICK r \in Ids : Rows(req[q].seen) = {r}
    BY <1>5 DEF WorkTruth
  <2>2. Min({r}) = r
    BY <2>1, MinIsIn, Bounds
  <2>3. row' = [row EXCEPT ![r] = None]
    BY <1>1, <1>5, <2>1, <2>2 DEF RowsAfter
  <2>4. ASSUME NEW s \in Ids, s # r PROVE Up(row[s], box[s])
    <3>1. Known(q, s) = row[s]
      BY <1>1, <1>5, <2>1, <2>4, SessionOf DEF Known, Rows, Fits, Acting
    <3> QED BY <1>5, <2>1, <2>4, <3>1 DEF WorkUp, Exempt
  <2>5. RowUp'
    BY <1>1, <2>3, <2>4, TypesOfState DEF RowUp, RowTable, Up
  <2> QED BY <1>2, <2>5 DEF UpStep
<1> QED BY <1>3, <1>4, <1>5

\* A deploy's session as a step leaves it, and what it has to know then.
LEMMA DeployUp ==
    ASSUME TypeInv, NEW q \in Requests, NEW h, req'[q] = h, h.kind = "zd",
           \A r \in Ids \ (h.new \cup h.touched) : Up(row'[r], box'[r]),
           h.pc # "undo" => \A r \in h.new : IF h.pc = "start" /\ r = Max(h.new) THEN box'[r] = 0
                                             ELSE box'[r] = row'[r].port,
           h.pc \in {"pick", "insert", "start", "check", "switch", "retire", "finish", "undo"}
    PROVE  UpStep(q)
<1>1. WorkUp(q)'
  BY DEF WorkUp
<1> QED BY <1>1 DEF UpStep, InFlight

LEMMA ZdEarlyUp ==
    ASSUME TypeInv, NEW q \in Requests, DeployTruth(q), WorkUp(q),
           ZdPick(q) \/ ZdCheck(q) \/ ZdInsert(q) \/ ZdStart(q)
    PROVE  UpStep(q)
<1>1. /\ req[q] \in Sessions /\ Fits(req[q]) /\ req[q].kind = "zd"
      /\ req[q].pc \in {"pick", "check", "insert", "start"}
      /\ req[q].new \subseteq Rows(row) /\ req[q].new \subseteq Ids
  BY SessionOf DEF ZdPick, ZdCheck, ZdInsert, ZdStart, DeployTruth, Sessions
<1>2. /\ \A r \in Ids \ (req[q].new \cup req[q].touched) : Up(row[r], box[r])
      /\ \A r \in req[q].new : IF req[q].pc = "start" /\ r = Max(req[q].new) THEN box[r] = 0
                               ELSE box[r] = row[r].port
  BY <1>1 DEF WorkUp
<1>3. CASE ZdPick(q)
  <2> DEFINE h == [req[q] EXCEPT !.pc = "insert", !.port = AssignedPort]
  <2>1. req'[q] = h /\ UNCHANGED <<row, box>> /\ req[q].pc = "pick"
    BY <1>3, SessionOf DEF ZdPick, hostVars
  <2>2. h.kind = "zd" /\ h.pc = "insert" /\ h.new = req[q].new /\ h.touched = req[q].touched
    BY <1>1 DEF Sessions
  <2> HIDE DEF h
  <2> QED BY <1>2, <2>1, <2>2, DeployUp
<1>4. CASE req' = Undo(q) /\ UNCHANGED <<row, box>>
  <2> DEFINE h == [req[q] EXCEPT !.pc = "undo", !.todo = req[q].new]
  <2>1. req'[q] = h /\ UNCHANGED <<row, box>>
    BY <1>1, <1>4, SessionOf, UndoTyped DEF Acting, Undo
  <2>2. /\ h.kind = "zd" /\ h.pc = "undo" /\ h.new = req[q].new /\ h.touched = req[q].touched
    BY <1>1 DEF Sessions
  <2> HIDE DEF h
  <2> QED BY <1>2, <2>1, <2>2, DeployUp
<1>5. CASE req' = [req EXCEPT ![q] = [@ EXCEPT !.pc = "switch"]] /\ ZdCheck(q)
  <2> DEFINE h == [req[q] EXCEPT !.pc = "switch"]
  <2>1. req'[q] = h /\ UNCHANGED <<row, box>> /\ req[q].pc = "check"
    BY <1>5, SessionOf DEF ZdCheck, hostVars
  <2>2. h.kind = "zd" /\ h.pc = "switch" /\ h.new = req[q].new /\ h.touched = req[q].touched
    BY <1>1 DEF Sessions
  <2> HIDE DEF h
  <2> QED BY <1>2, <2>1, <2>2, DeployUp
<1>6. CASE ZdInsert(q)
  <2> DEFINE id == NextId(row)
             rec == [status |-> "starting", port |-> req[q].port]
             h == [req[q] EXCEPT !.pc = "start", !.new = req[q].new \cup {id}]
  <2>1. /\ req[q].pc = "insert" /\ id \in Ids /\ req'[q] = h
        /\ row' = [row EXCEPT ![id] = rec] /\ UNCHANGED box
    BY <1>1, <1>6, SessionOf DEF ZdInsert, Sessions
  <2>2. Max(req[q].new \cup {id}) = id /\ id \notin Rows(row)
    BY <1>1, <2>1, NewestInserted, NextIdAbove, TypesOfState
  <2> HIDE DEF id
  <2>3. h.kind = "zd" /\ h.pc = "start" /\ h.new = req[q].new \cup {id} /\ h.touched = req[q].touched
    BY <1>1 DEF Sessions
  <2> HIDE DEF h
  <2>4. box[id] = 0
    BY <2>1, <2>2 DEF DeployTruth, Rows
  <2>5. \A r \in Ids : r # id => row'[r] = row[r]
    BY <2>1, TypesOfState DEF RowTable
  <2>6. \A r \in Ids \ (h.new \cup h.touched) : Up(row'[r], box'[r])
    BY <1>2, <2>1, <2>3, <2>5
  <2>7. \A r \in h.new : IF h.pc = "start" /\ r = Max(h.new) THEN box'[r] = 0
                         ELSE box'[r] = row'[r].port
    BY <1>1, <1>2, <2>1, <2>2, <2>3, <2>4, <2>5
  <2> QED BY <2>1, <2>3, <2>6, <2>7, DeployUp
<1>7. CASE ZdStarts(q)
  <2> DEFINE id == Max(req[q].new)
             p == req[q].port
             rest == req[q].todo \ {Turn(q)}
             h == [req[q] EXCEPT !.todo = rest, !.pc = IF rest = {} THEN "check" ELSE "pick"]
  <2>0. req[q].pc = "start" /\ req[q].new # {}
    BY <1>1, <1>7 DEF ZdStarts, Fits
  <2>1. id \in Ids /\ id \in req[q].new /\ row[id] # None
    BY <1>1, <2>0, NewestTyped DEF Rows
  <2>2. /\ box' = Started(id, p) /\ row' = [row EXCEPT ![id].port = StartPort(id, p)]
        /\ req' = [req EXCEPT ![q] = h]
    BY <1>7 DEF ZdStarts
  <2> HIDE DEF id
  <2>3. req'[q] = h /\ h.kind = "zd" /\ h.pc \in {"check", "pick"} /\ h.new = req[q].new
        /\ h.touched = req[q].touched
    BY <1>1, <2>2, SessionOf DEF Sessions
  <2> HIDE DEF h
  <2>4. \A r \in Ids \ {id} : row'[r] = row[r] /\ box'[r] = box[r]
    BY <2>1, <2>2, TypesOfState DEF Started, BoxTable, RowTable
  <2>5. box'[id] = row'[id].port
    <3>1. box[id] = 0
      BY <1>2, <2>0, <2>1 DEF id
    <3>2. box'[id] = StartPort(id, p)
      BY <2>1, <2>2, <3>1, TypesOfState DEF Started, BoxTable
    <3>3. row'[id].port = StartPort(id, p)
      <4>1. row \in RowTable /\ row[id] \in Row
        BY <2>1, TypesOfState DEF RowTable
      <4>2. row'[id] = [row[id] EXCEPT !.port = StartPort(id, p)]
        BY <2>1, <2>2, <4>1 DEF RowTable
      <4> QED BY <4>1, <4>2 DEF Row
    <3> QED BY <3>2, <3>3
  <2>6. \A r \in Ids \ (h.new \cup h.touched) : Up(row'[r], box'[r])
    BY <1>2, <2>1, <2>3, <2>4
  <2>7. \A r \in h.new : box'[r] = row'[r].port
    BY <1>1, <1>2, <2>3, <2>4, <2>5 DEF id
  <2> QED BY <2>3, <2>6, <2>7, DeployUp
<1>8. ZdCheck(q) => UNCHANGED <<row, box>>
  BY DEF ZdCheck, hostVars
<1> QED BY <1>3, <1>4, <1>5, <1>6, <1>7, <1>8, ZdStartOutcomes DEF ZdCheck, ZdTurnsBack

LEMMA ZdSwitchUp ==
    ASSUME TypeInv, NEW q \in Requests, DeployTruth(q), WorkUp(q), ZdSwitch(q)
    PROVE  UpStep(q)
<1> DEFINE old == WithStatus(row', {"running"}) \ req[q].new
           h == [req[q] EXCEPT !.todo = old, !.touched = old, !.pc = StepOrFinish(old, "retire")]
<1>1. /\ row' = [r \in Ids |-> IF r \in Present(q) THEN [row[r] EXCEPT !.status = "running"] ELSE row[r]]
      /\ UNCHANGED box /\ req'[q] = h /\ req[q].pc = "switch"
      /\ req[q] \in Sessions /\ req[q].kind = "zd" /\ req[q].new \subseteq Rows(row)
      /\ req[q].new \subseteq Ids /\ req[q].touched = {}
  BY SessionOf DEF ZdSwitch, DeployTruth, Sessions
<1>2. /\ h.kind = "zd" /\ h.pc \in {"retire", "finish"} /\ h.new = req[q].new /\ h.touched = old
  BY <1>1 DEF Sessions, StepOrFinish
<1> HIDE DEF h, old
<1>3. ASSUME NEW r \in Ids
      PROVE  /\ r \notin req[q].new => row'[r] = row[r]
             /\ r \in req[q].new => row'[r].port = row[r].port
  <2>1. r \in req[q].new => row[r] \in Row
    BY <1>1, TypesOfState DEF Rows, RowTable
  <2> QED BY <1>1, <2>1 DEF Present, Row
<1>4. \A r \in Ids \ (h.new \cup h.touched) : Up(row'[r], box'[r])
  BY <1>1, <1>2, <1>3 DEF WorkUp
<1>5. \A r \in h.new : box'[r] = row'[r].port
  BY <1>1, <1>2, <1>3 DEF WorkUp
<1> QED BY <1>1, <1>2, <1>4, <1>5, DeployUp

LEMMA ZdRetireUp ==
    ASSUME TypeInv, NEW q \in Requests, DeployTruth(q), WorkUp(q), ZdRetire(q), "failed" \notin events'
    PROVE  UpStep(q)
<1> DEFINE t == Turn(q)
           rest == req[q].todo \ {t}
           h == [req[q] EXCEPT !.todo = rest, !.pc = StepOrFinish(rest, "retire")]
<1>1. /\ req[q].pc = "retire" /\ UNCHANGED row /\ box' = Stopped(t) /\ Fits(req[q])
      /\ req'[q] = h /\ req[q] \in Sessions /\ req[q].kind = "zd" /\ req[q].new \subseteq Ids
  BY SessionOf DEF ZdRetire, StopsBox, Fault, Happened, DeployTruth, Sessions
<1>2. /\ h.kind = "zd" /\ h.pc \in {"retire", "finish"} /\ h.new = req[q].new
      /\ h.touched = req[q].touched
  BY <1>1 DEF Sessions, StepOrFinish
<1> HIDE DEF h
<1>3. t \in req[q].touched /\ t \notin req[q].new
  <2>1. req[q].todo \in SUBSET Nat /\ req[q].todo # {}
    BY <1>1, Bounds DEF Fits, Sessions
  <2>2. t \in req[q].todo
    BY <2>1, MinIsIn DEF Turn
  <2> QED BY <1>1, <2>2 DEF DeployTruth
<1>4. \A r \in Ids \ {t} : box'[r] = box[r]
  BY <1>1, TypesOfState DEF Stopped, BoxTable
<1>5. \A r \in Ids \ (h.new \cup h.touched) : Up(row'[r], box'[r])
  BY <1>1, <1>2, <1>3, <1>4 DEF WorkUp
<1>6. \A r \in h.new : box'[r] = row'[r].port
  BY <1>1, <1>2, <1>3, <1>4 DEF WorkUp
<1> QED BY <1>1, <1>2, <1>5, <1>6, DeployUp

LEMMA ZdFinishUp ==
    ASSUME TypeInv, NEW q \in Requests, DeployTruth(q), WorkUp(q), ZdFinish(q)
    PROVE  UpStep(q)
<1>1. /\ req[q].pc = "finish" /\ req[q].kind = "zd" /\ UNCHANGED box
      /\ row' = [r \in Ids |-> IF r \in req[q].touched THEN None ELSE row[r]]
      /\ req'[q].pc = "done"
  BY SessionOf, FreshTyped DEF ZdFinish
<1>2. ASSUME NEW r \in Ids PROVE Up(row'[r], box'[r])
  <2>1. CASE r \in req[q].touched
    BY <1>1, <2>1 DEF Up
  <2>2. CASE r \notin req[q].touched
    BY <1>1, <2>2 DEF WorkUp, Up
  <2> QED BY <2>1, <2>2
<1> QED BY <1>1, <1>2 DEF UpStep, InFlight, RowUp

LEMMA ZdUndoUp ==
    ASSUME TypeInv, NEW q \in Requests, DeployTruth(q), WorkUp(q), ZdUndo(q), "failed" \notin events'
    PROVE  UpStep(q)
<1> DEFINE t == Turn(q)
           rest == req[q].todo \ {t}
           h == [req[q] EXCEPT !.todo = rest]
<1>1. /\ req[q].pc = "undo" /\ req[q] \in Sessions /\ req[q].kind = "zd" /\ Fits(req[q])
      /\ req[q].touched = {} /\ Rows(row) \cap req[q].new \subseteq req[q].todo
      /\ req[q].todo \subseteq req[q].new
  BY SessionOf DEF ZdUndo, DeployTruth
<1>2. t \in req[q].todo /\ t \in Ids
  <2>1. req[q].todo \in SUBSET Nat /\ req[q].todo # {} /\ req[q].todo \subseteq Ids
    BY <1>1, Bounds DEF Fits, Sessions
  <2> QED BY <2>1, MinIsIn DEF Turn
<1>3. ASSUME NEW r \in Ids
      PROVE  IF r = t THEN row'[r] = None ELSE row'[r] = row[r] /\ box'[r] = box[r]
  <2>1. CASE row[t] = None
    BY <1>1, <1>2, <2>1 DEF ZdUndo
  <2>2. CASE row[t] # None
    <3>1. box' = Stopped(t) /\ row' = [row EXCEPT ![t] = None]
      BY <2>2 DEF ZdUndo, StopsBox, Fault, Happened
    <3> QED BY <1>2, <3>1, TypesOfState DEF Stopped, BoxTable, RowTable
  <2> QED BY <2>1, <2>2
<1>4. \A r \in Ids \ req[q].new : Up(row'[r], box'[r])
  BY <1>1, <1>2, <1>3 DEF WorkUp
<1>5. CASE rest = {}
  <2>1. req'[q].pc = "done"
    BY <1>5, SessionOf, FreshTyped DEF ZdUndo
  <2>2. \A r \in Ids \cap req[q].new : row'[r] = None
    BY <1>1, <1>3, <1>5 DEF Rows
  <2>3. RowUp'
    BY <1>4, <2>2 DEF RowUp, Up
  <2> QED BY <2>1, <2>3 DEF UpStep, InFlight
<1>6. CASE rest # {}
  <2>1. req'[q] = h
    BY <1>6, SessionOf DEF ZdUndo
  <2>2. h.kind = "zd" /\ h.pc = "undo" /\ h.new = req[q].new /\ h.touched = {}
    BY <1>1 DEF Sessions
  <2> HIDE DEF h
  <2> QED BY <1>4, <2>1, <2>2, DeployUp
<1> QED BY <1>5, <1>6

LEMMA HandleUp ==
    ASSUME TypeInv, NEW q \in Requests, WorkTruth(q) \/ DeployTruth(q), WorkUp(q), Handle(q),
           TruthClean'
    PROVE  UpStep(q)
<1>1. "failed" \notin events' /\ "nginx" \notin events'
  BY DEF TruthClean, Without
<1>2. ~(FinishFails(q) \/ InsertFails(q) \/ ZdPickFails(q))
  BY <1>1 DEF FinishFails, InsertFails, ZdPickFails, Abort, Happened
<1>3. InsertRow(q) \/ StartBox(q) \/ Finish(q) => WorkTruth(q)
  BY DEF InsertRow, StartBox, Finish, DeployTruth
<1>4. ZdPick(q) \/ ZdCheck(q) \/ ZdInsert(q) \/ ZdStart(q) \/ ZdSwitch(q) \/ ZdRetire(q)
        \/ ZdFinish(q) \/ ZdUndo(q) => DeployTruth(q)
  BY SessionOf DEF ZdPick, ZdCheck, ZdInsert, ZdStart, ZdSwitch, ZdRetire, ZdFinish, ZdUndo,
                   Fits, DeployOnly, WorkTruth
<1> QED BY <1>1, <1>2, <1>3, <1>4, InsertUp, StopUp, StartUp, FinishUp, ZdEarlyUp, ZdSwitchUp,
           ZdRetireUp, ZdFinishUp, ZdUndoUp DEF Handle

LEMMA UpKept ==
    ASSUME TypeInv, Gone, Sole, TruthInv, UpInv, Moves
    PROVE  UpInv'
<1> SUFFICES ASSUME UpClean'
             PROVE  /\ ~Busy' => RowUp'
                    /\ \A o \in Requests : InFlight(o)' => WorkUp(o)'
  BY DEF UpInv
<1>1. /\ ~Busy => RowTruth /\ RowUp
      /\ \A o \in Requests : InFlight(o) => WorkUp(o) /\ (WorkTruth(o) \/ DeployTruth(o))
  BY HistoryGrows DEF TruthInv, UpInv, UpClean, TruthClean, Without
<1>2. \A p, o \in Requests : InFlight(p) /\ InFlight(o) => p = o
  BY HistoryGrows DEF Sole, UpClean, TruthClean, Without
<1>3. ASSUME NEW q \in Requests, Handle(q)
      PROVE  /\ ~Busy' => RowUp'
             /\ \A o \in Requests : InFlight(o)' => WorkUp(o)'
  <2>1. InFlight(q) /\ UpStep(q)
    BY <1>1, <1>3, HandleMovesOne, HandleUp DEF UpClean
  <2>2. ASSUME NEW o \in Requests, InFlight(o)' PROVE o = q
    BY <1>2, <1>3, <2>1, <2>2, HandleMovesOne DEF InFlight
  <2> QED BY <2>1, <2>2 DEF UpStep, Busy
<1> QED BY <1>1, <1>3, ArriveUp, AsideUp, NextSteps

AgreeingInv == TruthfulInv /\ UpInv

LEMMA AgreementHolds == Spec => []AgreeingInv
<1>1. Init => UpInv
  BY RowsAtFirst, NobodyAtFirst DEF UpInv, RowUp, Up, Down
<1>2. ASSUME AgreeingInv, Moves PROVE UpInv'
  BY <1>2, UpKept DEF AgreeingInv, TruthfulInv
<1> QED BY <1>1, <1>2, TruthHolds, SpecMoves, StutterMoves, PTL DEF Spec, AgreeingInv

\* Between requests every running row has a container on its port, and no
\* other row nor any deleted one has one (HostAgrees).
THEOREM RowsAgreeWithHost == Spec => []HostAgrees
<1>1. ASSUME AgreeingInv PROVE HostAgrees
  BY <1>1 DEF AgreeingInv, TruthfulInv, TruthInv, UpInv, UpClean, TruthClean, Without, HostAgrees,
              Quiet, RowTruth, RowUp, Up, Down
<1> QED BY <1>1, AgreementHolds, PTL
=============================================================================
