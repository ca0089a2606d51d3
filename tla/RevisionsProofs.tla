-------------------------- MODULE RevisionsProofs --------------------------
(***************************************************************************)
(* What holds of the revisions for every number of commits, commands and   *)
(* requests.                                                               *)
(***************************************************************************)
EXTENDS Revisions, SequenceTheorems, TLAPS

-----------------------------------------------------------------------------
(* The steps of a handler                                                  *)

\* What a handler holds at each of its points.
Fits(h) ==
    /\ h.pc \notin {"new", "done"} =>
         h.kind \in Kinds /\ h.mem \in Row /\ h.seen \in Row /\ h.mem.cmd \in Cmds
    /\ h.pc \in {"clone", "reset"} => h.arg \in Commits
    /\ h.pc = "file" => h.arg \in Cmds
    /\ h.pc = "building" => h.took \in Content

Rooted(h) ==
    \/ h.pc \in {"reset", "building", "relabel"}
    \/ (h.kind \in Pulls \cup {"rebuild"} /\ h.pc \notin {"new", "clone", "done"})

\* The tree stays once it is there, and is there for whoever builds from it.
Fitted ==
    /\ \A q \in Requests : Fits(req[q])
    /\ \A q \in Requests : Rooted(req[q]) => tree # None
    /\ app.cmd \in Cmds
    /\ agent.pc \in {"register", "build"} => dir \in Commits
    /\ agent.pc \in {"build", "label"} => local \in Row

\* A step of request q alone.
Moves(q) ==
    /\ req' \in [Requests -> RequestType] /\ Fits(req'[q])
    /\ \A o \in Requests \ {q} : req'[o] = req[o]

LEMMA SomePoints ==
    {"read", "slot", "tell", "build", "building", "run", "refresh", "wait", "commit", "relabel",
     "label"} \subseteq Pcs
BY DEF Pcs

\* A handler goes on to a stop of a deploy, or to its commit.
LEMMA OnwardTyped ==
    ASSUME TypeOK, NEW q \in Requests
    PROVE  /\ Onward(q) \in Stops \cup {"commit"} /\ Onward(q) \in Pcs /\ Left(q) \in Seq(Stops)
           /\ req[q].plan = <<>> => Onward(q) = "commit" /\ Left(q) = <<>>
<1>1. req[q].plan \in Seq(Stops)
  BY DEF TypeOK, RequestType
<1>2. CASE req[q].plan = <<>>
  BY <1>1, <1>2, SomePoints DEF Onward, Left
<1>3. CASE req[q].plan # <<>>
  <2>1. Head(req[q].plan) \in Stops /\ Tail(req[q].plan) \in Seq(Stops)
    BY <1>1, <1>3, HeadTailProperties
  <2> QED BY <1>3, <2>1, SomePoints DEF Onward, Left, Stops
<1> QED BY <1>2, <1>3

LEMMA FreshTyped ==
    /\ Fresh \in RequestType /\ Fresh.pc = "new" /\ Fits(Fresh) /\ Fresh.built = FALSE
    /\ Ended \in RequestType /\ Ended.pc = "done" /\ Ended.unsaved = FALSE /\ Fits(Ended)
<1>1. <<>> \in Seq(Stops)
  OBVIOUS
<1>2. Fresh \in RequestType
  BY <1>1 DEF Fresh, RequestType, Pcs
<1>3. Ended \in RequestType /\ Ended.pc = "done" /\ Ended.unsaved = FALSE
  BY <1>2, <1>1 DEF Ended, Fresh, RequestType, Pcs
<1> QED BY <1>2, <1>3 DEF Fresh, Fits

LEMMA FirstCmdTyped == FirstCmd \in Cmds /\ 1 \in Commits
BY RevisionAssumption DEF FirstCmd, Commits

LEMMA LabelTyped ==
    ASSUME TypeOK, Fitted, NEW q \in Requests, InFlight(q)
    PROVE  /\ Refreshed(q) \in Labels \cup {None}
           /\ tree # None => Refreshed(q) = Label /\ Label \in Labels /\ Label # None
<1>1. req[q].mem \in Row
  BY DEF Fitted, Fits, InFlight
<1>2. req[q].mem.source \in Labels \cup {None}
  BY <1>1 DEF Row
<1>3. ASSUME tree # None PROVE Label \in Labels
  <2>1. tree \in Trees
    BY <1>3 DEF TypeOK
  <2>2. tree.head \in Commits
    BY <2>1 DEF Trees
  <2> QED BY <2>2 DEF Label, Labels
<1>4. None \notin Labels
  BY RevisionAssumption
<1> QED BY <1>2, <1>3, <1>4 DEF Refreshed

LEMMA SavedTyped ==
    ASSUME TypeOK, NEW mem \in Row, NEW seen \in Row
    PROVE  /\ Saved(mem, seen) \in Row
           /\ mem.cmd \in Cmds /\ app.cmd \in Cmds => Saved(mem, seen).cmd \in Cmds
BY DEF TypeOK, Saved, Changed, Row

LEMMA HandlerMoves ==
    ASSUME TypeOK, Fitted, NEW q \in Requests, NEW h \in RequestType, Fits(h),
           req' = [req EXCEPT ![q] = h]
    PROVE  Moves(q) /\ req'[q] = h
BY DEF TypeOK, Fitted, Moves

LEMMA EndsMoves ==
    ASSUME TypeOK, Fitted, NEW q \in Requests, Ends(q)
    PROVE  Moves(q) /\ req'[q] = Ended
BY FreshTyped, HandlerMoves DEF Ends

LEMMA GotoMoves ==
    ASSUME TypeOK, Fitted, NEW q \in Requests, NEW pc \in Pcs, Goto(q, pc),
           pc \notin {"clone", "reset", "file", "building"}, InFlight(q)
    PROVE  /\ Moves(q) /\ req'[q].pc = pc /\ req'[q].kind = req[q].kind
           /\ req'[q].mem = req[q].mem /\ req'[q].seen = req[q].seen
           /\ req'[q].label = req[q].label /\ req'[q].unsaved = req[q].unsaved
           /\ req'[q].plan = req[q].plan /\ req'[q].built = req[q].built
<1> DEFINE h == [req[q] EXCEPT !.pc = pc]
<1>1. req[q] \in RequestType /\ Fits(req[q]) /\ req[q].pc \notin {"new", "done"}
  BY DEF TypeOK, Fitted, InFlight
<1>2. h \in RequestType /\ h.pc = pc /\ h.kind = req[q].kind /\ h.mem = req[q].mem
      /\ h.seen = req[q].seen /\ h.label = req[q].label /\ h.unsaved = req[q].unsaved
      /\ h.plan = req[q].plan /\ h.built = req[q].built
  BY <1>1 DEF RequestType
<1>3. Fits(h)
  BY <1>1, <1>2 DEF Fits
<1>4. req' = [req EXCEPT ![q] = h]
  BY <1>1 DEF Goto, TypeOK, RequestType
<1> HIDE DEF h
<1> QED BY <1>2, <1>3, <1>4, HandlerMoves

LEMMA ProceedMoves ==
    ASSUME TypeOK, Fitted, NEW q \in Requests, Proceed(q), InFlight(q)
    PROVE  /\ Moves(q) /\ req'[q].pc = Onward(q) /\ req'[q].kind = req[q].kind
           /\ req'[q].mem = req[q].mem /\ req'[q].seen = req[q].seen
           /\ req'[q].label = req[q].label /\ req'[q].unsaved = req[q].unsaved
           /\ req'[q].plan = Left(q) /\ req'[q].built = req[q].built
<1> DEFINE pc == Onward(q)
           plan == Left(q)
           h == [req[q] EXCEPT !.pc = pc, !.plan = plan]
<1>1. req[q] \in RequestType /\ Fits(req[q]) /\ req[q].pc \notin {"new", "done"}
  BY DEF TypeOK, Fitted, InFlight
<1>2. req' = [req EXCEPT ![q] = h]
  BY <1>1 DEF Proceed, TypeOK, RequestType
<1>3. pc \in Stops \cup {"commit"} /\ pc \in Pcs /\ plan \in Seq(Stops)
  BY OnwardTyped
<1> HIDE DEF pc, plan
<1>4. h \in RequestType /\ h.pc = pc /\ h.kind = req[q].kind /\ h.mem = req[q].mem
      /\ h.seen = req[q].seen /\ h.label = req[q].label /\ h.unsaved = req[q].unsaved
      /\ h.plan = plan /\ h.built = req[q].built
  BY <1>1, <1>3 DEF RequestType
<1>5. Fits(h)
  BY <1>1, <1>3, <1>4 DEF Fits, Stops
<1> HIDE DEF h
<1>6. Moves(q) /\ req'[q] = h
  BY <1>2, <1>4, <1>5, HandlerMoves
<1> QED BY <1>4, <1>6 DEF pc, plan

LEMMA BeginMoves ==
    ASSUME TypeOK, Fitted, NEW q \in Requests, NEW kind \in Kinds, NEW pc \in Pcs,
           NEW plan \in Seq(Stops),
           NEW arg \in Commits \cup Cmds \cup {None}, Begin(q, kind, arg, pc, plan),
           pc \in {"clone", "reset"} => arg \in Commits, pc = "file" => arg \in Cmds,
           pc \notin {"building", "new", "done"}
    PROVE  /\ Moves(q) /\ req'[q].pc = pc /\ req'[q].kind = kind /\ req'[q].arg = arg
           /\ req'[q].mem = app /\ req'[q].seen = app
           /\ req'[q].label = None /\ req'[q].unsaved = FALSE
           /\ req'[q].plan = plan /\ req'[q].built = FALSE
<1> DEFINE h == [Fresh EXCEPT !.kind = kind, !.arg = arg, !.pc = pc, !.plan = plan, !.seen = app,
                              !.mem = app]
<1>1. app \in Row /\ app.cmd \in Cmds
  BY DEF TypeOK, Fitted
<1>2. h \in RequestType /\ h.pc = pc /\ h.kind = kind /\ h.mem = app /\ h.arg = arg
      /\ h.seen = app /\ h.label = None /\ h.unsaved = FALSE /\ h.plan = plan /\ h.built = FALSE
  BY <1>1 DEF RequestType, Fresh
<1>3. Fits(h)
  BY <1>1, <1>2 DEF Fits
<1>4. req' = [req EXCEPT ![q] = h]
  BY DEF Begin
<1> HIDE DEF h
<1> QED BY <1>2, <1>3, <1>4, HandlerMoves

\* _deploy_app of a pull.
LEMMA CloneMoves ==
    ASSUME TypeOK, Fitted, NEW q \in Requests, Clone(q)
    PROVE  /\ Moves(q) /\ req[q].pc = "clone" /\ InFlight(q)
           /\ \/ req'[q] = Ended
              \/ /\ req[q].kind = "pull" /\ tree = None
                 /\ req'[q].pc = "commit" /\ req'[q].kind = req[q].kind
                 /\ req'[q].mem.image = None /\ req'[q].mem.cmd = req[q].mem.cmd
                 /\ req'[q].seen = req[q].seen
                 /\ req'[q].label = req[q].label /\ req'[q].unsaved = req[q].unsaved
                 /\ req'[q].plan = req[q].plan /\ req'[q].built = req[q].built
<1>1. req[q] \in RequestType /\ Fits(req[q]) /\ req[q].pc = "clone" /\ InFlight(q)
  BY DEF Clone, TypeOK, Fitted, InFlight
<1>2. CASE Ends(q)
  BY <1>1, <1>2, EndsMoves
<1>3. CASE ~Ends(q)
  <2> DEFINE mem == [req[q].mem EXCEPT !.source = [head |-> req[q].arg, dirty |-> FALSE], !.image = None]
             h == [req[q] EXCEPT !.mem = mem, !.pc = "commit"]
  <2>1. req[q].mem \in Row /\ req[q].mem.cmd \in Cmds /\ req[q].arg \in Commits
    BY <1>1 DEF Fits
  <2>2. mem \in Row /\ mem.cmd = req[q].mem.cmd /\ mem.image = None
    BY <2>1 DEF Row, Labels
  <2>3. req[q].kind = "pull" /\ tree = None /\ req' = [req EXCEPT ![q] = h]
    <3>1. /\ req[q].kind = "pull" /\ tree = None
          /\ req' = [req EXCEPT ![q].mem.source = [head |-> req[q].arg, dirty |-> FALSE],
                                ![q].mem.image = None, ![q].pc = "commit"]
      BY <1>1, <1>3 DEF Clone
    <3>2. req \in [Requests -> RequestType]
      BY DEF TypeOK
    <3> QED BY <1>1, <2>1, <3>1, <3>2 DEF RequestType, Row
  <2> HIDE DEF mem
  <2>4. h \in RequestType /\ h.pc = "commit" /\ h.kind = req[q].kind /\ h.mem = mem
        /\ h.seen = req[q].seen /\ h.label = req[q].label /\ h.unsaved = req[q].unsaved
        /\ h.plan = req[q].plan /\ h.built = req[q].built
    BY <1>1, <2>2, SomePoints DEF RequestType
  <2>5. Fits(h)
    BY <1>1, <2>1, <2>2, <2>4 DEF Fits
  <2> HIDE DEF h
  <2> QED BY <1>1, <2>2, <2>3, <2>4, <2>5, HandlerMoves
<1> QED BY <1>2, <1>3

\* deploy_zero_downtime reads the revision.
LEMMA ReadOnceMoves ==
    ASSUME TypeOK, Fitted, NEW q \in Requests, ReadOnce(q)
    PROVE  /\ Moves(q) /\ req[q].pc = "read" /\ InFlight(q)
           /\ req'[q].pc = Onward(q) /\ req'[q].kind = req[q].kind
           /\ req'[q].mem.image = req[q].mem.image /\ req'[q].mem.cmd = req[q].mem.cmd
           /\ req'[q].seen = req[q].seen /\ req'[q].unsaved = req[q].unsaved
           /\ req'[q].label = Refreshed(q)
           /\ req'[q].plan = Left(q) /\ req'[q].built = req[q].built
<1> DEFINE label == Refreshed(q)
           pc == Onward(q)
           plan == Left(q)
           mem == [req[q].mem EXCEPT !.source = label]
           h == [req[q] EXCEPT !.mem = mem, !.label = label, !.pc = pc, !.plan = plan]
<1>1. req[q] \in RequestType /\ Fits(req[q]) /\ req[q].pc = "read" /\ InFlight(q)
  BY DEF ReadOnce, TypeOK, Fitted, InFlight
<1>2. label \in Labels \cup {None}
  BY <1>1, LabelTyped
<1>3. pc \in Stops \cup {"commit"} /\ pc \in Pcs /\ plan \in Seq(Stops)
  BY OnwardTyped
<1>4. req' = [req EXCEPT ![q] = h]
  BY <1>1 DEF ReadOnce, TypeOK, RequestType, Row
<1>5. req[q].mem \in Row /\ req[q].mem.cmd \in Cmds
  BY <1>1 DEF Fits
<1>6. mem \in Row /\ mem.cmd = req[q].mem.cmd /\ mem.image = req[q].mem.image
  BY <1>5, <1>2 DEF Row
<1> HIDE DEF label, mem, pc, plan
<1>7. h \in RequestType /\ h.pc = pc /\ h.kind = req[q].kind /\ h.mem = mem
      /\ h.seen = req[q].seen /\ h.label = label /\ h.unsaved = req[q].unsaved
      /\ h.plan = plan /\ h.built = req[q].built
  BY <1>1, <1>2, <1>3, <1>6 DEF RequestType
<1>8. Fits(h)
  BY <1>1, <1>3, <1>5, <1>6, <1>7 DEF Fits, Stops
<1> HIDE DEF h
<1>9. Moves(q) /\ req'[q] = h
  BY <1>4, <1>7, <1>8, HandlerMoves
<1> QED BY <1>1, <1>6, <1>7, <1>9 DEF label, pc, plan

\* The row of a new replica is committed, with what the session holds.
LEMMA OpenSlotMoves ==
    ASSUME TypeOK, Fitted, NEW q \in Requests, OpenSlot(q)
    PROVE  /\ Moves(q) /\ req[q].pc = "slot" /\ InFlight(q)
           /\ req'[q].pc = "label" /\ req'[q].unsaved = FALSE
           /\ req'[q].kind = req[q].kind /\ req'[q].seen = req[q].mem
           /\ req'[q].label = req[q].label /\ req'[q].mem = req[q].mem
           /\ req'[q].plan = req[q].plan /\ req'[q].built = req[q].built
<1>1. req[q] \in RequestType /\ Fits(req[q]) /\ req[q].pc = "slot" /\ InFlight(q)
  BY DEF OpenSlot, TypeOK, Fitted, InFlight
<1> DEFINE h == [req[q] EXCEPT !.seen = req[q].mem, !.unsaved = FALSE, !.pc = "label"]
<1>2. req[q].mem \in Row /\ req[q].mem.cmd \in Cmds
  BY <1>1 DEF Fits
<1>3. req' = [req EXCEPT ![q] = h]
  BY <1>1, <1>2 DEF OpenSlot, Committed, TypeOK, RequestType
<1>4. h \in RequestType /\ h.pc = "label" /\ h.kind = req[q].kind /\ h.mem = req[q].mem
      /\ h.seen = req[q].mem /\ h.label = req[q].label /\ h.unsaved = FALSE
      /\ h.plan = req[q].plan /\ h.built = req[q].built
  BY <1>1, <1>2, SomePoints DEF RequestType
<1>5. Fits(h)
  BY <1>1, <1>2, <1>4 DEF Fits
<1> HIDE DEF h
<1>6. Moves(q) /\ req'[q] = h
  BY <1>3, <1>4, <1>5, HandlerMoves
<1> QED BY <1>1, <1>4, <1>6

LEMMA ReadLabelMoves ==
    ASSUME TypeOK, Fitted, NEW q \in Requests, ReadLabel(q)
    PROVE  LET early == req[q].kind \in Pulls
           IN  /\ Moves(q) /\ req[q].pc = "label" /\ InFlight(q)
               /\ req'[q].pc \in {"build", "run"} /\ req'[q].kind = req[q].kind
               /\ req'[q].pc = "run" => ~early /\ ~Outdated(req[q].mem, Refreshed(q))
               /\ req'[q].mem.image = req[q].mem.image /\ req'[q].mem.cmd = req[q].mem.cmd
               /\ req'[q].seen = req[q].seen /\ req'[q].unsaved = req[q].unsaved
               /\ req'[q].plan = req[q].plan /\ req'[q].built = req[q].built
               /\ req'[q].label = IF early THEN Refreshed(q) ELSE req[q].label
<1> DEFINE label == Refreshed(q)
           early == req[q].kind \in Pulls
           mem == [req[q].mem EXCEPT !.source = label]
           read == IF early THEN label ELSE req[q].label
           pc == IF early \/ Outdated(req[q].mem, label) THEN "build" ELSE "run"
           h == [req[q] EXCEPT !.mem = mem, !.label = read, !.pc = pc]
<1>1. req[q] \in RequestType /\ Fits(req[q]) /\ req[q].pc = "label" /\ InFlight(q)
  BY DEF ReadLabel, TypeOK, Fitted, InFlight
<1>2. label \in Labels \cup {None}
  BY <1>1, LabelTyped
<1>3. req' = [req EXCEPT ![q] = h]
  BY <1>1 DEF ReadLabel, TypeOK, RequestType, Row
<1>4. req[q].mem \in Row /\ req[q].mem.cmd \in Cmds
  BY <1>1 DEF Fits
<1>5. mem \in Row /\ mem.cmd = req[q].mem.cmd /\ mem.image = req[q].mem.image
  BY <1>4, <1>2 DEF Row
<1>6. read \in Labels \cup {None} /\ pc \in {"build", "run"}
  BY <1>1, <1>2 DEF RequestType
<1>7. pc = "run" => ~early /\ ~Outdated(req[q].mem, label)
  OBVIOUS
<1>8. read = IF early THEN label ELSE req[q].label
  OBVIOUS
<1> HIDE DEF mem, read, pc
<1>9. h \in RequestType
  BY <1>1, <1>5, <1>6, SomePoints DEF RequestType
<1>10. h.pc = pc /\ h.kind = req[q].kind /\ h.mem = mem /\ h.seen = req[q].seen
       /\ h.label = read /\ h.unsaved = req[q].unsaved
       /\ h.plan = req[q].plan /\ h.built = req[q].built
  BY <1>1 DEF RequestType
<1>11. Fits(h)
  BY <1>1, <1>4, <1>5, <1>6, <1>9, <1>10 DEF Fits
<1> HIDE DEF h, early
<1>12. Moves(q) /\ req'[q] = h
  BY <1>3, <1>9, <1>11, HandlerMoves
<1> QED BY <1>1, <1>5, <1>6, <1>7, <1>8, <1>10, <1>12 DEF early

\* build_image: refused, or begun.
LEMMA StartBuildMoves ==
    ASSUME TypeOK, Fitted, NEW q \in Requests, StartBuild(q)
    PROVE  /\ Moves(q) /\ req[q].pc = "build" /\ InFlight(q)
           /\ \/ /\ req'[q] = Ended /\ UNCHANGED <<lock, tree>>
                 /\ happened' = happened \cup Unrecorded(q)
              \/ /\ tree # None /\ lock = None /\ lock' = q
                 /\ tree' = [tree EXCEPT !.file = req[q].mem.cmd] /\ tree' \in Trees
                 /\ tree' # None /\ tree'.head = tree.head
                 /\ happened' = happened
                 /\ req'[q].pc = "building"
                 /\ req'[q].took.head = tree.head /\ req'[q].took.cmd = req[q].mem.cmd
                 /\ req'[q].kind = req[q].kind /\ req'[q].mem = req[q].mem
                 /\ req'[q].seen = req[q].seen /\ req'[q].label = req[q].label
                 /\ req'[q].unsaved = req[q].unsaved
                 /\ req'[q].plan = req[q].plan /\ req'[q].built = req[q].built
<1>1. req[q] \in RequestType /\ Fits(req[q]) /\ req[q].pc = "build" /\ InFlight(q)
  BY DEF StartBuild, TypeOK, Fitted, InFlight
<1>2. CASE ~(tree # None /\ lock = None)
  <2>1. Ends(q) /\ UNCHANGED <<lock, tree>> /\ happened' = happened \cup Unrecorded(q)
    BY <1>2 DEF StartBuild
  <2> QED BY <1>1, <2>1, EndsMoves
<1>3. CASE tree # None /\ lock = None
  <2> DEFINE took == [head |-> tree.head, cmd |-> req[q].mem.cmd]
             h == [req[q] EXCEPT !.took = took, !.pc = "building"]
  <2>1. req[q].mem \in Row /\ req[q].mem.cmd \in Cmds
    BY <1>1 DEF Fits
  <2>2. tree \in Trees
    BY <1>3 DEF TypeOK
  <2>3. took \in Content /\ took.head = tree.head /\ took.cmd = req[q].mem.cmd
    BY <2>1, <2>2 DEF Content, Trees
  <2>4. /\ lock' = q /\ tree' = [tree EXCEPT !.file = req[q].mem.cmd] /\ happened' = happened
        /\ req' = [req EXCEPT ![q] = h]
    BY <1>1, <1>3 DEF StartBuild, TypeOK, RequestType
  <2>5. tree' \in Trees /\ tree'.head = tree.head
    BY <2>1, <2>2, <2>4 DEF Trees
  <2>6. tree' # None
    BY <2>5, RevisionAssumption
  <2> HIDE DEF took
  <2>7. h \in RequestType /\ h.pc = "building" /\ h.took = took /\ h.kind = req[q].kind
        /\ h.mem = req[q].mem /\ h.seen = req[q].seen /\ h.label = req[q].label
        /\ h.unsaved = req[q].unsaved /\ h.plan = req[q].plan /\ h.built = req[q].built
    BY <1>1, <2>3, SomePoints DEF RequestType
  <2>8. Fits(h)
    BY <1>1, <2>1, <2>3, <2>7 DEF Fits
  <2> HIDE DEF h
  <2>9. Moves(q) /\ req'[q] = h
    BY <2>4, <2>7, <2>8, HandlerMoves
  <2> QED BY <1>1, <1>3, <2>3, <2>4, <2>5, <2>6, <2>7, <2>9
<1> QED BY <1>2, <1>3

LEMMA FinishBuildMoves ==
    ASSUME TypeOK, Fitted, NEW q \in Requests, FinishBuild(q)
    PROVE  /\ Moves(q) /\ req[q].pc = "building" /\ InFlight(q)
           /\ image' = req[q].took /\ image' \in Content /\ lock' = None
           /\ req'[q].pc = IF Foreseen(q) THEN Onward(q) ELSE "relabel"
           /\ req'[q].plan = IF Foreseen(q) THEN Left(q) ELSE req[q].plan
           /\ req'[q].unsaved = TRUE /\ req'[q].built = TRUE
           /\ req'[q].kind = req[q].kind /\ req'[q].seen = req[q].seen
           /\ req'[q].label = req[q].label
           /\ req'[q].mem.cmd = req[q].mem.cmd
           /\ req'[q].mem.image = IF Foreseen(q) /\ req[q].label # None
                                    THEN req[q].label ELSE req[q].mem.image
<1>1. req[q] \in RequestType /\ Fits(req[q]) /\ req[q].pc = "building" /\ InFlight(q)
  BY DEF FinishBuild, TypeOK, Fitted, InFlight
<1> DEFINE read == IF Foreseen(q) /\ req[q].label # None THEN req[q].label ELSE req[q].mem.image
           mem == [req[q].mem EXCEPT !.image = read]
           pc == IF Foreseen(q) THEN Onward(q) ELSE "relabel"
           plan == IF Foreseen(q) THEN Left(q) ELSE req[q].plan
           h == [req[q] EXCEPT !.took = None, !.built = TRUE, !.unsaved = TRUE, !.pc = pc,
                               !.plan = plan, !.mem = mem]
<1>2. req[q].mem \in Row /\ req[q].mem.cmd \in Cmds /\ req[q].took \in Content
  BY <1>1 DEF Fits
<1>3. read \in Labels \cup {None}
  BY <1>1, <1>2 DEF RequestType, Row
<1>4. pc \in Stops \cup {"commit", "relabel"} /\ pc \in Pcs /\ plan \in Seq(Stops)
  BY <1>1, OnwardTyped, SomePoints DEF RequestType
<1>5. req' = [req EXCEPT ![q] = h]
  BY <1>1, <1>2 DEF FinishBuild, FinishedBuild, TypeOK, RequestType, Row
<1> HIDE DEF read, pc, plan
<1>6. mem \in Row /\ mem.cmd = req[q].mem.cmd /\ mem.image = read
  BY <1>2, <1>3 DEF Row
<1> HIDE DEF mem
<1>7. h \in RequestType /\ h.pc = pc /\ h.kind = req[q].kind /\ h.mem = mem
      /\ h.seen = req[q].seen /\ h.label = req[q].label /\ h.unsaved = TRUE
      /\ h.plan = plan /\ h.built = TRUE
  BY <1>1, <1>4, <1>6 DEF RequestType
<1>8. Fits(h)
  BY <1>1, <1>2, <1>4, <1>6, <1>7 DEF Fits, Stops
<1> HIDE DEF h
<1>9. Moves(q) /\ req'[q] = h
  BY <1>5, <1>7, <1>8, HandlerMoves
<1>10. image' = req[q].took /\ lock' = None
  BY DEF FinishBuild
<1> QED BY <1>1, <1>2, <1>6, <1>7, <1>9, <1>10 DEF read, pc, plan

LEMMA RelabelMoves ==
    ASSUME TypeOK, Fitted, NEW q \in Requests, Relabel(q)
    PROVE  /\ Moves(q) /\ req[q].pc = "relabel" /\ InFlight(q)
           /\ req'[q].pc = IF req[q].kind = "rebuild" THEN "commit" ELSE "run"
           /\ req'[q].unsaved = req[q].unsaved
           /\ req'[q].plan = req[q].plan /\ req'[q].built = req[q].built
           /\ req'[q].kind = req[q].kind /\ req'[q].seen = req[q].seen
           /\ req'[q].label = req[q].label
           /\ req'[q].mem.cmd = req[q].mem.cmd
           /\ req'[q].mem.image = Refreshed(q)
<1>1. req[q] \in RequestType /\ Fits(req[q]) /\ req[q].pc = "relabel" /\ InFlight(q)
  BY DEF Relabel, TypeOK, Fitted, InFlight
<1> DEFINE read == Refreshed(q)
           mem == [req[q].mem EXCEPT !.source = read, !.image = read]
           pc == IF req[q].kind = "rebuild" THEN "commit" ELSE "run"
           h == [req[q] EXCEPT !.mem = mem, !.pc = pc]
<1>2. req[q].mem \in Row /\ req[q].mem.cmd \in Cmds
  BY <1>1 DEF Fits
<1>3. read \in Labels \cup {None}
  BY <1>1, LabelTyped
<1>4. pc \in {"commit", "run"}
  OBVIOUS
<1>5. req' = [req EXCEPT ![q] = h]
  BY <1>1, <1>2 DEF Relabel, TypeOK, RequestType, Row
<1> HIDE DEF read, pc
<1>6. mem \in Row /\ mem.cmd = req[q].mem.cmd /\ mem.image = read
  BY <1>2, <1>3 DEF Row
<1> HIDE DEF mem
<1>7. h \in RequestType /\ h.pc = pc /\ h.kind = req[q].kind /\ h.mem = mem
      /\ h.seen = req[q].seen /\ h.label = req[q].label /\ h.unsaved = req[q].unsaved
      /\ h.plan = req[q].plan /\ h.built = req[q].built
  BY <1>1, <1>4, <1>6, SomePoints DEF RequestType
<1>8. Fits(h)
  BY <1>1, <1>2, <1>4, <1>6, <1>7 DEF Fits
<1> HIDE DEF h
<1>9. Moves(q) /\ req'[q] = h
  BY <1>5, <1>7, <1>8, HandlerMoves
<1> QED BY <1>1, <1>6, <1>7, <1>9 DEF read, pc

LEMMA RefreshMoves ==
    ASSUME TypeOK, Fitted, NEW q \in Requests, Refresh(q)
    PROVE  /\ Moves(q) /\ req[q].pc = "refresh" /\ InFlight(q)
           /\ req'[q].pc = "wait" /\ req'[q].unsaved = FALSE
           /\ req'[q].kind = req[q].kind /\ req'[q].seen = req[q].mem
           /\ req'[q].label = req[q].label /\ req'[q].mem = req[q].mem
           /\ req'[q].plan = req[q].plan /\ req'[q].built = req[q].built
<1>1. req[q] \in RequestType /\ Fits(req[q]) /\ req[q].pc = "refresh" /\ InFlight(q)
  BY DEF Refresh, TypeOK, Fitted, InFlight
<1> DEFINE h == [req[q] EXCEPT !.seen = req[q].mem, !.unsaved = FALSE, !.pc = "wait"]
<1>2. req[q].mem \in Row /\ req[q].mem.cmd \in Cmds
  BY <1>1 DEF Fits
<1>3. req' = [req EXCEPT ![q] = h]
  BY <1>1, <1>2 DEF Refresh, Committed, TypeOK, RequestType
<1>4. h \in RequestType /\ h.pc = "wait" /\ h.kind = req[q].kind /\ h.mem = req[q].mem
      /\ h.seen = req[q].mem /\ h.label = req[q].label /\ h.unsaved = FALSE
      /\ h.plan = req[q].plan /\ h.built = req[q].built
  BY <1>1, <1>2, SomePoints DEF RequestType
<1>5. Fits(h)
  BY <1>1, <1>2, <1>4 DEF Fits
<1> HIDE DEF h
<1>6. Moves(q) /\ req'[q] = h
  BY <1>3, <1>4, <1>5, HandlerMoves
<1> QED BY <1>1, <1>4, <1>6

LEMMA QueueStartMoves ==
    ASSUME TypeOK, Fitted, NEW q \in Requests, QueueStart(q)
    PROVE  /\ Moves(q) /\ req[q].pc = "tell" /\ InFlight(q)
           /\ \/ req'[q] = Ended /\ req[q].kind # "zd"
              \/ /\ req[q].kind = "zd"
                 /\ req'[q].pc = Onward(q) /\ req'[q].unsaved = FALSE
                 /\ req'[q].plan = Left(q) /\ req'[q].built = req[q].built
                 /\ req'[q].kind = req[q].kind
                 /\ req'[q].seen.image = req[q].mem.image
                 /\ req'[q].seen.cmd = req[q].mem.cmd
                 /\ req'[q].label = req[q].label /\ req'[q].mem.cmd = req[q].mem.cmd
                 /\ req'[q].mem.image = req[q].mem.image
<1>1. req[q] \in RequestType /\ Fits(req[q]) /\ req[q].pc = "tell" /\ InFlight(q)
  BY DEF QueueStart, TypeOK, Fitted, InFlight
<1>2. CASE req[q].kind # "zd"
  BY <1>1, <1>2, EndsMoves DEF QueueStart
<1>3. CASE req[q].kind = "zd"
  <2> DEFINE read == Refreshed(q)
             seen == [req[q].mem EXCEPT !.source = read]
             pc == Onward(q)
             plan == Left(q)
             h == [req[q] EXCEPT !.seen = seen, !.unsaved = FALSE, !.mem = seen, !.pc = pc,
                                 !.plan = plan]
  <2>1. req[q].mem \in Row /\ req[q].mem.cmd \in Cmds
    BY <1>1 DEF Fits
  <2>2. read \in Labels \cup {None} /\ req[q].label \in Labels \cup {None}
    BY <1>1, LabelTyped DEF RequestType
  <2>3. req' = [req EXCEPT ![q] = h]
    <3> DEFINE c == Committed(q)
               d == [c EXCEPT !.mem.source = read, !.seen.source = read,
                              !.pc = pc, !.plan = plan]
    <3>1. c = [req[q] EXCEPT !.seen = req[q].mem, !.unsaved = FALSE]
      BY DEF Committed
    <3>2. c \in RequestType /\ c.mem = req[q].mem /\ c.seen = req[q].mem
      BY <1>1, <2>1, <3>1 DEF RequestType
    <3>3. d = [c EXCEPT !.seen = seen, !.mem = seen, !.pc = pc, !.plan = plan]
      BY <2>1, <3>2 DEF RequestType, Row
    <3>4. d = h
      BY <1>1, <3>1, <3>3 DEF RequestType
    <3> HIDE DEF h
    <3> QED BY <1>3, <3>4 DEF QueueStart
  <2> HIDE DEF read
  <2>9. pc \in Stops \cup {"commit"} /\ pc \in Pcs /\ plan \in Seq(Stops)
    BY OnwardTyped
  <2> HIDE DEF pc, plan
  <2>4. seen \in Row /\ seen.cmd = req[q].mem.cmd /\ seen.image = req[q].mem.image
    BY <2>1, <2>2 DEF Row
  <2> HIDE DEF seen
  <2>6. h \in RequestType /\ h.pc = pc /\ h.kind = req[q].kind /\ h.mem = seen
        /\ h.seen = seen /\ h.label = req[q].label /\ h.unsaved = FALSE
        /\ h.plan = plan /\ h.built = req[q].built
    BY <1>1, <2>4, <2>9 DEF RequestType
  <2>7. Fits(h)
    BY <1>1, <2>1, <2>4, <2>6, <2>9 DEF Fits, Stops
  <2> HIDE DEF h
  <2>8. Moves(q) /\ req'[q] = h
    BY <2>3, <2>6, <2>7, HandlerMoves
  <2> QED BY <1>1, <1>3, <2>4, <2>6, <2>8 DEF pc, plan
<1> QED BY <1>2, <1>3

LEMMA WriteDockerfileMoves ==
    ASSUME TypeOK, Fitted, NEW q \in Requests, WriteDockerfile(q)
    PROVE  /\ Moves(q) /\ req[q].pc = "file" /\ InFlight(q)
           /\ tree' \in Trees \cup {None} /\ (tree' = None <=> tree = None)
           /\ tree # None => tree'.head = tree.head
           /\ req'[q].pc = "commit" /\ req'[q].unsaved = req[q].unsaved
           /\ req'[q].plan = req[q].plan /\ req'[q].built = req[q].built
           /\ req'[q].kind = req[q].kind /\ req'[q].seen = req[q].seen
           /\ req'[q].label = req[q].label /\ req'[q].mem.image = None
<1>1. req[q] \in RequestType /\ Fits(req[q]) /\ req[q].pc = "file" /\ InFlight(q)
  BY DEF WriteDockerfile, TypeOK, Fitted, InFlight
<1> DEFINE mem == [req[q].mem EXCEPT !.cmd = req[q].arg, !.image = None]
           h == [req[q] EXCEPT !.mem = mem, !.pc = "commit"]
<1>2. req[q].mem \in Row /\ req[q].arg \in Cmds
  BY <1>1 DEF Fits
<1>3. req' = [req EXCEPT ![q] = h]
  BY <1>1, <1>2 DEF WriteDockerfile, TypeOK, RequestType, Row
<1>4. mem \in Row /\ mem.cmd = req[q].arg /\ mem.image = None
  BY <1>2 DEF Row
<1> HIDE DEF mem
<1>5. h \in RequestType /\ h.pc = "commit" /\ h.kind = req[q].kind /\ h.mem = mem
      /\ h.seen = req[q].seen /\ h.label = req[q].label /\ h.unsaved = req[q].unsaved
      /\ h.plan = req[q].plan /\ h.built = req[q].built
  <2>1. h.pc = "commit" /\ h.kind = req[q].kind /\ h.mem = mem /\ h.seen = req[q].seen
        /\ h.label = req[q].label /\ h.unsaved = req[q].unsaved
        /\ h.plan = req[q].plan /\ h.built = req[q].built
    BY <1>1 DEF RequestType
  <2>2. "commit" \in Pcs
    BY DEF Pcs
  <2> QED BY <1>1, <1>4, <2>1, <2>2 DEF RequestType
<1>6. Fits(h)
  BY <1>1, <1>2, <1>4, <1>5 DEF Fits
<1> HIDE DEF h
<1>7. Moves(q) /\ req'[q] = h
  BY <1>3, <1>5, <1>6, HandlerMoves
<1>8. tree' \in Trees \cup {None} /\ (tree' = None <=> tree = None) /\ (tree # None => tree'.head = tree.head)
  <2>1. CASE tree = None
    BY <2>1 DEF WriteDockerfile
  <2>2. CASE tree # None
    <3>1. tree \in Trees /\ tree' = [tree EXCEPT !.file = req[q].arg]
      BY <2>2 DEF WriteDockerfile, TypeOK
    <3>2. tree' \in Trees /\ tree'.head = tree.head
      BY <3>1, <1>2 DEF Trees
    <3> QED BY <2>2, <3>2, RevisionAssumption
  <2> QED BY <2>1, <2>2
<1> QED BY <1>1, <1>4, <1>5, <1>7, <1>8

\* The agent's answer reaches a handler that is waiting for it.
LEMMA AnswerMoves ==
    ASSUME TypeOK, Fitted, agent.cmd \in Command, NEW what \in {"done", "failed"}, Answer(what)
    PROVE  \E b \in Requests :
             /\ b = agent.cmd.by /\ Moves(b)
             /\ req'[b].pc = req[b].pc /\ req'[b].kind = req[b].kind
             /\ req'[b].mem = req[b].mem /\ req'[b].seen = req[b].seen
             /\ req'[b].label = req[b].label /\ req'[b].unsaved = req[b].unsaved
             /\ req'[b].plan = req[b].plan /\ req'[b].built = req[b].built
             /\ req'[b].took = req[b].took
             /\ req[b].pc # "wait" => req' = req
<1> DEFINE b == agent.cmd.by
           a == IF req[b].pc = "wait" THEN what ELSE req[b].answer
           h == [req[b] EXCEPT !.answer = a]
<1>1. b \in Requests
  BY DEF Command
<1>2. req[b] \in RequestType /\ Fits(req[b])
  BY <1>1 DEF TypeOK, Fitted
<1>3. req' = [req EXCEPT ![b] = h]
  BY <1>1, <1>2 DEF Answer, TypeOK, RequestType
<1>4. a \in {None, "done", "failed"}
  BY <1>2 DEF RequestType
<1>5. req[b].pc # "wait" => req' = req
  BY <1>1, <1>2, <1>3 DEF RequestType, TypeOK
<1> HIDE DEF a
<1>6. h \in RequestType /\ h.pc = req[b].pc /\ h.kind = req[b].kind /\ h.mem = req[b].mem
      /\ h.seen = req[b].seen /\ h.label = req[b].label /\ h.unsaved = req[b].unsaved
      /\ h.plan = req[b].plan /\ h.built = req[b].built
      /\ h.took = req[b].took /\ h.arg = req[b].arg
  BY <1>2, <1>4 DEF RequestType
<1>7. Fits(h)
  BY <1>2, <1>6 DEF Fits
<1> HIDE DEF h, b
<1>8. Moves(b) /\ req'[b] = h
  BY <1>1, <1>3, <1>6, <1>7, HandlerMoves
<1> QED BY <1>1, <1>5, <1>6, <1>8 DEF b

-----------------------------------------------------------------------------
(* Every variable keeps its shape                                          *)

LEMMA TellTyped ==
    ASSUME TypeOK, NEW type \in {"start", "refresh"}, NEW label \in Labels \cup {None},
           NEW cmd \in Cmds \cup {None}, NEW q \in Requests, Tell(type, label, cmd, q)
    PROVE  queue' \in Seq(Command)
<1> DEFINE c == [type |-> type, label |-> label, cmd |-> cmd, by |-> q]
<1>1. c \in Command
  BY DEF Command
<1>2. queue' = Append(queue, c)
  BY DEF Tell
<1> HIDE DEF c
<1> QED BY <1>1, <1>2 DEF TypeOK

LEMMA TroubleTyped ==
    ASSUME TypeOK, UNCHANGED trouble \/ Trouble
    PROVE  trouble' \in 0..MaxTrouble
BY RevisionAssumption DEF TypeOK, Trouble

\* A step of a handler that leaves the primary's variables alone.
LEMMA QuietTyped ==
    ASSUME TypeOK, Fitted, NEW q \in Requests, Moves(q), UNCHANGED <<primaryVars, nodeVars, agent, owed>>,
           req[q].pc # "building", req'[q].pc # "building",
           Rooted(req'[q]) => tree # None,
           UNCHANGED queue,
           UNCHANGED trouble \/ Trouble,
           happened' \subseteq happened \cup {"crossed", "unrecorded", "unbuilt"}
    PROVE  TypeOK' /\ Fitted'
<1>1. /\ tree' = tree /\ app' = app /\ image' = image /\ lock' = lock /\ local' = local
      /\ dir' = dir /\ img' = img /\ agent' = agent /\ owed' = owed /\ queue' = queue
  BY DEF primaryVars, nodeVars
<1>2. \A o \in Requests : req'[o].pc = "building" <=> lock' = o
  BY <1>1 DEF TypeOK, Moves
<1>3. trouble' \in 0..MaxTrouble
  BY TroubleTyped
<1>4. TypeOK'
  BY <1>1, <1>2, <1>3 DEF TypeOK, Moves, Command, Idle
<1>5. Fitted'
  BY <1>1 DEF Fitted, Moves
<1> QED BY <1>4, <1>5

\* Any other step of a handler.
LEMMA RequestTyped ==
    ASSUME TypeOK, Fitted, NEW q \in Requests, Moves(q), UNCHANGED <<nodeVars, agent>>,
           tree' \in Trees \cup {None}, tree # None => tree' # None,
           app' \in Row, app'.cmd \in Cmds, image' \in Content \cup {None},
           lock' \in Requests \cup {None},
           \A o \in Requests : req'[o].pc = "building" <=> lock' = o,
           Rooted(req'[q]) => tree' # None,
           queue' \in Seq(Command), owed' \in Commits \cup {None},
           UNCHANGED trouble \/ Trouble,
           happened' \subseteq happened \cup {"crossed", "unrecorded", "unbuilt"}
    PROVE  TypeOK' /\ Fitted'
<1>1. local' = local /\ dir' = dir /\ img' = img /\ agent' = agent
  BY DEF nodeVars
<1>2. trouble' \in 0..MaxTrouble
  BY TroubleTyped
<1>3. TypeOK'
  BY <1>1, <1>2 DEF TypeOK, Moves, Command, Idle
<1>4. Fitted'
  BY <1>1 DEF Fitted, Moves
<1> QED BY <1>3, <1>4

LEMMA LockKept ==
    ASSUME TypeOK, NEW q \in Requests, Moves(q), lock' = lock,
           req[q].pc # "building", req'[q].pc # "building"
    PROVE  \A o \in Requests : req'[o].pc = "building" <=> lock' = o
BY DEF TypeOK, Moves

\* Who goes on has its tree still.
LEMMA StaysRooted ==
    ASSUME Fitted, NEW q \in Requests,
           \/ req'[q].pc = "done"
           \/ /\ req'[q].kind = req[q].kind /\ req[q].pc \notin {"new", "clone", "done"}
              /\ req'[q].pc \notin {"reset", "building", "relabel"}
    PROVE  Rooted(req'[q]) => tree # None
BY DEF Fitted, Rooted

LEMMA ArriveTyped ==
    ASSUME TypeOK, Fitted, NEW q \in Requests, Arrive(q)
    PROVE  /\ TypeOK' /\ Fitted' /\ Moves(q) /\ req[q].pc = "new"
           /\ UNCHANGED <<primaryVars, queue, nodeVars, agent, owed>>
           /\ \E kind \in Kinds, pc \in Pcs, plan \in Seq(Stops),
              arg \in Commits \cup Cmds \cup {None} :
                /\ Begin(q, kind, arg, pc, plan)
                /\ req'[q].plan = plan /\ req'[q].built = FALSE /\ (kind # "zd" => plan = <<>>)
                /\ req'[q].pc = pc /\ req'[q].kind = kind /\ req'[q].arg = arg
                /\ req'[q].mem = app /\ req'[q].seen = app
                /\ req'[q].label = None /\ req'[q].unsaved = FALSE
                /\ \/ kind \in Pulls /\ pc = "clone" /\ tree = None
                   \/ kind \in Pulls /\ pc = "reset" /\ tree # None
                   \/ kind = "rebuild" /\ pc = "build" /\ tree # None
                   \/ kind = "start" /\ pc = "label"
                   \/ kind = "remote" /\ pc = "tell"
                   \/ kind = "zd" /\ pc = "read"
                   \/ kind = "update" /\ pc = "file"
<1>0. <<>> \in Seq(Stops)
  OBVIOUS
<1>1. PICK kind \in Kinds, pc \in Pcs, plan \in Seq(Stops),
           arg \in Commits \cup Cmds \cup {None} :
         /\ Begin(q, kind, arg, pc, plan) /\ (kind # "zd" => plan = <<>>)
         /\ pc \in {"clone", "reset"} => arg \in Commits
         /\ pc = "file" => arg \in Cmds
         /\ \/ kind \in Pulls /\ pc = "clone" /\ tree = None
            \/ kind \in Pulls /\ pc = "reset" /\ tree # None
            \/ kind = "rebuild" /\ pc = "build" /\ tree # None
            \/ kind = "start" /\ pc = "label"
            \/ kind = "remote" /\ pc = "tell"
            \/ kind = "zd" /\ pc = "read"
            \/ kind = "update" /\ pc = "file"
  <2>1. CASE Pull(q)
    BY <2>1, <1>0 DEF Pull, Pulls, Kinds, Pcs
  <2>2. CASE Rebuild(q)
    BY <2>2, <1>0 DEF Rebuild, Kinds, Pcs
  <2>3. CASE StartLocal(q)
    BY <2>3, <1>0 DEF StartLocal, Kinds, Pcs
  <2>4. CASE StartRemote(q)
    BY <2>4, <1>0 DEF StartRemote, Kinds, Pcs
  <2>5. CASE DeployZeroDowntime(q)
    BY <2>5, RevisionAssumption DEF DeployZeroDowntime, Kinds, Pcs
  <2>6. CASE UpdateApp(q)
    BY <2>6, <1>0 DEF UpdateApp, Kinds, Pcs
  <2> QED BY <2>1, <2>2, <2>3, <2>4, <2>5, <2>6 DEF Arrive
<1>2. pc \notin {"building", "relabel", "new", "done"}
  BY <1>1
<1>3. /\ Moves(q) /\ req'[q].pc = pc /\ req'[q].kind = kind /\ req'[q].arg = arg
      /\ req'[q].mem = app /\ req'[q].seen = app
      /\ req'[q].label = None /\ req'[q].unsaved = FALSE
      /\ req'[q].plan = plan /\ req'[q].built = FALSE
  BY <1>1, <1>2, BeginMoves
<1>4. /\ req[q].pc = "new" /\ UNCHANGED <<primaryVars, queue, nodeVars, agent, owed>>
      /\ UNCHANGED trouble \/ Trouble
      /\ happened' \subseteq happened \cup {"crossed", "unrecorded", "unbuilt"}
  BY <1>1 DEF Begin
<1>5. UNCHANGED <<primaryVars, nodeVars, agent, owed>> /\ UNCHANGED queue
  BY <1>4
<1>6. Rooted(req'[q]) => tree # None
  BY <1>1, <1>2, <1>3 DEF Rooted, Pulls
<1>7. TypeOK' /\ Fitted'
  BY <1>2, <1>3, <1>4, <1>5, <1>6, QuietTyped
<1> QED BY <1>1, <1>3, <1>4, <1>7

LEMMA SavesTyped ==
    ASSUME TypeOK, Fitted, NEW q \in Requests, InFlight(q), NEW mem \in Row, mem.cmd \in Cmds,
           app' = Saved(mem, req[q].seen)
    PROVE  app' \in Row /\ app'.cmd \in Cmds
<1>1. req[q].seen \in Row /\ app.cmd \in Cmds
  BY DEF Fitted, Fits, InFlight
<1> QED BY <1>1, SavedTyped

LEMMA HandleTyped ==
    ASSUME TypeOK, Fitted, NEW q \in Requests, Handle(q)
    PROVE  TypeOK' /\ Fitted'
<1> USE DEF primaryVars, nodeVars
<1>0. /\ req[q] \in RequestType /\ Fits(req[q])
      /\ tree \in Trees \cup {None} /\ app \in Row /\ app.cmd \in Cmds /\ image \in Content \cup {None}
      /\ lock \in Requests \cup {None} /\ queue \in Seq(Command) /\ owed \in Commits \cup {None}
  BY DEF TypeOK, Fitted
<1>1. CASE Clone(q)
  <2>1. Moves(q) /\ req[q].pc = "clone" /\ InFlight(q) /\ req'[q].pc \in {"commit", "done"}
    BY <1>1, CloneMoves, FreshTyped
  <2>2. tree' \in Trees \cup {None} /\ (tree # None => tree' # None)
    <3>1. req[q].arg \in Commits /\ req[q].mem.cmd \in Cmds
      BY <1>0, <2>1 DEF Fits, InFlight
    <3>2. CASE tree = None
      <4>1. tree' = [head |-> req[q].arg, file |-> req[q].mem.cmd]
        BY <1>1, <3>2 DEF Clone
      <4> QED BY <3>1, <3>2, <4>1 DEF Trees
    <3>3. CASE tree # None
      BY <1>0, <1>1, <3>3 DEF Clone
    <3> QED BY <3>2, <3>3
  <2>3. /\ app' = app /\ image' = image /\ lock' = lock /\ queue' = queue /\ owed' = owed
        /\ trouble' = trouble /\ happened' = happened /\ UNCHANGED <<nodeVars, agent>>
    BY <1>1 DEF Clone
  <2>4. \A o \in Requests : req'[o].pc = "building" <=> lock' = o
    BY <2>1, <2>3, LockKept
  <2>5. Rooted(req'[q]) => tree' # None
    <3>1. CASE tree = None
      <4>1. tree' \in Trees
        BY <1>0, <1>1, <2>1, <3>1 DEF Clone, Trees, Fits, InFlight
      <4> QED BY <4>1, RevisionAssumption
    <3>2. CASE tree # None
      BY <2>2, <3>2
    <3> QED BY <3>1, <3>2
  <2> QED BY <1>0, <2>1, <2>2, <2>3, <2>4, <2>5, RequestTyped
<1>2. CASE Reset(q)
  <2>1. req[q].pc = "reset" /\ Goto(q, "label") /\ InFlight(q)
    BY <1>2 DEF Reset, InFlight
  <2>2. Moves(q) /\ req'[q].pc = "label"
    BY <2>1, GotoMoves DEF Pcs
  <2>3. tree \in Trees /\ req[q].arg \in Commits
    BY <1>0, <2>1 DEF Fitted, Fits, Rooted
  <2>4. tree' \in Trees
    BY <1>2, <2>3 DEF Reset, Trees
  <2>5. tree' # None
    BY <2>4, RevisionAssumption
  <2>6. /\ app' = app /\ image' = image /\ lock' = lock /\ queue' = queue /\ owed' = None
        /\ trouble' = trouble /\ happened' = happened /\ UNCHANGED <<nodeVars, agent>>
    BY <1>2 DEF Reset
  <2>7. \A o \in Requests : req'[o].pc = "building" <=> lock' = o
    BY <2>1, <2>2, <2>6, LockKept
  <2> QED BY <1>0, <2>2, <2>4, <2>5, <2>6, <2>7, RequestTyped
<1>3. CASE ReadLabel(q)
  <2>1. /\ Moves(q) /\ req[q].pc = "label" /\ req'[q].pc \in {"build", "run"}
        /\ req'[q].kind = req[q].kind
    BY <1>3, ReadLabelMoves
  <2>2. Rooted(req'[q]) => tree # None
    BY <2>1, StaysRooted
  <2> QED BY <1>3, <2>1, <2>2, QuietTyped DEF ReadLabel
<1>13. CASE ReadOnce(q)
  <2>1. /\ Moves(q) /\ req[q].pc = "read" /\ req'[q].pc \in Stops \cup {"commit"}
        /\ req'[q].kind = req[q].kind
    BY <1>13, ReadOnceMoves, OnwardTyped
  <2>2. Rooted(req'[q]) => tree # None
    BY <2>1, StaysRooted DEF Stops
  <2> QED BY <1>13, <2>1, <2>2, QuietTyped DEF ReadOnce, Stops
<1>14. CASE OpenSlot(q)
  <2>1. Moves(q) /\ req[q].pc = "slot" /\ InFlight(q) /\ req'[q].pc = "label"
    BY <1>14, OpenSlotMoves
  <2>2. req[q].mem \in Row /\ req[q].mem.cmd \in Cmds
    BY <1>0, <2>1 DEF Fits, InFlight
  <2>3. app' \in Row /\ app'.cmd \in Cmds
    BY <1>14, <2>1, <2>2, SavesTyped DEF OpenSlot, Write
  <2>4. tree' = tree /\ image' = image /\ lock' = lock /\ queue' = queue /\ owed' = owed
        /\ trouble' = trouble /\ happened' = happened /\ UNCHANGED <<nodeVars, agent>>
    BY <1>14 DEF OpenSlot
  <2>5. \A o \in Requests : req'[o].pc = "building" <=> lock' = o
    BY <2>1, <2>4, LockKept
  <2>6. Rooted(req'[q]) => tree' # None
    BY <1>14, <2>1, <2>4, OpenSlotMoves, StaysRooted
  <2> QED BY <1>0, <2>1, <2>3, <2>4, <2>5, <2>6, RequestTyped
<1>4. CASE StartBuild(q)
  <2>1. Moves(q) /\ req[q].pc = "build" /\ InFlight(q)
    BY <1>4, StartBuildMoves
  <2>2. app' = app /\ image' = image /\ queue' = queue /\ owed' = owed /\ trouble' = trouble
        /\ UNCHANGED <<nodeVars, agent>>
    BY <1>4 DEF StartBuild
  <2>3. CASE /\ req'[q] = Ended /\ UNCHANGED <<lock, tree>>
             /\ happened' = happened \cup Unrecorded(q)
    <3>1. req'[q].pc = "done"
      BY <2>3, FreshTyped
    <3>2. \A o \in Requests : req'[o].pc = "building" <=> lock' = o
      BY <2>1, <2>3, <3>1, LockKept
    <3>3. happened' \subseteq happened \cup {"crossed", "unrecorded", "unbuilt"}
      BY <2>3 DEF Unrecorded
    <3>4. Rooted(req'[q]) => tree' # None
      BY <2>3, <3>1, StaysRooted
    <3> QED BY <1>0, <2>1, <2>2, <2>3, <3>1, <3>2, <3>3, <3>4, RequestTyped
  <2>4. CASE /\ lock = None /\ lock' = q /\ tree' \in Trees /\ tree' # None
             /\ happened' = happened /\ req'[q].pc = "building"
    <3>1. \A o \in Requests : req'[o].pc = "building" <=> lock' = o
      BY <2>1, <2>4, RevisionAssumption DEF TypeOK, Moves
    <3> QED BY <1>0, <2>1, <2>2, <2>4, <3>1, RequestTyped
  <2> QED BY <1>4, <2>3, <2>4, StartBuildMoves
<1>5. CASE FinishBuild(q)
  <2>1. /\ Moves(q) /\ req[q].pc = "building" /\ image' \in Content /\ lock' = None
        /\ req'[q].pc \in Stops \cup {"commit", "relabel"}
    BY <1>5, FinishBuildMoves, OnwardTyped
  <2>2. lock = q /\ tree # None
    BY <2>1 DEF TypeOK, Fitted, Rooted
  <2>3. tree' = tree /\ app' = app /\ queue' = queue /\ owed' = owed /\ trouble' = trouble
        /\ happened' = happened /\ UNCHANGED <<nodeVars, agent>>
    BY <1>5 DEF FinishBuild
  <2>4. \A o \in Requests : req'[o].pc = "building" <=> lock' = o
    BY <2>1, <2>2, RevisionAssumption DEF TypeOK, Moves, Stops
  <2> QED BY <1>0, <2>1, <2>2, <2>3, <2>4, RequestTyped
<1>6. CASE Relabel(q)
  <2>1. /\ Moves(q) /\ req[q].pc = "relabel" /\ req'[q].pc \in {"commit", "run"}
        /\ req'[q].kind = req[q].kind
    BY <1>6, RelabelMoves
  <2>2. Rooted(req'[q]) => tree # None
    BY <2>1, StaysRooted
  <2> QED BY <1>6, <2>1, <2>2, QuietTyped DEF Relabel
<1>7. CASE Run(q)
  <2>1. Goto(q, "build") \/ Proceed(q)
    BY <1>7 DEF Run
  <2>2. req[q].pc = "run" /\ InFlight(q)
    BY <1>7 DEF Run, InFlight
  <2>3. Moves(q) /\ req'[q].pc \in Stops \cup {"commit"} /\ req'[q].kind = req[q].kind
    BY <2>1, <2>2, GotoMoves, ProceedMoves, OnwardTyped, SomePoints DEF Stops
  <2>4. Rooted(req'[q]) => tree # None
    BY <2>2, <2>3, StaysRooted DEF Stops
  <2> QED BY <1>7, <2>2, <2>3, <2>4, QuietTyped DEF Run, Stops
<1>8. CASE Refresh(q)
  <2>1. Moves(q) /\ req[q].pc = "refresh" /\ InFlight(q) /\ req'[q].pc = "wait"
    BY <1>8, RefreshMoves
  <2>2. req[q].mem \in Row /\ req[q].mem.cmd \in Cmds /\ req[q].label \in Labels \cup {None}
    BY <1>0, <2>1 DEF Fits, RequestType, InFlight
  <2>3. app' \in Row /\ app'.cmd \in Cmds
    BY <1>8, <2>1, <2>2, SavesTyped DEF Refresh, Write
  <2>4. queue' \in Seq(Command)
    BY <1>8, <2>2, TellTyped DEF Refresh
  <2>5. tree' = tree /\ image' = image /\ lock' = lock /\ owed' = owed
        /\ trouble' = trouble /\ happened' = happened /\ UNCHANGED <<nodeVars, agent>>
    BY <1>8 DEF Refresh
  <2>6. \A o \in Requests : req'[o].pc = "building" <=> lock' = o
    BY <2>1, <2>5, LockKept
  <2>7. Rooted(req'[q]) => tree' # None
    BY <1>8, <2>1, <2>5, RefreshMoves, StaysRooted
  <2> QED BY <1>0, <2>1, <2>3, <2>4, <2>5, <2>6, <2>7, RequestTyped
<1>9. CASE Answered(q)
  <2>1. req[q].pc = "wait" /\ InFlight(q)
    BY <1>9 DEF Answered, InFlight
  <2>2. /\ Moves(q) /\ req'[q].pc \in Stops \cup {"commit", "done"}
        /\ req'[q].kind = req[q].kind \/ req'[q].pc = "done"
    BY <1>9, <2>1, ProceedMoves, OnwardTyped, EndsMoves, FreshTyped DEF Answered
  <2>3. Rooted(req'[q]) => tree # None
    BY <2>1, <2>2, StaysRooted DEF Stops
  <2> QED BY <1>9, <2>1, <2>2, <2>3, QuietTyped DEF Answered, Stops
<1>10. CASE QueueStart(q)
  <2>1. /\ Moves(q) /\ req[q].pc = "tell" /\ InFlight(q)
        /\ req'[q].pc \in Stops \cup {"done", "commit"}
    BY <1>10, QueueStartMoves, FreshTyped, OnwardTyped
  <2>2. req[q].mem \in Row /\ req[q].mem.cmd \in Cmds /\ Refreshed(q) \in Labels \cup {None}
    BY <1>0, <2>1, LabelTyped DEF Fits, InFlight
  <2>3. app' \in Row /\ app'.cmd \in Cmds
    <3> DEFINE mem == [req[q].mem EXCEPT !.source = Refreshed(q)]
    <3>1. mem \in Row /\ mem.cmd \in Cmds
      BY <2>2 DEF Row
    <3>2. app' = Saved(mem, req[q].seen)
      BY <1>10 DEF QueueStart
    <3> HIDE DEF mem
    <3> QED BY <2>1, <3>1, <3>2, SavesTyped
  <2>4. queue' \in Seq(Command)
    BY <1>10, <2>2, TellTyped DEF QueueStart
  <2>5. tree' = tree /\ image' = image /\ lock' = lock /\ owed' = owed
        /\ trouble' = trouble /\ happened' = happened /\ UNCHANGED <<nodeVars, agent>>
    BY <1>10 DEF QueueStart
  <2>6. \A o \in Requests : req'[o].pc = "building" <=> lock' = o
    BY <2>1, <2>5, LockKept DEF Stops
  <2>7. req'[q].pc = "done" \/ req'[q].kind = req[q].kind
    BY <1>10, QueueStartMoves, FreshTyped
  <2>8. Rooted(req'[q]) => tree' # None
    BY <2>1, <2>5, <2>7, StaysRooted DEF Stops
  <2> QED BY <1>0, <2>1, <2>3, <2>4, <2>5, <2>6, <2>8, RequestTyped
<1>11. CASE WriteDockerfile(q)
  <2>1. /\ Moves(q) /\ req[q].pc = "file" /\ req'[q].pc = "commit"
        /\ tree' \in Trees \cup {None} /\ (tree' = None <=> tree = None)
    BY <1>11, WriteDockerfileMoves
  <2>2. app' = app /\ image' = image /\ lock' = lock /\ owed' = owed /\ queue' = queue
        /\ trouble' = trouble /\ happened' = happened /\ UNCHANGED <<nodeVars, agent>>
    BY <1>11 DEF WriteDockerfile
  <2>3. \A o \in Requests : req'[o].pc = "building" <=> lock' = o
    BY <2>1, <2>2, LockKept
  <2>4. Rooted(req'[q]) => tree' # None
    BY <1>11, <2>1, WriteDockerfileMoves, StaysRooted
  <2> QED BY <1>0, <2>1, <2>2, <2>3, <2>4, RequestTyped
<1>12. CASE Commit(q)
  <2>1. req[q].pc = "commit" /\ InFlight(q) /\ Ends(q)
    BY <1>12 DEF Commit, InFlight
  <2>2. Moves(q) /\ req'[q].pc = "done"
    BY <2>1, EndsMoves, FreshTyped
  <2>3. req[q].mem \in Row /\ req[q].mem.cmd \in Cmds /\ req[q].label \in Labels \cup {None}
    BY <1>0, <2>1 DEF Fits, RequestType, InFlight
  <2>4. app' \in Row /\ app'.cmd \in Cmds
    <3>1. Final(q) \in Row /\ Final(q).cmd \in Cmds
      BY <2>3 DEF Final, Row
    <3> QED BY <1>12, <2>1, <3>1, SavesTyped DEF Commit, Claims
  <2>5. tree' = tree /\ image' = image /\ lock' = lock
        /\ trouble' = trouble /\ happened' \subseteq happened \cup {"unbuilt"}
        /\ UNCHANGED <<nodeVars, agent>>
    BY <1>12 DEF Commit, Claims
  <2>6. queue' \in Seq(Command) /\ owed' \in Commits \cup {None}
    <3>1. CASE req[q].kind = "pull" /\ req[q].label # None
      <4>1. Tell("refresh", req[q].label, None, q) /\ owed' = tree.head
        BY <1>12, <3>1 DEF Commit
      <4>2. queue' \in Seq(Command)
        BY <2>3, <4>1, TellTyped
      <4>3. tree \in Trees
        BY <3>1, <2>1 DEF TypeOK, Fitted, Rooted, Pulls
      <4> QED BY <4>1, <4>2, <4>3 DEF Trees
    <3>2. CASE ~(req[q].kind = "pull" /\ req[q].label # None)
      BY <1>0, <1>12, <3>2 DEF Commit
    <3> QED BY <3>1, <3>2
  <2>7. \A o \in Requests : req'[o].pc = "building" <=> lock' = o
    BY <2>1, <2>2, <2>5, LockKept
  <2>8. Rooted(req'[q]) => tree' # None
    BY <2>2, <2>5, StaysRooted
  <2> QED BY <1>0, <2>2, <2>4, <2>5, <2>6, <2>7, <2>8, RequestTyped
<1> QED BY <1>1, <1>2, <1>3, <1>4, <1>5, <1>6, <1>7, <1>8, <1>9, <1>10, <1>11, <1>12, <1>13, <1>14
   DEF Handle

LEMMA TroublesTyped ==
    ASSUME TypeOK, Fitted, NEW q \in Requests, TimesOut(q) \/ RunFails(q) \/ Abandon(q)
    PROVE  TypeOK' /\ Fitted'
<1> USE DEF primaryVars, nodeVars
<1>1. CASE TimesOut(q)
  <2>1. Moves(q) /\ req[q].pc = "wait" /\ req'[q].pc = "done"
    BY <1>1, EndsMoves, FreshTyped DEF TimesOut
  <2>2. Rooted(req'[q]) => tree # None
    BY <2>1, StaysRooted
  <2> QED BY <1>1, <2>1, <2>2, QuietTyped DEF TimesOut
<1>2. CASE RunFails(q)
  <2>1. req[q].pc = "run" /\ InFlight(q) /\ Goto(q, "build")
    BY <1>2 DEF RunFails, InFlight
  <2>2. Moves(q) /\ req'[q].pc = "build" /\ req'[q].kind = req[q].kind
    BY <2>1, GotoMoves DEF Pcs
  <2>3. Rooted(req'[q]) => tree # None
    BY <2>1, <2>2, StaysRooted
  <2> QED BY <1>2, <2>1, <2>2, <2>3, QuietTyped DEF RunFails
<1>3. CASE Abandon(q)
  <2>1. Moves(q) /\ req'[q].pc = "done"
    BY <1>3, EndsMoves, FreshTyped DEF Abandon
  <2>2. /\ tree' = tree /\ app' = app /\ image' = image /\ queue' = queue /\ owed' = owed
        /\ lock' = IF lock = q THEN None ELSE lock
        /\ Trouble /\ happened' = happened \cup Unrecorded(q) /\ UNCHANGED <<nodeVars, agent>>
    BY <1>3 DEF Abandon
  <2>3. \A o \in Requests : req'[o].pc = "building" <=> lock' = o
    BY <2>1, <2>2, RevisionAssumption DEF TypeOK, Moves
  <2>4. Rooted(req'[q]) => tree' # None
    BY <2>1, <2>2, StaysRooted
  <2>5. happened' \subseteq happened \cup {"crossed", "unrecorded", "unbuilt"}
    BY <2>2 DEF Unrecorded
  <2>6. /\ tree' \in Trees \cup {None} /\ app' \in Row /\ app'.cmd \in Cmds
        /\ image' \in Content \cup {None} /\ lock' \in Requests \cup {None}
        /\ queue' \in Seq(Command) /\ owed' \in Commits \cup {None}
        /\ (tree # None => tree' # None)
    BY <2>2 DEF TypeOK, Fitted
  <2> QED BY <2>1, <2>2, <2>3, <2>4, <2>5, <2>6, RequestTyped
<1> QED BY <1>1, <1>2, <1>3

\* The states of the agent.
Working == [pc : {"download", "register", "build", "label", "run"}, cmd : Command]

\* A step of the agent, with or without an answer.
LEMMA AgentTyped ==
    ASSUME TypeOK, Fitted, UNCHANGED <<primaryVars, owed>>,
           queue' \in Seq(Command), local' \in Row \cup {None},
           dir' \in Commits \cup {None}, img' \in Content \cup {None},
           agent' \in Working \cup {Idle},
           agent'.pc \in {"register", "build"} => dir' \in Commits,
           agent'.pc \in {"build", "label"} => local' \in Row, UNCHANGED trouble \/ Trouble,
           happened' \subseteq {"crossed", "unrecorded", "unbuilt", "moved", "bare", "stopped", "unlabelled"},
           UNCHANGED req \/ (agent.cmd \in Command /\ \E what \in {"done", "failed"} : Answer(what))
    PROVE  TypeOK' /\ Fitted'
<1>1. tree' = tree /\ app' = app /\ image' = image /\ lock' = lock /\ owed' = owed
  BY DEF primaryVars
<1>2. trouble' \in 0..MaxTrouble
  BY TroubleTyped
<1>3. /\ req' \in [Requests -> RequestType]
      /\ \A q \in Requests : Fits(req'[q]) /\ req'[q].pc = req[q].pc /\ req'[q].kind = req[q].kind
  <2>1. CASE UNCHANGED req
    BY <2>1 DEF TypeOK, Fitted
  <2>2. CASE agent.cmd \in Command /\ \E what \in {"done", "failed"} : Answer(what)
    <3>1. PICK b \in Requests : Moves(b) /\ req'[b].pc = req[b].pc /\ req'[b].kind = req[b].kind
      BY <2>2, AnswerMoves
    <3> QED BY <3>1 DEF Moves, Fitted
  <2> QED BY <2>1, <2>2
<1>4. TypeOK'
  BY <1>1, <1>2, <1>3 DEF TypeOK, Working, Command, Idle
<1>5. Fitted'
  <2>1. \A q \in Requests : Rooted(req'[q]) => tree' # None
    BY <1>1, <1>3 DEF Fitted, Rooted
  <2> QED BY <1>1, <1>3, <2>1 DEF Fitted
<1> QED BY <1>4, <1>5

LEMMA AgentStepTyped ==
    ASSUME TypeOK, Fitted, AgentStep \/ AgentFails
    PROVE  TypeOK' /\ Fitted'
<1> USE DEF nodeVars
<1>a. Idle.pc = "idle"
  BY DEF Idle
<1>0. /\ queue \in Seq(Command) /\ local \in Row \cup {None} /\ dir \in Commits \cup {None}
      /\ img \in Content \cup {None} /\ agent \in Working \cup {Idle}
      /\ happened \subseteq {"crossed", "unrecorded", "unbuilt", "moved", "bare", "stopped", "unlabelled"}
  BY DEF TypeOK, Working
<1>1. CASE Take
  <2>1. queue # <<>> /\ queue' = Tail(queue)
    BY <1>1 DEF Take
  <2>2. Head(queue) \in Command /\ queue' \in Seq(Command)
    BY <1>0, <2>1, HeadTailProperties
  <2>3. PICK pc \in {"run", "download"} : agent' = [pc |-> pc, cmd |-> Head(queue)]
    BY <1>1 DEF Take
  <2>4. agent' \in Working /\ agent'.pc \in {"run", "download"}
    BY <2>2, <2>3 DEF Working
  <2> QED BY <1>0, <1>1, <2>2, <2>4, <1>a, AgentTyped DEF Take
<1>2. CASE Download
  <2>1. agent \in Working /\ agent.cmd \in Command
    BY <1>0, <1>2 DEF Download, Idle, Working
  <2>2. CASE tree = None
    BY <1>0, <1>2, <2>1, <2>2, <1>a, AgentTyped DEF Download
  <2>3. CASE tree # None
    <3>1. tree \in Trees
      BY <2>3 DEF TypeOK
    <3>2. agent' = [agent EXCEPT !.pc = "register"] /\ dir' = tree.head /\ req' = req
          /\ happened' \subseteq happened \cup {"moved"}
      BY <1>2, <2>3 DEF Download, Work
    <3>3. agent' \in Working /\ dir' \in Commits /\ agent'.pc = "register"
      BY <2>1, <3>1, <3>2 DEF Working, Trees
    <3> QED BY <1>0, <1>2, <3>2, <3>3, <1>a, AgentTyped DEF Download
  <2> QED BY <2>2, <2>3
<1>3. CASE Register
  <2>1. agent \in Working /\ agent.cmd \in Command
    BY <1>0, <1>3 DEF Register, Idle, Working
  <2>2. agent' \in Working /\ dir' \in Commits
    BY <1>3, <2>1 DEF Register, Work, Working, Fitted
  <2>8. PICK detected \in Cmds \cup {None} :
          LET cmd == agent.cmd
              row == IF local = None
                       THEN [source |-> None, image |-> None,
                             cmd |-> IF cmd.cmd = None THEN detected ELSE cmd.cmd]
                       ELSE IF cmd.cmd \in {None, local.cmd} THEN local
                              ELSE [local EXCEPT !.cmd = cmd.cmd, !.image = None]
          IN  local' = [row EXCEPT !.source = IF cmd.label = None THEN @ ELSE cmd.label]
    BY <1>3, FirstCmdTyped DEF Register
  <2> DEFINE cmd == agent.cmd
             row == IF local = None
                      THEN [source |-> None, image |-> None,
                            cmd |-> IF cmd.cmd = None THEN detected ELSE cmd.cmd]
                      ELSE IF cmd.cmd \in {None, local.cmd} THEN local
                             ELSE [local EXCEPT !.cmd = cmd.cmd, !.image = None]
  <2>3. local' = [row EXCEPT !.source = IF cmd.label = None THEN row.source ELSE cmd.label]
    BY <2>8
  <2>4. cmd.cmd \in Cmds \cup {None} /\ cmd.label \in Labels \cup {None}
    BY <2>1 DEF Command
  <2>5. row \in Row
    BY <1>0, <2>4 DEF Row
  <2> HIDE DEF row, cmd
  <2>6. row.source \in Labels \cup {None}
    BY <2>5 DEF Row
  <2>7. local' \in Row
    BY <2>3, <2>4, <2>5, <2>6 DEF Row
  <2> QED BY <1>0, <1>3, <2>2, <2>7, <1>a, AgentTyped DEF Register
<1>4. CASE BuildImage
  <2>1. agent \in Working /\ agent.cmd \in Command /\ agent.pc = "build"
    BY <1>0, <1>4 DEF BuildImage, Idle, Working
  <2>2. agent' \in Working
    BY <1>4, <2>1 DEF BuildImage, Work, Working
  <2>3. img' = [head |-> dir, cmd |-> agent.cmd.cmd] /\ dir \in Commits /\ local \in Row
    BY <1>4, <2>1 DEF BuildImage, Fitted
  <2>4. img' \in Content
    BY <2>1, <2>3 DEF Content, Command
  <2>5. agent'.pc = "label" /\ local' = local /\ dir' = dir
    BY <1>4, <2>1 DEF BuildImage, Work, Working
  <2> QED BY <1>0, <1>4, <2>2, <2>3, <2>4, <2>5, <1>a, AgentTyped DEF BuildImage
<1>5. CASE RecordImage
  <2>1. agent \in Working /\ agent.cmd \in Command /\ agent.pc = "label" /\ local \in Row
    BY <1>0, <1>5 DEF RecordImage, Idle, Working, Fitted
  <2>2. local' \in Row
    <3>1. agent.cmd.label \in Labels \cup {None}
      BY <2>1 DEF Command
    <3> QED BY <1>5, <2>1, <3>1 DEF RecordImage, Row
  <2>3. CASE agent.cmd.type = "start"
    <3>1. agent' \in Working /\ agent'.pc = "run" /\ req' = req
      BY <1>5, <2>1, <2>3 DEF RecordImage, Work, Working
    <3> QED BY <1>0, <1>5, <2>2, <3>1, <1>a, AgentTyped DEF RecordImage
  <2>4. CASE agent.cmd.type # "start"
    BY <1>0, <1>a, <1>5, <2>1, <2>2, <2>4, AgentTyped DEF RecordImage
  <2> QED BY <2>3, <2>4
<1>6. CASE RunRemote
  <2>1. agent \in Working /\ agent.cmd \in Command
    BY <1>0, <1>6 DEF RunRemote, Idle, Working
  <2> QED BY <1>0, <1>6, <2>1, <1>a, AgentTyped DEF RunRemote
<1>7. CASE AgentFails
  <2>1. agent \in Working /\ agent.cmd \in Command
    BY <1>0, <1>7 DEF AgentFails, Idle, Working
  <2>2. happened' \subseteq {"crossed", "unrecorded", "unbuilt", "moved", "bare", "stopped", "unlabelled"}
    BY <1>0, <1>7 DEF AgentFails
  <2> QED BY <1>0, <1>7, <2>1, <2>2, <1>a, AgentTyped DEF AgentFails
<1> QED BY <1>1, <1>2, <1>3, <1>4, <1>5, <1>6, <1>7 DEF AgentStep

LEMMA InitTyped == Init => TypeOK /\ Fitted
<1> SUFFICES ASSUME Init PROVE TypeOK /\ Fitted
  OBVIOUS
<1>1. [head |-> 1, file |-> FirstCmd] \in Trees /\ [head |-> 1, cmd |-> FirstCmd] \in Content
  BY FirstCmdTyped DEF Trees, Content
<1>2. /\ Deployed \in Row /\ Deployed.cmd \in Cmds /\ Recorded \in Row /\ Recorded.cmd \in Cmds
      /\ [Deployed EXCEPT !.source = None] \in Row
      /\ [Deployed EXCEPT !.source = None].cmd \in Cmds
  BY FirstCmdTyped DEF Deployed, Recorded, Row, Labels
<1>3. PICK start \in Starts :
         /\ tree = IF start = "absent" THEN None ELSE [head |-> 1, file |-> FirstCmd]
         /\ app = CASE start = "absent"   -> [Deployed EXCEPT !.source = None]
                    [] start = "deployed" -> Deployed
                    [] start = "built"    -> Recorded
         /\ image = IF start = "built" THEN [head |-> 1, cmd |-> FirstCmd] ELSE None
         /\ local = IF start = "built" THEN Recorded ELSE None
         /\ dir = IF start = "built" THEN 1 ELSE None
         /\ img = IF start = "built" THEN [head |-> 1, cmd |-> FirstCmd] ELSE None
  BY DEF Init
<1>4. start \in {"absent", "deployed", "built"}
  BY RevisionAssumption
<1>5. /\ tree \in Trees \cup {None} /\ app \in Row /\ app.cmd \in Cmds
      /\ image \in Content \cup {None} /\ local \in Row \cup {None}
      /\ dir \in Commits \cup {None} /\ img \in Content \cup {None}
  BY <1>1, <1>2, <1>3, <1>4, FirstCmdTyped
<1>6. /\ lock = None /\ req = [q \in Requests |-> Fresh] /\ queue = <<>> /\ agent = Idle
      /\ owed = None /\ trouble = 0 /\ happened = {}
  BY DEF Init
<1>7. /\ req \in [Requests -> RequestType]
      /\ \A q \in Requests : req[q].pc = "new" /\ Fits(req[q]) /\ lock # q
  BY <1>6, FreshTyped, RevisionAssumption
<1>8. TypeOK
  BY <1>5, <1>6, <1>7, RevisionAssumption DEF TypeOK
<1>9. Fitted
  BY <1>5, <1>6, <1>7 DEF Fitted, Rooted, Idle
<1> QED BY <1>8, <1>9

LEMMA StepTyped == TypeOK /\ Fitted /\ [Next]_vars => TypeOK' /\ Fitted'
<1> SUFFICES ASSUME TypeOK, Fitted, [Next]_vars PROVE TypeOK' /\ Fitted'
  OBVIOUS
<1>1. ASSUME NEW q \in Requests, Arrive(q) PROVE TypeOK' /\ Fitted'
  BY <1>1, ArriveTyped
<1>2. ASSUME NEW q \in Requests, Handle(q) PROVE TypeOK' /\ Fitted'
  BY <1>2, HandleTyped
<1>3. ASSUME NEW q \in Requests, TimesOut(q) \/ RunFails(q) \/ Abandon(q)
      PROVE TypeOK' /\ Fitted'
  BY <1>3, TroublesTyped
<1>4. CASE AgentStep \/ AgentFails
  BY <1>4, AgentStepTyped
<1>5. CASE UNCHANGED vars
  BY <1>5 DEF vars, TypeOK, Fitted, Command, Idle
<1> QED BY <1>1, <1>2, <1>3, <1>4, <1>5 DEF Next, Rests

\* In every reachable state of an application with any number of commits,
\* commands and requests, every variable has its shape and the build lock of
\* docker_manager.py is held by the one request that is building.
THEOREM RevisionsTyped == Spec => [](TypeOK /\ Fitted)
<1>1. Init => TypeOK /\ Fitted
  BY InitTyped
<1>2. TypeOK /\ Fitted /\ [Next]_vars => TypeOK' /\ Fitted'
  BY StepTyped
<1> QED BY <1>1, <1>2, PTL DEF Spec

THEOREM TypeCorrect == Spec => []TypeOK
<1>1. TypeOK /\ Fitted => TypeOK
  OBVIOUS
<1> QED BY <1>1, RevisionsTyped, PTL

-----------------------------------------------------------------------------
(* The node runs what it is asked                                          *)

\* Only a refresh may come without a start command.
Sound == {c \in Command : c.type = "start" => c.cmd \in Cmds}

\* How far the agent has followed the command it works on.
Followed ==
    /\ agent.pc # "idle" => agent.cmd \in Sound
    /\ agent.pc \in {"register", "build", "label"} /\ "moved" \notin happened =>
         agent.cmd.label # None /\ dir = agent.cmd.label.head
    /\ agent.pc \in {"build", "label"} => agent.cmd.cmd \in {None, local.cmd}
    /\ agent.pc = "label" =>
         /\ img # None
         /\ "moved" \notin happened => img.head = agent.cmd.label.head
         /\ "bare" \notin happened => img.cmd = agent.cmd.cmd /\ img.cmd \in Cmds

\* What the node's columns say of its image between two commands.
Kept ==
    /\ happened \cap {"moved", "unlabelled"} = {} /\ agent.pc # "label" =>
         (local # None /\ local.image # None => img # None /\ img.head = local.image.head)
    /\ "bare" \notin happened =>
         (local # None /\ local.image # None => img # None /\ img.cmd = local.cmd)

NodeInv == queue \in Seq(Sound) /\ Followed /\ Kept /\ NodeRunsWhatIsAsked

\* No request reaches into the node, but by the commands it queues.
LEMMA RequestsOnlyTell ==
    ASSUME TypeOK, Fitted, NEW q \in Requests,
           Arrive(q) \/ Handle(q) \/ TimesOut(q) \/ RunFails(q) \/ Abandon(q)
    PROVE  /\ UNCHANGED <<nodeVars, agent>>
           /\ happened \subseteq happened'
           /\ happened' \subseteq happened \cup {"crossed", "unrecorded", "unbuilt"}
           /\ \/ UNCHANGED queue
              \/ \E c \in Sound : queue' = Append(queue, c)
<1>1. CASE Arrive(q)
  <2>1. /\ UNCHANGED <<primaryVars, queue, nodeVars, agent, owed>>
        /\ \E kind \in Kinds, pc \in Pcs, plan \in Seq(Stops),
              arg \in Commits \cup Cmds \cup {None} :
             Begin(q, kind, arg, pc, plan)
    BY <1>1, ArriveTyped
  <2> QED BY <2>1 DEF Begin
<1>2. CASE Clone(q) \/ Reset(q) \/ ReadOnce(q) \/ OpenSlot(q) \/ ReadLabel(q) \/ FinishBuild(q)
           \/ Relabel(q) \/ Run(q) \/ Answered(q) \/ WriteDockerfile(q)
  BY <1>2 DEF Clone, Reset, ReadOnce, OpenSlot, ReadLabel, FinishBuild, Relabel, Run, Answered, WriteDockerfile
<1>3. CASE StartBuild(q) \/ TimesOut(q) \/ RunFails(q) \/ Abandon(q)
  BY <1>3 DEF StartBuild, TimesOut, RunFails, Abandon, Unrecorded, primaryVars
<1>4. ASSUME InFlight(q)
      PROVE  /\ req[q].mem.cmd \in Cmds /\ req[q].label \in Labels \cup {None}
             /\ Refreshed(q) \in Labels \cup {None}
  BY <1>4, LabelTyped DEF Fitted, Fits, InFlight, TypeOK, RequestType
<1>5. CASE Refresh(q)
  <2>1. InFlight(q)
    BY <1>5 DEF Refresh, InFlight
  <2>2. [type |-> "refresh", label |-> req[q].label, cmd |-> req[q].mem.cmd, by |-> q] \in Sound
    BY <1>4, <2>1 DEF Sound, Command
  <2> QED BY <1>5, <2>2 DEF Refresh, Tell
<1>6. CASE QueueStart(q)
  <2>1. InFlight(q)
    BY <1>6 DEF QueueStart, InFlight
  <2>2. [type |-> "start", label |-> Refreshed(q), cmd |-> req[q].mem.cmd, by |-> q] \in Sound
    BY <1>4, <2>1 DEF Sound, Command
  <2> QED BY <1>6, <2>2 DEF QueueStart, Tell
<1>7. CASE Commit(q)
  <2>1. InFlight(q)
    BY <1>7 DEF Commit, InFlight
  <2>2. [type |-> "refresh", label |-> req[q].label, cmd |-> None, by |-> q] \in Sound
    BY <1>4, <2>1 DEF Sound, Command
  <2> QED BY <1>7, <2>2 DEF Commit, Claims, Tell
<1> QED BY <1>1, <1>2, <1>3, <1>5, <1>6, <1>7 DEF Handle

LEMMA NodeStep ==
    ASSUME TypeOK, Fitted, NodeInv, [Next]_vars
    PROVE  NodeInv'
<1> USE DEF nodeVars
<1>0. queue \in Seq(Sound) /\ Followed /\ Kept /\ NodeRunsWhatIsAsked
  BY DEF NodeInv
<1>1. ASSUME UNCHANGED <<nodeVars, agent>>, happened \subseteq happened',
             happened' \subseteq happened \cup {"crossed", "unrecorded", "unbuilt"}
      PROVE  Followed' /\ Kept' /\ NodeRunsWhatIsAsked'
  BY <1>0, <1>1 DEF Followed, Kept, NodeRunsWhatIsAsked
<1>2. ASSUME NEW q \in Requests,
             Arrive(q) \/ Handle(q) \/ TimesOut(q) \/ RunFails(q) \/ Abandon(q)
      PROVE  NodeInv'
  <2>1. queue' \in Seq(Sound)
    BY <1>0, <1>2, RequestsOnlyTell
  <2> QED BY <1>1, <1>2, <2>1, RequestsOnlyTell DEF NodeInv
<1>3. CASE Take
  <2>1. /\ queue # <<>> /\ queue' = Tail(queue)
        /\ UNCHANGED <<local, dir, img, happened>>
        /\ agent'.cmd = Head(queue)
        /\ agent'.pc = IF Head(queue).type = "start" /\ Ready(Head(queue)) THEN "run" ELSE "download"
    BY <1>3 DEF Take
  <2>2. Head(queue) \in Sound /\ queue' \in Seq(Sound)
    BY <1>0, <2>1, HeadTailProperties
  <2>3. agent'.pc \in {"run", "download"}
    BY <2>1
  <2>4. agent.pc = "idle"
    BY <1>3 DEF Take
  <2>5. Followed'
    BY <2>1, <2>2, <2>3 DEF Followed
  <2>6. Kept'
    BY <1>0, <2>1, <2>3, <2>4 DEF Kept
  <2>7. NodeRunsWhatIsAsked'
    <3> SUFFICES ASSUME agent'.pc = "run", agent'.cmd.label # None PROVE NodeRunsWhatIsAsked'
      BY DEF NodeRunsWhatIsAsked
    <3> DEFINE c == Head(queue)
    <3>1. c.type = "start" /\ Ready(c)
      BY <2>1
    <3>2. local # None /\ img # None /\ local.image = c.label /\ c.label # None
      BY <2>1, <3>1 DEF Ready
    <3>3. c.cmd \in Cmds
      BY <2>2, <3>1 DEF Sound
    <3>4. local.cmd = c.cmd
      BY <3>1, <3>3, RevisionAssumption DEF Ready
    <3> HIDE DEF c
    <3>5. happened \cap {"moved", "unlabelled"} = {} => img.head = c.label.head
      BY <1>0, <2>4, <3>2 DEF Kept
    <3>6. "bare" \notin happened => img.cmd = c.cmd
      BY <1>0, <3>2, <3>4 DEF Kept
    <3> QED BY <2>1, <3>2, <3>5, <3>6 DEF NodeRunsWhatIsAsked, c
  <2> QED BY <2>2, <2>5, <2>6, <2>7 DEF NodeInv
<1>4. ASSUME UNCHANGED queue, Followed', Kept', NodeRunsWhatIsAsked' PROVE NodeInv'
  BY <1>0, <1>4 DEF NodeInv
<1>a. Idle.pc = "idle"
  BY DEF Idle
<1>b. agent.pc # "idle" => agent \in Working /\ agent.cmd \in Sound
  BY <1>0 DEF TypeOK, Working, Idle, Followed
<1>5. CASE Download
  <2>1. /\ agent.pc = "download" /\ agent \in Working /\ UNCHANGED <<queue, local, img>>
    BY <1>5, <1>b DEF Download
  <2>2. CASE tree = None
    <3>1. agent'.pc = "idle" /\ UNCHANGED <<dir, happened>>
      BY <1>5, <1>a, <2>2 DEF Download
    <3> QED BY <1>0, <1>4, <2>1, <3>1 DEF Followed, Kept, NodeRunsWhatIsAsked
  <2>3. CASE tree # None
    <3>1. /\ agent' = [agent EXCEPT !.pc = "register"] /\ dir' = tree.head
          /\ happened' = happened \cup
                   (IF agent.cmd.label # None /\ agent.cmd.label.head = tree.head
                      THEN {} ELSE {"moved"})
      BY <1>5, <2>3 DEF Download, Work
    <3>2. agent'.pc = "register" /\ agent'.cmd = agent.cmd
      BY <2>1, <3>1 DEF Working
    <3>3. Followed'
      BY <1>b, <2>1, <3>1, <3>2 DEF Followed
    <3>4. Kept'
      BY <1>0, <2>1, <3>1, <3>2 DEF Kept
    <3>5. NodeRunsWhatIsAsked'
      BY <3>2 DEF NodeRunsWhatIsAsked
    <3> QED BY <1>4, <2>1, <3>3, <3>4, <3>5
  <2> QED BY <2>2, <2>3
<1>6. CASE Register
  <2>1. /\ agent.pc = "register" /\ agent \in Working /\ UNCHANGED <<queue, dir, img, happened>>
        /\ agent' = [agent EXCEPT !.pc = "build"]
    BY <1>6, <1>b DEF Register, Work
  <2>2. agent'.pc = "build" /\ agent'.cmd = agent.cmd
    BY <2>1 DEF Working
  <2>3. /\ local' \in Row /\ agent.cmd.cmd \in {None, local'.cmd}
        /\ local'.image # None => local # None /\ local'.image = local.image /\ local'.cmd = local.cmd
    <3>6. PICK detected \in Cmds \cup {None} :
            LET cmd == agent.cmd
                row == IF local = None
                         THEN [source |-> None, image |-> None,
                               cmd |-> IF cmd.cmd = None THEN detected ELSE cmd.cmd]
                         ELSE IF cmd.cmd \in {None, local.cmd} THEN local
                                ELSE [local EXCEPT !.cmd = cmd.cmd, !.image = None]
            IN  local' = [row EXCEPT !.source = IF cmd.label = None THEN @ ELSE cmd.label]
      BY <1>6, FirstCmdTyped DEF Register
    <3> DEFINE cmd == agent.cmd
               row == IF local = None
                        THEN [source |-> None, image |-> None,
                              cmd |-> IF cmd.cmd = None THEN detected ELSE cmd.cmd]
                        ELSE IF cmd.cmd \in {None, local.cmd} THEN local
                               ELSE [local EXCEPT !.cmd = cmd.cmd, !.image = None]
    <3>1. local' = [row EXCEPT !.source = IF cmd.label = None THEN row.source ELSE cmd.label]
      BY <3>6
    <3>2. cmd.cmd \in Cmds \cup {None} /\ cmd.label \in Labels \cup {None} /\ local \in Row \cup {None}
      BY <2>1 DEF Command, Working, TypeOK
    <3> HIDE DEF cmd
    <3>3. row \in Row /\ cmd.cmd \in {None, row.cmd}
          /\ (row.image # None => local # None /\ row.image = local.image /\ row.cmd = local.cmd)
      BY <3>2 DEF Row
    <3> HIDE DEF row
    <3>4. row.source \in Labels \cup {None}
      BY <3>3 DEF Row
    <3>5. local' \in Row /\ local'.cmd = row.cmd /\ local'.image = row.image
      BY <3>1, <3>2, <3>3, <3>4 DEF Row
    <3> QED BY <3>3, <3>5 DEF cmd
  <2>4. Followed'
    BY <1>0, <1>b, <2>1, <2>2, <2>3 DEF Followed
  <2>5. Kept'
    BY <1>0, <2>1, <2>2, <2>3 DEF Kept
  <2>6. NodeRunsWhatIsAsked'
    BY <2>2 DEF NodeRunsWhatIsAsked
  <2> QED BY <1>4, <2>1, <2>4, <2>5, <2>6
<1>7. CASE BuildImage
  <2>1. /\ agent.pc = "build" /\ agent \in Working /\ UNCHANGED <<queue, dir, local>>
        /\ agent' = [agent EXCEPT !.pc = "label"]
        /\ img' = [head |-> dir, cmd |-> agent.cmd.cmd]
        /\ happened' = happened \cup (IF agent.cmd.cmd = None THEN {"bare"} ELSE {})
    BY <1>7, <1>b DEF BuildImage, Work
  <2>2. agent'.pc = "label" /\ agent'.cmd = agent.cmd /\ agent.cmd.cmd \in Cmds \cup {None}
    BY <2>1 DEF Working, Command
  <2>3. dir \in Commits /\ local \in Row
    BY <2>1 DEF Fitted
  <2>4. img' \in Content /\ img'.head = dir /\ img'.cmd = agent.cmd.cmd
    BY <2>1, <2>2, <2>3 DEF Content
  <2>5. img' # None
    BY <2>4, RevisionAssumption
  <2>6. Followed'
    BY <1>0, <1>b, <2>1, <2>2, <2>4, <2>5 DEF Followed
  <2>7. Kept'
    BY <1>0, <2>1, <2>2, <2>4, <2>5 DEF Kept, Followed
  <2>8. NodeRunsWhatIsAsked'
    BY <2>2 DEF NodeRunsWhatIsAsked
  <2> QED BY <1>4, <2>1, <2>6, <2>7, <2>8
<1>8. CASE RecordImage
  <2>1. /\ agent.pc = "label" /\ agent \in Working /\ UNCHANGED <<queue, dir, img, happened>>
        /\ local' = IF agent.cmd.label = None THEN local
                      ELSE [local EXCEPT !.source = agent.cmd.label, !.image = agent.cmd.label]
        /\ agent' = [agent EXCEPT !.pc = "run"] \/ agent' = Idle
    BY <1>8, <1>b DEF RecordImage, Work
  <2>2. (agent'.pc = "run" /\ agent'.cmd = agent.cmd) \/ agent'.pc = "idle"
    BY <1>a, <2>1 DEF Working
  <2>3. local \in Row /\ agent.cmd.label \in Labels \cup {None}
    BY <2>1 DEF Fitted, Working, Command
  <2>4. local' \in Row /\ local'.cmd = local.cmd /\ local'.image = IF agent.cmd.label = None THEN local.image ELSE agent.cmd.label
    BY <2>1, <2>3 DEF Row
  <2>5. Followed'
    BY <1>b, <2>1, <2>2 DEF Followed
  <2>6. Kept'
    <3>1. "moved" \notin happened => img # None /\ agent.cmd.label # None /\ img.head = local'.image.head
      BY <1>0, <2>1, <2>4 DEF Followed
    <3>2. "bare" \notin happened => img # None /\ img.cmd = local'.cmd
      BY <1>0, <2>1, <2>4, RevisionAssumption DEF Followed
    <3> QED BY <2>1, <3>1, <3>2 DEF Kept
  <2>7. NodeRunsWhatIsAsked'
    BY <1>0, <2>1, <2>2 DEF Followed, NodeRunsWhatIsAsked
  <2> QED BY <1>4, <2>1, <2>5, <2>6, <2>7
<1>9. CASE RunRemote
  <2>1. agent'.pc = "idle" /\ agent.pc = "run" /\ UNCHANGED <<queue, local, dir, img, happened>>
    BY <1>9, <1>a DEF RunRemote
  <2> QED BY <1>0, <1>4, <2>1 DEF Followed, Kept, NodeRunsWhatIsAsked
<1>10. CASE AgentFails
  <2>1. /\ agent'.pc = "idle" /\ UNCHANGED <<queue, local, dir, img>>
        /\ happened' = happened \cup {"stopped"}
             \cup (IF agent.pc = "label" THEN {"unlabelled"} ELSE {})
    BY <1>10, <1>a DEF AgentFails
  <2>2. Kept'
    BY <1>0, <2>1 DEF Kept
  <2> QED BY <1>4, <2>1, <2>2 DEF Followed, NodeRunsWhatIsAsked
<1>11. CASE UNCHANGED vars
  BY <1>0, <1>11 DEF vars, NodeInv, Followed, Kept, NodeRunsWhatIsAsked
<1> QED BY <1>2, <1>3, <1>5, <1>6, <1>7, <1>8, <1>9, <1>10, <1>11 DEF Next, Rests, AgentStep

LEMMA NodeInit == Init => NodeInv
<1> SUFFICES ASSUME Init PROVE NodeInv
  OBVIOUS
<1>1. queue = <<>> /\ agent.pc = "idle" /\ happened = {}
  BY DEF Init, Idle
<1>2. local # None /\ local.image # None => img # None /\ img.head = local.image.head /\ img.cmd = local.cmd
  <2>1. \/ local = None
        \/ local = Recorded /\ img = [head |-> 1, cmd |-> FirstCmd]
    BY DEF Init
  <2>2. [head |-> 1, cmd |-> FirstCmd] \in Content
    BY FirstCmdTyped DEF Content
  <2> QED BY <2>1, <2>2, RevisionAssumption DEF Recorded
<1> QED BY <1>1, <1>2 DEF NodeInv, Followed, Kept, NodeRunsWhatIsAsked

\* A node that is asked for a revision is about to run it, with the command it
\* was asked for, whatever number of requests, failed builds and lost commands
\* came before: unless the tree moved, a record was lost or a pull built the
\* image without a command.
THEOREM NodeRuns == Spec => []NodeRunsWhatIsAsked
<1>1. TypeOK /\ Fitted /\ NodeInv /\ [Next]_vars => NodeInv'
  BY NodeStep
<1>2. NodeInv => NodeRunsWhatIsAsked
  BY DEF NodeInv
<1> QED BY NodeInit, RevisionsTyped, <1>1, <1>2, PTL DEF Spec

-----------------------------------------------------------------------------
(* The columns tell the truth about the image                              *)

\* Where a handler of each kind can be.
Route(h) ==
    /\ h.kind # "zd" => h.plan = <<>>
    /\ h.kind \in Pulls => h.pc \in {"clone", "reset", "label", "build", "building", "commit"}
    /\ h.kind = "rebuild" => h.pc \in {"build", "building", "relabel", "commit"}
    /\ h.kind = "start" => h.pc \in {"label", "build", "building", "relabel", "run", "commit"}
    /\ h.kind = "remote" => h.pc = "tell"
    /\ h.kind = "zd" => h.pc \in {"read", "slot", "label", "build", "building", "relabel",
                                  "refresh", "wait", "run", "tell", "commit"}
    /\ h.kind = "update" => h.pc \in {"file", "commit"}

\* What a handler in flight remembers of its own way.
Trail(h) ==
    /\ Route(h)
    /\ h.kind # "update" => h.mem.cmd = h.seen.cmd
    /\ h.kind \in {"update", "remote"} \/ h.pc \in {"clone", "reset", "file", "wait"} => ~h.unsaved
    /\ h.pc = "relabel" => h.unsaved
    /\ h.kind = "update" /\ h.pc = "commit" => h.mem.image = None
    /\ h.kind \in Pulls =>
         /\ h.pc \in {"clone", "reset", "label"} => h.label = None
         /\ h.pc \in {"build", "building"} => h.label # None
         /\ h.pc # "commit" => ~h.unsaved
         /\ h.pc = "commit" /\ ~h.unsaved => h.mem.image = None

Rest(h) == h.pc \in {"new", "done"}
Trails == \A q \in Requests : IF Rest(req[q]) THEN ~req[q].unsaved ELSE Trail(req[q])

\* Without a crossing, a request that changes what others rely on is alone.
Apart ==
    "crossed" \notin happened =>
        \A q, o \in Requests :
            (q # o /\ ~Rest(req[q]) /\ ~Rest(req[o])) => req[q].kind \notin Changers

\* No image without a tree.
Rooting == tree = None => image = None

LEMMA TrailStep ==
    ASSUME TypeOK, Fitted, Trails, NEW q \in Requests, ~Rest(req[q]),
           Handle(q) \/ TimesOut(q) \/ RunFails(q) \/ Abandon(q)
    PROVE  /\ Moves(q) /\ Trails'
           /\ ~Rest(req'[q]) => req'[q].kind = req[q].kind
<1>0. /\ req[q] \in RequestType /\ Fits(req[q]) /\ Trail(req[q]) /\ InFlight(q)
      /\ req[q].kind \in Kinds
  BY DEF TypeOK, Fitted, Trails, Rest, InFlight, Fits
<1>1. ASSUME Moves(q), IF Rest(req'[q]) THEN ~req'[q].unsaved ELSE Trail(req'[q])
      PROVE  Trails'
  BY <1>1 DEF Trails, Moves
<1>2. ASSUME Ends(q) PROVE Moves(q) /\ Trails' /\ Rest(req'[q])
  BY <1>1, <1>2, EndsMoves, FreshTyped DEF Rest
<1>3. CASE Clone(q)
  <2>1. CASE req'[q] = Ended
    BY <1>1, <1>3, <2>1, CloneMoves, FreshTyped DEF Rest
  <2>2. CASE req'[q] # Ended
    <3>1. /\ Moves(q) /\ req[q].pc = "clone" /\ req[q].kind = "pull" /\ req'[q].pc = "commit"
          /\ req'[q].kind = req[q].kind /\ req'[q].mem.image = None
          /\ req'[q].mem.cmd = req[q].mem.cmd /\ req'[q].seen = req[q].seen
          /\ req'[q].label = req[q].label /\ req'[q].unsaved = req[q].unsaved
          /\ req'[q].plan = req[q].plan /\ req'[q].built = req[q].built
      BY <1>3, <2>2, CloneMoves
    <3>2. Trail(req'[q])
      BY <1>0, <3>1 DEF Trail, Route, Pulls
    <3> QED BY <1>1, <3>1, <3>2 DEF Rest
  <2> QED BY <2>1, <2>2
<1>4. ASSUME NEW pc \in Pcs, Goto(q, pc), pc \notin {"clone", "reset", "file", "building", "new", "done"}
      PROVE  /\ Moves(q) /\ req'[q].pc = pc /\ req'[q].kind = req[q].kind
             /\ req'[q].mem = req[q].mem /\ req'[q].seen = req[q].seen
             /\ req'[q].label = req[q].label /\ req'[q].unsaved = req[q].unsaved
             /\ req'[q].plan = req[q].plan /\ req'[q].built = req[q].built
             /\ ~Rest(req'[q])
  BY <1>0, <1>4, GotoMoves DEF Rest
<1>16. ASSUME Proceed(q)
       PROVE  /\ Moves(q) /\ req'[q].pc \in Stops \cup {"commit"} /\ req'[q].kind = req[q].kind
              /\ req'[q].mem = req[q].mem /\ req'[q].seen = req[q].seen
              /\ req'[q].label = req[q].label /\ req'[q].unsaved = req[q].unsaved
              /\ req[q].plan = <<>> => req'[q].pc = "commit" /\ req'[q].plan = <<>>
              /\ ~Rest(req'[q])
  BY <1>0, <1>16, ProceedMoves, OnwardTyped DEF Rest, Stops
<1>17. CASE ReadOnce(q)
  <2>1. /\ Moves(q) /\ req[q].pc = "read" /\ req'[q].pc \in Stops \cup {"commit"}
        /\ req'[q].kind = req[q].kind
        /\ req'[q].mem.image = req[q].mem.image /\ req'[q].mem.cmd = req[q].mem.cmd
        /\ req'[q].seen = req[q].seen /\ req'[q].unsaved = req[q].unsaved
    BY <1>17, ReadOnceMoves, OnwardTyped
  <2>2. req[q].kind = "zd"
    BY <1>0, <2>1 DEF Trail, Route, Kinds, Pulls
  <2>3. Trail(req'[q])
    BY <1>0, <2>1, <2>2 DEF Trail, Route, Pulls, Stops
  <2> QED BY <1>1, <2>1, <2>3 DEF Rest, Stops
<1>18. CASE OpenSlot(q)
  <2>1. /\ Moves(q) /\ req[q].pc = "slot"
        /\ req'[q].pc = "label" /\ req'[q].unsaved = FALSE
        /\ req'[q].kind = req[q].kind /\ req'[q].seen = req[q].mem /\ req'[q].mem = req[q].mem
    BY <1>18, OpenSlotMoves
  <2>2. req[q].kind = "zd"
    BY <1>0, <2>1 DEF Trail, Route, Kinds, Pulls
  <2>3. Trail(req'[q])
    BY <1>0, <2>1, <2>2 DEF Trail, Route, Pulls
  <2> QED BY <1>1, <2>1, <2>3 DEF Rest
<1>5. CASE Reset(q)
  <2>1. req[q].pc = "reset" /\ Goto(q, "label")
    BY <1>5 DEF Reset
  <2>2. req[q].kind \in Pulls
    BY <1>0, <2>1 DEF Trail, Route, Kinds, Pulls
  <2>3. "label" \in Pcs
    BY DEF Pcs
  <2>4. /\ Moves(q) /\ req'[q].pc = "label" /\ req'[q].kind = req[q].kind
        /\ req'[q].mem = req[q].mem /\ req'[q].seen = req[q].seen
        /\ req'[q].label = req[q].label /\ req'[q].unsaved = req[q].unsaved
        /\ req'[q].plan = req[q].plan /\ req'[q].built = req[q].built
        /\ ~Rest(req'[q])
    BY <1>4, <2>1, <2>3
  <2>5. Trail(req'[q])
    BY <1>0, <2>1, <2>2, <2>4 DEF Trail, Route, Pulls
  <2> QED BY <1>1, <2>4, <2>5
<1>6. CASE ReadLabel(q)
  <2>1. LET early == req[q].kind \in Pulls
        IN  /\ Moves(q) /\ req[q].pc = "label"
            /\ req'[q].pc \in {"build", "run"} /\ req'[q].kind = req[q].kind
            /\ req'[q].pc = "run" => ~early
            /\ req'[q].mem.image = req[q].mem.image /\ req'[q].mem.cmd = req[q].mem.cmd
            /\ req'[q].seen = req[q].seen /\ req'[q].unsaved = req[q].unsaved
            /\ req'[q].plan = req[q].plan /\ req'[q].built = req[q].built
            /\ req'[q].label = IF early THEN Refreshed(q) ELSE req[q].label
    BY <1>6, ReadLabelMoves
  <2>2. req[q].kind \in Pulls \cup {"zd", "start"}
    BY <1>0, <2>1 DEF Trail, Route, Kinds, Pulls
  <2>3. req[q].kind \in Pulls => Refreshed(q) # None
    BY <1>0, <2>1, LabelTyped DEF Fitted, Rooted
  <2>4. Trail(req'[q])
    BY <1>0, <2>1, <2>2, <2>3 DEF Trail, Route, Pulls
  <2> QED BY <1>1, <2>1, <2>4 DEF Rest
<1>7. CASE StartBuild(q)
  <2>1. CASE req'[q] = Ended
    BY <1>1, <1>7, <2>1, StartBuildMoves, FreshTyped DEF Rest
  <2>2. CASE req'[q] # Ended
    <3>1. /\ Moves(q) /\ req[q].pc = "build" /\ req'[q].pc = "building"
          /\ req'[q].kind = req[q].kind /\ req'[q].mem = req[q].mem
          /\ req'[q].seen = req[q].seen /\ req'[q].label = req[q].label
          /\ req'[q].unsaved = req[q].unsaved
          /\ req'[q].plan = req[q].plan /\ req'[q].built = req[q].built
      BY <1>7, <2>2, StartBuildMoves
    <3>2. req[q].kind \in Pulls \cup {"rebuild", "zd", "start"}
      BY <1>0, <3>1 DEF Trail, Route, Kinds, Pulls
    <3>3. Trail(req'[q])
      BY <1>0, <3>1, <3>2 DEF Trail, Route, Pulls
    <3> QED BY <1>1, <3>1, <3>3 DEF Rest
  <2> QED BY <2>1, <2>2
<1>8. CASE FinishBuild(q)
  <2>1. /\ Moves(q) /\ req[q].pc = "building"
        /\ req'[q].pc = IF Foreseen(q) THEN Onward(q) ELSE "relabel"
        /\ req'[q].plan = IF Foreseen(q) THEN Left(q) ELSE req[q].plan
        /\ req'[q].unsaved = TRUE
        /\ req[q].label # None /\ Foreseen(q) => req'[q].mem.image = req[q].label
        /\ req'[q].kind = req[q].kind /\ req'[q].seen = req[q].seen
        /\ req'[q].label = req[q].label /\ req'[q].mem.cmd = req[q].mem.cmd
    BY <1>8, FinishBuildMoves
  <2>2. req[q].kind \in Pulls \cup {"rebuild", "zd", "start"}
    BY <1>0, <2>1 DEF Trail, Route, Kinds, Pulls
  <2>3. /\ req[q].kind \in Pulls => req'[q].pc = "commit" /\ req'[q].plan = <<>>
        /\ req[q].kind = "zd" => req'[q].pc \in Stops \cup {"commit", "relabel"}
        /\ req[q].kind \in {"rebuild", "start"} => req'[q].pc = "relabel" /\ req'[q].plan = <<>>
    BY <1>0, <2>1, OnwardTyped DEF Foreseen, Pulls, Trail, Route
  <2>4. Trail(req'[q])
    BY <1>0, <2>1, <2>2, <2>3 DEF Trail, Route, Pulls, Stops
  <2>5. ~Rest(req'[q])
    BY <2>1, <2>2, <2>3 DEF Rest, Stops
  <2> QED BY <1>1, <2>1, <2>4, <2>5
<1>9. CASE Relabel(q)
  <2>1. /\ Moves(q) /\ req[q].pc = "relabel"
        /\ req'[q].pc = IF req[q].kind = "rebuild" THEN "commit" ELSE "run"
        /\ req'[q].unsaved = req[q].unsaved
        /\ req'[q].plan = req[q].plan /\ req'[q].built = req[q].built
        /\ req'[q].kind = req[q].kind /\ req'[q].seen = req[q].seen
        /\ req'[q].label = req[q].label
        /\ req'[q].mem.cmd = req[q].mem.cmd
    BY <1>9, RelabelMoves
  <2>2. req[q].kind \in {"rebuild", "zd", "start"}
    BY <1>0, <2>1 DEF Trail, Route, Kinds, Pulls
  <2>3. Trail(req'[q])
    BY <1>0, <2>1, <2>2 DEF Trail, Route, Pulls
  <2> QED BY <1>1, <2>1, <2>3 DEF Rest
<1>10. CASE Run(q) \/ RunFails(q)
  <2>1. req[q].pc = "run"
    BY <1>10 DEF Run, RunFails
  <2>2. req[q].kind \in {"zd", "start"}
    BY <1>0, <2>1 DEF Trail, Route, Kinds, Pulls
  <2>3. Goto(q, "build") \/ Proceed(q)
    BY <1>10 DEF Run, RunFails
  <2>5. /\ Moves(q) /\ req'[q].pc \in Stops \cup {"commit"} /\ req'[q].kind = req[q].kind
        /\ req'[q].mem = req[q].mem /\ req'[q].seen = req[q].seen
        /\ req'[q].label = req[q].label /\ req'[q].unsaved = req[q].unsaved
        /\ req[q].kind = "start" => req'[q].pc \in {"build", "commit"} /\ req'[q].plan = <<>>
        /\ ~Rest(req'[q])
    BY <1>0, <1>4, <1>16, <2>3, SomePoints DEF Trail, Route, Stops
  <2>6. Trail(req'[q])
    BY <1>0, <2>1, <2>2, <2>5 DEF Trail, Route, Pulls, Stops
  <2> QED BY <1>1, <2>5, <2>6
<1>11. CASE Refresh(q)
  <2>1. /\ Moves(q) /\ req[q].pc = "refresh"
        /\ req'[q].pc = "wait" /\ req'[q].unsaved = FALSE
        /\ req'[q].kind = req[q].kind /\ req'[q].seen = req[q].mem
        /\ req'[q].label = req[q].label /\ req'[q].mem = req[q].mem
    BY <1>11, RefreshMoves
  <2>2. req[q].kind = "zd"
    BY <1>0, <2>1 DEF Trail, Route, Kinds, Pulls
  <2>3. Trail(req'[q])
    BY <1>0, <2>1, <2>2 DEF Trail, Route, Pulls
  <2> QED BY <1>1, <2>1, <2>3 DEF Rest
<1>12. CASE Answered(q) \/ TimesOut(q)
  <2>1. req[q].pc = "wait"
    BY <1>12 DEF Answered, TimesOut
  <2>2. req[q].kind = "zd"
    BY <1>0, <2>1 DEF Trail, Route, Kinds, Pulls
  <2>3. CASE Ends(q)
    BY <1>2, <2>3
  <2>4. CASE Proceed(q)
    <3>1. Trail(req'[q])
      BY <1>0, <1>16, <2>1, <2>2, <2>4 DEF Trail, Route, Pulls, Stops
    <3> QED BY <1>1, <1>16, <2>4, <3>1
  <2> QED BY <1>12, <2>3, <2>4 DEF Answered, TimesOut
<1>13. CASE QueueStart(q)
  <2>1. CASE req'[q] = Ended
    BY <1>1, <1>13, <2>1, QueueStartMoves, FreshTyped DEF Rest
  <2>2. CASE req'[q] # Ended
    <3>1. /\ Moves(q) /\ req[q].pc = "tell" /\ req[q].kind = "zd"
          /\ req'[q].pc \in Stops \cup {"commit"} /\ req'[q].unsaved = FALSE
          /\ req'[q].kind = req[q].kind /\ req'[q].seen.cmd = req[q].mem.cmd
          /\ req'[q].label = req[q].label /\ req'[q].mem.cmd = req[q].mem.cmd
      BY <1>13, <2>2, QueueStartMoves, OnwardTyped
    <3>2. Trail(req'[q])
      BY <1>0, <3>1 DEF Trail, Route, Pulls, Stops
    <3> QED BY <1>1, <3>1, <3>2 DEF Rest, Stops
  <2> QED BY <2>1, <2>2
<1>14. CASE WriteDockerfile(q)
  <2>1. /\ Moves(q) /\ req[q].pc = "file"
        /\ req'[q].pc = "commit" /\ req'[q].unsaved = req[q].unsaved
        /\ req'[q].plan = req[q].plan /\ req'[q].built = req[q].built
        /\ req'[q].kind = req[q].kind /\ req'[q].mem.image = None
    BY <1>14, WriteDockerfileMoves
  <2>2. req[q].kind = "update"
    BY <1>0, <2>1 DEF Trail, Route, Kinds, Pulls
  <2>3. Trail(req'[q])
    BY <1>0, <2>1, <2>2 DEF Trail, Route, Pulls
  <2> QED BY <1>1, <2>1, <2>3 DEF Rest
<1>15. CASE Commit(q) \/ Abandon(q)
  BY <1>2, <1>15 DEF Commit, Abandon
<1> QED BY <1>3, <1>5, <1>6, <1>7, <1>8, <1>9, <1>10, <1>11, <1>12, <1>13, <1>14, <1>15,
          <1>17, <1>18 DEF Handle

Good(l) == l # None /\ tree # None /\ l.head = tree.head
Current == image # None /\ tree # None /\ image.head = tree.head /\ image.cmd = app.cmd

\* What a handler in flight may rely on while nothing has crossed: whoever
\* believes in a good image has one.
Reader(q) ==
    LET h == req[q]
    IN  /\ h.seen.cmd = app.cmd
        /\ h.label # None /\ tree # None => Good(h.label)
        /\ h.kind = "zd" /\ h.pc # "read" /\ tree # None => h.label # None
        /\ h.pc = "building" => h.took.head = tree.head /\ h.took.cmd = app.cmd
        /\ h.unsaved => Current
        /\ h.unsaved /\ h.pc # "relabel" => Good(h.mem.image)
        /\ h.kind \in Changers => h.seen.image = app.image
        /\ h.kind \notin Changers =>
             /\ h.mem.image = h.seen.image \/ Good(h.mem.image)
             /\ app.image = h.seen.image \/ Good(app.image)
             /\ Good(h.seen.image) \/ h.mem.image # h.seen.image => Current
             /\ h.built \/ (h.pc = "run" /\ image # None) => Current

\* The image revision is right, or somebody still has to write it.
Told ==
    app.image # None =>
        /\ image # None
        /\ \/ image.head = app.image.head /\ image.cmd = app.cmd
           \/ \E q \in Requests : req[q].unsaved

Truthful == Undisturbed => Told /\ \A q \in Requests : ~Rest(req[q]) => Reader(q)

\* A handler that is not a changer moves: the others read on.
LEMMA OthersRead ==
    ASSUME NEW o \in Requests, Reader(o), req[o].kind \notin Changers, req'[o] = req[o],
           tree # None => tree' # None /\ tree'.head = tree.head,
           tree = None => tree' = None,
           app'.cmd = app.cmd,
           app'.image = app.image \/ (app'.image # None /\ tree # None /\ app'.image.head = tree.head),
           image' = image \/ Current'
    PROVE  Reader(o)'
BY DEF Reader, Good, Current

\* A changer moves, or one that changes nothing the others rely on.
LEMMA OthersReadOn ==
    ASSUME Apart, "crossed" \notin happened, NEW q \in Requests, ~Rest(req[q]), Moves(q),
           \A o \in Requests : ~Rest(req[o]) => Reader(o),
           \/ req[q].kind \in Changers
           \/ /\ tree # None => tree' # None /\ tree'.head = tree.head
              /\ tree = None => tree' = None
              /\ app'.cmd = app.cmd
              /\ \/ app'.image = app.image
                 \/ app'.image # None /\ tree # None /\ app'.image.head = tree.head
              /\ image' = image \/ Current'
    PROVE  \A o \in Requests \ {q} : ~Rest(req'[o]) => Reader(o)'
<1> SUFFICES ASSUME NEW o \in Requests \ {q}, ~Rest(req'[o]) PROVE Reader(o)'
  OBVIOUS
<1>1. req'[o] = req[o] /\ ~Rest(req[o]) /\ Reader(o)
  BY DEF Moves
<1>2. req[q].kind \notin Changers /\ req[o].kind \notin Changers
  BY <1>1 DEF Apart
<1> QED BY <1>1, <1>2, OthersRead

\* What a handler that is no changer writes is the truth.
LEMMA Writes ==
    ASSUME Trails, Told, NEW q \in Requests, ~Rest(req[q]), Reader(q), req[q].kind \notin Changers,
           req[q].pc # "relabel", NEW mem, mem.cmd = req[q].mem.cmd,
           mem.image = req[q].mem.image \/ (Current /\ Good(mem.image)),
           app' = Saved(mem, req[q].seen), tree' = tree, image' = image,
           \A o \in Requests \ {q} : req'[o] = req[o]
    PROVE  /\ app'.cmd = app.cmd
           /\ app'.image = IF mem.image # req[q].seen.image THEN mem.image ELSE app.image
           /\ app'.image = app.image \/ Good(app'.image)
           /\ Told'
<1>1. mem.cmd = req[q].seen.cmd /\ req[q].seen.cmd = app.cmd
  BY DEF Trails, Trail, Changers, Reader
<1>2. /\ app'.cmd = app.cmd
      /\ app'.image = IF mem.image # req[q].seen.image THEN mem.image ELSE app.image
  BY <1>1 DEF Saved, Changed
<1>3. app'.image = app.image \/ Good(app'.image)
  BY <1>2 DEF Reader
<1>4. Told'
  <2> SUFFICES ASSUME app'.image # None
               PROVE  /\ image # None
                      /\ \/ image.head = app'.image.head /\ image.cmd = app.cmd
                         \/ \E o \in Requests : req'[o].unsaved
    BY <1>2 DEF Told
  <2>1. CASE Current /\ Good(app'.image)
    BY <2>1 DEF Current, Good
  <2>2. CASE mem.image # req[q].seen.image
    BY <1>2, <2>1, <2>2 DEF Reader
  <2>3. CASE mem.image = req[q].seen.image /\ req[q].unsaved
    BY <1>2, <2>1, <2>3 DEF Reader
  <2>4. CASE mem.image = req[q].seen.image /\ ~req[q].unsaved
    BY <1>2, <2>4 DEF Told
  <2> QED BY <2>2, <2>3, <2>4
<1> QED BY <1>2, <1>3, <1>4

\* A step that writes no column and loses no record.
LEMMA StillTold ==
    ASSUME Told, NEW q \in Requests, Moves(q), UNCHANGED <<app, image>>,
           req[q].unsaved => req'[q].unsaved
    PROVE  Told'
BY DEF Told, Moves

LEMMA ReadsOn ==
    ASSUME TypeOK, Fitted, Trails, Apart, Rooting, Truthful, Undisturbed, Undisturbed',
           NEW q \in Requests, ~Rest(req[q]),
           Handle(q) \/ TimesOut(q) \/ RunFails(q) \/ Abandon(q)
    PROVE  Told' /\ \A o \in Requests : ~Rest(req'[o]) => Reader(o)'
<1> USE DEF primaryVars
<1>0. /\ req[q] \in RequestType /\ Fits(req[q]) /\ Trail(req[q]) /\ InFlight(q)
      /\ req[q].kind \in Kinds /\ Reader(q) /\ Told /\ "crossed" \notin happened
      /\ \A o \in Requests : ~Rest(req[o]) => Reader(o)
  BY DEF TypeOK, Fitted, Trails, Rest, InFlight, Fits, Truthful, Undisturbed
<1>1. /\ Moves(q)
      /\ ~Rest(req'[q]) => req'[q].kind = req[q].kind
      /\ \A o \in Requests \ {q} : req'[o] = req[o]
  BY TrailStep DEF Moves
<1>2. ASSUME \/ req[q].kind \in Changers
             \/ /\ tree # None => tree' # None /\ tree'.head = tree.head
                /\ tree = None => tree' = None
                /\ app'.cmd = app.cmd
                /\ \/ app'.image = app.image
                   \/ app'.image # None /\ tree # None /\ app'.image.head = tree.head
                /\ image' = image \/ Current',
             Told', ~Rest(req'[q]) => Reader(q)'
      PROVE  Told' /\ \A o \in Requests : ~Rest(req'[o]) => Reader(o)'
  BY <1>0, <1>1, <1>2, OthersReadOn
<1>3. ASSUME UNCHANGED <<tree, app, image>>, req[q].unsaved => req'[q].unsaved,
             ~Rest(req'[q]) => Reader(q)'
      PROVE  Told' /\ \A o \in Requests : ~Rest(req'[o]) => Reader(o)'
  BY <1>0, <1>1, <1>2, <1>3, StillTold
\* A handler ends and has nothing to record.
<1>4. ASSUME UNCHANGED <<tree, app, image>>, Rest(req'[q]), ~req[q].unsaved
      PROVE  Told' /\ \A o \in Requests : ~Rest(req'[o]) => Reader(o)'
  BY <1>3, <1>4
\* A handler that goes on without touching anything but its point.
<1>5. ASSUME UNCHANGED <<tree, app, image>>, NEW pc \in Pcs, Goto(q, pc),
             pc \notin {"read", "clone", "reset", "file", "building", "relabel", "new", "done"},
             req[q].pc \notin {"read", "relabel"},
             pc = "run" => Current
      PROVE  Told' /\ \A o \in Requests : ~Rest(req'[o]) => Reader(o)'
  <2>1. /\ req'[q].pc = pc /\ req'[q].kind = req[q].kind
        /\ req'[q].mem = req[q].mem /\ req'[q].seen = req[q].seen
        /\ req'[q].label = req[q].label /\ req'[q].unsaved = req[q].unsaved
        /\ req'[q].plan = req[q].plan /\ req'[q].built = req[q].built
    BY <1>0, <1>5, GotoMoves
  <2>2. Reader(q)'
    BY <1>0, <1>5, <2>1 DEF Reader, Good, Current
  <2> QED BY <1>3, <1>5, <2>1, <2>2
<1>19. ASSUME UNCHANGED <<tree, app, image>>, Proceed(q), req[q].pc \notin {"read", "relabel"}
       PROVE  Told' /\ \A o \in Requests : ~Rest(req'[o]) => Reader(o)'
  <2>1. /\ req'[q].pc \in Stops \cup {"commit"} /\ req'[q].kind = req[q].kind
        /\ req'[q].mem = req[q].mem /\ req'[q].seen = req[q].seen
        /\ req'[q].label = req[q].label /\ req'[q].unsaved = req[q].unsaved
        /\ req'[q].built = req[q].built
    BY <1>0, <1>19, ProceedMoves, OnwardTyped
  <2>2. Reader(q)'
    BY <1>0, <1>19, <2>1 DEF Reader, Good, Current, Stops
  <2> QED BY <1>3, <1>19, <2>1, <2>2
<1>20. CASE ReadOnce(q)
  <2>1. /\ req[q].pc = "read" /\ UNCHANGED <<tree, app, image>>
        /\ req'[q].pc \in Stops \cup {"commit"} /\ req'[q].kind = req[q].kind
        /\ req'[q].mem.image = req[q].mem.image /\ req'[q].mem.cmd = req[q].mem.cmd
        /\ req'[q].seen = req[q].seen /\ req'[q].unsaved = req[q].unsaved
        /\ req'[q].label = Refreshed(q) /\ req'[q].built = req[q].built
    BY <1>20, ReadOnceMoves, OnwardTyped DEF ReadOnce
  <2>2. tree # None => Good(Refreshed(q))
    BY <1>0, LabelTyped DEF Good, Label
  <2>3. Reader(q)'
    BY <1>0, <2>1, <2>2 DEF Reader, Good, Current, Stops
  <2> QED BY <1>3, <2>1, <2>3
<1>21. CASE OpenSlot(q)
  <2>1. /\ req[q].pc = "slot" /\ UNCHANGED <<tree, image>>
        /\ app' = Saved(req[q].mem, req[q].seen)
        /\ req'[q].pc = "label" /\ req'[q].unsaved = FALSE
        /\ req'[q].kind = req[q].kind /\ req'[q].seen = req[q].mem
        /\ req'[q].label = req[q].label /\ req'[q].mem = req[q].mem
        /\ req'[q].built = req[q].built
    BY <1>21, OpenSlotMoves DEF OpenSlot, Write
  <2>2. req[q].kind = "zd" /\ req[q].kind \notin Changers
    BY <1>0, <2>1 DEF Trail, Route, Kinds, Pulls, Changers
  <2>3. /\ app'.cmd = app.cmd
        /\ app'.image = IF req[q].mem.image # req[q].seen.image THEN req[q].mem.image ELSE app.image
        /\ app'.image = app.image \/ Good(app'.image)
        /\ Told'
    BY <1>0, <1>1, <2>1, <2>2, Writes
  <2>4. req[q].mem.cmd = app.cmd
    BY <1>0, <2>2 DEF Trail, Reader
  <2>5. Reader(q)'
    BY <1>0, <2>1, <2>2, <2>3, <2>4 DEF Reader, Good, Current
  <2> QED BY <1>2, <2>1, <2>3, <2>5 DEF Good
<1>6. CASE Clone(q)
  <2>1. req[q].pc = "clone" /\ ~req[q].unsaved /\ req[q].kind \in Changers /\ req[q].label = None
    BY <1>0, <1>6 DEF Clone, Trail, Route, Kinds, Pulls, Changers
  <2>2. CASE req'[q] = Ended
    <3>1. CASE tree # None
      BY <1>4, <1>6, <2>1, <2>2, <3>1, FreshTyped DEF Clone, Rest
    <3>2. CASE tree = None
      <4>1. image = None /\ app.image = None
        BY <1>0, <3>2 DEF Rooting, Told
      <4>2. Told'
        BY <1>6, <4>1 DEF Clone, Told
      <4> QED BY <1>2, <2>1, <2>2, <4>2, FreshTyped DEF Rest
    <3> QED BY <3>1, <3>2
  <2>3. CASE req'[q] # Ended
    <3>1. /\ tree = None /\ req'[q].pc = "commit" /\ req'[q].kind = req[q].kind
          /\ req'[q].mem.image = None /\ req'[q].mem.cmd = req[q].mem.cmd
          /\ req'[q].seen = req[q].seen
          /\ req'[q].label = req[q].label /\ req'[q].unsaved = req[q].unsaved
          /\ req'[q].plan = req[q].plan /\ req'[q].built = req[q].built
          /\ UNCHANGED <<app, image>>
      BY <1>6, <2>3, CloneMoves DEF Clone
    <3>2. Told'
      BY <1>0, <1>1, <3>1, StillTold
    <3>3. Reader(q)'
      BY <1>0, <2>1, <3>1 DEF Reader, Changers, Pulls
    <3> QED BY <1>2, <2>1, <3>2, <3>3
  <2> QED BY <2>2, <2>3
<1>7. CASE Reset(q)
  <2>1. req[q].pc = "reset" /\ Goto(q, "label") /\ UNCHANGED <<app, image>>
    BY <1>7 DEF Reset
  <2>2. ~req[q].unsaved /\ req[q].kind \in Changers /\ req[q].label = None
    BY <1>0, <2>1 DEF Trail, Route, Kinds, Pulls, Changers
  <2>3. /\ req'[q].pc = "label" /\ req'[q].kind = req[q].kind
        /\ req'[q].mem = req[q].mem /\ req'[q].seen = req[q].seen
        /\ req'[q].label = req[q].label /\ req'[q].unsaved = req[q].unsaved
        /\ req'[q].plan = req[q].plan /\ req'[q].built = req[q].built
    BY <1>0, <2>1, GotoMoves DEF Pcs
  <2>4. Told'
    BY <1>0, <1>1, <2>1, <2>2, StillTold
  <2>5. Reader(q)'
    BY <1>0, <2>1, <2>2, <2>3 DEF Reader, Changers, Pulls
  <2> QED BY <1>2, <2>2, <2>4, <2>5
<1>8. CASE ReadLabel(q)
  <2> DEFINE early == req[q].kind \in Pulls
  <2>1. /\ req[q].pc = "label" /\ UNCHANGED <<tree, app, image>>
        /\ req'[q].pc \in {"build", "run"} /\ req'[q].kind = req[q].kind
        /\ req'[q].pc = "run" => ~early /\ ~Outdated(req[q].mem, Refreshed(q))
        /\ req'[q].mem.image = req[q].mem.image /\ req'[q].mem.cmd = req[q].mem.cmd
        /\ req'[q].seen = req[q].seen /\ req'[q].unsaved = req[q].unsaved
        /\ req'[q].plan = req[q].plan /\ req'[q].built = req[q].built
        /\ req'[q].label = IF early THEN Refreshed(q) ELSE req[q].label
    BY <1>8, ReadLabelMoves DEF ReadLabel
  <2>2. tree # None => Good(Refreshed(q))
    BY <1>0, LabelTyped DEF Good, Label
  <2>3. early => Good(Refreshed(q))
    BY <1>0, <2>1, <2>2 DEF Fitted, Rooted
  <2>4. req'[q].pc = "run" /\ image # None /\ req[q].kind \notin Changers => Current
    <3> SUFFICES ASSUME req'[q].pc = "run", image # None, req[q].kind \notin Changers PROVE Current
      OBVIOUS
    <3>1. tree # None
      BY DEF Rooting
    <3>2. req[q].mem.image = Refreshed(q) /\ Good(Refreshed(q))
      BY <2>1, <2>2, <3>1 DEF Outdated, Good
    <3> QED BY <1>0, <3>2 DEF Reader
  <2> HIDE DEF early
  <2>5. Reader(q)'
    BY <1>0, <2>1, <2>3, <2>4 DEF Reader, Good, Current
  <2> QED BY <1>3, <2>1, <2>5
<1>9. CASE StartBuild(q)
  <2>1. CASE req'[q] = Ended
    <3>1. /\ UNCHANGED <<tree, app, image>> /\ happened' = happened \cup Unrecorded(q)
          /\ Rest(req'[q])
      BY <1>9, <2>1, StartBuildMoves, FreshTyped DEF StartBuild, Rest
    <3>2. ~req[q].unsaved
      BY <3>1 DEF Undisturbed, Unrecorded
    <3> QED BY <1>4, <3>1, <3>2
  <2>2. CASE req'[q] # Ended
    <3>1. /\ req[q].pc = "build" /\ req'[q].pc = "building"
          /\ tree # None /\ tree' # None /\ tree'.head = tree.head /\ UNCHANGED <<app, image>>
          /\ req'[q].took.head = tree.head /\ req'[q].took.cmd = req[q].mem.cmd
          /\ req'[q].kind = req[q].kind /\ req'[q].mem = req[q].mem
          /\ req'[q].seen = req[q].seen /\ req'[q].label = req[q].label
          /\ req'[q].unsaved = req[q].unsaved
          /\ req'[q].plan = req[q].plan /\ req'[q].built = req[q].built
      BY <1>9, <2>2, StartBuildMoves DEF StartBuild
    <3>2. req[q].mem.cmd = app.cmd
      BY <1>0, <3>1 DEF Trail, Route, Reader
    <3>3. Told'
      BY <1>0, <1>1, <3>1, StillTold
    <3>4. Reader(q)'
      BY <1>0, <3>1, <3>2 DEF Reader, Good, Current
    <3> QED BY <1>2, <3>1, <3>3, <3>4
  <2> QED BY <2>1, <2>2
<1>10. CASE FinishBuild(q)
  <2>1. /\ req[q].pc = "building" /\ UNCHANGED <<tree, app>>
        /\ image' = req[q].took /\ image' \in Content
        /\ req'[q].pc = IF Foreseen(q) THEN Onward(q) ELSE "relabel"
        /\ req'[q].unsaved = TRUE
        /\ req'[q].kind = req[q].kind /\ req'[q].seen = req[q].seen
        /\ req'[q].label = req[q].label
        /\ req'[q].mem.cmd = req[q].mem.cmd
        /\ req'[q].mem.image = IF Foreseen(q) /\ req[q].label # None
                                 THEN req[q].label ELSE req[q].mem.image
    BY <1>10, FinishBuildMoves DEF FinishBuild
  <2>2. Current' /\ tree # None
    <3>1. image' # None
      BY <2>1, RevisionAssumption
    <3>2. tree # None
      BY <2>1 DEF Fitted, Rooted
    <3> QED BY <1>0, <2>1, <3>1, <3>2 DEF Current, Reader
  <2>3. Told'
    BY <2>1, <2>2 DEF Told, Current
  <2>4. req'[q].pc \in Stops \cup {"commit", "relabel"}
        /\ (req'[q].pc # "relabel" => Foreseen(q))
    BY <2>1, OnwardTyped
  <2>5. Foreseen(q) => Good(req[q].label)
    BY <1>0, <2>1, <2>2 DEF Foreseen, Reader, Trail
  <2>6. Foreseen(q) => Good(req'[q].mem.image)
    BY <2>1, <2>5 DEF Good
  <2>7. req'[q].mem.image = req[q].mem.image \/ Good(req'[q].mem.image)
    BY <2>1, <2>6
  <2>8. Reader(q)'
    BY <1>0, <2>1, <2>2, <2>4, <2>6, <2>7 DEF Reader, Good, Stops
  <2> QED BY <1>2, <2>1, <2>2, <2>3, <2>8
<1>11. CASE Relabel(q)
  <2>1. /\ req[q].pc = "relabel" /\ UNCHANGED <<tree, app, image>>
        /\ req'[q].pc = IF req[q].kind = "rebuild" THEN "commit" ELSE "run"
        /\ req'[q].unsaved = req[q].unsaved
        /\ req'[q].plan = req[q].plan /\ req'[q].built = req[q].built
        /\ req'[q].kind = req[q].kind /\ req'[q].seen = req[q].seen
        /\ req'[q].label = req[q].label
        /\ req'[q].mem.cmd = req[q].mem.cmd
        /\ req'[q].mem.image = Refreshed(q)
    BY <1>11, RelabelMoves DEF Relabel
  <2>2. Current
    BY <1>0, <2>1 DEF Trail, Reader
  <2>3. Good(Refreshed(q))
    BY <1>0, <2>2, LabelTyped DEF Good, Label, Current
  <2>4. Reader(q)'
    BY <1>0, <2>1, <2>2, <2>3 DEF Reader, Good, Current
  <2> QED BY <1>3, <2>1, <2>4
<1>12. CASE Run(q) \/ RunFails(q)
  <2>1. req[q].pc = "run" /\ UNCHANGED <<tree, app, image>>
    BY <1>12 DEF Run, RunFails
  <2>2. Goto(q, "build") \/ Proceed(q)
    BY <1>12 DEF Run, RunFails
  <2> QED BY <1>5, <1>19, <2>1, <2>2, SomePoints
<1>13. CASE Refresh(q)
  <2>1. /\ req[q].pc = "refresh" /\ UNCHANGED <<tree, image>>
        /\ app' = Saved(req[q].mem, req[q].seen) /\ req'[q].built = req[q].built
        /\ req'[q].pc = "wait" /\ req'[q].unsaved = FALSE
        /\ req'[q].kind = req[q].kind /\ req'[q].seen = req[q].mem
        /\ req'[q].label = req[q].label /\ req'[q].mem = req[q].mem
    BY <1>13, RefreshMoves DEF Refresh, Write
  <2>2. req[q].kind = "zd" /\ req[q].kind \notin Changers
    BY <1>0, <2>1 DEF Trail, Route, Kinds, Pulls, Changers
  <2>3. /\ app'.cmd = app.cmd
        /\ app'.image = IF req[q].mem.image # req[q].seen.image THEN req[q].mem.image ELSE app.image
        /\ app'.image = app.image \/ Good(app'.image)
        /\ Told'
    BY <1>0, <1>1, <2>1, <2>2, Writes
  <2>4. req[q].mem.cmd = app.cmd
    BY <1>0, <2>2 DEF Trail, Reader
  <2>5. Reader(q)'
    BY <1>0, <2>1, <2>2, <2>3, <2>4 DEF Reader, Good, Current
  <2> QED BY <1>2, <2>1, <2>3, <2>5 DEF Good
<1>14. CASE Answered(q) \/ TimesOut(q)
  <2>1. req[q].pc = "wait" /\ UNCHANGED <<tree, app, image>>
    BY <1>14 DEF Answered, TimesOut
  <2>2. CASE Ends(q)
    BY <1>0, <1>4, <2>1, <2>2, EndsMoves, FreshTyped DEF Rest, Trail
  <2>3. CASE Proceed(q)
    BY <1>19, <2>1, <2>3
  <2> QED BY <1>14, <2>2, <2>3 DEF Answered, TimesOut
<1>15. CASE QueueStart(q)
  <2> DEFINE mem == [req[q].mem EXCEPT !.source = Refreshed(q)]
  <2>1. req[q].pc = "tell" /\ UNCHANGED <<tree, image>> /\ app' = Saved(mem, req[q].seen)
    BY <1>15 DEF QueueStart
  <2>2. req[q].kind \in {"zd", "remote"} /\ req[q].kind \notin Changers
    BY <1>0, <2>1 DEF Trail, Route, Kinds, Pulls, Changers
  <2>3. mem.cmd = req[q].mem.cmd /\ mem.image = req[q].mem.image
    BY <1>0 DEF Fits, InFlight, Row
  <2> HIDE DEF mem
  <2>4. /\ app'.cmd = app.cmd
        /\ app'.image = IF req[q].mem.image # req[q].seen.image THEN req[q].mem.image ELSE app.image
        /\ app'.image = app.image \/ Good(app'.image)
        /\ Told'
    BY <1>0, <1>1, <2>1, <2>2, <2>3, Writes
  <2>5. ~Rest(req'[q]) => Reader(q)'
    <3> SUFFICES ASSUME ~Rest(req'[q]) PROVE Reader(q)'
      OBVIOUS
    <3>1. /\ req[q].kind = "zd"
          /\ req'[q].pc \in Stops \cup {"commit"} /\ req'[q].unsaved = FALSE
          /\ req'[q].kind = req[q].kind
          /\ req'[q].seen.image = req[q].mem.image
          /\ req'[q].seen.cmd = req[q].mem.cmd
          /\ req'[q].label = req[q].label /\ req'[q].mem.cmd = req[q].mem.cmd
          /\ req'[q].mem.image = req[q].mem.image /\ req'[q].built = req[q].built
      BY <1>15, QueueStartMoves, FreshTyped, OnwardTyped DEF Rest
    <3>2. req[q].mem.cmd = app.cmd
      BY <1>0, <2>1, <2>2, <3>1 DEF Trail, Reader
    <3> QED BY <1>0, <2>1, <2>2, <2>4, <3>1, <3>2 DEF Reader, Good, Current, Stops
  <2> QED BY <1>2, <2>1, <2>4, <2>5 DEF Good
<1>16. CASE WriteDockerfile(q)
  <2>1. /\ req[q].pc = "file" /\ UNCHANGED <<app, image>>
        /\ tree # None => tree' # None /\ tree'.head = tree.head
        /\ tree = None => tree' = None
        /\ req'[q].pc = "commit" /\ req'[q].unsaved = req[q].unsaved
        /\ req'[q].plan = req[q].plan /\ req'[q].built = req[q].built
        /\ req'[q].kind = req[q].kind /\ req'[q].seen = req[q].seen
        /\ req'[q].label = req[q].label
    BY <1>16, WriteDockerfileMoves DEF WriteDockerfile
  <2>2. req[q].kind = "update" /\ req[q].kind \in Changers /\ ~req[q].unsaved
    BY <1>0, <2>1 DEF Trail, Route, Kinds, Pulls, Changers
  <2>3. Told'
    BY <1>0, <1>1, <2>1, StillTold
  <2>4. Reader(q)'
    BY <1>0, <2>1, <2>2 DEF Reader, Good, Changers, Pulls
  <2> QED BY <1>2, <2>2, <2>3, <2>4
<1>17. CASE Commit(q)
  <2>1. /\ req[q].pc = "commit" /\ UNCHANGED <<tree, image>> /\ Rest(req'[q])
        /\ app' = Saved(Final(q), req[q].seen)
        /\ req[q].built \/ Final(q).image = req[q].mem.image
    BY <1>17, EndsMoves, FreshTyped DEF Commit, Claims, Rest, Undisturbed
  <2>2. CASE req[q].kind \notin Changers
    <3>1. Final(q).cmd = req[q].mem.cmd
      BY <1>0 DEF Final, Fits, InFlight, Row
    <3>2. Final(q).image = req[q].mem.image \/ (Current /\ Good(Final(q).image))
      <4>1. CASE req[q].built /\ req[q].kind = "zd" /\ req[q].label # None
        <5>1. Final(q).image = req[q].label
          BY <1>0, <4>1 DEF Final, Fits, InFlight, Row
        <5> QED BY <1>0, <2>2, <4>1, <5>1 DEF Reader, Current
      <4> QED BY <2>1, <4>1 DEF Final
    <3> DEFINE mem == Final(q)
    <3>3. /\ app' = Saved(mem, req[q].seen) /\ mem.cmd = req[q].mem.cmd
          /\ mem.image = req[q].mem.image \/ (Current /\ Good(mem.image))
      BY <2>1, <3>1, <3>2
    <3> HIDE DEF mem
    <3>4. /\ app'.cmd = app.cmd /\ Told'
          /\ app'.image = app.image \/ Good(app'.image)
      BY <1>0, <1>1, <2>1, <2>2, <3>3, Writes
    <3> QED BY <1>2, <2>1, <3>4 DEF Good
  <2>3. CASE req[q].kind \in Changers
    <3>4. app' = Saved(req[q].mem, req[q].seen)
      BY <2>1, <2>3 DEF Final, Changers, Pulls
    <3>1. app'.image = req[q].mem.image
      BY <1>0, <2>3, <3>4 DEF Saved, Changed, Reader
    <3>2. CASE req[q].unsaved
      <4>1. req[q].kind \in Pulls
        BY <1>0, <2>3, <3>2 DEF Trail, Changers, Pulls
      <4>2. app'.cmd = app.cmd
        BY <1>0, <3>4, <4>1 DEF Saved, Changed, Reader, Trail, Pulls
      <4>3. Good(req[q].mem.image) /\ Current
        BY <1>0, <2>1, <3>2 DEF Reader
      <4>4. Told'
        BY <2>1, <3>1, <4>2, <4>3 DEF Told, Good, Current
      <4> QED BY <1>2, <2>1, <2>3, <4>4
    <3>3. CASE ~req[q].unsaved
      <4>1. app'.image = None
        BY <1>0, <2>1, <2>3, <3>1, <3>3 DEF Trail, Changers
      <4>2. Told'
        BY <4>1 DEF Told
      <4> QED BY <1>2, <2>1, <2>3, <4>2
    <3> QED BY <3>2, <3>3
  <2> QED BY <2>2, <2>3
<1>18. CASE Abandon(q)
  <2>1. /\ UNCHANGED <<tree, app, image>> /\ happened' = happened \cup Unrecorded(q)
        /\ Rest(req'[q])
    BY <1>18, EndsMoves, FreshTyped DEF Abandon, Rest
  <2>2. ~req[q].unsaved
    BY <2>1 DEF Undisturbed, Unrecorded
  <2> QED BY <1>4, <2>1, <2>2
<1> QED BY <1>6, <1>7, <1>8, <1>9, <1>10, <1>11, <1>12, <1>13, <1>14, <1>15, <1>16, <1>17, <1>18,
          <1>20, <1>21 DEF Handle

Honest == Trails /\ Apart /\ Rooting /\ Truthful

LEMMA Busy ==
    ASSUME NEW q \in Requests, Handle(q) \/ TimesOut(q) \/ RunFails(q) \/ Abandon(q)
    PROVE  ~Rest(req[q])
BY DEF Handle, Clone, Reset, ReadOnce, OpenSlot, ReadLabel, StartBuild, FinishBuild, Relabel, Run, Refresh, Answered,
       QueueStart, WriteDockerfile, Commit, TimesOut, RunFails, Abandon, InFlight, Rest

LEMMA HandlesHonestly ==
    ASSUME TypeOK, Fitted, Honest, NEW q \in Requests,
           Handle(q) \/ TimesOut(q) \/ RunFails(q) \/ Abandon(q)
    PROVE  Honest'
<1> USE DEF Honest, primaryVars
<1>1. /\ ~Rest(req[q]) /\ Moves(q) /\ Trails'
      /\ ~Rest(req'[q]) => req'[q].kind = req[q].kind
  BY Busy, TrailStep
<1>2. happened \subseteq happened'
  BY RequestsOnlyTell
<1>3. Apart'
  BY <1>1, <1>2 DEF Apart, Moves
<1>4. Rooting'
  <2>1. tree' = None => tree = None
    <3>1. CASE Clone(q)
      BY <3>1 DEF Clone
    <3>2. CASE Reset(q)
      <4>1. req[q].pc = "reset" /\ req[q].kind \in Kinds /\ Trail(req[q])
        BY <1>1, <3>2 DEF Reset, Trails, Rest, Fitted, Fits
      <4>2. req[q].kind \in Pulls
        BY <4>1 DEF Trail, Route, Kinds, Pulls
      <4>3. req'[q].pc = "label"
        BY <3>2 DEF Reset, Goto, TypeOK, RequestType
      <4>4. Rooted(req'[q]) /\ Fitted'
        BY <1>1, <3>2, <4>2, <4>3, HandleTyped DEF Rooted, Rest, Handle
      <4> QED BY <4>4 DEF Fitted
    <3>3. CASE StartBuild(q)
      BY <3>3, StartBuildMoves
    <3>4. CASE WriteDockerfile(q)
      BY <3>4, WriteDockerfileMoves
    <3>5. CASE ~(Clone(q) \/ Reset(q) \/ StartBuild(q) \/ WriteDockerfile(q))
      BY <3>5 DEF Handle, ReadOnce, OpenSlot, ReadLabel, FinishBuild, Relabel, Run, Refresh, Answered, QueueStart,
         Commit, TimesOut, RunFails, Abandon
    <3> QED BY <3>1, <3>2, <3>3, <3>4, <3>5
  <2>2. image' = image \/ tree' # None
    <3>1. CASE FinishBuild(q)
      BY <3>1 DEF FinishBuild, Fitted, Rooted
    <3>2. CASE ~FinishBuild(q)
      BY <3>2 DEF Handle, Clone, Reset, ReadOnce, OpenSlot, ReadLabel, StartBuild,
         Relabel, Run, Refresh, Answered, QueueStart, WriteDockerfile, Commit, TimesOut, RunFails, Abandon
    <3> QED BY <3>1, <3>2
  <2> QED BY <2>1, <2>2 DEF Rooting
<1>5. Truthful'
  <2> SUFFICES ASSUME Undisturbed'
               PROVE  Told' /\ \A o \in Requests : ~Rest(req'[o]) => Reader(o)'
    BY DEF Truthful
  <2>1. Undisturbed
    BY <1>2 DEF Undisturbed
  <2> QED BY <1>1, <2>1, ReadsOn
<1> QED BY <1>1, <1>3, <1>4, <1>5

LEMMA ArrivesHonestly ==
    ASSUME TypeOK, Fitted, Honest, NEW q \in Requests, Arrive(q)
    PROVE  Honest'
<1> USE DEF Honest, primaryVars
<1>1. /\ Moves(q) /\ req[q].pc = "new" /\ UNCHANGED <<tree, app, image>>
  BY ArriveTyped
<1>2. PICK kind \in Kinds, pc \in Pcs, plan \in Seq(Stops),
           arg \in Commits \cup Cmds \cup {None} :
        /\ Begin(q, kind, arg, pc, plan)
        /\ req'[q].plan = plan /\ req'[q].built = FALSE /\ (kind # "zd" => plan = <<>>)
        /\ req'[q].pc = pc /\ req'[q].kind = kind /\ req'[q].arg = arg
        /\ req'[q].mem = app /\ req'[q].seen = app
        /\ req'[q].label = None /\ req'[q].unsaved = FALSE
        /\ \/ kind \in Pulls /\ pc = "clone" /\ tree = None
           \/ kind \in Pulls /\ pc = "reset" /\ tree # None
           \/ kind = "rebuild" /\ pc = "build" /\ tree # None
           \/ kind = "start" /\ pc = "label"
           \/ kind = "remote" /\ pc = "tell"
           \/ kind = "zd" /\ pc = "read"
           \/ kind = "update" /\ pc = "file"
  BY ArriveTyped
<1>3. Trails'
  <2>1. Trail(req'[q])
    BY <1>2 DEF Trail, Route, Pulls
  <2>2. ~Rest(req'[q])
    BY <1>2 DEF Rest
  <2> QED BY <1>1, <2>1, <2>2 DEF Trails, Moves
<1>4. happened' = happened \cup
             (IF \E o \in {p \in Requests \ {q} : InFlight(p)} : {kind, req[o].kind} \cap Changers # {}
                THEN {"crossed"} ELSE {})
  BY <1>2 DEF Begin
<1>5. Apart'
  <2> SUFFICES ASSUME "crossed" \notin happened', NEW a \in Requests, NEW b \in Requests, a # b,
                      ~Rest(req'[a]), ~Rest(req'[b])
               PROVE  req'[a].kind \notin Changers
    BY DEF Apart
  <2>1. \A o \in Requests \ {q} : ~Rest(req[o]) => kind \notin Changers /\ req[o].kind \notin Changers
    BY <1>4 DEF InFlight, Rest
  <2>2. CASE a = q
    BY <1>1, <1>2, <2>1, <2>2 DEF Moves
  <2>3. CASE b = q
    BY <1>1, <1>2, <2>1, <2>3 DEF Moves
  <2>4. CASE a # q /\ b # q
    BY <1>1, <1>4, <2>4 DEF Moves, Apart
  <2> QED BY <2>2, <2>3, <2>4
<1>6. Rooting'
  BY <1>1 DEF Rooting
<1>7. Truthful'
  <2> SUFFICES ASSUME Undisturbed'
               PROVE  Told' /\ \A o \in Requests : ~Rest(req'[o]) => Reader(o)'
    BY DEF Truthful
  <2>1. Undisturbed
    BY <1>4 DEF Undisturbed
  <2>2. Told /\ \A o \in Requests : ~Rest(req[o]) => Reader(o)
    BY <2>1 DEF Truthful
  <2>3. ~req[q].unsaved
    BY <1>1 DEF Trails, Rest
  <2>4. Told'
    BY <1>1, <2>2, <2>3, StillTold
  <2>5. Good(app.image) => Current
    <3> SUFFICES ASSUME Good(app.image) PROVE Current
      OBVIOUS
    <3>1. CASE \E o \in Requests : req[o].unsaved
      BY <2>2, <3>1 DEF Trails, Reader
    <3>2. CASE ~\E o \in Requests : req[o].unsaved
      BY <2>2, <3>2 DEF Told, Good, Current
    <3> QED BY <3>1, <3>2
  <2>6. Reader(q)'
    BY <1>1, <1>2, <2>5 DEF Reader, Good, Current, Pulls
  <2>7. ASSUME NEW o \in Requests \ {q}, ~Rest(req'[o]) PROVE Reader(o)'
    BY <1>1, <2>2, <2>7 DEF Moves, Reader, Good, Current
  <2> QED BY <2>4, <2>6, <2>7
<1> QED BY <1>3, <1>5, <1>6, <1>7

\* The agent gives an answer at most.
LEMMA AgentLeavesHonest ==
    ASSUME TypeOK, Fitted, Honest, AgentStep \/ AgentFails
    PROVE  Honest'
<1> USE DEF Honest, primaryVars
<1>1. UNCHANGED <<tree, app, image>> /\ happened \subseteq happened'
  BY DEF AgentStep, Take, Download, Register, BuildImage, RecordImage, RunRemote, AgentFails
<1>2. UNCHANGED req \/ (agent.cmd \in Command /\ \E what \in {"done", "failed"} : Answer(what))
  BY DEF AgentStep, Take, Download, Register, BuildImage, RecordImage, RunRemote, AgentFails,
         TypeOK, Idle
<1>3. \A q \in Requests :
        /\ req'[q].pc = req[q].pc /\ req'[q].kind = req[q].kind
        /\ req'[q].mem = req[q].mem /\ req'[q].seen = req[q].seen
        /\ req'[q].label = req[q].label /\ req'[q].unsaved = req[q].unsaved
        /\ req'[q].plan = req[q].plan /\ req'[q].built = req[q].built
        /\ req'[q].took = req[q].took
  <2>1. CASE agent.cmd \in Command /\ \E what \in {"done", "failed"} : Answer(what)
    <3>1. PICK b \in Requests :
             /\ Moves(b)
             /\ req'[b].pc = req[b].pc /\ req'[b].kind = req[b].kind
             /\ req'[b].mem = req[b].mem /\ req'[b].seen = req[b].seen
             /\ req'[b].label = req[b].label /\ req'[b].unsaved = req[b].unsaved
             /\ req'[b].plan = req[b].plan /\ req'[b].built = req[b].built
             /\ req'[b].took = req[b].took
      BY <2>1, AnswerMoves
    <3> QED BY <3>1 DEF Moves
  <2> QED BY <1>2, <2>1
<1>4. \A q \in Requests : (Rest(req'[q]) <=> Rest(req[q])) /\ (Trail(req'[q]) <=> Trail(req[q]))
  BY <1>3 DEF Rest, Trail, Route
<1>5. Trails' /\ Apart' /\ Rooting'
  BY <1>1, <1>3, <1>4 DEF Trails, Apart, Rooting
<1>6. Truthful'
  <2> SUFFICES ASSUME Undisturbed'
               PROVE  Told' /\ \A o \in Requests : ~Rest(req'[o]) => Reader(o)'
    BY DEF Truthful
  <2>1. Told /\ \A o \in Requests : ~Rest(req[o]) => Reader(o)
    BY <1>1 DEF Truthful, Undisturbed
  <2>2. Told'
    BY <1>1, <1>3, <2>1 DEF Told
  <2>3. ASSUME NEW o \in Requests, ~Rest(req'[o]) PROVE Reader(o)'
    BY <1>1, <1>3, <1>4, <2>1, <2>3 DEF Reader, Good, Current
  <2> QED BY <2>2, <2>3
<1> QED BY <1>5, <1>6

LEMMA HonestStep == TypeOK /\ Fitted /\ Honest /\ [Next]_vars => Honest'
<1> SUFFICES ASSUME TypeOK, Fitted, Honest, [Next]_vars PROVE Honest'
  OBVIOUS
<1>1. ASSUME NEW q \in Requests, Arrive(q) PROVE Honest'
  BY <1>1, ArrivesHonestly
<1>2. ASSUME NEW q \in Requests, Handle(q) \/ TimesOut(q) \/ RunFails(q) \/ Abandon(q)
      PROVE  Honest'
  BY <1>2, HandlesHonestly
<1>3. CASE AgentStep \/ AgentFails
  BY <1>3, AgentLeavesHonest
<1>4. CASE UNCHANGED vars
  BY <1>4 DEF vars, Honest, Trails, Apart, Rooting, Truthful, Undisturbed, Told, Reader, Good, Current
<1> QED BY <1>1, <1>2, <1>3, <1>4 DEF Next, Rests

LEMMA HonestInit == Init => Honest
<1> SUFFICES ASSUME Init PROVE Honest
  OBVIOUS
<1>1. /\ \A q \in Requests : req[q].pc = "new" /\ req[q].unsaved = FALSE
  BY DEF Init, Fresh
<1>2. Trails /\ Apart
  BY <1>1 DEF Trails, Apart, Rest
<1>3. PICK start \in Starts :
         /\ tree = IF start = "absent" THEN None ELSE [head |-> 1, file |-> FirstCmd]
         /\ app = CASE start = "absent"   -> [Deployed EXCEPT !.source = None]
                    [] start = "deployed" -> Deployed
                    [] start = "built"    -> Recorded
         /\ image = IF start = "built" THEN [head |-> 1, cmd |-> FirstCmd] ELSE None
  BY DEF Init
<1>4. start \in {"absent", "deployed", "built"}
  BY RevisionAssumption
<1>5. [head |-> 1, cmd |-> FirstCmd] # None /\ [head |-> 1, file |-> FirstCmd] # None
  <2>1. [head |-> 1, cmd |-> FirstCmd] \in Content /\ [head |-> 1, file |-> FirstCmd] \in Trees
    BY FirstCmdTyped DEF Content, Trees
  <2> QED BY <2>1, RevisionAssumption
<1>6. CASE start = "built"
  <2>1. /\ tree # None /\ app = Recorded /\ image # None
        /\ image = [head |-> 1, cmd |-> FirstCmd]
    BY <1>3, <1>5, <1>6
  <2>2. image.head = app.image.head /\ image.cmd = app.cmd
    BY <2>1 DEF Recorded
  <2> QED BY <1>1, <1>2, <2>1, <2>2 DEF Honest, Rooting, Truthful, Told, Rest
<1>7. CASE start # "built"
  <2>1. app.image = None /\ image = None
    BY <1>3, <1>4, <1>7 DEF Deployed
  <2> QED BY <1>1, <1>2, <2>1 DEF Honest, Rooting, Truthful, Told, Rest
<1> QED BY <1>6, <1>7

\* An image revision in the row is the commit the image was built from and the
\* image runs the row's command, for every number of requests, commits,
\* commands, failed builds and replicas a deploy replaces on either machine:
\* while no pull or update overlapped with another request, none ended between
\* a build and its commit, and no zero-downtime deploy that replaced replicas
\* of the node only set a revision the primary has not built.
THEOREM LabelsAreTrue == Spec => []LabelsHold
<1>1. TypeOK /\ Fitted /\ Honest /\ [Next]_vars => Honest'
  BY HonestStep
<1>2. Honest => LabelsHold
  BY DEF Honest, Truthful, LabelsHold, Told
<1> QED BY HonestInit, RevisionsTyped, <1>1, <1>2, PTL DEF Spec

\* Under the same provisos, whoever is about to run a replica of the primary
\* runs the commit of the work tree, with the command of the row.
THEOREM StartsAreCurrent == Spec => []StartsCurrent
<1>1. TypeOK /\ Fitted /\ Honest /\ [Next]_vars => Honest'
  BY HonestStep
<1>2. TypeOK /\ Fitted /\ Honest => StartsCurrent
  <2> SUFFICES ASSUME TypeOK, Fitted, Honest, Undisturbed,
                      NEW q \in Requests, req[q].pc = "run", image # None
               PROVE  image.head = tree.head /\ image.cmd = app.cmd
    BY DEF StartsCurrent
  <2>1. Trail(req[q]) /\ Reader(q) /\ req[q].kind \in Kinds
    BY DEF Honest, Trails, Truthful, Rest, Fitted, Fits
  <2>2. req[q].kind \notin Changers
    BY <2>1 DEF Trail, Route, Kinds, Changers, Pulls
  <2> QED BY <2>1, <2>2 DEF Reader, Current
<1> QED BY HonestInit, RevisionsTyped, <1>1, <1>2, PTL DEF Spec
=============================================================================
