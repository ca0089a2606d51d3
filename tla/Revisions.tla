----------------------------- MODULE Revisions -----------------------------
(***************************************************************************)
(* Which commit and which start command an image was built from: the work  *)
(* tree, the docker image and the revision columns of one application on   *)
(* the primary (pull, rebuild, start, update and zero-downtime deploy of   *)
(* routers/applications.py), and the copies a node's agent keeps of them   *)
(* (start_replica and refresh_source of node_agent.py).                    *)
(*                                                                         *)
(* A revision is read from git, the image is built from the files, and the *)
(* columns are written at the end, each in a step of its own.  The queue   *)
(* of the node is the first-in first-out, at-most-once channel of          *)
(* CommandContract.  Containers are in LocalApp and RemoteReplica; here a  *)
(* container matters only for the image it is about to run.                *)
(***************************************************************************)
EXTENDS Naturals, Sequences, FiniteSets

CONSTANTS
    MaxCommit,      \* bound: commits of the repository
    Cmds,           \* start commands
    Tracked,        \* whether the repository has a Dockerfile of its own
    MaxRequests,    \* bound: requests ever made
    MaxTrouble,     \* bound: failures of git, docker, requests and the agent, and
                    \* requests that begin while another one is in flight
    MaxEvents,      \* bound: requests and trouble together
    Itineraries,    \* the stops of a zero-downtime deploy, in the order of the rows
    Starts,         \* how the application may begin: "absent", "deployed", "built"
    None

Commits == 1..MaxCommit
Requests == 1..MaxRequests
Own == "own"        \* the Dockerfile of the repository, or none

FirstCmd == CHOOSE c \in Cmds : TRUE    \* the command the files suggest

Labels == [head : Commits, dirty : BOOLEAN]
Trees == [head : Commits, file : Cmds \cup {Own}]
Content == [head : Commits, cmd : Cmds \cup {None}]
Row == [source : Labels \cup {None}, image : Labels \cup {None}, cmd : Cmds \cup {None}]

\* The stops of a zero-downtime deploy: an image on the primary, a refresh of
\* the node, a replica of the primary, a replica of the node.
Stops == {"build", "refresh", "slot", "tell"}

ASSUME RevisionAssumption ==
    /\ MaxCommit \in Nat \ {0}
    /\ MaxRequests \in Nat
    /\ MaxTrouble \in Nat
    /\ MaxEvents \in Nat
    /\ Tracked \in BOOLEAN
    /\ Own \notin Cmds /\ Cmds # {}
    /\ Itineraries \subseteq Seq(Stops)
    /\ Starts \subseteq {"absent", "deployed", "built"}
    /\ None \notin Commits \cup Cmds \cup Requests
    /\ None \notin Labels \cup Content \cup Row \cup Trees

VARIABLES
    tree,       \* working_dir on the primary: its commit and its Dockerfile
    app,        \* the revision columns and the start command of the row
    image,      \* what the primary's image was built from
    lock,       \* the request that holds the build lock
    req,        \* req[q]: the handler of request q
    queue,      \* commands for the node
    local,      \* the agent's row of the application, or None
    dir,        \* the commit the agent extracted last
    img,        \* what the node's image was built from
    agent,      \* the agent's command and how far it is
    owed,       \* history: the commit whose pull has told the node, until the next reset
    trouble,    \* what of MaxTrouble has come
    happened    \* history: what has happened that the guarantees depend on

primaryVars == <<tree, app, image, lock>>
nodeVars == <<local, dir, img>>
vars == <<tree, app, image, lock, req, queue, local, dir, img, agent, owed, trouble, happened>>

Command == [type : {"start", "refresh"}, label : Labels \cup {None}, cmd : Cmds \cup {None},
            by : Requests]
Kinds == {"pull", "pull_stream", "rebuild", "start", "update", "remote", "zd"}
Pulls == {"pull", "pull_stream"}
Changers == Pulls \cup {"update"}

-----------------------------------------------------------------------------
(* Requests                                                                *)

Fresh == [kind |-> None, pc |-> "new", plan |-> <<>>, arg |-> None, label |-> None,
          took |-> None, built |-> FALSE, unsaved |-> FALSE, answer |-> None,
          seen |-> None, mem |-> None]
Ended == [Fresh EXCEPT !.pc = "done"]
InFlight(q) == req[q].pc \notin {"new", "done"}

\* _resolve_source_revision: a generated Dockerfile makes the work tree dirty.
Label == [head |-> tree.head, dirty |-> tree.file # Own]
\* _refresh_app_source_revision: without a repository the column is kept.
Refreshed(q) == IF tree = None THEN req[q].mem.source ELSE Label

\* The session writes the columns whose value differs from the one it read.
Changed(new, seen, now) == IF new # seen THEN new ELSE now
Saved(mem, seen) ==
    [source |-> Changed(mem.source, seen.source, app.source),
     image  |-> Changed(mem.image, seen.image, app.image),
     cmd    |-> Changed(mem.cmd, seen.cmd, app.cmd)]
Write(q) == app' = Saved(req[q].mem, req[q].seen)
Committed(q) == [req[q] EXCEPT !.seen = req[q].mem, !.unsaved = FALSE]

Begun == Cardinality({q \in Requests : req[q].pc # "new"})
Trouble == trouble < MaxTrouble /\ trouble' = trouble + 1

Goto(q, pc) == req' = [req EXCEPT ![q].pc = pc]
\* The next stop, or the last commit.
Onward(q) == IF req[q].plan = <<>> THEN "commit" ELSE Head(req[q].plan)
Left(q) == IF req[q].plan = <<>> THEN <<>> ELSE Tail(req[q].plan)
Proceed(q) == req' = [req EXCEPT ![q].pc = Onward(q), ![q].plan = Left(q)]
Ends(q) == req' = [req EXCEPT ![q] = Ended]
\* An image was replaced and the row never told.
Unrecorded(q) == IF req[q].unsaved THEN {"unrecorded"} ELSE {}

Tell(type, label, cmd, q) ==
    queue' = Append(queue, [type |-> type, label |-> label, cmd |-> cmd, by |-> q])

\* get_db's session reads the application.  It is noted when a request that
\* changes the work tree or the command overlaps with another one.
Begin(q, kind, arg, pc, plan) ==
    LET others == {o \in Requests \ {q} : InFlight(o)}
    IN  /\ req[q].pc = "new" /\ \A o \in 1..(q - 1) : req[o].pc # "new"
        /\ IF others = {} THEN UNCHANGED trouble ELSE Trouble
        /\ Begun + trouble' < MaxEvents
        /\ req' = [req EXCEPT ![q] = [Fresh EXCEPT !.kind = kind, !.arg = arg, !.pc = pc,
                                                   !.plan = plan, !.seen = app, !.mem = app]]
        /\ happened' = happened \cup
             (IF \E o \in others : {kind, req[o].kind} \cap Changers # {}
                THEN {"crossed"} ELSE {})
        /\ UNCHANGED <<primaryVars, queue, nodeVars, agent, owed>>

Pull(q) == \E kind \in Pulls, r \in Commits :
    Begin(q, kind, r, IF tree = None THEN "clone" ELSE "reset", <<>>)
\* rebuild_docker_image and its streaming variant.
Rebuild(q) == tree # None /\ Begin(q, "rebuild", None, "build", <<>>)
StartLocal(q) == Begin(q, "start", None, "label", <<>>)
StartRemote(q) == Begin(q, "remote", None, "tell", <<>>)
UpdateApp(q) == \E c \in Cmds \ {app.cmd} : Begin(q, "update", c, "file", <<>>)
\* deploy_zero_downtime: an image on each machine that has a running replica,
\* then a new replica for each that runs.
DeployZeroDowntime(q) == \E plan \in Itineraries : Begin(q, "zd", None, "read", plan)

\* It reads the revision once, whatever machine it builds on.
ReadOnce(q) ==
    /\ req[q].pc = "read"
    /\ req' = [req EXCEPT ![q].mem.source = Refreshed(q), ![q].label = Refreshed(q),
                          ![q].pc = Onward(q), ![q].plan = Left(q)]
    /\ UNCHANGED <<primaryVars, queue, nodeVars, agent, owed, trouble, happened>>

\* The row of a new replica of the primary, committed before its start.
OpenSlot(q) ==
    /\ req[q].pc = "slot"
    /\ Write(q)
    /\ req' = [req EXCEPT ![q] = [Committed(q) EXCEPT !.pc = "label"]]
    /\ UNCHANGED <<tree, image, lock, queue, nodeVars, agent, owed, trouble, happened>>

\* _deploy_app: clone, label, and only then the Dockerfile.  The streaming
\* variant commits nothing.
Clone(q) ==
    /\ req[q].pc = "clone"
    /\ IF tree = None
         THEN /\ tree' = [head |-> req[q].arg, file |-> req[q].mem.cmd]
              /\ IF req[q].kind = "pull"
                   THEN req' = [req EXCEPT ![q].mem.source = [head |-> req[q].arg, dirty |-> FALSE],
                                           ![q].mem.image = None,
                                           ![q].pc = "commit"]
                   ELSE Ends(q)
         ELSE UNCHANGED tree /\ Ends(q)
    /\ UNCHANGED <<app, image, lock, queue, nodeVars, agent, owed, trouble, happened>>

\* git reset --hard: an untracked Dockerfile stays.
Reset(q) ==
    /\ req[q].pc = "reset"
    /\ tree' = [head |-> req[q].arg, file |-> IF Tracked THEN Own ELSE tree.file]
    /\ Goto(q, "label")
    /\ owed' = None
    /\ UNCHANGED <<app, image, lock, queue, nodeVars, agent, trouble, happened>>

\* Mutant: any image will do.
OutdatedIfMissing(row, label) == row.image = None
\* _start_instance_local builds when the image has another revision.
Outdated(row, label) == label # None /\ row.image # label

ReadLabel(q) ==
    /\ req[q].pc = "label"
    /\ LET label == Refreshed(q)
           early == req[q].kind \in Pulls
       IN  req' = [req EXCEPT
             ![q].mem.source = label,
             ![q].label = IF early THEN label ELSE @,
             ![q].pc = IF early \/ Outdated(req[q].mem, label) THEN "build" ELSE "run"]
    /\ UNCHANGED <<primaryVars, queue, nodeVars, agent, owed, trouble, happened>>

\* build_image: the lock is tried, the Dockerfile generated and the context
\* sent; a second build of the application is refused.
StartBuild(q) ==
    /\ req[q].pc = "build"
    /\ IF tree # None /\ lock = None
         THEN /\ lock' = q
              /\ tree' = [tree EXCEPT !.file = req[q].mem.cmd]
              /\ req' = [req EXCEPT ![q].took = [head |-> tree.head, cmd |-> req[q].mem.cmd],
                                    ![q].pc = "building"]
              /\ UNCHANGED happened
         ELSE /\ UNCHANGED <<lock, tree>>
              /\ Ends(q) /\ happened' = happened \cup Unrecorded(q)
    /\ UNCHANGED <<app, image, queue, nodeVars, agent, owed, trouble>>

\* A request that read its revision before its first build records that one.
Foreseen(q) == req[q].kind \in Pulls \/ (req[q].kind = "zd" /\ ~req[q].built)
FinishedBuild(q) ==
    [req[q] EXCEPT !.took = None, !.built = TRUE, !.unsaved = TRUE,
                   !.pc = IF Foreseen(q) THEN Onward(q) ELSE "relabel",
                   !.plan = IF Foreseen(q) THEN Left(q) ELSE req[q].plan,
                   !.mem.image = IF Foreseen(q) /\ req[q].label # None
                                   THEN req[q].label ELSE req[q].mem.image]
\* Mutant: the lock is not given back.
FinishBuildHeld(q) ==
    /\ req[q].pc = "building"
    /\ image' = req[q].took
    /\ req' = [req EXCEPT ![q] = FinishedBuild(q)]
    /\ UNCHANGED <<tree, app, lock, queue, nodeVars, agent, owed, trouble, happened>>
FinishBuild(q) ==
    /\ req[q].pc = "building"
    /\ image' = req[q].took
    /\ lock' = None
    /\ req' = [req EXCEPT ![q] = FinishedBuild(q)]
    /\ UNCHANGED <<tree, app, queue, nodeVars, agent, owed, trouble, happened>>

\* The other ones read it again when the image is there.
Relabel(q) ==
    /\ req[q].pc = "relabel"
    /\ req' = [req EXCEPT ![q].mem.source = Refreshed(q), ![q].mem.image = Refreshed(q),
                          ![q].pc = IF req[q].kind = "rebuild" THEN "commit" ELSE "run"]
    /\ UNCHANGED <<primaryVars, queue, nodeVars, agent, owed, trouble, happened>>

\* The replica is run from the image; without one it is built first.
Run(q) ==
    /\ req[q].pc = "run"
    /\ IF image = None THEN Goto(q, "build") ELSE Proceed(q)
    /\ UNCHANGED <<primaryVars, queue, nodeVars, agent, owed, trouble, happened>>

\* docker refuses, for another reason than a taken port: the image is built
\* again.
RunFails(q) ==
    /\ req[q].pc = "run" /\ image # None
    /\ Trouble /\ Begun + trouble < MaxEvents
    /\ Goto(q, "build")
    /\ UNCHANGED <<primaryVars, queue, nodeVars, agent, owed, happened>>

\* deploy_zero_downtime has the node rebuild and waits for the answer.
Refresh(q) ==
    /\ req[q].pc = "refresh"
    /\ Write(q)
    /\ Tell("refresh", req[q].label, req[q].mem.cmd, q)
    /\ req' = [req EXCEPT ![q] = [Committed(q) EXCEPT !.pc = "wait"]]
    /\ UNCHANGED <<tree, image, lock, nodeVars, agent, owed, trouble, happened>>
Answered(q) ==
    /\ req[q].pc = "wait" /\ req[q].answer # None
    /\ IF req[q].answer = "done" THEN Proceed(q) ELSE Ends(q)
    /\ UNCHANGED <<primaryVars, queue, nodeVars, agent, owed, trouble, happened>>
TimesOut(q) ==
    /\ req[q].pc = "wait"
    /\ Ends(q)
    /\ UNCHANGED <<primaryVars, queue, nodeVars, agent, owed, trouble, happened>>

\* A start_replica command carries the revision of the moment it is queued.
QueueStart(q) ==
    /\ req[q].pc = "tell"
    /\ app' = Saved([req[q].mem EXCEPT !.source = Refreshed(q)], req[q].seen)
    /\ Tell("start", Refreshed(q), req[q].mem.cmd, q)
    /\ IF req[q].kind = "zd"
         THEN req' = [req EXCEPT ![q] =
                [Committed(q) EXCEPT !.mem.source = Refreshed(q), !.seen.source = Refreshed(q),
                                     !.pc = Onward(q), !.plan = Left(q)]]
         ELSE Ends(q)
    /\ UNCHANGED <<tree, image, lock, nodeVars, agent, owed, trouble, happened>>

\* Mutant: a new command leaves the recorded image as it is.
WriteDockerfileOnly(q) ==
    /\ req[q].pc = "file"
    /\ tree' = IF tree = None THEN None ELSE [tree EXCEPT !.file = req[q].arg]
    /\ req' = [req EXCEPT ![q].mem.cmd = req[q].arg, ![q].pc = "commit"]
    /\ UNCHANGED <<app, image, lock, queue, nodeVars, agent, owed, trouble, happened>>
\* update_app with another start command.
WriteDockerfile(q) ==
    /\ req[q].pc = "file"
    /\ tree' = IF tree = None THEN None ELSE [tree EXCEPT !.file = req[q].arg]
    /\ req' = [req EXCEPT ![q].mem.cmd = req[q].arg, ![q].mem.image = None, ![q].pc = "commit"]
    /\ UNCHANGED <<app, image, lock, queue, nodeVars, agent, owed, trouble, happened>>

\* A deploy ends by setting the image revision to the one it read, also where
\* it has built no image on the primary.
Final(q) == IF req[q].kind = "zd" /\ req[q].label # None
              THEN [req[q].mem EXCEPT !.image = req[q].label] ELSE req[q].mem
Claims(q) ==
    /\ app' = Saved(Final(q), req[q].seen)
    /\ happened' = happened \cup
         (IF ~req[q].built /\ Final(q).image # req[q].mem.image THEN {"unbuilt"} ELSE {})
\* Mutant: the plain pull is as quiet as the streaming one.
CommitQuiet(q) ==
    /\ req[q].pc = "commit"
    /\ Claims(q) /\ Ends(q)
    /\ owed' = IF req[q].kind = "pull" /\ req[q].label # None THEN tree.head ELSE owed
    /\ UNCHANGED <<tree, image, lock, queue, nodeVars, agent, trouble>>
\* git_pull has the node rebuild, with no start command in the payload;
\* git_pull_stream does not tell it.
Commit(q) ==
    /\ req[q].pc = "commit"
    /\ Claims(q) /\ Ends(q)
    /\ IF req[q].kind = "pull" /\ req[q].label # None
         THEN /\ Tell("refresh", req[q].label, None, q)
              /\ owed' = tree.head
         ELSE UNCHANGED <<queue, owed>>
    /\ UNCHANGED <<tree, image, lock, nodeVars, agent, trouble>>

\* git, docker or the database fails, the reader of a stream leaves and its
\* session is closed, or the process dies: what was not committed is lost.
Abandon(q) ==
    /\ InFlight(q)
    /\ Trouble /\ Begun + trouble < MaxEvents
    /\ lock' = IF lock = q THEN None ELSE lock
    /\ Ends(q) /\ happened' = happened \cup Unrecorded(q)
    /\ UNCHANGED <<tree, app, image, queue, nodeVars, agent, owed>>

-----------------------------------------------------------------------------
(* The agent of the node                                                   *)

Idle == [pc |-> "idle", cmd |-> None]
Work(pc) == agent' = [agent EXCEPT !.pc = pc]
Answer(what) ==
    req' = [req EXCEPT ![agent.cmd.by].answer =
              IF req[agent.cmd.by].pc = "wait" THEN what ELSE @]

\* Mutant: an image of the right architecture is enough.
ReadyIfPresent(cmd) == local # None /\ img # None
\* _ensure_replica_app_deployed: an image is there, both columns have the
\* revision asked for, and the command is the one asked for.
Ready(cmd) ==
    /\ local # None /\ img # None
    /\ cmd.label = None \/ (local.source = cmd.label /\ local.image = cmd.label)
    /\ cmd.cmd = None \/ local.cmd = cmd.cmd

Take ==
    /\ agent.pc = "idle" /\ queue # <<>>
    /\ queue' = Tail(queue)
    /\ agent' = [pc  |-> IF Head(queue).type = "start" /\ Ready(Head(queue))
                           THEN "run" ELSE "download",
                 cmd |-> Head(queue)]
    /\ UNCHANGED <<primaryVars, req, nodeVars, owed, trouble, happened>>

\* The archive is of the moment it is asked for, not of the revision asked
\* for; the primary may have none.
Download ==
    /\ agent.pc = "download"
    /\ IF tree = None
         THEN agent' = Idle /\ Answer("failed") /\ UNCHANGED <<dir, happened>>
         ELSE /\ dir' = tree.head
              /\ Work("register")
              /\ happened' = happened \cup
                   (IF agent.cmd.label # None /\ agent.cmd.label.head = tree.head
                      THEN {} ELSE {"moved"})
              /\ UNCHANGED req
    /\ UNCHANGED <<primaryVars, queue, local, img, owed, trouble>>

\* The local row is created, or gets the new command, which clears its image
\* revision; the source revision is written before the build.  The request
\* to clear the image revision (None) writes nothing.  A new row that comes
\* without a command gets the one detected in the files, if any.
Register ==
    /\ agent.pc = "register"
    /\ \E detected \in {FirstCmd, None} :
       LET cmd == agent.cmd
           row == IF local = None
                    THEN [source |-> None, image |-> None,
                          cmd |-> IF cmd.cmd = None THEN detected ELSE cmd.cmd]
                    ELSE IF cmd.cmd \in {None, local.cmd} THEN local
                           ELSE [local EXCEPT !.cmd = cmd.cmd, !.image = None]
       IN  local' = [row EXCEPT !.source = IF cmd.label = None THEN @ ELSE cmd.label]
    /\ Work("build")
    /\ UNCHANGED <<primaryVars, req, queue, dir, img, owed, trouble, happened>>

BuildImage ==
    /\ agent.pc = "build"
    /\ img' = [head |-> dir, cmd |-> agent.cmd.cmd]
    /\ Work("label")
    /\ happened' = happened \cup (IF agent.cmd.cmd = None THEN {"bare"} ELSE {})
    /\ UNCHANGED <<primaryVars, req, queue, local, dir, owed, trouble>>

RecordImage ==
    /\ agent.pc = "label"
    /\ local' = IF agent.cmd.label = None THEN local
                  ELSE [local EXCEPT !.source = agent.cmd.label, !.image = agent.cmd.label]
    /\ IF agent.cmd.type = "start"
         THEN Work("run") /\ UNCHANGED req
         ELSE agent' = Idle /\ Answer("done")
    /\ UNCHANGED <<primaryVars, queue, dir, img, owed, trouble, happened>>

RunRemote ==
    /\ agent.pc = "run"
    /\ agent' = Idle
    /\ Answer("done")
    /\ UNCHANGED <<primaryVars, queue, nodeVars, req, owed, trouble, happened>>

\* A call of the agent fails, or the agent dies; the command is not run again.
AgentFails ==
    /\ agent.pc # "idle"
    /\ Trouble /\ Begun + trouble < MaxEvents
    /\ agent' = Idle
    /\ Answer("failed")
    /\ happened' = happened \cup {"stopped"}
         \cup (IF agent.pc = "label" THEN {"unlabelled"} ELSE {})
    /\ UNCHANGED <<primaryVars, queue, nodeVars, owed>>

-----------------------------------------------------------------------------
Deployed == [source |-> [head |-> 1, dirty |-> FALSE], image |-> None, cmd |-> FirstCmd]
Recorded == [source |-> [head |-> 1, dirty |-> TRUE], image |-> [head |-> 1, dirty |-> TRUE],
             cmd |-> FirstCmd]
\* An application of a remote node has no source on the primary; one of the
\* primary is cloned by deploy_app; one that has been started on both
\* machines is built.
Init ==
    /\ \E start \in Starts :
         /\ tree = IF start = "absent" THEN None ELSE [head |-> 1, file |-> FirstCmd]
         /\ app = CASE start = "absent"   -> [Deployed EXCEPT !.source = None]
                    [] start = "deployed" -> Deployed
                    [] start = "built"    -> Recorded
         /\ image = IF start = "built" THEN [head |-> 1, cmd |-> FirstCmd] ELSE None
         /\ local = IF start = "built" THEN Recorded ELSE None
         /\ dir = IF start = "built" THEN 1 ELSE None
         /\ img = IF start = "built" THEN [head |-> 1, cmd |-> FirstCmd] ELSE None
    /\ lock = None
    /\ req = [q \in Requests |-> Fresh]
    /\ queue = <<>>
    /\ agent = Idle
    /\ owed = None
    /\ trouble = 0
    /\ happened = {}

Arrive(q) ==
    \/ Pull(q) \/ Rebuild(q) \/ StartLocal(q) \/ StartRemote(q)
    \/ DeployZeroDowntime(q) \/ UpdateApp(q)

Handle(q) ==
    \/ Clone(q) \/ Reset(q) \/ ReadOnce(q) \/ OpenSlot(q) \/ ReadLabel(q) \/ StartBuild(q) \/ FinishBuild(q)
    \/ Relabel(q) \/ Run(q) \/ Refresh(q) \/ Answered(q) \/ QueueStart(q)
    \/ WriteDockerfile(q) \/ Commit(q)

AgentStep == Take \/ Download \/ Register \/ BuildImage \/ RecordImage \/ RunRemote

Rests ==
    /\ \A q \in Requests : ~InFlight(q)
    /\ agent = Idle /\ queue = <<>>
    /\ UNCHANGED vars

Next ==
    \/ \E q \in Requests : Arrive(q) \/ Handle(q) \/ TimesOut(q)
    \/ \E q \in Requests : RunFails(q) \/ Abandon(q)
    \/ AgentStep \/ AgentFails
    \/ Rests

Spec == Init /\ [][Next]_vars

\* Every handler and the agent's loop go on; requests, deadlines and
\* failures need not come.
FairSpec ==
    /\ Spec
    /\ \A q \in Requests : WF_vars(Handle(q))
    /\ WF_vars(AgentStep)

-----------------------------------------------------------------------------
(* Properties                                                              *)

Pcs == {"new", "read", "slot", "clone", "reset", "label", "build", "building", "relabel", "run",
        "refresh", "wait", "tell", "file", "commit", "done"}
RequestType ==
    [kind : Kinds \cup {None}, pc : Pcs, plan : Seq(Stops),
     arg : Commits \cup Cmds \cup {None}, label : Labels \cup {None},
     took : Content \cup {None}, built : BOOLEAN, unsaved : BOOLEAN,
     answer : {None, "done", "failed"}, seen : Row \cup {None}, mem : Row \cup {None}]

\* Every variable keeps its shape, and the build lock is held by exactly the
\* request that is building.
TypeOK ==
    /\ tree \in Trees \cup {None}
    /\ app \in Row
    /\ image \in Content \cup {None}
    /\ req \in [Requests -> RequestType]
    /\ lock \in Requests \cup {None}
    /\ \A q \in Requests : req[q].pc = "building" <=> lock = q
    /\ queue \in Seq(Command)
    /\ local \in Row \cup {None}
    /\ dir \in Commits \cup {None}
    /\ img \in Content \cup {None}
    /\ agent \in [pc : {"download", "register", "build", "label", "run"}, cmd : Command]
                   \cup {Idle}
    /\ owed \in Commits \cup {None}
    /\ trouble \in 0..MaxTrouble
    /\ happened \subseteq {"crossed", "unrecorded", "unbuilt", "moved", "bare", "stopped",
                      "unlabelled"}

Undisturbed == happened \cap {"crossed", "unrecorded", "unbuilt"} = {}

\* An image revision in the row is the commit the primary's image was built
\* from, and the image runs the row's start command, however often builds
\* failed and requests that only build overlapped.  Three things break it: a
\* pull or update that overlaps with another request, a request that ends
\* between the build and its commit, and, alone and with no fault, a
\* zero-downtime deploy that replaces replicas of the node only: it builds no
\* image on the primary and sets the image revision all the same.
LabelsHold ==
    (Undisturbed /\ \A q \in Requests : ~req[q].unsaved) =>
        (app.image # None =>
            /\ image # None
            /\ image.head = app.image.head
            /\ image.cmd = app.cmd)

\* Under the same provisos, a replica of the primary is never run from an
\* image of another commit than the work tree's, or with another command
\* than the row's, although _start_instance_local compares two columns only.
StartsCurrent ==
    Undisturbed => \A q \in Requests :
        (req[q].pc = "run" /\ image # None) =>
            /\ image.head = tree.head
            /\ image.cmd = app.cmd

\* A node that is asked for a revision is about to run it, with the command
\* it was asked for, across failed builds and lost commands, unless the work
\* tree changed between a request and its download, the agent stopped between
\* a build and its record, or a pull built the image without a command.
NodeRunsWhatIsAsked ==
    agent.pc = "run" /\ agent.cmd.label # None =>
        /\ \/ happened \cap {"moved", "unlabelled"} # {}
           \/ img # None /\ img.head = agent.cmd.label.head
        /\ "bare" \in happened \/ img.cmd = agent.cmd.cmd

\* "Offline nodes keep the queued refresh and catch up when they reconnect":
\* after POST /pull the node's image is built from the pulled commit, unless
\* the agent fails or the tree is changed again.
CatchesUp ==
    owed # None ~> \/ owed = None
                   \/ img # None /\ img.head = owed
                   \/ "stopped" \in happened
=============================================================================
