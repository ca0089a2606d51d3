# Cloudbase: a verification project

Cloudbase runs web applications as Docker instances ("replicas") on a primary
node and on remote nodes. The primary (`src/backend/main.py` and `routers/`) is
one asyncio process with a SQLite database; a remote node runs
`src/backend/node_agent.py`. This directory models the control of replicas, local
and remote, who may join and act, and what the replicas run, in TLA+; checks the
models with TLC; and proves the central invariants with TLAPS.

Throughout, a coroutine runs undisturbed between two awaits, so a handler is one
action per database access, docker call or message, and what it read before an
await is kept in its own state and may be stale when it is used.

## 1. Inventory

| component | state | operations | hard behaviour | what makes it correct |
|---|---|---|---|---|
| Command queue (`nodes.py` 121-598) | `node_commands`, one wake-up event per node | queue with or without dedupe, claim, apply a result, wait | two claimers of a node, claim then send, lost sends, restarts | a command is run at most once, in order, its outcome is final, and it is delivered if nothing fails |
| Agent websocket handler (`agent_ws`, `ping_node`) | `_node_ws_connections`, `nodes.status` | connect, replace, dispatch, result, heartbeat, evict, clean up | old and new handler overlap, an evicted handler lives on | one active websocket; the status follows the connection; replicas of a lost node are recovered |
| Node agent (`node_agent.py`) | tunnel tasks, containers, source, image, its own revision records | drain, connect, run a command, tunnel, orphan sweep, refresh | commands run inline while the heartbeat task sweeps; it dies between build and record | does what the table says, runs the revision it was asked for, spares live replicas |
| Tunnels (`tunnel_server.py`, `replica_tunnel_ws`) | `_tunnels`, listeners, `tunnel_port`, nginx upstreams | open, replace, close, promote, demote, regenerate nginx | four records of one fact, updated at four moments | ports distinct, no leaked listener, running replicas routed to themselves |
| Remote replica life cycle (`applications.py` 1714-1951, `nodes.py` 155-348, 1239-1339) | `application_replicas.status` | start, stop, result, offline mark, recovery | seven writers of one column, each from its own coroutine | a stop sticks, a start settles, outages are recovered from |
| Application requests (`applications.py` 1091-2763) | rows, containers, external ports | start, stop, restart, scale, delete, modes, polls | check-then-act over awaits, sessions that write only what they changed | rows and containers agree, ports are distinct, no container outlives its row |
| Transition pages (`applications.py` 39-62, 315-527; `main.py` 80-118) | the active mode of an application, its nginx file | set, guard, wait for backends, restore, hard cap | overlapping transitions, a restart in the middle | the page goes away when there is something to serve, and no transition replaces the operator's page |
| Zero-downtime deploy (`applications.py` 2767-3033) | old and new container per replica of the primary, old and new row and tunnel per replica of a node, nginx | build where replicas run, start new ones, check, switch, retire the old, roll back | any step fails; minutes pass between a check and what is written on its strength | what was served stays served; what it records about rows, images and pages is true, which it is not always (section 3) |
| Crash monitor (`main.py` 435-541) | `_restart_history` | detect, back off, restart, give up | a back-off of up to 30 s against user requests | rows follow the containers, restarts are bounded |
| Revisions (`applications.py` 2540-2763, `docker_manager.py`, `node_agent.py` 560-860) | work tree, image, build lock, revision columns, on two machines | pull, rebuild, start, update, deploy, refresh on a node | read, build and record are three steps; waiters time out while work goes on | what is recorded is what the image was built from |
| Accounts (`auth.py`, `roles.py`, `main.py` 694-1089) | users, roles, permissions | create, assign, change, delete; the check of every request | check then act; two reads per check | a request had the permission; roles in use stay |
| Enrolment (`nodes.py` 660-1236) | invites, nodes, websockets | invite, register, enable, disable, delete, heartbeat | overlapping registrations, stale handlers | one node per invite, the limit holds, no replica without a node, status true in the end |
| Stream relays, files, audit, web interface, installers | see `PROJECT.json` | | pure I/O or presentation | not modelled |

The parts interact through the database rows, the in-memory dicts above, and two
kinds of websocket: one per agent and one per tunnel. The hazards found while
reading, each at its line and with the properties that watch it, are under
`hazards` in `PROJECT.json`.

## 2. Modules

| module | what it is |
|---|---|
| `CommandContract` | abstract specification: what the table promises (claimed once, started once, outcome final, may be lost) |
| `CommandQueue` | the queue of one node with its handlers, polls, agent and network; implements `CommandContract` |
| `TunnelServer` | tunnels, listeners, rows and nginx upstreams of the replicas of a node |
| `RemoteReplica` | composes requests, deploys, recovery, agent, tunnels and node detection over the replica's status; uses `CommandContract` for its commands |
| `LocalHost` | rows, containers and host ports of an application on the primary: how ports are chosen, bound and retried, how an application's status is derived |
| `SitePages` | what nginx serves for an application: a page or an upstream, the operator's mode, the transition page |
| `LocalApp` | composes the two: every request on a local application, its restore task, the crash monitor, polls, start-up |
| `Accounts` | users, roles, the permission check and the endpoints that change them |
| `Enrolment` | composes `Accounts` with invites, nodes, websockets and heartbeats |
| `Revisions` | the work tree, image and records of the primary and of a node, with the requests that build |
| `CommandQueueProofs`, `CommandContractProofs`, `TunnelServerProofs`, `RemoteReplicaProofs`, `LocalAppProofs`, `LocalSiteProofs`, `EnrolmentProofs`, `RevisionsProofs` | the theorems and their lemmas |
| `MC...` | instances for TLC |

Every definition is mapped to the lines it models in `PROJECT.json`. How the state
corresponds to the code:

* `CommandQueue`: `status` and `key` are the table; `registry` and `event` are
  `_node_ws_connections[id]` and `_node_command_events[id]`; `pc`, `seen`, `batch`
  are the program counter, the selected and the claimed rows of a websocket
  handler or poll; `toAgent` and `toServer` are the messages in flight or
  buffered; `agent` is the agent's loop. `starts` is a history variable.
  The SELECT and the UPDATEs of a claim are two steps, because other claimers
  commit in between; the UPDATEs and their commit are one, because the first
  takes SQLite's write lock.
* `TunnelServer`: `tunnels`, `port` are the dict and its entries; `bound` are the
  ports the kernel has given out, `serving` the entries whose `_server` is set
  (`start_server` has awaits before and after the bind); `view` is the row a
  handler has read; `Write` is SQLAlchemy writing only the attributes that
  changed. Other writers of the rows appear as `MarkOffline`, `RecoverReplica`,
  `StopReplica` and `ApplyReplicaResult`. `stranded` is a history variable: the
  replicas whose tunnel was taken by a crash or a refused reconnection, until
  their next one.
* `RemoteReplica`: `row` and `nstat` are the status columns, `phase` a command's
  place in `CommandContract`, `users`, `recov` and `deploys` the requests, recovery
  tasks and zero-downtime deploys under way (a deploy inserts a row, queues its
  start, waits for its tunnel, and declares all of its rows running at the end), `link` and `tunnel` the websockets (where "lost" is lost but not
  noticed yet), `exec`, `wire`, `container`, `task`, `sweep` the agent's state.
  `stranded` is a history variable: whom a crash of the control plane left without
  a tunnel handler, or a deploy declared running without one.
* `LocalApp`: `row`, `status`, `policy` are the committed rows; `box[r]` is the port
  that the container of replica r binds; `site` is the configuration nginx has
  loaded, `flag` the operator's mode, `trans` is `_active_transition_modes`. A
  request is one record: `seen` is what its session read, `mem` what it has
  changed in memory, `touched` the rows it will fail on when they are gone, `flag`
  the mode it read; after its answer the same record is the restore task. A step
  is one docker call, or the statements between two. `writer` is SQLite's write
  lock, which a scale holds from its flush to its commit. `sync` is the session of
  a `GET` of the application, which reads, looks at one container after the other
  and then saves; `mon` is the monitor's session and `restarts` is `_restart_history`. `events` is a history variable: it
  records the circumstances that a property excludes.
* `Accounts`, `Enrolment`: tables are functions from ids to rows or `None`, and
  `NextId` is SQLite's choice (largest in use plus one, so that ids come back).
  A request goes through `user` and `grants` (the two SELECTs of the permission
  check), its own look-ups and `write`. `sock[k]` is one run of `agent_ws`, `conns`
  is the registry, `known` the tokens some agent has received. `had`, `moved`,
  `joined` and `raced` are history variables.
* `Revisions`: `tree` is `working_dir` (its commit and whose Dockerfile), `app` the
  columns `source_revision`, `image_revision` and `start_command`, `image` what the
  docker image was really built from, `lock` the build lock of
  `docker_manager.py`; `local`, `dir`, `img` are the same on the node, `agent` the
  command it is working on. A request carries `seen` and `mem` as above, and `took`,
  the files a running build has read; a deploy also carries `plan`, the machines it
  is still to build on and the replicas it is still to start, and `built`, whether
  it has built on the primary. `owed`, `trouble` and `happened` are history
  variables.

## 3. Runs

| run | properties | result |
|---|---|---|
| `queue_safety` | `TypeOK AtMostOnce OneHolder OutcomeStands RunsInOrder ImplementsContract` | pass |
| `queue_live` | `Delivered` | pass |
| `tunnels` | `TypeOK PortsDistinct NoLeakedListener RunningIsRouted RunningHasTunnel ConnectedHasTunnel` | pass |
| `replica_outages` | `TypeOK RunningIsWatched KeepsContract` | pass |
| `replica_requests` | `StopSticks Settles` | pass |
| `local_app` | `TypeOK HostAgrees NoOrphan PortsDistinct SiteAgrees MaintenanceStays ZeroDowntime PageLeaves Converges` | pass |
| `enrolment` | `TypeOK AdmittedHadPermission OneNodePerInvite NodesWithinLimit ReplicasHaveNode RoleKept DisabledGoesOffline ConnectedIsOnline` | pass |
| `revisions` | `TypeOK LabelsHold StartsCurrent NodeRunsWhatIsAsked CatchesUp` | pass |
| `tunnel_misroute` | `TrafficReachesItsInstance` | violated |
| `tunnel_reopened` | `NewTunnelLeftAlone` | violated |
| `orphan_sweep` | `SweepSparesLive` | violated |
| `reattach` | `Reattached` | violated |

What they show:

* **queue_safety.** Two commands, two websocket slots (so an old handler and its
  successor overlap), two polls, a claim limit of 1 (so a claim leaves rows
  behind, which 100 never would at this size) and two faults (enough to lose a
  command and then reconnect). A claimed command has one holder, so it is never
  run twice; results are final although `_apply_command_result` does not look at
  the status it overwrites; commands run in order of insertion across
  reconnections. `ImplementsContract` is the refinement.
* **queue_live.** While no fault has happened, every queued command gets a result,
  even though the wake-up event is shared and never cleared.
* **tunnels.** Three replicas, two ports, three websocket slots: the range is
  exhausted, slots are reused, and handlers of different replicas interleave at
  each await. `Overlap = FALSE` says that the agent's five-second pause before a
  reconnection outlasts the previous handler's clean-up (three seconds at most).
  `RunningHasTunnel` accepts a running replica with no recorded port: the code
  produces it when a tunnel's promotion races an offline mark, since each writes
  only the columns it changed. It excludes the replicas whose tunnel was taken
  without a look at the row, until their next one: by a crash, and by a reconnection
  that finds no port (`nodes.py` 1499), which closed the old tunnel first. The
  second needs the port to be taken by somebody else while `close_tunnel` waits: four
  websocket slots, or two replicas that share one port. The inductive invariant of
  section 6 asks for it; the run is too small to meet it.
* **replica_outages.** One replica, one user, one deploy, two recovery tasks, two
  faults of any kind. A running row has a tunnel handler that will withdraw it,
  unless since the replica's last tunnel the control plane crashed or a deploy
  declared it running. With one replica the deploy's last check and its declaration
  are two steps, so the tunnel can go in between; the wait for other
  replicas only makes that longer. For any number of replicas there are the proofs.
* **replica_requests.** Two replicas, two concurrent requests and a deploy, so that
  an old row is retired while a new one comes up; no faults, with fairness.
* **local_app.** Two events out of requests (at most two, of eleven kinds) and
  faults (at most one: docker fails, nginx refuses, a container dies, a foreign
  process takes a port, the process crashes), on two stopped or running replicas,
  or on one that docker and the monitor restart. Two requests interleave at every
  docker call with each other, the monitor, the restore tasks and the polls; or one
  request meets one fault at any of its steps. One event may be a `GET` whose
  look at the containers is split from its read and its commit. One after the other,
  requests leave rows, containers, ports and the nginx file in agreement; a deploy
  serves throughout, also while it rolls back; no request but a deploy takes the
  operator's page down; a transition page is taken down; and whatever happened, rows
  and containers come to agree again.
* **enrolment.** Two requests out of thirteen kinds, and websockets, in any
  interleaving. Ids are reused (three node ids for a limit of two; a role and an
  account can be deleted and created again), both default roles exist, and one
  account may be granted or stripped of permissions while its request is checked.
* **revisions.** Three requests out of seven kinds and two troubles (an overlap, or a
  failure of git, docker, the stream or the agent), four in all; two commits, two
  start commands; an application that was never deployed, or is built on both
  machines (one that is only cloned is a pull away, and a start of the proofs); deploys over both machines, the primary first, or over replicas of
  the node only (the proofs are for machines and replicas in any number and order,
  which would take the run beyond minutes). Three requests are what the deepest cases take: something to
  build, something that disturbs it, something that trusts the record.

The provisos are part of what was learned. Each names a circumstance in which the
code does break the property. A hazard that every property naming it excludes is
listed in `PROJECT.json` with no property and a note that says so.

| circumstance | what the code does |
|---|---|
| `stranded` | a deploy writes "running" into each new row of a node (`applications.py` 2948) without another look at its tunnel, which may have gone in the minutes the other replicas took; no handler is left to withdraw it. A crash of the control plane does the same to every row, and a reconnection that finds no port to its own |
| `overlap` | two requests on one application are not serialised: their sessions overwrite statuses, `_assign_external_port` picks one port for both (`applications.py` 146), and a deploy that has drained a backend sees it put back by another request's refresh |
| `recorded` | `GET` of an application or its list writes what it observes (`applications.py` 1091): during a restart it writes "stopped", the restart's session sees no change of its own and writes nothing, and a live container is "stopped" until the next poll. It awaits docker between its read and its commit, so it can also write back a status that a request has changed meanwhile |
| `nginx` | a refusal in a stop rolls the rows back with the containers gone; in a scale it leaves the new container without a row; in a deploy the old replicas are retired all the same |
| `failed` | docker's failure in the middle of a loop leaves the earlier containers changed and no row written |
| `foreign` | the retry after a bind conflict scans the host and not the rows, so it can take another stopped replica's port |
| `revived` | the monitor restarts from the list it read before its back-off (`main.py` 435): a container that was stopped, deleted, restarted or given away with its id meanwhile, or one that a request is working on; the port it then binds is the old row's |
| `stale` | a handler or the monitor writes the mode it read at its beginning, and takes down the page that was put up meanwhile |
| `overridden`, the deploy's switch | a deploy reads no mode: it writes nginx with the literal `mode="normal"` (`applications.py` 2974), so a deploy begun while the operator's page is up takes it down, with no fault and nothing beside it. The mode in the configuration still says maintenance |
| `meddled` | the mode or a restore task writes nginx between two steps of a request |
| `unhidden` | the same while that request has a page up: the page is gone before its handler is through |
| `crash`, `died` | a container has no row, or a row no container, until start-up, poll or monitor look |
| `registration` | two registrations overlap between the look-ups and the insert (`nodes.py` 769): both use one invite, or both fit under the limit |
| `role` | an account gets a role between `delete_role`'s look for holders and its deletion (`roles.py` 186) and is left with none |
| `moved` (a request) | the account changes its role between the two reads of the permission check (`auth.py` 153) |
| `crossed` | a pull resets the tree that another request builds from or reads its revision of; an update during a build is recorded as built (`applications.py` 1384) |
| `unbuilt` | a deploy builds on the primary only if a running replica is there (`applications.py` 2792-2829), but sets `image_revision` in any case (2963). With replicas on nodes only, one request, with no fault and nothing beside it, labels an image that is older or does not exist; after an update of the start command it restores the label the update had cleared, and the next local start compares equal (1644) and runs the old image |
| `unrecorded` | a streaming pull or rebuild whose reader leaves has built the image but loses the columns |
| `moved` (a tree) | a node downloads the tree of the moment, while the command carries the revision of the moment it was queued |
| `bare` | `POST /pull` queues a refresh without the start command, so the node builds without one, and the next start trusts that image |
| `stopped`, `unlabelled` | the agent fails between a build and its record |

`pull_stream` queues no refresh at all, although the docstring at `node_agent.py:827`
speaks of `git_pull`s in general; `owed` is therefore set by `POST /pull` only.

The four violations are disagreements between the code and what it says of
itself; each is quoted in `findings`:

* **tunnel_misroute.** Marking a replica offline leaves its port in the nginx
  upstream, and after a crash the stale port in the row is written back into it;
  the port then goes to another application's tunnel.
* **tunnel_reopened.** `was_active` is read before `close_tunnel` waits; a tunnel
  opened during the wait has its row demoted. This needs `Overlap = TRUE`, which
  a second `start_replica` brings about (its tunnel connects after 0.5 s).
* **orphan_sweep.** A replica started between the answer and the removal loses
  its container.
* **reattach.** A ping unanswered for five seconds, which a long command is enough
  for, evicts a live websocket; at the next heartbeat its replicas become `node_offline`
  and, since only a new websocket starts a recovery, stay so. The only fault of the run
  is the ping (`Events = {"ping"}`), so that the trace is this one. The same property fails
  for two other reasons, one configuration away: with `Events = {"agent"}`, because the
  tunnels of a crashed agent close before its websocket and their replicas count as
  stopped (`nodes.py` 1556); with `Events = {"link"}` and `MaxFaults = 2`, because a start
  lost in progress counts as pending for the recovery (`nodes.py` 1272).

What the deploy does to a dropped tunnel, to the operator's page and to the image
revision (`stranded`, `overridden`, `unbuilt`) is as wrong, and takes one fault in the
first case and none in the others. Each is an action of its model, a proviso of the properties it breaks and
a hazard. For the page the interface says otherwise: it is shown "when Maintenance mode
is on" (`app.js` 1546). Dropping `Switches` from `MaintenanceStays`, or `"unbuilt"` from
`Undisturbed`, has TLC print the trace.

## 4. Fairness

asyncio runs every ready coroutine, so each handler, recovery task, request under
way and the agent's loop is weakly fair. The agent reconnects for ever and systemd
restarts it. Requests need not arrive and faults need not happen.

* `CommandQueue`, `RemoteReplica`: no ping, heartbeat or sweep is relied on.
  `Delivered` and `Settles` are conditional on no fault so far, because the code
  retries no command. `Reattached` is checked with the same fairness and fails all
  the same.
* `LocalApp`: weak fairness of `Progress`, the steps of requests, restore tasks,
  monitor and the panel's polls together, the split one included. It is weaker than fairness of each, and
  enough, because none of them works for ever on its own: the monitor gives up,
  and a poll is a step only when it changes something. `Converges` relies on the
  polls, which the panel sends while the application is shown.
  The hard cap of a transition (`Expire`) is not fair.
* `Enrolment`: weak fairness of each websocket's handler, heartbeats of a
  connected agent included. Nothing is assumed of requests or of reconnections.
* `Revisions`: weak fairness of each handler and of the agent. A waiter's deadline
  is not fair: the code may be answered first or not.

## 5. Bounds and assumptions

* `MaxCmds`, `MaxFaults`, `MaxOthers` bound the rows ever inserted, the faults and
  the writes by other parts; `Room` keeps enough commands for the recoveries that
  the faults can cause, so the bound never blocks a recovery.
* `Overtake = FALSE` in the runs of `RemoteReplica`: an agent is slower than the
  request that queued its command, and a tunnel opens after the result of its
  start (the half second in `_run_tunnel` is there for that). With `TRUE` the
  request's late commit leaves a finished stop "stopping" and a late result
  demotes a running replica; both are listed as hazards.
* A deploy gives its new replicas any ids that no row has. SQLite gives the largest in
  use plus one, so a deleted id comes back only when it was the largest; the model
  allows more, and a new row may find the tunnel or container that the old row's queued
  stop has not yet taken down. A deploy in `RemoteReplica` has slots on this node only;
  whether the ones on the primary succeed is part of `ZdFails`.
* No replica id is a decimal prefix of another (the recovery's LIKE pattern).
* Commands in the agent's buffer are dropped with the websocket. An agent may
  still run one that it had already received, which adds no holder.
* `promote` and `demote` of a row are atomic in `RemoteReplica`; `TunnelServer`
  has their reads and writes apart.
* SQLite serialises writers; ids and `created_at` increase together.
* `LocalApp`. `MaxId = 4` and `RangeEnd = 4` are two replicas and a replacement
  for each; `Room` keeps a request from starting when the ids would run out, and a
  full port range is reached when a foreign process takes one. `MaxPort = 6`
  leaves the retry ports above the range. `MaxRestarts = 1` stands for five: the
  monitor restarts once and gives up. The clock is left out: the model counts every
  restart, whereas `main.py` 485 forgets those older than 60 s, and since its
  back-offs alone add up to that, the code does not give up; a handler never waits
  for the write lock longer than SQLite's timeout; a transition expires (`Expire`)
  only while nobody waits for it. Queries of one handler with no await on docker
  between them are one step. Start-up is one step, since requests are served after
  it. A refused nginx file is taken to be rolled back by the handler that wrote it.
  Docker's own restart policy is left out: a container that died stays down until
  the monitor, a poll or a request finds it. A `GET` in steps counts as an event, of
  which there is one (`sync`); the polls that `Converges` relies on (`Sync`) are one
  step each. That an autoflush of `get_app` may take the write lock before its commit
  is left out: it delays other writers and lets fewer interleavings happen. A
  deploy's slots on nodes are in `RemoteReplica`.
* `Enrolment`. An invite expires when it is looked up. `hosted` only grows: that a
  replica may be deleted would make `ReplicasHaveNode` easier. The local node is
  left out, it is never deleted. A lost answer to a registration is the choice of
  `known'`. A request with a node's token in place of a session (`main.py` 808-822)
  passes no permission check; such requests are among those of `Root`, and
  `AdmittedHadPermission` speaks of sessions. The control plane does not crash in this
  module: after a crash that follows a late "online" of a disabled node,
  `mark_stale_nodes_offline` passes over that node, and it stays shown online.
* `Revisions`. One node and one slot of a deploy per machine in the run; an application that uses docker, whose type and port follow its
  start command. An offline node is an agent that takes no step yet. The work of
  generating a Dockerfile and collecting the build context is one step, under the
  build lock. `Register` is the agent's PUT and POST of its record. `Abandon` covers
  a failing git, docker or database call, a closed stream, the death of the
  process, and, in a deploy, an offline node or a failed health check, after which
  `_zd_rollback` saves no column of the application: all end the request with what it
  had already done. `Tracked` is TRUE in
  the run: a tracked Dockerfile, rewritten, makes the tree dirty, which is the case
  that costs a second build; the proofs hold for both.

## 6. Proofs

`CommandQueueProofs`, for all numbers of commands, websockets, polls and callers,
from `QueueAssumption` alone:

* `TypeCorrect`, `CustodyCorrect` (`OneHolder`), `RunsAtMostOnce` (`AtMostOnce`)
  and `OutcomesStand` (`OutcomeStands`).
* The inductive invariant is `TypeOK /\ OneHolder /\ AtMostOnce`. `AtMostOnce` alone
  is not inductive: the step that starts a command must know that it has not run,
  which holds because a command in a websocket buffer is in no other place.
  `OneHolder` says so for batches, buffers, the discard list, the running command
  and the results under way. Most steps only lose holders, which one lemma covers;
  the eight that create or move one have a lemma each.

`CommandContractProofs`, on the same assumption:

* `CommandsRunInOrder` (`RunsInOrder`). The order has to be followed from the table to
  the agent: no two sockets of an agent are open, and what a handler has claimed is
  for its own one (`Sockets`); what is claimed or about to be is older than what is
  left in the table (`Selection`); the batch, the buffer and the command that runs
  follow each other in that order (`Lane`). `OrderKept` shows them inductive.
* `QueueImplementsContract` (`ImplementsContract`): the phase of a command is read off
  its holder, `OneHolder` makes the reading unambiguous, and each kind of step
  (`StepKinds`) is one step of the contract or none. A step that only loses holders
  is `Lose`, however many commands it takes.

`TunnelServerProofs`, for all numbers of replicas, websockets and ports, from
`TunnelAssumption`:

* `TunnelsWellTyped` (`TypeOK`) and `PortsStayDistinct` (`PortsDistinct`), whether
  handlers overlap or not: a handler gives its slot back only when it is not the
  registered one (`Owned`).
* `NoListenerLeaks` (`NoLeakedListener`) and `ConnectedKeepsTunnel`
  (`ConnectedHasTunnel`) when handlers of a replica do not overlap: at most one is
  setting up or cleaning up (`Alone`), the entry it works on is its own
  (`Entered`), and a bound listener is served or about to be (`Listening`).
  Without that condition the first fails: an entry replaced between its bind and
  the assignment of `_server` has nothing to close, and leaks its port.
* `RunningReplicasAreRouted` (`RunningIsRouted`) and `RunningReplicasHaveTunnels`
  (`RunningHasTunnel`), under the same condition. A handler that has read the row
  writes what it changed, so what it read and what the row says now must be related
  (`Views`); the upstream lags behind the row in one handler state (`Routed`), the
  tunnel in five (`Tunnelled`). Looking for an inductive `Tunnelled` is what showed the
  refused reconnection of section 3.

`RemoteReplicaProofs`, for all numbers of replicas, requests, recoveries, commands and
faults, from `ReplicaAssumption`:

* `TypeCorrect` (`TypeOK`), `UsesContract` (`KeepsContract`) and
  `RunningReplicasAreWatched` (`RunningIsWatched`), through any faults and deploys; a
  deploy's unconditional "running" is the proviso of section 3. The invariant is
  small: a queued command names its replica (`Known`), what the agent carries out was
  started (`Executing`), and a result on its way is the only one of a command that
  still counts as running (`Carried`). Hence `_apply_command_result`, which looks at
  no status before it writes one, still ends each command at most once.
* `StoppedReplicasStayDown` (`StopSticks`), the rows that a deploy declares running
  excepted, when an agent is not faster than the request
  that queued its command (`Overtake = FALSE`). With no fault so far the node is never
  offline (`Calm`); commands pass through their phases in the order they were queued
  (`Ordered`), and so do their results (`ResultsOrdered`); what the latest successful
  stop took down stays down (`Gone`); and a request that has not committed its
  status has a command that has not begun (`Announced`), the one part that needs
  the condition. Then the row follows (`RowStopped`).

`EnrolmentProofs`, for all numbers of accounts, roles, permissions, nodes, invites,
websockets and requests, from `AccountAssumption` and `EnrolmentAssumption`:

* `EnrolmentTyped` (`TypeOK`), `AdmissionSound` (`AdmittedHadPermission`),
  `ReplicasKeepNode` (`ReplicasHaveNode`), `LimitHolds` (`NodesWithinLimit`),
  `InvitesHold` (`OneNodePerInvite`) and `RolesStay` (`RoleKept`).
* The base is `TypeOK /\ Fitted`: a request in flight holds the arguments of its
  kind. Each property then needs what a handler knows between its look-up and its
  write: the role it read is still its account's, or the account changed (`Traced`); while
  registrations do not overlap, the one at its insert has found room (`RoomFound`)
  and its invite unused (`Unspent`); the role about to be deleted has no holder
  (`Unheld`). `ReplicasHaveNode` needs none: the foreign key is checked with the
  write, and the proof shows that the two stale checks before it are not needed.

`RevisionsProofs`, for all numbers of commits, commands and requests and for
repositories with and without a Dockerfile, from `RevisionAssumption`:

* `TypeCorrect` (`TypeOK`), `NodeRuns` (`NodeRunsWhatIsAsked`), `LabelsAreTrue`
  (`LabelsHold`) and `StartsAreCurrent` (`StartsCurrent`).
* `Fitted` is what a request and the agent hold at each point: a tree for whoever
  builds, the lock for who is building, an extracted archive before a record.
* For the node, `NodeInv` follows the record: every queued start names a start
  command (`Sound`), the agent's command is followed from download to record
  (`Followed`), and its stored record tells what its image is (`Kept`).
* All of this holds for any itinerary of a deploy: any machines, in any order. The two
  for the primary have the provisos of section 3, the deploy that builds nothing there
  included (`unbuilt`).
* For the primary, `Honest` follows each request along its route (`Trails`): what
  its session has read, taken and labelled still agrees with the tree (`Truthful`)
  while no request that changes the tree is under way beside it (`Apart`). Requests
  that only build may overlap in any number: the build lock and the re-read of the
  revision keep them from recording each other's image.

`LocalAppProofs`, for all numbers of replicas, ports, requests, faults and restarts of
the monitor, any set of kinds of requests and any starting rows, from
`HostAssumption` and `AppAssumption` (bounds are numbers, the port range has a
port, `None` is no value of the code's, the starting rows are on ports of the range):

* `TypeCorrect` (`TypeOK`). `TypeInv` adds what a session has at each point (`SessionsFit`: a
  loop has something left to do, a deploy about to check has a newest replica) and
  that the monitor works through running rows of its own list (`MonitorFits`).
* `PageStays` (`MaintenanceStays`), through every overlap, fault and crash, the switch
  of a deploy excepted, which does take the page down. It needs
  the page to be the operator's mode in the first place (`PageIsFlag`) and an
  application that is gone to have no rows (`Gone`), lest the monitor write it back.
* `PortsStayDistinct` (`PortsDistinct`). Distinct ports in the rows are not inductive:
  a row is inserted after the port was picked, and a restart binds again. `PortsInv` says
  that no container is on the port of another's row (`Apart`), and what a handler
  holds between its pick and its insert (`PortsHeld`). `Sole`, one handler at a time until
  requests overlap, is the base of this and everything below.
* `NoContainerOutlivesItsRow` (`NoOrphan`) and `RowsAgreeWithHost` (`HostAgrees`). Between
  requests the rows tell the truth; during one, the truth is in the session:
  for each row that a handler has not come to, in the table, for the others, in the copy it
  will write (`WorkTruth`, `WorkUp`); and a deploy, which commits as it goes, splits the rows
  into new, old and retired ones (`DeployTruth`). A step of anybody else while a handler works
  must leave all of that alone, which is what `recorded` and `revived` are for.

`LocalSiteProofs`, on the same assumptions:

* `SiteServesTheRows` (`SiteAgrees`). nginx lags behind the rows from a handler's commit
  to its write, and behind the mode while a transition hides it. `SiteInv` says when it is
  right (`SiteRight`), that a page in force has a request that will take it down (`PageOwned`),
  and what each handler knows of the site (`WorkSite`): in a deploy, the file of the
  rows until the switch and of the new replicas after it.
* `DeployKeepsServing` (`ZeroDowntime`). Not every backend of the file is live, but one is:
  an old replica until the switch, a new one afterwards (`ServeInv`). With `UpInv`, which says
  that those replicas have their containers, each step of the deploy, of its roll-back and
  of everybody beside it leaves one of them behind nginx.

Looking for these invariants corrected two properties, which the run is too small to
refute. `PortsDistinct` now excludes `revived`: a container that the monitor brought back
holds a port no row has, which the retry of a third replica's start steps around, onto a
stopped replica's port. `ZeroDowntime` does too: after a restart of one replica during the
monitor's back-off, a deploy may begin while the monitor starts a container that is up
already, fails, writes "error" into its row and takes it from nginx; and a revived
container of a deleted row answers the health check of the replica that got its id, while
another process holds that one's port. `Revive` accordingly notes every row that is not the
one the monitor read, not only one that is no longer running. `ServeInv` was model-checked
on the run's bounds and simulated with larger ones before it was proved.

Only model-checked: the liveness properties `Delivered`, `Settles`, `PageLeaves`, `Converges`,
`CatchesUp`, `DisabledGoesOffline` and `ConnectedIsOnline` (liveness and ENABLED are
beyond the prover). The four violations are counterexamples and nothing to prove.

## 7. Not modelled

* The relay of bytes through tunnels, streams of logs and statistics, host
  statistics: queues that drop what does not fit; no state depends on them.
* Passwords, sessions, login rate limit; renaming of nodes; listings.
* The text of nginx files, certificates, import and export, direct file access,
  the audit log, environment encryption: pure I/O on one file or row.
* Host processes without docker, which `process_manager.py` starts and stops at the
  places where `LocalApp` calls docker.
* The 60-second window of the crash monitor, a crash of the control plane beside
  enrolment (section 5).
* A zero-downtime deploy with slots on the primary and on nodes as one composition: its
  local half is in `LocalApp`, its remote half in `RemoteReplica`, its builds and labels
  in `Revisions`. `scale_app` and `delete_instance` for a remote node.
* The web interface, installers and service scripts.

## 8. What is left

1. The user's intent as state in `RemoteReplica`, for a stop that an outage turns
   into a recovery, and scaling and deletion of remote replicas.
