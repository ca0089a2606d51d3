------------------------------ MODULE LocalHost ------------------------------
(***************************************************************************)
(* The replicas of one application on the control plane's own machine:     *)
(* the rows of the replica table, the docker containers behind them and    *)
(* the host ports they bind.  Docker names a container after its replica   *)
(* id, so a replica has at most one; a stopped container is removed before *)
(* the next start and counts as none.                                      *)
(***************************************************************************)
EXTENDS Integers, Sequences, FiniteSetsExt

CONSTANTS
    MaxId,      \* bound: replica ids
    RangeEnd,   \* EXTERNAL_PORT_END, the last port of the instance range
    MaxPort,    \* bound: host ports, of which those above the range serve retries
    None

Ids == 1..MaxId
Ports == 1..MaxPort

VARIABLES
    row,        \* row[r]: the committed row of replica r, None when there is none
    box,        \* box[r]: the port r's running container binds, 0 when none runs
    foreign     \* ports bound by processes that are not replicas of this application

hostVars == <<row, box, foreign>>

Statuses == {"pending", "starting", "running", "restarting", "stopping",
             "stopped", "deploying", "error", "node_offline"}
Row == [status: Statuses, port: Ports]

ASSUME HostAssumption ==
    /\ MaxId \in Nat \ {0}
    /\ RangeEnd \in Nat \ {0} /\ MaxPort \in Nat /\ RangeEnd <= MaxPort
    /\ None \notin Int \cup Row \cup Statuses

NoRows == [r \in Ids |-> None]

Rows(rows) == {r \in Ids : rows[r] # None}
WithStatus(rows, statuses) == {r \in Rows(rows) : rows[r].status \in statuses}
Live == {"running", "starting", "restarting"}

\* Upstream addresses: the ports of the running rows.
Backends(rows) == {rows[r].port : r \in WithStatus(rows, {"running"})}

\* The status an application derives from those of its replicas: the first of
\* Priority that one of them has, else "error" when only errors are left.
Priority == <<"running", "starting", "restarting", "stopping", "deploying">>
DerivedStatus(rows) ==
    LET statuses == {rows[r].status : r \in Rows(rows)}
        present == {i \in DOMAIN Priority : Priority[i] \in statuses}
    IN  IF present # {} THEN Priority[Min(present)]
        ELSE IF statuses \ {"stopped", "pending"} = {"error"} THEN "error"
        ELSE "stopped"

\* SQLite hands out the largest row id in use plus one.
NextId(rows) == Max(Rows(rows) \cup {0}) + 1

Bound == ({box[r] : r \in Ids} \ {0}) \cup foreign

\* Mutant: only the host is scanned for a free port.
UnboundPorts == 1..RangeEnd \ Bound
\* Ports of the range neither in a row of the node nor bound on the host.
FreePorts == 1..RangeEnd \ (Bound \cup {row[r].port : r \in Rows(row)})
AssignedPort == Min(FreePorts)

\* The retry after a bind conflict scans the host upwards and not the rows.
Above(p) == {n \in Ports : n > p} \ Bound

\* What a successful start of r's container can do on port p: reuse the one
\* that runs, bind p, or move to the next free port when p is taken.
StartPort(r, p) ==
    IF box[r] # 0 \/ p \notin Bound THEN p ELSE Min(Above(p))
Started(r, p) ==
    IF box[r] # 0 THEN box ELSE [box EXCEPT ![r] = StartPort(r, p)]
CanStart(r, p) == box[r] # 0 \/ p \notin Bound \/ Above(p) # {}
\* The crash monitor and the start-up call docker without the retry.
CanStartHere(r, p) == box[r] # 0 \/ p \notin Bound

Stopped(r) == [box EXCEPT ![r] = 0]
=============================================================================
