-------------------------- MODULE MCRemoteReplica --------------------------
(***************************************************************************)
(* The replica life cycle for TLC.  With faults it has one replica: the    *)
(* commands, rows and tunnels of two of them never touch each other.       *)
(* Without faults it has two, so that a deploy can put one in the other's  *)
(* place, and two users whose requests overlap it.  There are commands     *)
(* enough for a request or a deploy and the recoveries its faults bring    *)
(* about.                                                                  *)
(***************************************************************************)
EXTENDS RemoteReplica, TLC
=============================================================================
