--------------------------- MODULE MCTunnelServer ---------------------------
(***************************************************************************)
(* Three replicas compete for two tunnel ports.  Three websocket slots let *)
(* a replica's handlers overlap while another replica takes a port.        *)
(***************************************************************************)
EXTENDS TunnelServer, TLC

\* Websocket slots and replicas are interchangeable.
TunnelSymmetry == Permutations(Conns) \cup Permutations(Replicas)
=============================================================================
