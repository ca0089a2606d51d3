--------------------------- MODULE MCCommandQueue ---------------------------
(***************************************************************************)
(* The command queue of one node for TLC.  Two websocket slots let the     *)
(* handler of a lost connection overlap with the one of its successor; the *)
(* claim limit of 1 makes a claim leave rows behind.                       *)
(***************************************************************************)
EXTENDS CommandQueue, TLC

\* Slots of a kind are interchangeable; used by the safety run only.
SocketSymmetry == Permutations(Conns) \cup Permutations(Polls)
=============================================================================
