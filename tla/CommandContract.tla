-------------------------- MODULE CommandContract --------------------------
(***************************************************************************)
(* What the node-command table promises the rest of the control plane,     *)
(* whatever happens to agents, websockets and processes: a command is      *)
(* claimed once, handed to the agent at most once, and its outcome, once   *)
(* recorded, stands.  It does not promise delivery: a claimed or running   *)
(* command may be lost, and a lost command stays "in_progress" for ever.   *)
(*                                                                         *)
(* CommandQueue implements this contract; RemoteReplica relies on it.      *)
(***************************************************************************)
EXTENDS Naturals

CONSTANT MaxCmds

VARIABLE phase     \* phase[c]: where command c is in its life

Cmd == 1..MaxCmds

Phase == {"absent", "queued", "claimed", "running", "done", "failed", "lost"}

Move(S, to) == phase' = [c \in Cmd |-> IF c \in S THEN to ELSE phase[c]]

Init == phase = [c \in Cmd |-> "absent"]

Submit(c) ==
    /\ phase[c] = "absent"
    /\ \A d \in Cmd : d < c => phase[d] # "absent"
    /\ Move({c}, "queued")

Claim(S) ==
    /\ \A c \in S : phase[c] = "queued"
    /\ Move(S, "claimed")

Start(c) ==
    /\ phase[c] = "claimed"
    /\ Move({c}, "running")

Finish(c) ==
    /\ phase[c] = "running"
    /\ \E o \in {"done", "failed"} : Move({c}, o)

\* A restarted agent fails what it claimed without running it.
Discard(c) ==
    /\ phase[c] = "claimed"
    /\ Move({c}, "failed")

Lose(S) ==
    /\ \A c \in S : phase[c] \in {"claimed", "running"}
    /\ Move(S, "lost")

Next ==
    \/ \E c \in Cmd : Submit(c) \/ Start(c) \/ Finish(c) \/ Discard(c)
    \/ \E S \in SUBSET Cmd : Claim(S) \/ Lose(S)

Spec == Init /\ [][Next]_phase
=============================================================================
