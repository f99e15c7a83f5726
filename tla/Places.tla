------------------------------- MODULE Places -------------------------------
(***************************************************************************)
(* What the server and its sessions promise about their counter of places. *)
(* There are MaxConns of them.  A session takes a place and gives it back, *)
(* and either may cost further places, because ++conns and --conns lose    *)
(* updates and a thread that is not created gives nothing back.  A place   *)
(* that is lost is neither taken again nor does it ever come back before   *)
(* a reset.                                                                *)
(***************************************************************************)
EXTENDS Naturals

CONSTANT MaxConns

VARIABLES
    sessions,   \* places that sessions have
    lost        \* places that nobody has and nobody can get

vars == <<sessions, lost>>

Init == sessions = 0 /\ lost = 0

\* Places are lost, if at all, while one is taken or given back.
LosesSome == lost' \in lost .. (MaxConns - sessions')

Admit ==
    /\ sessions + lost < MaxConns
    /\ sessions' = sessions + 1
    /\ LosesSome

Leave ==
    /\ sessions > 0
    /\ sessions' = sessions - 1
    /\ LosesSome

Reset == sessions' = 0 /\ lost' = 0

Next == Admit \/ Leave \/ Reset

Spec == Init /\ [][Next]_vars
=============================================================================
