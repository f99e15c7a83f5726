------------------------------- MODULE EnvMap -------------------------------
(***************************************************************************)
(* What the environment of a console promises: a map from names to values. *)
(* Each call assigns one name or looks one up; an assignment may fail only *)
(* when the name is new (there is no memory for it), and what was assigned *)
(* stays until the same name is assigned again.                            *)
(*                                                                         *)
(* A value is kept up to ValueLen characters.  Nothing is promised about   *)
(* names that do not fit their field (NameLen characters, one of them the  *)
(* terminator), except that they leave all others alone.                   *)
(***************************************************************************)
EXTENDS Naturals, Sequences

CONSTANTS NameLen, ValueLen

VARIABLES
    map,  \* the names that have a value
    call  \* the last call: what was asked and what came back

vars == <<map, call>>

Fits(n) == Len(n) < NameLen
Kept(v) == SubSeq(v, 1, IF Len(v) < ValueLen THEN Len(v) ELSE ValueLen)

Init == map = << >> /\ call = [op |-> "none"]

Assigned(c) ==
    /\ c.op = "set" /\ c.rc = 0
    /\ map' = IF Fits(c.name)
                THEN [n \in DOMAIN map \cup {c.name} |-> IF n = c.name THEN Kept(c.value) ELSE map[n]]
                ELSE map

Refused(c) == c.op = "set" /\ c.rc # 0 /\ (Fits(c.name) => c.name \notin DOMAIN map) /\ map' = map

LookedUp(c) ==
    /\ c.op = "get" /\ map' = map
    /\ Fits(c.name) => IF c.name \in DOMAIN map
                         THEN c.rc = 0 /\ c.value = map[c.name]
                         ELSE c.rc # 0

Next == Assigned(call') \/ Refused(call') \/ LookedUp(call')

Spec == Init /\ [][Next]_vars
=============================================================================
