------------------------------ MODULE Listing ------------------------------
(***************************************************************************)
(* A set of positions as the sequence of its members in order, and what a  *)
(* sequence holds there: how the references of TelnetParser and Console    *)
(* say which bytes of a stream or a line they mean.                        *)
(***************************************************************************)
EXTENDS Naturals, Sequences

\* The members of S among the positions 1 .. n, in order
InOrder(S, n) ==
    LET listed[i \in 0 .. n] ==
            IF i = 0 THEN << >>
            ELSE IF i \in S THEN Append(listed[i - 1], i) ELSE listed[i - 1]
    IN  listed[n]

\* What s holds at these positions
At(s, positions) == [k \in DOMAIN positions |-> s[positions[k]]]
=============================================================================
