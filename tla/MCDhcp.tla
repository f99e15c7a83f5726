------------------------------- MODULE MCDhcp -------------------------------
(***************************************************************************)
(* Three leases: one long enough for a renewal, a rebinding and its expiry *)
(* to come one after the other, one that is over at once, one for ever.    *)
(***************************************************************************)
EXTENDS Dhcp

MCLeases == {[t0 |-> 4, t1 |-> 1, t2 |-> 3], [t0 |-> 1, t1 |-> 1, t2 |-> 1],
              [t0 |-> 0, t1 |-> 0, t2 |-> 0]}
=============================================================================
