---------------------------- MODULE MCTcpServer ----------------------------
(***************************************************************************)
(* Instances of TcpServer for TLC.                                         *)
(***************************************************************************)
EXTENDS TcpServer, TLC

\* No action tells one netconn of the pool from another.
Symmetry == Permutations(Conn)
=============================================================================
