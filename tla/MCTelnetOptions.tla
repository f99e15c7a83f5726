-------------------------- MODULE MCTelnetOptions --------------------------
(***************************************************************************)
(* Instances of TelnetOptions for TLC.  ECHO and SGA are the console's     *)
(* options, TTYPE is one that the client asks for.                         *)
(***************************************************************************)
EXTENDS TelnetOptions

MCConsoleOpts == <<"echo", "sga">>

\* An uninitialised slot says nothing of the options, or speaks of SGA
\* in a state it cannot have.
MCHeap == {Zero,
           [opt |-> "sga", us |-> "WANTNO", him |-> "junk"]}
=============================================================================
