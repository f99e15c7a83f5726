----------------------------- MODULE MCConsole -----------------------------
(***************************************************************************)
(* Console with one letter, small buffers and two command names.  The user *)
(* may assign to ERROR ("s" here) by hand.                                 *)
(***************************************************************************)
EXTENDS Console

MCBufferSizes == <<0, 1, 2>>
MCEnvUser == <<"u">>
MCEnvError == <<"s">>
MCAppOf == (<<"s">> :> "set") @@ (<<"s", "s">> :> "other") @@ (<<"CARET">> :> "logon")
MCExitCode == (0 :> <<"0">>) @@ (-1 :> <<"e">>)
=============================================================================
