----------------------------- MODULE MCNetwork -----------------------------
(***************************************************************************)
(* Texts of one, two and four marks on a screen of three rows of two: the  *)
(* static address fills a row, the longer message all rows below it.       *)
(***************************************************************************)
EXTENDS Network

MCCallers == Sessions \cup {"TcpThread", "DHCP_thread"}
MCLeases == {[t0 |-> 1, t1 |-> 1, t2 |-> 1]}
MCMessages == {<<"m">>, <<"n", "n", "n", "n">>}
MCLoading == <<"l">>
MCAddressText(a) == IF a = "Static" THEN <<"s", "s">> ELSE IF a = "a" THEN <<"a">> ELSE <<"z">>
MCMarks == {"m", "n", "l", "s", "a", "z"}
=============================================================================
