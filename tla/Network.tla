------------------------------ MODULE Network ------------------------------
(***************************************************************************)
(* From power-on to an address on the display: TcpThread shows "loading",  *)
(* starts lwIP, the server and the DHCP supervisor; the supervisor shows   *)
(* the address it settles on; sessions show messages meanwhile.  Display   *)
(* and Dhcp share nothing but these calls: the supervisor is in one from   *)
(* the step that chooses toShow until led_display_set_ip returns.          *)
(***************************************************************************)
EXTENDS Display, Dhcp

CONSTANTS
    Sessions,           \* connections that may run the message command
    Messages,           \* the texts they show
    AddressText(_),     \* an address as it is printed
    Loading,            \* the text "loading"
    MaxMessages         \* bound: message commands run

ASSUME NetworkAssumption ==
    /\ Callers = Sessions \cup {"TcpThread", "DHCP_thread"}
    /\ {"TcpThread", "DHCP_thread"} \cap Sessions = {}
    /\ MaxMessages \in Nat
    /\ \A m \in Messages \cup {Loading} \cup {AddressText(a) : a \in NetifAddress} :
          m \in Texts
    \* MaxChars is 104, a text that starts on row 1 ends before row 0.
    /\ \A m \in Messages : Len(m) <= TextWidth * (TextHeight - 1)
    \* The shortest address is as long as "loading", and fits on a row.
    /\ \A a \in NetifAddress :
          Len(Loading) <= Len(AddressText(a)) /\ Len(AddressText(a)) <= TextWidth

VARIABLES
    boot,               \* where TcpThread is
    commands            \* message commands run

vars == <<displayVars, dhcpVars, boot, commands>>

Init ==
    /\ DisplayInit
    /\ DhcpInit
    /\ boot = "begin"
    /\ commands = 0

(* led_display_clear and led_display_set_ip one after the other. *)
BootShows ==
    /\ boot = "begin"
    /\ Call("TcpThread", led_display_clear \o led_display_set_ip(Loading))
    /\ message' = <<>>
    /\ boot' = "shows"
    /\ UNCHANGED <<dhcpVars, commands>>

(* tcpip_init, Netif_Config, the server's thread, the supervisor's. *)
BootStarts ==
    /\ boot = "shows" /\ Idle("TcpThread")
    /\ boot' = "done"
    /\ UNCHANGED <<displayVars, dhcpVars, commands>>

(* A step of the supervisor, which may end in a call of the display. *)
Supervise ==
    /\ boot = "done"
    /\ SupervisorStep
    /\ IF pc' = "show"
       THEN /\ Call("DHCP_thread", led_display_set_ip(AddressText(toShow')))
            /\ UNCHANGED message
       ELSE UNCHANGED displayVars
    /\ UNCHANGED <<boot, commands>>

SupervisorReturns ==
    /\ Idle("DHCP_thread")
    /\ Shown
    /\ UNCHANGED <<displayVars, boot, commands>>

(* MessageAppRun in a session, which needs the server's thread. *)
ShowMessage(s, m) ==
    /\ boot = "done" /\ commands < MaxMessages
    /\ Call(s, led_display_set_message(m))
    /\ message' = m
    /\ commands' = commands + 1
    /\ UNCHANGED <<dhcpVars, boot>>

Stack == TcpipStep /\ UNCHANGED <<displayVars, boot, commands>>
Screen == DisplayStep /\ UNCHANGED <<dhcpVars, boot, commands>>

Next ==
    \/ BootShows \/ BootStarts
    \/ Supervise \/ SupervisorReturns
    \/ \E s \in Sessions, m \in Messages : ShowMessage(s, m)
    \/ Stack
    \/ Screen

(* The display's thread runs, and so do the threads inside a call.  That is
   all CallsReturn needs; Dhcp states the fairness of the rest. *)
Spec == Init /\ [][Next]_vars /\ DisplayFairness

-----------------------------------------------------------------------------
(* Once the supervisor has fallen back, the display names the address that
   the interface has, unless calls were mixed since the last clear. *)
FallbackShown ==
    Quiet /\ ~mixed /\ DHCP_state = "TIMEOUT" /\ pc = "poll" =>
        Shows(0, AddressText(addr))

TypeOK ==
    /\ DisplayTypeOK /\ DhcpTypeOK
    /\ boot \in {"begin", "shows", "done"}
    /\ commands \in 0..MaxMessages
=============================================================================
