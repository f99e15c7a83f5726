-------------------------------- MODULE Dhcp --------------------------------
(***************************************************************************)
(* How the interface gets its IPv4 address: DHCP_thread (TcpServer.c), the *)
(* application's supervisor, and lwIP's DHCP client (dhcp.c) with AutoIP   *)
(* (autoip.c) as its fallback.  The supervisor calls dhcp_start, dhcp_stop *)
(* and netif_set_addr from its own thread; timers and replies are handled  *)
(* by the tcpip thread, which has a higher priority and so runs each       *)
(* handler whole, between any two steps of the supervisor.                 *)
(*                                                                         *)
(* Time is abstract: the request timer of dhcp_fine_tmr may expire whenever*)
(* it is armed, the lease timers count the ticks of dhcp_coarse_tmr.  The  *)
(* servers are the environment: they may answer a message any number of    *)
(* times up to MaxReplies in all, late, out of order, or never.            *)
(***************************************************************************)
EXTENDS Naturals, FiniteSets

CONSTANTS
    Addresses,      \* what the servers have to offer
    Leases,         \* the leases they give: [t0, t1, t2] in coarse ticks, 0 for
                    \* a period that is infinite
    MaxDhcpTries,   \* MAX_DHCP_TRIES: 4
    SelectTries,    \* REQUESTING is retried up to this many tries: 5
    CoopTries,      \* LWIP_DHCP_AUTOIP_COOP_TRIES: 9
    MaxReplies      \* bound: messages and ARP replies delivered

ASSUME DhcpAssumption ==
    /\ MaxDhcpTries \in Nat /\ SelectTries \in Nat /\ CoopTries \in Nat
    /\ MaxReplies \in Nat
    /\ 2 <= MaxDhcpTries /\ MaxDhcpTries + 2 < CoopTries
    /\ Leases \subseteq [t0 : Nat, t1 : Nat, t2 : Nat]
    /\ {"Any", "Static", "LinkLocal"} \cap Addresses = {}

VARIABLES
    DHCP_state,     \* the supervisor's state
    pc,             \* where DHCP_thread is
    attached,       \* the interface has a struct dhcp ...
    dhcp,           \* ... this one
    addr,           \* netif->ip_addr
    xid,            \* the static transaction counter of dhcp_create_msg
    asked,          \* what the servers have been asked
    granted,        \* the <<xid, address>> they have acknowledged
    replies,        \* how many answers were delivered
    toShow,         \* the address in the call of led_display_set_ip
    anonymous       \* history: the transactions in which an offer that names no
                    \* server has been taken

dhcpVars ==
    <<DHCP_state, pc, attached, dhcp, addr, xid, asked, granted, replies, toShow,
      anonymous>>

NetifAddress == Addresses \cup {"Any", "Static", "LinkLocal"}
ClientState ==
    {"OFF", "SELECTING", "REQUESTING", "CHECKING", "BACKING_OFF",
     "BOUND", "RENEWING", "REBINDING"}
NoLease == [t0 |-> 0, t1 |-> 0, t2 |-> 0]

(* What memset leaves of struct dhcp; dhcp_start fills it from there. *)
Zeroed ==
    [state |-> "OFF", tries |-> 0, armed |-> FALSE, xid |-> 0,
     pcb |-> FALSE, offered |-> "Any", lease |-> NoLease,
     t0_timeout |-> 0, t2_timeout |-> 0, lease_used |-> 0,
     t1_renew_time |-> 0, t2_rebind_time |-> 0, autoip |-> "OFF"]

Client ==
    [state : ClientState, tries : 0..CoopTries, armed : BOOLEAN, xid : Nat,
     pcb : BOOLEAN, offered : NetifAddress,
     lease : Leases \cup {NoLease},
     t0_timeout : Nat, t2_timeout : Nat, lease_used : Nat,
     t1_renew_time : Nat, t2_rebind_time : Nat,
     autoip : {"OFF", "PROBING", "BOUND"}]

Request == [type : {"DISCOVER", "REQUEST"}, xid : Nat, addr : NetifAddress]

-----------------------------------------------------------------------------
(* Building blocks.  A handler maps a world to a world: the client with    *)
(* the interface's address, the transaction counter and the messages sent. *)

World == [c |-> dhcp, addr |-> addr, xid |-> xid, asked |-> asked]

Become(w) ==
    /\ dhcp' = w.c
    /\ addr' = w.addr
    /\ xid' = w.xid
    /\ asked' = w.asked

SetState(c, s) ==
    IF c.state = s THEN c
    ELSE [c EXCEPT !.state = s, !.tries = 0, !.armed = FALSE]

(* mutant: the count does not saturate *)
TriedForEver(c) == [c EXCEPT !.tries = @ + 1, !.armed = TRUE]

(* Every request ends this way: a saturating count, and the timer armed. *)
Tried(c) ==
    [c EXCEPT !.tries = IF @ < CoopTries THEN @ + 1 ELSE @, !.armed = TRUE]

(* dhcp_create_msg, sending, dhcp_delete_msg.  Without memory (~ok) nothing
   happens.  A new transaction gets a new xid, a REQUEST keeps its own. *)
SendMsg(w, type, a, ok) ==
    LET next == IF w.c.tries = 0 THEN w.xid + 1 ELSE w.xid
        mine == IF type = "REQUEST" THEN w.c.xid ELSE next
    IN  IF ~ok THEN w
        ELSE [c |-> [w.c EXCEPT !.xid = mine],
              addr |-> w.addr,
              xid |-> IF type = "REQUEST" THEN w.xid ELSE next,
              asked |-> IF type \in {"DISCOVER", "REQUEST"}
                        THEN w.asked \cup {[type |-> type, xid |-> mine, addr |-> a]}
                        ELSE w.asked]

LinkLocal(a) == a \in {"LinkLocal", "Static"}

(* Both addresses are in 169.254.0.0/16, the static one too. *)
AutoipStop(w) ==
    IF w.c.autoip = "OFF" THEN w
    ELSE [w EXCEPT !.c.autoip = "OFF",
                   !.addr = IF LinkLocal(@) THEN "Any" ELSE @]

(* autoip_start takes the address away while it probes for its own. *)
AutoipCoop(w) ==
    IF w.c.tries >= CoopTries /\ w.c.autoip = "OFF"
    THEN [w EXCEPT !.c.autoip = "PROBING", !.addr = "Any"]
    ELSE w

DiscoverTail(w) == AutoipCoop([w EXCEPT !.c = Tried(@)])

Discover(w, ok) ==
    LET fresh == [w EXCEPT !.c = SetState([@ EXCEPT !.offered = "Any"], "SELECTING")]
    IN  DiscoverTail(SendMsg(fresh, "DISCOVER", "Any", ok))

(* mutant: the request is not timed *)
SelectUntimed(w, ok) ==
    LET asking == [w EXCEPT !.c = SetState(@, "REQUESTING")]
    IN  [SendMsg(asking, "REQUEST", w.c.offered, ok) EXCEPT !.c.tries = @ + 1]

Select(w, ok) ==
    LET asking == [w EXCEPT !.c = SetState(@, "REQUESTING")]
    IN  [SendMsg(asking, "REQUEST", w.c.offered, ok) EXCEPT !.c = Tried(@)]

Check(w) == [w EXCEPT !.c = Tried(SetState(@, "CHECKING"))]

Decline(w, ok) ==
    LET off == [w EXCEPT !.c = SetState(@, "BACKING_OFF")]
    IN  [SendMsg(off, "DECLINE", w.c.offered, ok) EXCEPT !.c = Tried(@)]

(* dhcp_renew and dhcp_rebind differ in the state and the destination. *)
Extend(w, s, ok) ==
    LET asking == [w EXCEPT !.c = SetState(@, s)]
    IN  [SendMsg(asking, "REQUEST", w.addr, ok) EXCEPT !.c = Tried(@)]

(* A period that is infinite leaves its timer as it was. *)
Period(new, old) == IF new = 0 THEN old ELSE new

Leased(c) ==
    [c EXCEPT !.lease_used = 0,
              !.t0_timeout = Period(c.lease.t0, @),
              !.t1_renew_time = Period(c.lease.t1, @),
              !.t2_timeout = Period(c.lease.t2, @),
              !.t2_rebind_time = Period(c.lease.t2, @)]

(* mutant: AutoIP is not stopped *)
BindBesideAutoip(w) ==
    [w EXCEPT !.c = SetState(Leased(@), "BOUND"), !.addr = w.c.offered]

Bind(w) ==
    LET alone == AutoipStop([w EXCEPT !.c = Leased(@)])
    IN  [alone EXCEPT !.c = SetState(@, "BOUND"), !.addr = w.c.offered]

SuppliedAddress(c) == c.state \in {"BOUND", "RENEWING"}

(* The address is removed only if the client still counts it as supplied. *)
Release(w, ok) ==
    LET idle == [w EXCEPT !.c = [SetState(@, "OFF") EXCEPT
                    !.offered = "Any", !.lease = NoLease,
                    !.t0_timeout = 0, !.lease_used = 0,
                    !.t1_renew_time = 0, !.t2_rebind_time = 0]]
    IN  IF SuppliedAddress(w.c)
        THEN [SendMsg(idle, "RELEASE", w.addr, ok) EXCEPT !.addr = "Any"]
        ELSE idle

-----------------------------------------------------------------------------
(* Initial states: User_notification has run, the thread is created. *)

DhcpInit ==
    /\ DHCP_state \in {"START", "LINK_DOWN"}
    /\ pc = "poll"
    /\ attached = FALSE /\ dhcp = Zeroed
    /\ addr = "Any"
    /\ xid = 0
    /\ asked = {}
    /\ granted = {}
    /\ replies = 0
    /\ toShow = "Any"
    /\ anonymous = {}

Polls(s) == pc = "poll" /\ DHCP_state = s

-----------------------------------------------------------------------------
(* The supervisor, DHCP_thread. *)

(* dhcp_start without memory: for the client, for its UDP pcb, or for the
   message.  In the last case dhcp_stop undoes what dhcp_discover has done,
   the count of tries included. *)
StartFails ==
    /\ Polls("START")
    /\ attached' \in BOOLEAN /\ dhcp' = Zeroed
    /\ addr' = "Any"
    /\ DHCP_state' = "WAIT_ADDRESS"
    /\ UNCHANGED <<pc, xid, asked, granted, replies, toShow, anonymous>>

(* dhcp_start up to the return of udp_sendto: the message is out, and its
   answer may be handled by the tcpip thread before dhcp_discover goes on. *)
StartSends ==
    /\ Polls("START")
    /\ LET begun == [World EXCEPT !.c = [Zeroed EXCEPT !.pcb = TRUE, !.state = "SELECTING"],
                                  !.addr = "Any"]
       IN  Become(SendMsg(begun, "DISCOVER", "Any", TRUE))
    /\ attached' = TRUE
    /\ pc' = "sent"
    /\ UNCHANGED <<DHCP_state, granted, replies, toShow, anonymous>>

(* The rest of dhcp_discover and dhcp_start. *)
StartReturns ==
    /\ pc = "sent"
    /\ Become(DiscoverTail(World))
    /\ DHCP_state' = "WAIT_ADDRESS"
    /\ pc' = "poll"
    /\ UNCHANGED <<attached, granted, replies, toShow, anonymous>>

SeesAddress ==
    /\ Polls("WAIT_ADDRESS")
    /\ attached /\ SuppliedAddress(dhcp)
    /\ DHCP_state' = "ADDRESS_ASSIGNED"
    /\ pc' = "read"
    /\ UNCHANGED <<attached, dhcp, addr, xid, asked, granted, replies, toShow, anonymous>>

ReadsAddress ==
    /\ pc = "read"
    /\ toShow' = addr
    /\ pc' = "show"
    /\ UNCHANGED <<attached, DHCP_state, dhcp, addr, xid, asked, granted, replies, anonymous>>

(* With no client the tries are read through a null pointer: any value. *)
GivesUp ==
    /\ Polls("WAIT_ADDRESS")
    /\ attached => ~SuppliedAddress(dhcp) /\ dhcp.tries > MaxDhcpTries
    /\ DHCP_state' = "TIMEOUT"
    /\ pc' = IF attached THEN "autoip_stop" ELSE "set_addr"
    /\ UNCHANGED <<attached, dhcp, addr, xid, asked, granted, replies, toShow, anonymous>>

(* dhcp_stop: AutoIP first, then the state, then the pcb. *)
StopAutoip ==
    /\ pc = "autoip_stop"
    /\ Become(AutoipStop(World))
    /\ pc' = "set_off"
    /\ UNCHANGED <<attached, DHCP_state, granted, replies, toShow, anonymous>>

(* mutant: dhcp_stop leaves the state alone *)
StopStateKept(c) == c

StopState(c) == SetState(c, "OFF")

StopSetsOff ==
    /\ pc = "set_off"
    /\ dhcp' = StopState(dhcp)
    /\ pc' = "free_pcb"
    /\ UNCHANGED <<attached, DHCP_state, addr, xid, asked, granted, replies, toShow, anonymous>>

StopFreesPcb ==
    /\ pc = "free_pcb"
    /\ dhcp' = [dhcp EXCEPT !.pcb = FALSE]
    /\ pc' = "set_addr"
    /\ UNCHANGED <<attached, DHCP_state, addr, xid, asked, granted, replies, toShow, anonymous>>

SetsStatic ==
    /\ pc = "set_addr"
    /\ addr' = "Static"
    /\ toShow' = "Static"
    /\ pc' = "show"
    /\ UNCHANGED <<attached, DHCP_state, dhcp, xid, asked, granted, replies, anonymous>>

(* led_display_set_ip has returned. *)
Shown ==
    /\ pc = "show"
    /\ pc' = "poll"
    /\ toShow' = "Any"
    /\ UNCHANGED <<attached, DHCP_state, dhcp, addr, xid, asked, granted, replies, anonymous>>

(* dhcp_stop of an interface that has no client does nothing. *)
LinkDown ==
    /\ Polls("LINK_DOWN")
    /\ DHCP_state' = "OFF"
    /\ UNCHANGED <<attached, pc, dhcp, addr, xid, asked, granted, replies, toShow, anonymous>>

SupervisorStep ==
    \/ StartFails \/ StartSends \/ StartReturns
    \/ SeesAddress \/ ReadsAddress \/ GivesUp
    \/ StopAutoip \/ StopSetsOff \/ StopFreesPcb \/ SetsStatic \/ LinkDown

-----------------------------------------------------------------------------
(* The tcpip thread: replies, ARP and timers. *)

Delivered == replies < MaxReplies /\ replies' = replies + 1

(* mutant: the transaction ids are not compared *)
AcceptedAny(x) == attached /\ dhcp.pcb

(* What dhcp_recv does not drop: it compares the transaction ids. *)
Accepted(x) == attached /\ dhcp.pcb /\ x = dhcp.xid

RecvOffer(m, a, ok) ==
    /\ m.type = "DISCOVER"
    /\ Delivered /\ Accepted(m.xid)
    /\ dhcp.state = "SELECTING"
    /\ Become(Select([World EXCEPT !.c.armed = FALSE, !.c.offered = a], ok))
    /\ UNCHANGED <<attached, DHCP_state, pc, granted, toShow, anonymous>>

(* An offer without a server ID: dhcp_recv has stopped the request timer
   before dhcp_handle_offer looks for the ID, and nothing starts it again. *)
RecvOfferNoServer(m) ==
    /\ m.type = "DISCOVER"
    /\ Delivered /\ Accepted(m.xid)
    /\ dhcp.state = "SELECTING"
    /\ dhcp' = [dhcp EXCEPT !.armed = FALSE]
    /\ anonymous' = anonymous \cup {m.xid}
    /\ UNCHANGED <<attached, DHCP_state, pc, addr, xid, asked, granted, toShow>>

RecvAck(m, l) ==
    /\ m.type = "REQUEST"
    /\ Delivered /\ Accepted(m.xid)
    /\ LET acked == [World EXCEPT !.c.offered = m.addr, !.c.lease = l]
       IN  \/ dhcp.state = "REQUESTING" /\ Become(Check(acked))
           \/ dhcp.state \in {"REBINDING", "RENEWING"} /\ Become(Bind(acked))
    /\ granted' = granted \cup {<<m.xid, m.addr>>}
    /\ UNCHANGED <<attached, DHCP_state, pc, toShow, anonymous>>

RecvNak(m, ok) ==
    /\ m.type = "REQUEST"
    /\ Delivered /\ Accepted(m.xid)
    /\ dhcp.state \in {"REQUESTING", "REBINDING", "RENEWING"}
    /\ LET backed == [World EXCEPT !.c = SetState(@, "BACKING_OFF"), !.addr = "Any"]
       IN  Become(Discover(backed, ok))
    /\ UNCHANGED <<attached, DHCP_state, pc, granted, toShow, anonymous>>

(* Another host answers for the offered address. *)
ArpReply(ok) ==
    /\ Delivered
    /\ attached /\ dhcp.state = "CHECKING"
    /\ Become(Decline(World, ok))
    /\ UNCHANGED <<attached, DHCP_state, pc, granted, toShow, anonymous>>

(* The supervisor polls every 250 ms and the request timer takes at least
   16 s once it has counted MaxDhcpTries: it cannot expire twice unseen. *)
SupervisorPolls ==
    DHCP_state = "WAIT_ADDRESS" \/ pc \notin {"poll", "show"}
        => dhcp.tries <= MaxDhcpTries + 1

(* dhcp_fine_tmr and dhcp_timeout. *)
RequestTimeout(ok, ok2) ==
    /\ attached /\ dhcp.armed /\ SupervisorPolls
    /\ LET w == [World EXCEPT !.c.armed = FALSE]
       IN  \/ /\ dhcp.state \in {"BACKING_OFF", "SELECTING"}
              /\ Become(Discover(w, ok))
           \/ /\ dhcp.state = "REQUESTING" /\ dhcp.tries <= SelectTries
              /\ Become(Select(w, ok))
           \/ /\ dhcp.state = "REQUESTING" /\ dhcp.tries > SelectTries
              /\ Become(Discover(Release(w, ok2), ok))
           \/ /\ dhcp.state = "CHECKING" /\ dhcp.tries <= 1
              /\ Become(Check(w))
           \/ /\ dhcp.state = "CHECKING" /\ dhcp.tries > 1
              /\ Become(Bind(w))
           \/ /\ dhcp.state \in {"OFF", "BOUND", "RENEWING", "REBINDING"}
              /\ Become(w)
    /\ UNCHANGED <<attached, DHCP_state, pc, granted, replies, toShow, anonymous>>

(* dhcp_t1_timeout and dhcp_t2_timeout halve what is left of the period, and
   keep the timer off once that is less than a tick, or nothing is left. *)
HalfLeft(period, used) == IF used < period THEN (period - used) \div 2 ELSE 0

Renew(w, ok) ==
    IF w.c.state \notin {"REQUESTING", "BOUND", "RENEWING"} THEN w
    ELSE [Extend(w, "RENEWING", ok) EXCEPT
             !.c.t1_renew_time = HalfLeft(w.c.t2_timeout, w.c.lease_used)]

Rebind(w, ok) ==
    IF w.c.state \notin {"REQUESTING", "BOUND", "RENEWING", "REBINDING"} THEN w
    ELSE [Extend(w, "REBINDING", ok) EXCEPT
             !.c.t2_rebind_time = HalfLeft(w.c.t0_timeout, w.c.lease_used)]

Down(n) == IF n = 0 THEN 0 ELSE n - 1

(* One tick of dhcp_coarse_tmr. *)
LeaseTick(ok, ok2) ==
    /\ attached /\ dhcp.state # "OFF"
    /\ \E f \in {"t0_timeout", "t1_renew_time", "t2_rebind_time"} : dhcp[f] > 0
    /\ LET used == IF dhcp.t0_timeout > 0 THEN dhcp.lease_used + 1 ELSE dhcp.lease_used
           aged == [World EXCEPT !.c.lease_used = used]
           t2   == [aged EXCEPT !.c.t2_rebind_time = Down(@)]
           t1   == [t2 EXCEPT !.c.t1_renew_time = Down(@)]
       IN  IF dhcp.t0_timeout > 0 /\ used = dhcp.t0_timeout
           THEN Become(Discover(Release(aged, ok2), ok))
           ELSE IF dhcp.t2_rebind_time = 1 THEN Become(Rebind(t2, ok))
           ELSE IF dhcp.t1_renew_time = 1 THEN Become(Renew(t1, ok))
           ELSE Become(t1)
    /\ UNCHANGED <<attached, DHCP_state, pc, granted, replies, toShow, anonymous>>

(* autoip_tmr, after its probes; autoip_restart upon a conflict. *)
AutoipBinds ==
    /\ attached /\ dhcp.autoip = "PROBING"
    /\ dhcp' = [dhcp EXCEPT !.autoip = "BOUND"]
    /\ addr' = "LinkLocal"
    /\ UNCHANGED <<attached, DHCP_state, pc, xid, asked, granted, replies, toShow, anonymous>>

AutoipRestarts ==
    /\ attached /\ dhcp.autoip # "OFF" /\ Delivered
    /\ dhcp' = [dhcp EXCEPT !.autoip = "PROBING"]
    /\ addr' = "Any"
    /\ UNCHANGED <<attached, DHCP_state, pc, xid, asked, granted, toShow, anonymous>>

FineTimer == \E ok, ok2 \in BOOLEAN : RequestTimeout(ok, ok2)
CoarseTimer == \E ok, ok2 \in BOOLEAN : LeaseTick(ok, ok2)

TcpipStep ==
    \/ \E m \in asked, ok \in BOOLEAN :
          \/ \E a \in Addresses : RecvOffer(m, a, ok)
          \/ RecvOfferNoServer(m)
          \/ \E l \in Leases : RecvAck(m, l)
          \/ RecvNak(m, ok)
    \/ \E ok \in BOOLEAN : ArpReply(ok)
    \/ FineTimer
    \/ CoarseTimer
    \/ AutoipBinds
    \/ AutoipRestarts

DhcpNext == SupervisorStep \/ Shown \/ TcpipStep

(* The supervisor is a thread that polls for ever, the timers run
   in the tcpip thread.  Nothing makes the servers answer. *)
DhcpSpec ==
    /\ DhcpInit /\ [][DhcpNext]_dhcpVars
    /\ WF_dhcpVars(SupervisorStep) /\ WF_dhcpVars(Shown)
    /\ WF_dhcpVars(FineTimer) /\ WF_dhcpVars(CoarseTimer)

-----------------------------------------------------------------------------
(* Properties. *)

(* The shape of the state.  The count of tries saturates, a lease's timers
   never go below zero, and a message names an address of its exchange. *)
DhcpTypeOK ==
    /\ DHCP_state \in {"START", "WAIT_ADDRESS", "ADDRESS_ASSIGNED", "TIMEOUT",
                       "LINK_DOWN", "OFF"}
    /\ pc \in {"poll", "sent", "read", "show", "autoip_stop", "set_off",
               "free_pcb", "set_addr"}
    /\ attached \in BOOLEAN
    /\ dhcp \in Client
    /\ addr \in NetifAddress
    /\ xid \in Nat
    /\ asked \subseteq Request
    /\ granted \subseteq Nat \X NetifAddress
    /\ replies \in 0..MaxReplies
    /\ toShow \in NetifAddress
    /\ anonymous \subseteq Nat

(* A client that is BOUND has on its interface an address some server has
   acknowledged in the present transaction, and keeps it while it renews or
   rebinds.  The one exception is left by a lease whose timers run on after
   a NAK: they may turn a new REQUESTING into RENEWING or REBINDING while
   the interface has no leased address. *)
LeasedAddress ==
    attached /\ dhcp.state \in {"BOUND", "RENEWING", "REBINDING"} =>
        \/ <<dhcp.xid, addr>> \in granted
        \/ dhcp.state # "BOUND" /\ addr \in {"Any", "LinkLocal"}

(* Whenever the state machine may send or receive it has its UDP pcb:
   dhcp_stop, run by the supervisor, goes OFF before it removes the pcb, so
   no handler of the tcpip thread in between sends through a freed one. *)
PcbOutlives == attached /\ dhcp.state # "OFF" => dhcp.pcb

(* AutoIP is off once a lease is bound: nothing is left running that would
   put a link-local address in its place. *)
AutoipYields == attached /\ dhcp.state = "BOUND" => dhcp.autoip = "OFF"

(* A client that selects among offers and has no timer, because an offer
   without a server ID was the last thing it took: only another offer, or a
   lease timer left by a NAK, gets it out. *)
Stranded ==
    dhcp.state = "SELECTING" /\ ~dhcp.armed /\ dhcp.xid \in anonymous

(* In every state that waits for an answer the request timer runs, the
   supervisor's unfinished dhcp_start excepted: no lost message, failed
   allocation or reply handled before dhcp_start returns leaves the client
   waiting for ever.  An offer that names no server does: that is the only
   way a client gets stranded. *)
NoWedge ==
    attached /\ pc # "sent"
        /\ dhcp.state \in {"SELECTING", "REQUESTING", "CHECKING", "BACKING_OFF"}
        => dhcp.armed \/ Stranded

(* Once the supervisor has fallen back to the static address, no late reply
   and no timer, of DHCP or AutoIP, changes the interface's address. *)
StaticIsFinal ==
    [][DHCP_state = "TIMEOUT" /\ pc \in {"show", "poll"} => addr' = "Static"]_dhcpVars

(* A supervisor whose dhcp_start succeeded does not wait for ever: it sees
   an address or falls back, even if servers answer late, conflict or fall
   silent in any state, unless its client gets stranded.  NAKs and conflicts
   start the count of tries again; they come at most MaxReplies times. *)
AddressSettles ==
    (DHCP_state = "WAIT_ADDRESS" /\ attached /\ dhcp.state # "OFF")
        ~> (DHCP_state \in {"ADDRESS_ASSIGNED", "TIMEOUT"} \/ Stranded)

(* When a lease ends, by expiry or by giving it up (dhcp_release clears
   t0_timeout), the interface loses its address: "remove IP address from
   interface". *)
ExpiredAddressRemoved ==
    [][dhcp.t0_timeout > 0 /\ dhcp'.t0_timeout = 0 => addr' = "Any"]_dhcpVars
=============================================================================
