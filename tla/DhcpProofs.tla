----------------------------- MODULE DhcpProofs -----------------------------
(***************************************************************************)
(* Proofs about Dhcp, for all sets of addresses and leases and all bounds. *)
(* The handlers are operators from worlds to worlds; one lemma for each    *)
(* says what the invariant needs of it.                                    *)
(***************************************************************************)
EXTENDS Dhcp, TLAPS

Worlds == [c : Client, addr : NetifAddress, xid : Nat, asked : SUBSET Request]

\* The messages of the client that are told apart.
MsgType == {"DISCOVER", "REQUEST", "DECLINE", "RELEASE"}

\* A timer of the lease will bring about a renewal or a rebinding.
Running(c) == c.t1_renew_time > 0 \/ c.t2_rebind_time > 0

\* The client d has of c what only a few handlers change.
Same(c, d) ==
    /\ d \in Client
    /\ d.pcb = c.pcb /\ d.autoip = c.autoip /\ d.offered = c.offered
    /\ Running(d) => Running(c)

-----------------------------------------------------------------------------
(* The building blocks. *)

\* The messages.
LEMMA MsgTypeFacts ==
  "DISCOVER" \in MsgType /\ "REQUEST" \in MsgType /\ "DECLINE" \in MsgType /\ "RELEASE" \in MsgType
  BY DEF MsgType

\* The addresses an interface has without DHCP.
LEMMA AddressFacts == "Any" \in NetifAddress /\ "Static" \in NetifAddress /\ "LinkLocal" \in NetifAddress
  BY DEF NetifAddress

\* dhcp_set_state resets the tries and the timer when the state is a new one.
LEMMA SetStateFacts ==
  ASSUME NEW c \in Client, NEW s \in ClientState
  PROVE  /\ Same(c, SetState(c, s))
         /\ SetState(c, s).state = s
         /\ SetState(c, s).xid = c.xid
         /\ c.state # s => SetState(c, s).tries = 0
         /\ c.state = s => SetState(c, s) = c
  <1> DEFINE d(b) == [c EXCEPT !.state = s, !.tries = 0, !.armed = b]
  <1>1. ASSUME NEW b \in BOOLEAN
        PROVE  /\ Same(c, d(b))
               /\ d(b).state = s /\ d(b).xid = c.xid /\ d(b).tries = 0
    <2>1. 0 \in 0 .. CoopTries
      BY DhcpAssumption
    <2> QED  BY <2>1 DEF Client, Same, Running
  <1>2. SetState(c, s) = IF c.state = s THEN c ELSE d(FALSE)
    BY DEF SetState
  <1>3. Same(c, c)
    BY DEF Same
  <1> HIDE DEF d
  <1> QED  BY <1>1, <1>2, <1>3

\* The end of every request: the timer runs.
LEMMA TriedFacts ==
  ASSUME NEW c \in Client
  PROVE  /\ Same(c, Tried(c))
         /\ Tried(c).state = c.state
         /\ Tried(c).xid = c.xid
         /\ Tried(c).armed = TRUE
         /\ Tried(c).tries <= c.tries + 1
  <1> DEFINE n == IF c.tries < CoopTries THEN c.tries + 1 ELSE c.tries
             d(b) == [c EXCEPT !.tries = n, !.armed = b]
  <1>1. n \in 0 .. CoopTries /\ n <= c.tries + 1
    BY DhcpAssumption DEF Client
  <1>2. Tried(c) = d(TRUE)
    BY DEF Tried
  <1> HIDE DEF n
  <1>3. ASSUME NEW b \in BOOLEAN
        PROVE  /\ Same(c, d(b))
               /\ d(b).state = c.state /\ d(b).xid = c.xid
               /\ d(b).armed = b /\ d(b).tries = n
    BY <1>1 DEF Client, Same, Running
  <1> HIDE DEF d
  <1> QED  BY <1>1, <1>2, <1>3

\* Replacing the client of a world.
LEMMA ClientFacts ==
  ASSUME NEW w \in Worlds, NEW d \in Client
  PROVE  /\ w.c \in Client /\ w.addr \in NetifAddress
         /\ [w EXCEPT !.c = d] \in Worlds
         /\ [w EXCEPT !.c = d].c = d
         /\ [w EXCEPT !.c = d].addr = w.addr
  BY DEF Worlds

\* Replacing the address of the interface.
LEMMA AddrFacts ==
  ASSUME NEW w \in Worlds, NEW a \in NetifAddress
  PROVE  /\ [w EXCEPT !.addr = a] \in Worlds
         /\ [w EXCEPT !.addr = a].c = w.c
         /\ [w EXCEPT !.addr = a].addr = a
  BY DEF Worlds

\* Replacing both.
LEMMA BothFacts ==
  ASSUME NEW w \in Worlds, NEW d \in Client, NEW a \in NetifAddress
  PROVE  /\ [w EXCEPT !.c = d, !.addr = a] \in Worlds
         /\ [w EXCEPT !.c = d, !.addr = a].c = d
         /\ [w EXCEPT !.c = d, !.addr = a].addr = a
  BY DEF Worlds

\* A message changes at most the transaction id of the client.
MessageSent(w, r) ==
    /\ r \in Worlds /\ r.addr = w.addr
    /\ Same(w.c, r.c)
    /\ r.c.state = w.c.state /\ r.c.armed = w.c.armed /\ r.c.tries = w.c.tries

\* dhcp_create_msg and dhcp_delete_msg; a REQUEST keeps the transaction.
LEMMA SendMsgFacts ==
  ASSUME NEW w \in Worlds, NEW type \in MsgType,
         NEW a \in NetifAddress, NEW ok \in BOOLEAN
  PROVE  /\ MessageSent(w, SendMsg(w, type, a, ok))
         /\ type = "REQUEST" => SendMsg(w, type, a, ok).c.xid = w.c.xid
  <1> DEFINE next == IF w.c.tries = 0 THEN w.xid + 1 ELSE w.xid
             mine == IF type = "REQUEST" THEN w.c.xid ELSE next
             c == [w.c EXCEPT !.xid = mine]
             x == IF type = "REQUEST" THEN w.xid ELSE next
             sent == IF type \in {"DISCOVER", "REQUEST"}
                     THEN w.asked \cup {[type |-> type, xid |-> mine, addr |-> a]}
                     ELSE w.asked
  <1>1. w.c \in Client /\ w.addr \in NetifAddress /\ w.xid \in Nat /\ w.asked \in SUBSET Request
    BY DEF Worlds
  <1>2. w.c.tries \in 0 .. CoopTries /\ w.c.xid \in Nat
    BY <1>1 DEF Client
  <1>3. next \in Nat /\ mine \in Nat /\ x \in Nat /\ (type = "REQUEST" => mine = w.c.xid)
    BY <1>1, <1>2
  <1>4. SendMsg(w, type, a, ok) =
          IF ~ok THEN w ELSE [c |-> c, addr |-> w.addr, xid |-> x, asked |-> sent]
    BY DEF SendMsg
  <1> HIDE DEF next, mine, x
  <1>5. sent \in SUBSET Request
    <2>1. type \in {"DISCOVER", "REQUEST"} => [type |-> type, xid |-> mine, addr |-> a] \in Request
      BY <1>3 DEF Request
    <2> QED  BY <1>1, <2>1
  <1>6. /\ Same(w.c, c) /\ c.xid = mine
        /\ c.state = w.c.state /\ c.armed = w.c.armed /\ c.tries = w.c.tries
    BY <1>1, <1>3 DEF Client, Same, Running
  <1> HIDE DEF c, sent
  <1>7. CASE ~ok
    BY <1>1, <1>4, <1>7 DEF MessageSent, Same
  <1>8. CASE ok
    <2> DEFINE r == [c |-> c, addr |-> w.addr, xid |-> x, asked |-> sent]
    <2>1. c \in Client
      BY <1>6 DEF Same
    <2>2. r \in Worlds /\ r.c = c /\ r.addr = w.addr
      BY <1>1, <1>3, <1>5, <2>1 DEF Worlds
    <2>3. SendMsg(w, type, a, ok) = r
      BY <1>4, <1>8
    <2> HIDE DEF r
    <2>4. MessageSent(w, r)
      BY <1>6, <2>2 DEF MessageSent
    <2> QED  BY <1>3, <1>6, <2>2, <2>3, <2>4
  <1> QED  BY <1>7, <1>8

\* autoip_stop leaves DHCP's part of the client alone, and everything when
\* AutoIP does not run.
LEMMA AutoipStopFacts ==
  ASSUME NEW w \in Worlds
  PROVE  /\ AutoipStop(w) \in Worlds
         /\ w.c.autoip = "OFF" => AutoipStop(w) = w
         /\ AutoipStop(w).addr \in {w.addr, "Any"}
         /\ AutoipStop(w).c.autoip = "OFF"
         /\ AutoipStop(w).c.pcb = w.c.pcb
         /\ AutoipStop(w).c.state = w.c.state
         /\ AutoipStop(w).c.armed = w.c.armed
         /\ AutoipStop(w).c.tries = w.c.tries
         /\ AutoipStop(w).c.xid = w.c.xid
         /\ AutoipStop(w).c.offered = w.c.offered
         /\ Running(AutoipStop(w).c) => Running(w.c)
  <1> DEFINE d == [w.c EXCEPT !.autoip = "OFF"]
             a == IF LinkLocal(w.addr) THEN "Any" ELSE w.addr
             r == [w EXCEPT !.c = d, !.addr = a]
  <1>1. w.c \in Client /\ w.addr \in NetifAddress
    BY DEF Worlds
  <1>2. a \in NetifAddress /\ a \in {w.addr, "Any"}
    BY <1>1, AddressFacts
  <1>3. /\ d \in Client /\ d.autoip = "OFF" /\ d.pcb = w.c.pcb /\ d.state = w.c.state
        /\ d.armed = w.c.armed /\ d.tries = w.c.tries /\ d.xid = w.c.xid
        /\ d.offered = w.c.offered /\ (Running(d) => Running(w.c))
    BY <1>1 DEF Client, Running
  <1>4. AutoipStop(w) = IF w.c.autoip = "OFF" THEN w ELSE r
    BY DEF AutoipStop, Worlds
  <1> HIDE DEF d, a
  <1>5. r \in Worlds /\ r.c = d /\ r.addr = a
    BY <1>2, <1>3, BothFacts
  <1> HIDE DEF r
  <1> QED  BY <1>2, <1>3, <1>4, <1>5

\* dhcp_discover after sending: the timer runs; AutoIP starts only after
\* CoopTries tries, and takes the address away.
LEMMA DiscoverTailFacts ==
  ASSUME NEW w \in Worlds
  PROVE  /\ DiscoverTail(w) \in Worlds
         /\ DiscoverTail(w).addr \in {w.addr, "Any"}
         /\ DiscoverTail(w).c.state = w.c.state
         /\ DiscoverTail(w).c.pcb = w.c.pcb
         /\ DiscoverTail(w).c.armed = TRUE
         /\ DiscoverTail(w).c.xid = w.c.xid
         /\ DiscoverTail(w).c.offered = w.c.offered
         /\ Running(DiscoverTail(w).c) => Running(w.c)
         /\ w.c.tries + 1 < CoopTries => /\ DiscoverTail(w).c.autoip = w.c.autoip
                                         /\ DiscoverTail(w).addr = w.addr
  <1> DEFINE t == [w EXCEPT !.c = Tried(w.c)]
             d == [t.c EXCEPT !.autoip = "PROBING"]
             r == [t EXCEPT !.c = d, !.addr = "Any"]
  <1>1. w.c \in Client
    BY DEF Worlds
  <1>2. /\ Same(w.c, Tried(w.c)) /\ Tried(w.c).state = w.c.state /\ Tried(w.c).xid = w.c.xid
        /\ Tried(w.c).armed = TRUE /\ Tried(w.c).tries <= w.c.tries + 1
    BY <1>1, TriedFacts
  <1>3. t \in Worlds /\ t.c = Tried(w.c) /\ t.addr = w.addr /\ t.c \in Client
    <2>1. Tried(w.c) \in Client
      BY <1>2 DEF Same
    <2> QED  BY <2>1, ClientFacts
  <1>4. /\ DiscoverTail(w) = AutoipCoop(t)
        /\ AutoipCoop(t) = IF t.c.tries >= CoopTries /\ t.c.autoip = "OFF"
                           THEN [t EXCEPT !.c.autoip = "PROBING", !.addr = "Any"] ELSE t
    BY DEF DiscoverTail, AutoipCoop
  <1> HIDE DEF t
  <1>4a. [t EXCEPT !.c.autoip = "PROBING", !.addr = "Any"] = r
    BY <1>3 DEF Worlds
  <1>4b. DiscoverTail(w) = t \/ (DiscoverTail(w) = r /\ t.c.tries >= CoopTries)
    BY <1>4, <1>4a
  <1>5. /\ d \in Client /\ d.state = t.c.state /\ d.pcb = t.c.pcb /\ d.armed = t.c.armed
        /\ d.xid = t.c.xid /\ d.offered = t.c.offered /\ (Running(d) => Running(t.c))
    BY <1>3 DEF Client, Running
  <1> HIDE DEF d
  <1>6. r \in Worlds /\ r.c = d /\ r.addr = "Any"
    <2>1. t \in Worlds /\ d \in Client /\ "Any" \in NetifAddress
      BY <1>3, <1>5, AddressFacts
    <2> QED  BY ONLY <2>1 DEF Worlds
  <1> HIDE DEF r
  <1>7. t.c.tries \in 0 .. CoopTries /\ w.c.tries \in 0 .. CoopTries
    BY <1>1, <1>3 DEF Client
  <1>8. w.c.tries + 1 < CoopTries => ~(t.c.tries >= CoopTries)
    BY <1>2, <1>3, <1>7, DhcpAssumption
  <1> QED  BY <1>2, <1>3, <1>4b, <1>5, <1>6, <1>8 DEF Same

-----------------------------------------------------------------------------
(* The handlers. *)

\* What dhcp_select, dhcp_decline, dhcp_renew and dhcp_rebind have in common.
Ask(w, s, type, a, ok) ==
    [SendMsg([w EXCEPT !.c = SetState(@, s)], type, a, ok) EXCEPT !.c = Tried(@)]

\* A request leaves the client in its state, with the timer running.
Asked(w, s, r) ==
    /\ r \in Worlds /\ r.addr = w.addr
    /\ Same(w.c, r.c)
    /\ r.c.state = s /\ r.c.armed = TRUE

\* Same is transitive.
LEMMA SameTwice ==
  ASSUME NEW c, NEW d, NEW e, Same(c, d), Same(d, e)
  PROVE  Same(c, e)
  BY DEF Same

\* The requests.
LEMMA AskFacts ==
  ASSUME NEW w \in Worlds, NEW s \in ClientState,
         NEW type \in MsgType,
         NEW a \in NetifAddress, NEW ok \in BOOLEAN
  PROVE  /\ Asked(w, s, Ask(w, s, type, a, ok))
         /\ type = "REQUEST" => Ask(w, s, type, a, ok).c.xid = w.c.xid
  <1> DEFINE b == SetState(w.c, s)
             asking == [w EXCEPT !.c = b]
             sent == SendMsg(asking, type, a, ok)
             t == Tried(sent.c)
             r == [sent EXCEPT !.c = t]
  <1>0. Ask(w, s, type, a, ok) = r
    BY DEF Ask
  <1>1. w.c \in Client
    BY DEF Worlds
  <1>2. Same(w.c, b) /\ b.state = s /\ b.xid = w.c.xid
    BY <1>1, SetStateFacts
  <1> HIDE DEF b
  <1>3. asking \in Worlds /\ asking.c = b /\ asking.addr = w.addr
    <2>1. b \in Client
      BY <1>2 DEF Same
    <2> QED  BY <2>1, ClientFacts
  <1> HIDE DEF asking
  <1>4. MessageSent(asking, sent) /\ (type = "REQUEST" => sent.c.xid = asking.c.xid)
    <2>1. asking \in Worlds
      BY <1>3
    <2>2. type \in MsgType /\ a \in NetifAddress /\ ok \in BOOLEAN
      OBVIOUS
    <2> QED  BY ONLY <2>1, <2>2, SendMsgFacts
  <1> HIDE DEF sent
  <1>5. sent \in Worlds /\ sent.addr = w.addr /\ Same(b, sent.c) /\ sent.c.state = s
    BY <1>2, <1>3, <1>4 DEF MessageSent
  <1>6. sent.c \in Client
    BY <1>5 DEF Same
  <1>7. Same(sent.c, t) /\ t.state = s /\ t.xid = sent.c.xid /\ t.armed = TRUE
    BY <1>5, <1>6, TriedFacts
  <1> HIDE DEF t
  <1>8. r \in Worlds /\ r.c = t /\ r.addr = w.addr
    <2>1. t \in Client
      BY <1>7 DEF Same
    <2> QED  BY <1>5, <2>1, ClientFacts
  <1> HIDE DEF r
  <1>9. Same(w.c, t)
    BY <1>2, <1>5, <1>7, SameTwice
  <1>10. Asked(w, s, r)
    BY <1>7, <1>8, <1>9 DEF Asked
  <1>11. type = "REQUEST" => r.c.xid = w.c.xid
    BY <1>2, <1>3, <1>4, <1>7, <1>8
  <1> QED  BY <1>0, <1>10, <1>11

\* dhcp_select.
LEMMA SelectFacts ==
  ASSUME NEW w \in Worlds, NEW ok \in BOOLEAN
  PROVE  /\ Asked(w, "REQUESTING", Select(w, ok))
         /\ Select(w, ok).c.xid = w.c.xid
  <1>1. w.c.offered \in NetifAddress /\ "REQUESTING" \in ClientState
    BY DEF Worlds, Client, ClientState
  <1>2. Select(w, ok) = Ask(w, "REQUESTING", "REQUEST", w.c.offered, ok)
    BY DEF Select, Ask
  <1>3. /\ Asked(w, "REQUESTING", Ask(w, "REQUESTING", "REQUEST", w.c.offered, ok))
        /\ Ask(w, "REQUESTING", "REQUEST", w.c.offered, ok).c.xid = w.c.xid
    BY <1>1, AskFacts, MsgTypeFacts
  <1> QED  BY ONLY <1>2, <1>3

\* dhcp_decline.
LEMMA DeclineFacts ==
  ASSUME NEW w \in Worlds, NEW ok \in BOOLEAN
  PROVE  Asked(w, "BACKING_OFF", Decline(w, ok))
  <1>1. w.c.offered \in NetifAddress /\ "BACKING_OFF" \in ClientState
    BY DEF Worlds, Client, ClientState
  <1>2. Decline(w, ok) = Ask(w, "BACKING_OFF", "DECLINE", w.c.offered, ok)
    BY DEF Decline, Ask
  <1>3. Asked(w, "BACKING_OFF", Ask(w, "BACKING_OFF", "DECLINE", w.c.offered, ok))
    BY <1>1, AskFacts, MsgTypeFacts
  <1> QED  BY ONLY <1>2, <1>3

\* dhcp_renew and dhcp_rebind.
LEMMA ExtendFacts ==
  ASSUME NEW w \in Worlds, NEW s \in {"RENEWING", "REBINDING"}, NEW ok \in BOOLEAN
  PROVE  /\ Asked(w, s, Extend(w, s, ok))
         /\ Extend(w, s, ok).c.xid = w.c.xid
  <1>1. w.addr \in NetifAddress /\ s \in ClientState
    BY DEF Worlds, ClientState
  <1>2. Extend(w, s, ok) = Ask(w, s, "REQUEST", w.addr, ok)
    BY DEF Extend, Ask
  <1>3. /\ Asked(w, s, Ask(w, s, "REQUEST", w.addr, ok))
        /\ Ask(w, s, "REQUEST", w.addr, ok).c.xid = w.c.xid
    BY <1>1, AskFacts, MsgTypeFacts
  <1> QED  BY ONLY <1>2, <1>3

\* dhcp_check.
LEMMA CheckFacts ==
  ASSUME NEW w \in Worlds
  PROVE  /\ Asked(w, "CHECKING", Check(w))
         /\ Check(w).c.xid = w.c.xid
  <1> DEFINE d == SetState(w.c, "CHECKING")
             t == Tried(d)
             r == [w EXCEPT !.c = t]
  <1>1. w.c \in Client /\ "CHECKING" \in ClientState
    BY DEF Worlds, ClientState
  <1>2. Same(w.c, d) /\ d.state = "CHECKING" /\ d.xid = w.c.xid
    BY <1>1, SetStateFacts
  <1>3. Check(w) = r
    BY DEF Check
  <1> HIDE DEF d
  <1>4. d \in Client
    BY <1>2 DEF Same
  <1>5. Same(d, t) /\ t.state = "CHECKING" /\ t.xid = w.c.xid /\ t.armed = TRUE
    BY <1>2, <1>4, TriedFacts
  <1> HIDE DEF t
  <1>6. t \in Client
    BY <1>5 DEF Same
  <1>7. r \in Worlds /\ r.c = t /\ r.addr = w.addr
    BY <1>6, ClientFacts
  <1> HIDE DEF r
  <1>8. Same(w.c, t)
    BY <1>2, <1>5, SameTwice
  <1> QED  BY <1>3, <1>5, <1>7, <1>8 DEF Asked

\* After dhcp_discover.  AutoIP is started, and the address lost, only by the
\* last of a series of tries.
Discovered(w, r) ==
    /\ r \in Worlds /\ r.addr \in {w.addr, "Any"}
    /\ r.c.state = "SELECTING" /\ r.c.pcb = w.c.pcb /\ r.c.armed = TRUE
    /\ Running(r.c) => Running(w.c)
    /\ w.c.state # "SELECTING" \/ w.c.tries + 1 < CoopTries =>
          r.c.autoip = w.c.autoip /\ r.addr = w.addr

\* dhcp_discover.
LEMMA DiscoverFacts ==
  ASSUME NEW w \in Worlds, NEW ok \in BOOLEAN
  PROVE  Discovered(w, Discover(w, ok))
  <1> DEFINE c1 == [w.c EXCEPT !.offered = "Any"]
             c2 == SetState(c1, "SELECTING")
             fresh == [w EXCEPT !.c = c2]
             sent == SendMsg(fresh, "DISCOVER", "Any", ok)
             r == DiscoverTail(sent)
  <1>1. w.c \in Client /\ "SELECTING" \in ClientState /\ "Any" \in NetifAddress
    BY AddressFacts DEF Worlds, ClientState
  <1>2. /\ c1 \in Client /\ c1.pcb = w.c.pcb /\ c1.autoip = w.c.autoip
        /\ c1.state = w.c.state /\ c1.tries = w.c.tries
        /\ (Running(c1) => Running(w.c))
    BY <1>1 DEF Client, Running
  <1>3. Discover(w, ok) = r
    BY DEF Discover
  <1> HIDE DEF c1
  <1>4. /\ Same(c1, c2) /\ c2.state = "SELECTING"
        /\ c1.state # "SELECTING" => c2.tries = 0
        /\ c1.state = "SELECTING" => c2 = c1
    BY <1>1, <1>2, SetStateFacts
  <1> HIDE DEF c2
  <1>5. c2 \in Client
    BY <1>4 DEF Same
  <1>6. fresh \in Worlds /\ fresh.c = c2 /\ fresh.addr = w.addr
    BY <1>5, ClientFacts
  <1> HIDE DEF fresh
  <1>7. MessageSent(fresh, sent)
    BY <1>1, <1>6, SendMsgFacts, MsgTypeFacts
  <1> HIDE DEF sent
  <1>8. /\ sent \in Worlds /\ sent.addr = w.addr /\ sent.c.state = "SELECTING"
        /\ sent.c.tries = c2.tries /\ Same(c2, sent.c)
    BY <1>4, <1>6, <1>7 DEF MessageSent
  <1>9. /\ r \in Worlds /\ r.addr \in {sent.addr, "Any"} /\ r.c.state = sent.c.state
        /\ r.c.pcb = sent.c.pcb /\ r.c.armed = TRUE /\ (Running(r.c) => Running(sent.c))
        /\ sent.c.tries + 1 < CoopTries => r.c.autoip = sent.c.autoip /\ r.addr = sent.addr
    BY <1>8, DiscoverTailFacts
  <1> HIDE DEF r
  <1>10. /\ sent.c.pcb = w.c.pcb /\ sent.c.autoip = w.c.autoip
         /\ (Running(sent.c) => Running(w.c))
    BY <1>2, <1>4, <1>8 DEF Same
  <1>11. w.c.state # "SELECTING" \/ w.c.tries + 1 < CoopTries => sent.c.tries + 1 < CoopTries
    BY <1>2, <1>4, <1>8, DhcpAssumption
  <1> QED  BY <1>3, <1>8, <1>9, <1>10, <1>11 DEF Discovered

\* The lease's timers, an infinite period included, are natural numbers.
LEMMA LeasedFacts ==
  ASSUME NEW c \in Client
  PROVE  /\ Leased(c) \in Client
         /\ Leased(c).state = c.state
         /\ Leased(c).pcb = c.pcb
         /\ Leased(c).xid = c.xid
  <1> DEFINE p0 == Period(c.lease.t0, c.t0_timeout)
             p1 == Period(c.lease.t1, c.t1_renew_time)
             p2 == Period(c.lease.t2, c.t2_timeout)
             p3 == Period(c.lease.t2, c.t2_rebind_time)
  <1>1. c.lease \in [t0 : Nat, t1 : Nat, t2 : Nat]
    <2>1. c.lease \in Leases \cup {NoLease}
      BY DEF Client
    <2>2. NoLease \in [t0 : Nat, t1 : Nat, t2 : Nat]
      BY DEF NoLease
    <2> QED  BY <2>1, <2>2, DhcpAssumption
  <1>2. c.t0_timeout \in Nat /\ c.t1_renew_time \in Nat /\ c.t2_timeout \in Nat /\ c.t2_rebind_time \in Nat
    BY DEF Client
  <1>3. p0 \in Nat /\ p1 \in Nat /\ p2 \in Nat /\ p3 \in Nat
    BY <1>1, <1>2 DEF Period
  <1> DEFINE d == [c EXCEPT !.lease_used = 0, !.t0_timeout = p0, !.t1_renew_time = p1,
                            !.t2_timeout = p2, !.t2_rebind_time = p3]
  <1>4. Leased(c) = d
    BY DEF Leased
  <1> HIDE DEF p0, p1, p2, p3
  <1>5. d \in Client /\ d.state = c.state /\ d.pcb = c.pcb /\ d.xid = c.xid
    BY <1>3 DEF Client
  <1> HIDE DEF d
  <1> QED  BY <1>4, <1>5

\* A bound client has the offered address to itself, and its tries start again.
BoundFrom(w, r) ==
    /\ r \in Worlds /\ r.addr = w.c.offered
    /\ r.c.state = "BOUND" /\ r.c.pcb = w.c.pcb /\ r.c.xid = w.c.xid
    /\ r.c.autoip = "OFF"
    /\ w.c.state # "BOUND" => r.c.tries = 0

\* dhcp_bind.
LEMMA BindFacts ==
  ASSUME NEW w \in Worlds
  PROVE  BoundFrom(w, Bind(w))
  <1> DEFINE l == Leased(w.c)
             leased == [w EXCEPT !.c = l]
             alone == AutoipStop(leased)
             d == SetState(alone.c, "BOUND")
             r == [alone EXCEPT !.c = d, !.addr = w.c.offered]
  <1>1. w.c \in Client /\ w.c.offered \in NetifAddress /\ "BOUND" \in ClientState
    BY DEF Worlds, Client, ClientState
  <1>2. l \in Client /\ l.state = w.c.state /\ l.pcb = w.c.pcb /\ l.xid = w.c.xid
    BY <1>1, LeasedFacts
  <1>3. Bind(w) = r
    BY DEF Bind
  <1> HIDE DEF l
  <1>4. leased \in Worlds /\ leased.c = l
    BY <1>2, ClientFacts
  <1> HIDE DEF leased
  <1>5. /\ alone \in Worlds /\ alone.c.autoip = "OFF"
        /\ alone.c.pcb = w.c.pcb /\ alone.c.state = w.c.state /\ alone.c.xid = w.c.xid
    BY <1>2, <1>4, AutoipStopFacts
  <1> HIDE DEF alone
  <1>6. alone.c \in Client
    BY <1>5 DEF Worlds
  <1>7. /\ Same(alone.c, d) /\ d.state = "BOUND" /\ d.xid = alone.c.xid
        /\ alone.c.state # "BOUND" => d.tries = 0
    BY <1>1, <1>6, SetStateFacts
  <1> HIDE DEF d
  <1>8. r \in Worlds /\ r.c = d /\ r.addr = w.c.offered
    <2>1. d \in Client
      BY <1>7 DEF Same
    <2> QED  BY <1>1, <1>5, <2>1 DEF Worlds
  <1> HIDE DEF r
  <1> QED  BY <1>3, <1>5, <1>7, <1>8 DEF BoundFrom, Same

\* A released client is OFF and has no lease that could be extended.
Released(w, r) ==
    /\ r \in Worlds /\ r.addr \in {w.addr, "Any"}
    /\ r.c.state = "OFF" /\ r.c.pcb = w.c.pcb /\ r.c.autoip = w.c.autoip
    /\ ~Running(r.c)

\* dhcp_release.
LEMMA ReleaseFacts ==
  ASSUME NEW w \in Worlds, NEW ok \in BOOLEAN
  PROVE  Released(w, Release(w, ok))
  <1> DEFINE d == SetState(w.c, "OFF")
             e == [d EXCEPT !.offered = "Any", !.lease = NoLease,
                            !.t0_timeout = 0, !.lease_used = 0,
                            !.t1_renew_time = 0, !.t2_rebind_time = 0]
             idle == [w EXCEPT !.c = e]
             sent == SendMsg(idle, "RELEASE", w.addr, ok)
             r == [sent EXCEPT !.addr = "Any"]
  <1>1. w.c \in Client /\ w.addr \in NetifAddress /\ "OFF" \in ClientState /\ "Any" \in NetifAddress
    BY AddressFacts DEF Worlds, ClientState
  <1>2. Same(w.c, d) /\ d.state = "OFF"
    BY <1>1, SetStateFacts
  <1>3. Release(w, ok) = IF SuppliedAddress(w.c) THEN r ELSE idle
    BY DEF Release
  <1> HIDE DEF d
  <1>4. d \in Client /\ d.pcb = w.c.pcb /\ d.autoip = w.c.autoip
    BY <1>2 DEF Same
  <1>5. e \in Client /\ e.pcb = d.pcb /\ e.autoip = d.autoip /\ e.state = d.state /\ ~Running(e)
    <2>1. NoLease \in Leases \cup {NoLease}
      OBVIOUS
    <2> HIDE DEF NoLease
    <2>2. /\ e \in Client /\ e.pcb = d.pcb /\ e.autoip = d.autoip /\ e.state = d.state
          /\ e.t1_renew_time = 0 /\ e.t2_rebind_time = 0
      BY <1>1, <1>4, <2>1 DEF Client
    <2> QED  BY <2>2 DEF Running
  <1> HIDE DEF e
  <1>6. idle \in Worlds /\ idle.c = e /\ idle.addr = w.addr
    BY <1>5, ClientFacts
  <1> HIDE DEF idle
  <1>7. MessageSent(idle, sent)
    BY <1>1, <1>6, SendMsgFacts, MsgTypeFacts
  <1> HIDE DEF sent
  <1>8. /\ sent \in Worlds /\ sent.c.pcb = e.pcb /\ sent.c.autoip = e.autoip
        /\ sent.c.state = e.state /\ ~Running(sent.c)
    BY <1>5, <1>6, <1>7 DEF MessageSent, Same
  <1>9. r \in Worlds /\ r.c = sent.c /\ r.addr = "Any"
    BY <1>1, <1>8, AddrFacts
  <1> HIDE DEF r
  <1> QED  BY <1>2, <1>3, <1>4, <1>5, <1>6, <1>8, <1>9 DEF Released

\* What is left of a period, halved, is a number of ticks.
LEMMA HalfLeftFacts ==
  ASSUME NEW p \in Nat, NEW u \in Nat
  PROVE  HalfLeft(p, u) \in Nat
  BY DEF HalfLeft

\* An extension asked for keeps the transaction and the address.
Extended(w, s, r) ==
    /\ r \in Worlds /\ r.addr = w.addr
    /\ r.c.state = s /\ r.c.pcb = w.c.pcb /\ r.c.autoip = w.c.autoip /\ r.c.xid = w.c.xid
    /\ w.c.state \in {"REQUESTING", "BOUND", "RENEWING", "REBINDING"}

\* dhcp_t1_timeout.
LEMMA RenewFacts ==
  ASSUME NEW w \in Worlds, NEW ok \in BOOLEAN
  PROVE  Renew(w, ok) = w \/ Extended(w, "RENEWING", Renew(w, ok))
  <1> DEFINE v == Extend(w, "RENEWING", ok)
             n == HalfLeft(w.c.t2_timeout, w.c.lease_used)
             d == [v.c EXCEPT !.t1_renew_time = n]
             r == [v EXCEPT !.c = d]
  <1>1. n \in Nat
    <2>1. w.c.t2_timeout \in Nat /\ w.c.lease_used \in Nat
      BY DEF Worlds, Client
    <2> QED  BY <2>1, HalfLeftFacts
  <1>2. Asked(w, "RENEWING", v) /\ v.c.xid = w.c.xid
    BY ExtendFacts
  <1>3. SUFFICES ASSUME w.c.state \in {"REQUESTING", "BOUND", "RENEWING"}
                 PROVE  Extended(w, "RENEWING", Renew(w, ok))
    BY DEF Renew
  <1>4. Renew(w, ok) = [v EXCEPT !.c.t1_renew_time = n]
    BY <1>3 DEF Renew
  <1> HIDE DEF v, n
  <1>5. /\ v \in Worlds /\ v.c \in Client /\ v.addr = w.addr /\ v.c.state = "RENEWING"
        /\ v.c.pcb = w.c.pcb /\ v.c.autoip = w.c.autoip
    BY <1>2 DEF Asked, Same
  <1>6. Renew(w, ok) = r
    BY <1>4, <1>5 DEF Worlds
  <1>7. /\ d \in Client /\ d.state = v.c.state /\ d.pcb = v.c.pcb /\ d.autoip = v.c.autoip
        /\ d.xid = v.c.xid
    BY <1>1, <1>5 DEF Client
  <1> HIDE DEF d
  <1>8. r \in Worlds /\ r.c = d /\ r.addr = v.addr
    BY <1>5, <1>7, ClientFacts
  <1> HIDE DEF r
  <1> QED  BY <1>2, <1>3, <1>5, <1>6, <1>7, <1>8 DEF Extended

\* dhcp_t2_timeout.
LEMMA RebindFacts ==
  ASSUME NEW w \in Worlds, NEW ok \in BOOLEAN
  PROVE  Rebind(w, ok) = w \/ Extended(w, "REBINDING", Rebind(w, ok))
  <1> DEFINE v == Extend(w, "REBINDING", ok)
             n == HalfLeft(w.c.t0_timeout, w.c.lease_used)
             d == [v.c EXCEPT !.t2_rebind_time = n]
             r == [v EXCEPT !.c = d]
  <1>1. n \in Nat
    <2>1. w.c.t0_timeout \in Nat /\ w.c.lease_used \in Nat
      BY DEF Worlds, Client
    <2> QED  BY <2>1, HalfLeftFacts
  <1>2. Asked(w, "REBINDING", v) /\ v.c.xid = w.c.xid
    BY ExtendFacts
  <1>3. SUFFICES ASSUME w.c.state \in {"REQUESTING", "BOUND", "RENEWING", "REBINDING"}
                 PROVE  Extended(w, "REBINDING", Rebind(w, ok))
    BY DEF Rebind
  <1>4. Rebind(w, ok) = [v EXCEPT !.c.t2_rebind_time = n]
    BY <1>3 DEF Rebind
  <1> HIDE DEF v, n
  <1>5. /\ v \in Worlds /\ v.c \in Client /\ v.addr = w.addr /\ v.c.state = "REBINDING"
        /\ v.c.pcb = w.c.pcb /\ v.c.autoip = w.c.autoip
    BY <1>2 DEF Asked, Same
  <1>6. Rebind(w, ok) = r
    BY <1>4, <1>5 DEF Worlds
  <1>7. /\ d \in Client /\ d.state = v.c.state /\ d.pcb = v.c.pcb /\ d.autoip = v.c.autoip
        /\ d.xid = v.c.xid
    BY <1>1, <1>5 DEF Client
  <1> HIDE DEF d
  <1>8. r \in Worlds /\ r.c = d /\ r.addr = v.addr
    BY <1>5, <1>7, ClientFacts
  <1> HIDE DEF r
  <1> QED  BY <1>2, <1>3, <1>5, <1>6, <1>7, <1>8 DEF Extended

-----------------------------------------------------------------------------
(* The inductive invariant. *)

Waiting == {"SELECTING", "REQUESTING", "CHECKING", "BACKING_OFF"}
Holding == {"BOUND", "RENEWING", "REBINDING"}

\* Between two steps of dhcp_stop the client is already OFF, and a lease
\* bound inside dhcp_start has no tries yet: the rest of dhcp_discover, which
\* counts one, cannot start AutoIP beside it.
ClientInv ==
    /\ dhcp.state # "OFF" => dhcp.pcb
    /\ pc # "sent" /\ dhcp.state \in Waiting => dhcp.armed \/ Stranded
    /\ dhcp.state = "BOUND" => dhcp.autoip = "OFF"
    /\ pc = "free_pcb" => dhcp.state = "OFF"
    /\ pc = "sent" /\ dhcp.state = "BOUND" => dhcp.tries = 0

\* Where the supervisor is, and what dhcp_stop has finished by then.
SupervisorInv ==
    /\ pc = "sent" => DHCP_state = "START"
    /\ pc = "read" => DHCP_state = "ADDRESS_ASSIGNED"
    /\ pc \in {"autoip_stop", "set_off", "free_pcb", "set_addr"} => DHCP_state = "TIMEOUT"
    /\ pc \in {"sent", "autoip_stop", "set_off", "free_pcb"} => attached
    /\ ~attached => dhcp.state = "OFF" /\ dhcp.autoip = "OFF"
    /\ pc \in {"set_off", "free_pcb"} => dhcp.autoip = "OFF"
    /\ DHCP_state = "TIMEOUT" /\ pc \in {"set_addr", "show", "poll"} =>
          dhcp.state = "OFF" /\ dhcp.autoip = "OFF"
    /\ DHCP_state = "TIMEOUT" /\ pc \in {"show", "poll"} => addr = "Static"

\* A client c with the address a, when the servers have granted g.  The
\* second part is what LeasedAddress needs of a client that waits while the
\* timers of an earlier lease run on: a NAK has taken its address away.
LeaseOK(c, a, g) ==
    /\ c.state = "CHECKING" => <<c.xid, c.offered>> \in g
    /\ c.state \in Waiting /\ Running(c) => a \in {"Any", "LinkLocal"}
    /\ c.state \in Holding =>
          <<c.xid, a>> \in g \/ (c.state # "BOUND" /\ a \in {"Any", "LinkLocal"})

IInv ==
    /\ DhcpTypeOK
    /\ ClientInv
    /\ SupervisorInv
    /\ LeaseOK(dhcp, addr, granted)

\* What a handler of the tcpip thread may leave: it keeps the pcb, does not
\* touch a client that is OFF, never waits without the timer unless it did, binds without
\* AutoIP, starts no AutoIP while dhcp_stop runs, and keeps the lease.
Sound(w, g) ==
    /\ w \in Worlds
    /\ w.c.pcb = dhcp.pcb
    /\ dhcp.state = "OFF" => w.c.state = "OFF" /\ w.c.autoip = dhcp.autoip /\ w.addr = addr
    /\ w.c.state \in Waiting =>
          \/ w.c.armed = TRUE
          \/ w.c.armed = dhcp.armed /\ w.c.state = dhcp.state /\ w.c.xid = dhcp.xid
    /\ w.c.state = "BOUND" =>
          /\ w.c.autoip = "OFF"
          /\ w.c.tries = 0 \/ (dhcp.state = "BOUND" /\ w.c.tries = dhcp.tries)
    /\ pc = "set_off" /\ dhcp.autoip = "OFF" => w.c.autoip = "OFF"
    /\ LeaseOK(w.c, w.addr, g)

\* The world as the handlers find it.
LEMMA WorldFacts ==
  ASSUME IInv
  PROVE  /\ World \in Worlds
         /\ World.c = dhcp /\ World.addr = addr
         /\ dhcp \in Client
  <1>1. dhcp \in Client /\ addr \in NetifAddress /\ xid \in Nat /\ asked \in SUBSET Request
    BY DEF IInv, DhcpTypeOK
  <1> QED  BY <1>1 DEF World, Worlds

\* Becoming a world of the type keeps the types.
LEMMA BecomeFacts ==
  ASSUME NEW w \in Worlds, Become(w)
  PROVE  /\ dhcp' = w.c /\ dhcp' \in Client /\ addr' = w.addr
         /\ addr' \in NetifAddress /\ xid' \in Nat /\ asked' \subseteq Request
  BY DEF Worlds, Become

\* A handler that leaves a sound world keeps the invariant.
LEMMA HandlerKeeps ==
  ASSUME IInv, NEW w, Sound(w, granted'), Become(w), attached,
         UNCHANGED <<attached, DHCP_state, pc, toShow, anonymous>>,
         granted' \subseteq Nat \X NetifAddress, replies' \in 0 .. MaxReplies
  PROVE  IInv'
  <1>1. /\ dhcp' = w.c /\ dhcp' \in Client /\ addr' = w.addr
        /\ addr' \in NetifAddress /\ xid' \in Nat /\ asked' \subseteq Request
    BY BecomeFacts DEF Sound
  <1>2. DhcpTypeOK'
    BY <1>1 DEF IInv, DhcpTypeOK
  <1>3. ClientInv'
    <2>1. dhcp'.state # "OFF" => dhcp'.pcb
      BY <1>1 DEF IInv, ClientInv, Sound
    <2>2. pc' # "sent" /\ dhcp'.state \in Waiting => dhcp'.armed \/ Stranded'
      BY <1>1 DEF IInv, ClientInv, Sound, Stranded
    <2>3. dhcp'.state = "BOUND" => dhcp'.autoip = "OFF"
      BY <1>1 DEF IInv, ClientInv, Sound
    <2>4. pc' = "free_pcb" => dhcp'.state = "OFF"
      BY <1>1 DEF IInv, ClientInv, Sound
    <2>5. pc' = "sent" /\ dhcp'.state = "BOUND" => dhcp'.tries = 0
      BY <1>1 DEF IInv, ClientInv, Sound
    <2> QED  BY <2>1, <2>2, <2>3, <2>4, <2>5 DEF ClientInv
  <1>4. SupervisorInv'
    <2>1. pc \in {"set_off", "free_pcb"} => dhcp'.autoip = "OFF"
      BY <1>1 DEF IInv, ClientInv, SupervisorInv, Sound
    <2>2. DHCP_state = "TIMEOUT" /\ pc \in {"set_addr", "show", "poll"} =>
             dhcp'.state = "OFF" /\ dhcp'.autoip = "OFF"
      BY <1>1 DEF IInv, SupervisorInv, Sound
    <2>3. DHCP_state = "TIMEOUT" /\ pc \in {"show", "poll"} => addr' = "Static"
      BY <1>1 DEF IInv, SupervisorInv, Sound
    <2> QED  BY <2>1, <2>2, <2>3 DEF IInv, SupervisorInv
  <1>5. LeaseOK(dhcp', addr', granted')
    BY <1>1 DEF Sound
  <1> QED  BY <1>2, <1>3, <1>4, <1>5 DEF IInv, LeaseOK

\* The messages a handler may be given.
LEMMA AskedFacts ==
  ASSUME IInv, NEW m \in asked
  PROVE  m.addr \in NetifAddress /\ m.xid \in Nat
  BY DEF IInv, DhcpTypeOK, Request

\* A delivery is counted up to its bound.
LEMMA DeliveredFacts ==
  ASSUME IInv, Delivered
  PROVE  replies' \in 0 .. MaxReplies
  BY DhcpAssumption DEF IInv, DhcpTypeOK, Delivered

\* What a timer leaves alone has its type.
LEMMA QuietFacts ==
  ASSUME IInv
  PROVE  granted \subseteq Nat \X NetifAddress /\ replies \in 0 .. MaxReplies
  BY DEF IInv, DhcpTypeOK

-----------------------------------------------------------------------------
(* The replies. *)

\* A client that waits, and waits on with the address it has, is sound.
LEMMA AskedSound ==
  ASSUME IInv, NEW v, NEW s \in Waiting, s # "CHECKING", NEW r, Asked(v, s, r),
         v.addr = addr, v.c.pcb = dhcp.pcb, v.c.autoip = dhcp.autoip,
         Running(v.c) => Running(dhcp), dhcp.state \in Waiting
  PROVE  Sound(r, granted)
  <1>1. LeaseOK(r.c, r.addr, granted)
    BY DEF IInv, LeaseOK, Asked, Same, Waiting, Holding
  <1> QED  BY <1>1 DEF Sound, Asked, Same, Waiting

\* dhcp_recv of an offer: dhcp_handle_offer and dhcp_select.
LEMMA RecvOfferKeeps ==
  ASSUME IInv, NEW m \in asked, NEW a \in Addresses, NEW ok \in BOOLEAN, RecvOffer(m, a, ok)
  PROVE  IInv'
  <1> DEFINE d == [dhcp EXCEPT !.armed = FALSE]
             e == [d EXCEPT !.offered = a]
             v == [World EXCEPT !.c = e]
             w == Select(v, ok)
  <1>1. World \in Worlds /\ World.c = dhcp /\ World.addr = addr /\ dhcp \in Client
        /\ a \in NetifAddress
    BY WorldFacts DEF NetifAddress
  <1>2. d \in Client /\ d.pcb = dhcp.pcb /\ d.autoip = dhcp.autoip /\ (Running(d) => Running(dhcp))
    BY <1>1 DEF Client, Running
  <1>3. [World EXCEPT !.c.armed = FALSE, !.c.offered = a] = v
    <2> HIDE DEF World
    <2> QED  BY <1>1 DEF Worlds
  <1> HIDE DEF d
  <1>4. e \in Client /\ e.pcb = dhcp.pcb /\ e.autoip = dhcp.autoip /\ (Running(e) => Running(dhcp))
    BY <1>1, <1>2 DEF Client, Running
  <1> HIDE DEF e
  <1>5. v \in Worlds /\ v.c = e /\ v.addr = addr
    BY <1>1, <1>4, ClientFacts
  <1>6. Become(w) /\ dhcp.state = "SELECTING" /\ Delivered /\ granted' = granted
        /\ attached /\ UNCHANGED <<attached, DHCP_state, pc, toShow, anonymous>>
    BY <1>3 DEF RecvOffer, Accepted
  <1> HIDE DEF v
  <1>7. Asked(v, "REQUESTING", w)
    BY <1>5, SelectFacts
  <1> HIDE DEF w
  <1>8. Sound(w, granted)
    <2>1. "REQUESTING" \in Waiting /\ dhcp.state \in Waiting
      BY <1>6 DEF Waiting
    <2> QED  BY <1>4, <1>5, <1>7, <2>1, AskedSound
  <1> QED  BY <1>6, <1>8, HandlerKeeps, DeliveredFacts, QuietFacts

\* dhcp_recv of an offer without a server ID.
LEMMA RecvOfferNoServerKeeps ==
  ASSUME IInv, NEW m \in asked, RecvOfferNoServer(m)
  PROVE  IInv'
  <1> DEFINE d == [dhcp EXCEPT !.armed = FALSE]
  <1>1. /\ dhcp \in Client /\ dhcp' = d /\ dhcp.state = "SELECTING" /\ Delivered
        /\ m.xid = dhcp.xid /\ attached /\ anonymous' = anonymous \cup {m.xid}
        /\ UNCHANGED <<attached, DHCP_state, pc, addr, xid, asked, granted, toShow>>
    BY DEF RecvOfferNoServer, Accepted, IInv, DhcpTypeOK
  <1>2. /\ d \in Client /\ d.armed = FALSE /\ d.state = dhcp.state /\ d.pcb = dhcp.pcb
        /\ d.autoip = dhcp.autoip /\ d.tries = dhcp.tries /\ d.xid = dhcp.xid
        /\ d.offered = dhcp.offered /\ (Running(d) => Running(dhcp))
    BY <1>1 DEF Client, Running
  <1> HIDE DEF d
  <1>3. DhcpTypeOK'
    BY <1>1, <1>2, AskedFacts, DeliveredFacts DEF IInv, DhcpTypeOK
  <1>4. ClientInv'
    <2>1. Stranded'
      BY <1>1, <1>2 DEF Stranded
    <2> QED  BY <1>1, <1>2, <2>1 DEF IInv, ClientInv
  <1>5. SupervisorInv'
    BY <1>1, <1>2 DEF IInv, SupervisorInv
  <1>6. LeaseOK(dhcp', addr', granted')
    BY <1>1, <1>2 DEF IInv, LeaseOK, Waiting, Holding
  <1> QED  BY <1>3, <1>4, <1>5, <1>6 DEF IInv, LeaseOK

\* A lease bound with an address its server has granted is sound.
LEMMA BoundSound ==
  ASSUME IInv, NEW v, NEW r, BoundFrom(v, r), NEW g, <<v.c.xid, v.c.offered>> \in g,
         v.c.pcb = dhcp.pcb, v.c.state # "BOUND", dhcp.state # "OFF"
  PROVE  Sound(r, g)
  <1>1. LeaseOK(r.c, r.addr, g)
    BY DEF LeaseOK, BoundFrom, Waiting, Holding
  <1> QED  BY <1>1 DEF Sound, BoundFrom, Waiting

\* dhcp_check is sound for an address its server has granted.
LEMMA CheckSound ==
  ASSUME IInv, NEW v \in Worlds, NEW g, <<v.c.xid, v.c.offered>> \in g, v.addr = addr,
         v.c.pcb = dhcp.pcb, v.c.autoip = dhcp.autoip,
         Running(v.c) => Running(dhcp), dhcp.state \in Waiting
  PROVE  Sound(Check(v), g)
  <1> DEFINE r == Check(v)
  <1>1. Asked(v, "CHECKING", r) /\ r.c.xid = v.c.xid
    BY CheckFacts
  <1> HIDE DEF r
  <1>2. LeaseOK(r.c, r.addr, g)
    BY <1>1 DEF IInv, LeaseOK, Asked, Same, Waiting, Holding
  <1>3. Sound(r, g)
    BY <1>1, <1>2 DEF Sound, Asked, Same, Waiting
  <1> QED  BY <1>3 DEF r

\* dhcp_recv of an ACK: dhcp_check, or dhcp_bind of a lease extended.
LEMMA RecvAckKeeps ==
  ASSUME IInv, NEW m \in asked, NEW l \in Leases, RecvAck(m, l)
  PROVE  IInv'
  <1> DEFINE e == [dhcp EXCEPT !.offered = m.addr, !.lease = l]
             v == [World EXCEPT !.c = e]
  <1>1. World \in Worlds /\ World.c = dhcp /\ World.addr = addr /\ dhcp \in Client
        /\ m.addr \in NetifAddress /\ m.xid \in Nat
    BY WorldFacts, AskedFacts
  <1>2. [World EXCEPT !.c.offered = m.addr, !.c.lease = l] = v
    <2> HIDE DEF World
    <2> QED  BY <1>1 DEF Worlds
  <1>3. /\ \/ dhcp.state = "REQUESTING" /\ Become(Check(v))
           \/ dhcp.state \in {"REBINDING", "RENEWING"} /\ Become(Bind(v))
        /\ granted' = granted \cup {<<m.xid, m.addr>>}
        /\ Delivered /\ attached /\ m.xid = dhcp.xid
        /\ UNCHANGED <<attached, DHCP_state, pc, toShow, anonymous>>
    BY <1>2 DEF RecvAck, Accepted
  <1>4. /\ e \in Client /\ e.state = dhcp.state /\ e.pcb = dhcp.pcb /\ e.autoip = dhcp.autoip
        /\ e.xid = dhcp.xid /\ e.offered = m.addr /\ (Running(e) => Running(dhcp))
    BY <1>1 DEF Client, Running
  <1> HIDE DEF e
  <1>5. v \in Worlds /\ v.c = e /\ v.addr = addr
    BY <1>1, <1>4, ClientFacts
  <1> HIDE DEF v
  <1>6. granted' \subseteq Nat \X NetifAddress /\ replies' \in 0 .. MaxReplies
    BY <1>1, <1>3, QuietFacts, DeliveredFacts
  <1>7. <<v.c.xid, v.c.offered>> \in granted'
    BY <1>3, <1>4, <1>5
  <1>8. CASE dhcp.state = "REQUESTING" /\ Become(Check(v))
    <2>1. dhcp.state \in Waiting
      BY <1>8 DEF Waiting
    <2>2. Sound(Check(v), granted')
      BY <1>4, <1>5, <1>7, <2>1, CheckSound
    <2> QED  BY <1>3, <1>6, <1>8, <2>2, HandlerKeeps
  <1>9. CASE dhcp.state \in {"REBINDING", "RENEWING"} /\ Become(Bind(v))
    <2>1. BoundFrom(v, Bind(v))
      BY <1>5, BindFacts
    <2>2. Sound(Bind(v), granted')
      BY <1>4, <1>5, <1>7, <1>9, <2>1, BoundSound
    <2> QED  BY <1>3, <1>6, <1>9, <2>2, HandlerKeeps
  <1> QED  BY <1>3, <1>8, <1>9

\* dhcp_discover is sound for a client that is not OFF, unless it may start
\* AutoIP within dhcp_stop or leave the timers of a lease on its address.
LEMMA DiscoverSound ==
  ASSUME IInv, NEW v \in Worlds, NEW ok \in BOOLEAN,
         v.c.pcb = dhcp.pcb, v.c.autoip = dhcp.autoip, dhcp.state # "OFF",
         Running(v.c) => v.addr \in {"Any", "LinkLocal"},
         pc = "set_off" => v.c.state # "SELECTING" \/ v.c.tries + 1 < CoopTries
  PROVE  Sound(Discover(v, ok), granted)
  <1> DEFINE r == Discover(v, ok)
  <1>1. Discovered(v, r)
    BY DiscoverFacts
  <1> HIDE DEF r
  <1>2. LeaseOK(r.c, r.addr, granted)
    BY <1>1 DEF LeaseOK, Discovered, Waiting, Holding
  <1>3. Sound(r, granted)
    BY <1>1, <1>2 DEF Sound, Discovered, Waiting
  <1> QED  BY <1>3 DEF r

\* dhcp_recv of a NAK: dhcp_handle_nak.
LEMMA RecvNakKeeps ==
  ASSUME IInv, NEW m \in asked, NEW ok \in BOOLEAN, RecvNak(m, ok)
  PROVE  IInv'
  <1> DEFINE e == SetState(dhcp, "BACKING_OFF")
             v == [World EXCEPT !.c = e, !.addr = "Any"]
             w == Discover(v, ok)
  <1>1. World \in Worlds /\ World.c = dhcp /\ dhcp \in Client
        /\ "BACKING_OFF" \in ClientState /\ "Any" \in NetifAddress
    BY WorldFacts, AddressFacts DEF ClientState
  <1>2. [World EXCEPT !.c = SetState(@, "BACKING_OFF"), !.addr = "Any"] = v
    <2> HIDE DEF World
    <2> QED  BY <1>1 DEF Worlds
  <1>3. /\ Become(w) /\ dhcp.state # "OFF" /\ granted' = granted /\ Delivered
        /\ attached /\ UNCHANGED <<attached, DHCP_state, pc, toShow, anonymous>>
    BY <1>2 DEF RecvNak, Accepted
  <1>4. Same(dhcp, e) /\ e.state = "BACKING_OFF"
    BY <1>1, SetStateFacts
  <1> HIDE DEF e
  <1>5. e \in Client /\ e.pcb = dhcp.pcb /\ e.autoip = dhcp.autoip
    BY <1>4 DEF Same
  <1>6. v \in Worlds /\ v.c = e /\ v.addr = "Any"
    <2> HIDE DEF World
    <2> QED  BY <1>1, <1>5 DEF Worlds
  <1> HIDE DEF v
  <1>7. Sound(w, granted)
    BY <1>3, <1>4, <1>5, <1>6, DiscoverSound
  <1> HIDE DEF w
  <1> QED  BY <1>3, <1>7, HandlerKeeps, QuietFacts, DeliveredFacts

\* dhcp_arp_reply declines the offered address.
LEMMA ArpReplyKeeps ==
  ASSUME IInv, NEW ok \in BOOLEAN, ArpReply(ok)
  PROVE  IInv'
  <1> DEFINE w == Decline(World, ok)
  <1>1. World \in Worlds /\ World.c = dhcp /\ World.addr = addr
    BY WorldFacts
  <1>2. /\ Become(w) /\ dhcp.state = "CHECKING" /\ granted' = granted /\ Delivered
        /\ attached /\ UNCHANGED <<attached, DHCP_state, pc, toShow, anonymous>>
    BY DEF ArpReply
  <1>3. Asked(World, "BACKING_OFF", w)
    BY <1>1, DeclineFacts
  <1> HIDE DEF w, World
  <1>4. Sound(w, granted)
    <2>1. "BACKING_OFF" \in Waiting /\ dhcp.state \in Waiting
      BY <1>2 DEF Waiting
    <2> QED  BY <1>1, <1>3, <2>1, AskedSound
  <1> QED  BY <1>2, <1>4, HandlerKeeps, QuietFacts, DeliveredFacts

-----------------------------------------------------------------------------
(* The timers. *)

\* dhcp_timeout, in every state.  While dhcp_stop runs the tries are far from
\* CoopTries: the supervisor came after MaxDhcpTries.
LEMMA RequestTimeoutKeeps ==
  ASSUME IInv, NEW ok \in BOOLEAN, NEW ok2 \in BOOLEAN, RequestTimeout(ok, ok2)
  PROVE  IInv'
  <1> DEFINE e == [dhcp EXCEPT !.armed = FALSE]
             w == [World EXCEPT !.c = e]
  <1>1. World \in Worlds /\ World.c = dhcp /\ World.addr = addr /\ dhcp \in Client
    BY WorldFacts
  <1>2. [World EXCEPT !.c.armed = FALSE] = w
    <2> HIDE DEF World
    <2> QED  BY <1>1 DEF Worlds
  <1>3. /\ granted' = granted /\ replies' = replies /\ attached /\ SupervisorPolls
        /\ UNCHANGED <<attached, DHCP_state, pc, toShow, anonymous>>
    BY DEF RequestTimeout
  <1>4. \/ dhcp.state \in {"BACKING_OFF", "SELECTING"} /\ Become(Discover(w, ok))
        \/ dhcp.state = "REQUESTING" /\ Become(Select(w, ok))
        \/ dhcp.state = "REQUESTING" /\ Become(Discover(Release(w, ok2), ok))
        \/ dhcp.state = "CHECKING" /\ Become(Check(w))
        \/ dhcp.state = "CHECKING" /\ Become(Bind(w))
        \/ dhcp.state \in {"OFF", "BOUND", "RENEWING", "REBINDING"} /\ Become(w)
    BY <1>2, Zenon DEF RequestTimeout
  <1>5. /\ e \in Client /\ e.state = dhcp.state /\ e.pcb = dhcp.pcb
        /\ e.autoip = dhcp.autoip /\ e.tries = dhcp.tries /\ e.xid = dhcp.xid
        /\ e.offered = dhcp.offered /\ (Running(e) => Running(dhcp))
    BY <1>1 DEF Client, Running
  <1> HIDE DEF e
  <1>6. w \in Worlds /\ w.c = e /\ w.addr = addr
    BY <1>1, <1>5, ClientFacts
  <1> HIDE DEF w
  <1>7. granted' \subseteq Nat \X NetifAddress /\ replies' \in 0 .. MaxReplies
    BY <1>3, QuietFacts
  <1>8. CASE dhcp.state \in {"BACKING_OFF", "SELECTING"} /\ Become(Discover(w, ok))
    <2>1. Running(w.c) => w.addr \in {"Any", "LinkLocal"}
      BY <1>5, <1>6, <1>8 DEF IInv, LeaseOK, Waiting
    <2>2. pc = "set_off" => w.c.tries + 1 < CoopTries
      <3>1. pc = "set_off" => dhcp.tries <= MaxDhcpTries + 1
        BY <1>3 DEF SupervisorPolls
      <3>2. dhcp.tries \in 0 .. CoopTries
        BY <1>1 DEF Client
      <3> QED  BY <1>5, <1>6, <3>1, <3>2, DhcpAssumption
    <2>3. Sound(Discover(w, ok), granted)
      BY <1>5, <1>6, <1>8, <2>1, <2>2, DiscoverSound
    <2> QED  BY <1>3, <1>7, <1>8, <2>3, HandlerKeeps
  <1>9. CASE dhcp.state = "REQUESTING" /\ Become(Select(w, ok))
    <2>1. "REQUESTING" \in Waiting /\ dhcp.state \in Waiting
      BY <1>9 DEF Waiting
    <2>2. Asked(w, "REQUESTING", Select(w, ok))
      BY <1>6, SelectFacts
    <2>3. Sound(Select(w, ok), granted)
      BY <1>5, <1>6, <2>1, <2>2, AskedSound
    <2> QED  BY <1>3, <1>7, <1>9, <2>3, HandlerKeeps
  <1>10. CASE dhcp.state = "REQUESTING" /\ Become(Discover(Release(w, ok2), ok))
    <2>1. Released(w, Release(w, ok2))
      BY <1>6, ReleaseFacts
    <2>2. Sound(Discover(Release(w, ok2), ok), granted)
      BY <1>5, <1>6, <1>10, <2>1, DiscoverSound DEF Released
    <2> QED  BY <1>3, <1>7, <1>10, <2>2, HandlerKeeps
  <1>11. CASE dhcp.state = "CHECKING" /\ Become(Check(w))
    <2>1. <<w.c.xid, w.c.offered>> \in granted /\ dhcp.state \in Waiting
      BY <1>5, <1>6, <1>11 DEF IInv, LeaseOK, Waiting
    <2>2. Sound(Check(w), granted)
      BY <1>5, <1>6, <2>1, CheckSound
    <2> QED  BY <1>3, <1>7, <1>11, <2>2, HandlerKeeps
  <1>12. CASE dhcp.state = "CHECKING" /\ Become(Bind(w))
    <2>1. <<w.c.xid, w.c.offered>> \in granted
      BY <1>5, <1>6, <1>12 DEF IInv, LeaseOK
    <2>2. BoundFrom(w, Bind(w))
      BY <1>6, BindFacts
    <2>3. Sound(Bind(w), granted)
      BY <1>5, <1>6, <1>12, <2>1, <2>2, BoundSound
    <2> QED  BY <1>3, <1>7, <1>12, <2>3, HandlerKeeps
  <1>13. CASE dhcp.state \in {"OFF", "BOUND", "RENEWING", "REBINDING"} /\ Become(w)
    <2>1. LeaseOK(w.c, w.addr, granted)
      BY <1>5, <1>6, <1>13 DEF IInv, LeaseOK, Waiting
    <2>2. Sound(w, granted)
      BY <1>5, <1>6, <1>13, <2>1 DEF Sound, Waiting, IInv, ClientInv
    <2> QED  BY <1>3, <1>7, <1>13, <2>2, HandlerKeeps
  <1> QED  BY <1>4, <1>8, <1>9, <1>10, <1>11, <1>12, <1>13

\* Two worlds that differ at most in the lease's timers, which do not start.
Alike(v, w) ==
    /\ w \in Worlds /\ w.addr = v.addr
    /\ w.c.state = v.c.state /\ w.c.pcb = v.c.pcb /\ w.c.autoip = v.c.autoip
    /\ w.c.armed = v.c.armed /\ w.c.tries = v.c.tries
    /\ w.c.xid = v.c.xid /\ w.c.offered = v.c.offered
    /\ Running(w.c) => Running(v.c)

\* So do two clients.
AlikeClients(c, d) ==
    /\ d \in Client
    /\ d.state = c.state /\ d.pcb = c.pcb /\ d.autoip = c.autoip
    /\ d.armed = c.armed /\ d.tries = c.tries
    /\ d.xid = c.xid /\ d.offered = c.offered
    /\ Running(d) => Running(c)

\* A world with such a client.
LEMMA AlikeWorlds ==
  ASSUME NEW w \in Worlds, NEW d, AlikeClients(w.c, d)
  PROVE  Alike(w, [w EXCEPT !.c = d])
  <1>1. d \in Client
    BY DEF AlikeClients
  <1> DEFINE r == [w EXCEPT !.c = d]
  <1>2. r \in Worlds /\ r.c = d /\ r.addr = w.addr
    BY <1>1, ClientFacts
  <1> HIDE DEF r
  <1>3. Alike(w, r)
    BY <1>2 DEF Alike, AlikeClients
  <1> QED  BY <1>3 DEF r

\* lease_used goes on.
LEMMA UsedFacts ==
  ASSUME NEW w \in Worlds, NEW n \in Nat
  PROVE  Alike(w, [w EXCEPT !.c.lease_used = n])
  <1> DEFINE d == [w.c EXCEPT !.lease_used = n]
  <1>1. w.c \in Client
    BY DEF Worlds
  <1>2. AlikeClients(w.c, d)
    BY <1>1 DEF Client, Running, AlikeClients
  <1>3. [w EXCEPT !.c.lease_used = n] = [w EXCEPT !.c = d]
    BY DEF Worlds
  <1> HIDE DEF d
  <1>4. Alike(w, [w EXCEPT !.c = d])
    BY <1>2, AlikeWorlds
  <1> QED  BY ONLY <1>3, <1>4

\* t2_rebind_time counts down.
LEMMA T2Facts ==
  ASSUME NEW w \in Worlds
  PROVE  Alike(w, [w EXCEPT !.c.t2_rebind_time = Down(@)])
  <1> DEFINE n == Down(w.c.t2_rebind_time)
             d == [w.c EXCEPT !.t2_rebind_time = n]
  <1>1. w.c \in Client /\ w.c.t2_rebind_time \in Nat
    BY DEF Worlds, Client
  <1>2. n \in Nat /\ (n > 0 => w.c.t2_rebind_time > 0)
    BY <1>1 DEF Down
  <1>3. [w EXCEPT !.c.t2_rebind_time = Down(@)] = [w EXCEPT !.c = d]
    BY DEF Worlds
  <1> HIDE DEF n
  <1>4. AlikeClients(w.c, d)
    BY <1>1, <1>2 DEF Client, Running, AlikeClients
  <1> HIDE DEF d
  <1>5. Alike(w, [w EXCEPT !.c = d])
    BY <1>4, AlikeWorlds
  <1> QED  BY ONLY <1>3, <1>5

\* t1_renew_time counts down.
LEMMA T1Facts ==
  ASSUME NEW w \in Worlds
  PROVE  Alike(w, [w EXCEPT !.c.t1_renew_time = Down(@)])
  <1> DEFINE n == Down(w.c.t1_renew_time)
             d == [w.c EXCEPT !.t1_renew_time = n]
  <1>1. w.c \in Client /\ w.c.t1_renew_time \in Nat
    BY DEF Worlds, Client
  <1>2. n \in Nat /\ (n > 0 => w.c.t1_renew_time > 0)
    BY <1>1 DEF Down
  <1>3. [w EXCEPT !.c.t1_renew_time = Down(@)] = [w EXCEPT !.c = d]
    BY DEF Worlds
  <1> HIDE DEF n
  <1>4. AlikeClients(w.c, d)
    BY <1>1, <1>2 DEF Client, Running, AlikeClients
  <1> HIDE DEF d
  <1>5. Alike(w, [w EXCEPT !.c = d])
    BY <1>4, AlikeWorlds
  <1> QED  BY ONLY <1>3, <1>5

\* Alike is transitive.
LEMMA AlikeTwice ==
  ASSUME NEW u, NEW v, NEW w, Alike(u, v), Alike(v, w)
  PROVE  Alike(u, w)
  BY DEF Alike

\* Ageing alone is sound.
LEMMA AlikeIsSound ==
  ASSUME IInv, NEW w, Alike(World, w)
  PROVE  Sound(w, granted)
  <1>1. World.c = dhcp /\ World.addr = addr
    BY WorldFacts
  <1> HIDE DEF World
  <1>2. LeaseOK(w.c, w.addr, granted)
    BY <1>1 DEF Alike, IInv, LeaseOK
  <1> QED  BY <1>1, <1>2 DEF Alike, Sound, IInv, ClientInv

\* An extension is sound once a timer of the lease has brought it about.
LEMMA ExtendedSound ==
  ASSUME IInv, NEW v, Alike(World, v), NEW s \in {"RENEWING", "REBINDING"}, NEW r,
         Extended(v, s, r), Running(dhcp), dhcp.state # "OFF"
  PROVE  Sound(r, granted)
  <1>1. World.c = dhcp /\ World.addr = addr
    BY WorldFacts
  <1> HIDE DEF World
  <1>2. /\ r.addr = addr /\ r.c.xid = dhcp.xid /\ r.c.state = s
        /\ dhcp.state \in {"REQUESTING", "BOUND", "RENEWING", "REBINDING"}
    BY <1>1 DEF Alike, Extended
  <1>3. LeaseOK(r.c, r.addr, granted)
    <2>1. CASE dhcp.state = "REQUESTING"
      BY <1>2, <2>1 DEF IInv, LeaseOK, Waiting, Holding
    <2>2. CASE dhcp.state \in Holding
      BY <1>2, <2>2 DEF IInv, LeaseOK, Waiting, Holding
    <2> QED  BY <1>2, <2>1, <2>2 DEF Holding
  <1> QED  BY <1>1, <1>3 DEF Sound, Waiting, Alike, Extended

\* dhcp_coarse_tmr: expiry, rebinding, renewal or mere ageing.
LEMMA LeaseTickKeeps ==
  ASSUME IInv, NEW ok \in BOOLEAN, NEW ok2 \in BOOLEAN, LeaseTick(ok, ok2)
  PROVE  IInv'
  <1> DEFINE used == IF dhcp.t0_timeout > 0 THEN dhcp.lease_used + 1 ELSE dhcp.lease_used
             aged == [World EXCEPT !.c.lease_used = used]
             t2   == [aged EXCEPT !.c.t2_rebind_time = Down(@)]
             t1   == [t2 EXCEPT !.c.t1_renew_time = Down(@)]
  <1>1. World \in Worlds /\ World.c = dhcp /\ dhcp \in Client
    BY WorldFacts
  <1>2. /\ \/ Become(Discover(Release(aged, ok2), ok))
           \/ dhcp.t2_rebind_time = 1 /\ Become(Rebind(t2, ok))
           \/ dhcp.t1_renew_time = 1 /\ Become(Renew(t1, ok))
           \/ Become(t1)
        /\ dhcp.state # "OFF" /\ granted' = granted /\ replies' = replies
        /\ attached /\ UNCHANGED <<attached, DHCP_state, pc, toShow, anonymous>>
    BY DEF LeaseTick
  <1>3. used \in Nat
    BY <1>1 DEF Client
  <1> HIDE DEF used, World
  <1>4. Alike(World, aged)
    BY <1>1, <1>3, UsedFacts
  <1> HIDE DEF aged
  <1>5. Alike(World, t2)
    <2>1. aged \in Worlds
      BY <1>4 DEF Alike
    <2>2. Alike(aged, t2)
      BY <2>1, T2Facts
    <2> QED  BY <1>4, <2>2, AlikeTwice
  <1> HIDE DEF t2
  <1>6. Alike(World, t1)
    <2>1. t2 \in Worlds
      BY <1>5 DEF Alike
    <2>2. Alike(t2, t1)
      BY <2>1, T1Facts
    <2> QED  BY <1>5, <2>2, AlikeTwice
  <1> HIDE DEF t1
  <1>7. granted' \subseteq Nat \X NetifAddress /\ replies' \in 0 .. MaxReplies
    BY <1>2, QuietFacts
  <1>8. CASE Become(Discover(Release(aged, ok2), ok))
    <2> DEFINE v == Release(aged, ok2)
    <2>1. Released(aged, v)
      BY <1>4, ReleaseFacts DEF Alike
    <2> HIDE DEF v
    <2>2. /\ v \in Worlds /\ v.c.pcb = dhcp.pcb /\ v.c.autoip = dhcp.autoip
          /\ ~Running(v.c) /\ v.c.state = "OFF"
      BY <1>1, <1>4, <2>1 DEF Released, Alike
    <2>3. Sound(Discover(v, ok), granted)
      BY <1>2, <2>2, DiscoverSound
    <2>4. Become(Discover(v, ok))
      BY <1>8 DEF v
    <2> QED  BY <1>2, <1>7, <2>3, <2>4, HandlerKeeps
  <1>9. CASE dhcp.t2_rebind_time = 1 /\ Become(Rebind(t2, ok))
    <2>1. Rebind(t2, ok) = t2 \/ Extended(t2, "REBINDING", Rebind(t2, ok))
      BY <1>5, RebindFacts DEF Alike
    <2>2. Running(dhcp)
      BY <1>9 DEF Running
    <2>3. Sound(Rebind(t2, ok), granted)
      <3>1. CASE Rebind(t2, ok) = t2
        BY <1>5, <3>1, AlikeIsSound
      <3>2. CASE Extended(t2, "REBINDING", Rebind(t2, ok))
        BY <1>2, <1>5, <2>2, <3>2, ExtendedSound
      <3> QED  BY <2>1, <3>1, <3>2
    <2> QED  BY <1>2, <1>7, <1>9, <2>3, HandlerKeeps
  <1>10. CASE dhcp.t1_renew_time = 1 /\ Become(Renew(t1, ok))
    <2>1. Renew(t1, ok) = t1 \/ Extended(t1, "RENEWING", Renew(t1, ok))
      BY <1>6, RenewFacts DEF Alike
    <2>2. Running(dhcp)
      BY <1>10 DEF Running
    <2>3. Sound(Renew(t1, ok), granted)
      <3>1. CASE Renew(t1, ok) = t1
        BY <1>6, <3>1, AlikeIsSound
      <3>2. CASE Extended(t1, "RENEWING", Renew(t1, ok))
        BY <1>2, <1>6, <2>2, <3>2, ExtendedSound
      <3> QED  BY <2>1, <3>1, <3>2
    <2> QED  BY <1>2, <1>7, <1>10, <2>3, HandlerKeeps
  <1>11. CASE Become(t1)
    <2>1. Sound(t1, granted)
      BY <1>6, AlikeIsSound
    <2> QED  BY <1>2, <1>7, <1>11, <2>1, HandlerKeeps
  <1> QED  BY <1>2, <1>8, <1>9, <1>10, <1>11

\* autoip_tmr and autoip_restart: never beside a bound lease, nor once
\* dhcp_stop has stopped AutoIP.
LEMMA AutoipKeeps ==
  ASSUME IInv, AutoipBinds \/ AutoipRestarts
  PROVE  IInv'
  <1>1. PICK s \in {"PROBING", "BOUND"}, a \in {"LinkLocal", "Any"} :
           dhcp' = [dhcp EXCEPT !.autoip = s] /\ addr' = a
    BY DEF AutoipBinds, AutoipRestarts
  <1>2. /\ dhcp.autoip # "OFF" /\ replies' \in 0 .. MaxReplies /\ attached
        /\ UNCHANGED <<attached, DHCP_state, pc, xid, asked, granted, toShow, anonymous>>
    BY QuietFacts, DeliveredFacts DEF AutoipBinds, AutoipRestarts
  <1>3. dhcp \in Client /\ a \in NetifAddress
    BY WorldFacts, AddressFacts
  <1>4. /\ dhcp' \in Client /\ dhcp'.state = dhcp.state /\ dhcp'.pcb = dhcp.pcb
        /\ dhcp'.armed = dhcp.armed /\ dhcp'.tries = dhcp.tries
        /\ dhcp'.xid = dhcp.xid /\ dhcp'.offered = dhcp.offered
        /\ (Running(dhcp') => Running(dhcp))
    BY <1>1, <1>3 DEF Client, Running
  <1>5. DhcpTypeOK'
    BY <1>1, <1>2, <1>3, <1>4 DEF IInv, DhcpTypeOK
  <1>6. ClientInv'
    BY <1>2, <1>4 DEF IInv, ClientInv, Stranded
  <1>7. SupervisorInv'
    BY <1>2, <1>4 DEF IInv, SupervisorInv
  <1>8. LeaseOK(dhcp', addr', granted')
    BY <1>1, <1>2, <1>4 DEF IInv, ClientInv, LeaseOK, Holding
  <1> QED  BY <1>5, <1>6, <1>7, <1>8 DEF IInv, LeaseOK

-----------------------------------------------------------------------------
(* The supervisor. *)

\* What memset leaves is a client.
LEMMA ZeroedFacts == Zeroed \in Client
  <1>1. 0 \in 0 .. CoopTries
    BY DhcpAssumption
  <1>2. "Any" \in NetifAddress /\ "OFF" \in ClientState /\ NoLease \in Leases \cup {NoLease}
    BY AddressFacts DEF ClientState
  <1> QED  BY <1>1, <1>2 DEF Zeroed, Client

\* A client that is OFF has nothing to lose.
LEMMA OffFacts ==
  ASSUME NEW c, NEW a, NEW g, c.state = "OFF"
  PROVE  LeaseOK(c, a, g)
  BY DEF LeaseOK, Waiting, Holding

\* A dhcp_start that fails leaves a client that is OFF.
LEMMA StartFailsKeeps ==
  ASSUME IInv, StartFails
  PROVE  IInv'
  <1>1. DhcpTypeOK'
    BY ZeroedFacts, AddressFacts DEF IInv, DhcpTypeOK, StartFails
  <1>2. dhcp'.state = "OFF" /\ dhcp'.autoip = "OFF" /\ pc' = "poll" /\ DHCP_state' = "WAIT_ADDRESS"
    BY DEF StartFails, Polls, Zeroed
  <1>3. LeaseOK(dhcp', addr', granted')
    BY <1>2, OffFacts
  <1> QED  BY <1>1, <1>2, <1>3 DEF IInv, ClientInv, SupervisorInv, LeaseOK, Waiting

\* dhcp_start up to udp_sendto.
LEMMA StartSendsKeeps ==
  ASSUME IInv, StartSends
  PROVE  IInv'
  <1> DEFINE e == [Zeroed EXCEPT !.pcb = TRUE, !.state = "SELECTING"]
             v == [World EXCEPT !.c = e, !.addr = "Any"]
             w == SendMsg(v, "DISCOVER", "Any", TRUE)
  <1>1. World \in Worlds /\ "Any" \in NetifAddress /\ Zeroed \in Client
        /\ "SELECTING" \in ClientState
    BY WorldFacts, AddressFacts, ZeroedFacts DEF ClientState
  <1>2. /\ Become(w) /\ attached' = TRUE /\ pc' = "sent" /\ DHCP_state = "START"
        /\ UNCHANGED <<DHCP_state, granted, replies, toShow, anonymous>>
    BY DEF StartSends, Polls
  <1>3. e \in Client /\ e.state = "SELECTING" /\ e.pcb = TRUE
    BY <1>1 DEF Client
  <1>4. ~Running(e)
    BY DEF Zeroed, Running
  <1> HIDE DEF e, World
  <1>5. v \in Worlds /\ v.c = e
    BY <1>1, <1>3 DEF Worlds
  <1> HIDE DEF v
  <1>6. MessageSent(v, w)
    BY <1>1, <1>5, SendMsgFacts, MsgTypeFacts
  <1> HIDE DEF w
  <1>7. w \in Worlds /\ w.c.state = "SELECTING" /\ w.c.pcb = TRUE /\ ~Running(w.c)
    BY <1>3, <1>4, <1>5, <1>6 DEF MessageSent, Same
  <1>8. /\ dhcp' = w.c /\ dhcp' \in Client
        /\ addr' \in NetifAddress /\ xid' \in Nat /\ asked' \subseteq Request
    BY <1>2, <1>7, BecomeFacts
  <1>9. DhcpTypeOK'
    BY <1>2, <1>8 DEF IInv, DhcpTypeOK
  <1>10. ClientInv' /\ SupervisorInv'
    BY <1>2, <1>7, <1>8 DEF ClientInv, SupervisorInv
  <1>11. LeaseOK(dhcp', addr', granted')
    BY <1>7, <1>8 DEF LeaseOK, Holding
  <1> QED  BY <1>9, <1>10, <1>11 DEF IInv, LeaseOK

\* The rest of dhcp_start arms the timer, whatever was handled before.
LEMMA StartReturnsKeeps ==
  ASSUME IInv, StartReturns
  PROVE  IInv'
  <1> DEFINE w == DiscoverTail(World)
  <1>1. World \in Worlds /\ World.c = dhcp /\ World.addr = addr /\ dhcp \in Client
    BY WorldFacts
  <1>2. /\ Become(w) /\ pc = "sent" /\ pc' = "poll" /\ DHCP_state' = "WAIT_ADDRESS"
        /\ UNCHANGED <<attached, granted, replies, toShow, anonymous>>
    BY DEF StartReturns
  <1>3. /\ w \in Worlds /\ w.addr \in {addr, "Any"}
        /\ w.c.state = dhcp.state /\ w.c.pcb = dhcp.pcb /\ w.c.armed = TRUE
        /\ w.c.xid = dhcp.xid /\ w.c.offered = dhcp.offered
        /\ (Running(w.c) => Running(dhcp))
        /\ dhcp.tries + 1 < CoopTries => w.c.autoip = dhcp.autoip /\ w.addr = addr
    BY <1>1, DiscoverTailFacts
  <1> HIDE DEF w
  <1>4. /\ dhcp' = w.c /\ dhcp' \in Client /\ addr' = w.addr
        /\ addr' \in NetifAddress /\ xid' \in Nat /\ asked' \subseteq Request
    BY <1>2, <1>3, BecomeFacts
  <1>5. DhcpTypeOK'
    BY <1>2, <1>4 DEF IInv, DhcpTypeOK
  <1>6. dhcp.state = "BOUND" => dhcp'.autoip = dhcp.autoip /\ addr' = addr
    BY <1>2, <1>3, <1>4, DhcpAssumption DEF IInv, ClientInv
  <1>7. ClientInv'
    BY <1>2, <1>3, <1>4, <1>6 DEF IInv, ClientInv
  <1>8. SupervisorInv'
    BY <1>2 DEF IInv, SupervisorInv
  <1>9. LeaseOK(dhcp', addr', granted')
    BY <1>2, <1>3, <1>4, <1>6 DEF IInv, LeaseOK
  <1> QED  BY <1>5, <1>7, <1>8, <1>9 DEF IInv, LeaseOK

\* The three steps of dhcp_stop, in their order.
LEMMA StopKeeps ==
  ASSUME IInv, StopAutoip \/ StopSetsOff \/ StopFreesPcb
  PROVE  IInv'
  <1>1. World \in Worlds /\ World.c = dhcp /\ World.addr = addr /\ dhcp \in Client
        /\ "OFF" \in ClientState
    BY WorldFacts DEF ClientState
  <1>2. CASE StopAutoip
    <2> DEFINE w == AutoipStop(World)
    <2>1. /\ Become(w) /\ pc = "autoip_stop" /\ pc' = "set_off"
          /\ UNCHANGED <<attached, DHCP_state, granted, replies, toShow, anonymous>>
      BY <1>2 DEF StopAutoip
    <2>2. /\ w \in Worlds /\ w.c.autoip = "OFF" /\ w.c.pcb = dhcp.pcb
          /\ w.c.state = dhcp.state /\ w.c.armed = dhcp.armed
          /\ w.c.xid = dhcp.xid /\ w.c.offered = dhcp.offered
          /\ w.addr \in {addr, "Any"} /\ (Running(w.c) => Running(dhcp))
          /\ dhcp.autoip = "OFF" => w = World
      BY <1>1, AutoipStopFacts
    <2> HIDE DEF w, World
    <2>3. /\ dhcp' = w.c /\ dhcp' \in Client /\ addr' = w.addr
          /\ addr' \in NetifAddress /\ xid' \in Nat /\ asked' \subseteq Request
      BY <2>1, <2>2, BecomeFacts
    <2>4. DhcpTypeOK'
      BY <2>1, <2>3 DEF IInv, DhcpTypeOK
    <2>5. ClientInv'
      BY <2>1, <2>2, <2>3 DEF IInv, ClientInv, Stranded
    <2>6. SupervisorInv'
      BY <2>1, <2>2, <2>3 DEF IInv, SupervisorInv
    <2>7. dhcp.state = "BOUND" => addr' = addr
      BY <1>1, <2>2, <2>3 DEF IInv, ClientInv
    <2>8. LeaseOK(dhcp', addr', granted')
      BY <2>1, <2>2, <2>3, <2>7 DEF IInv, LeaseOK
    <2> QED  BY <2>4, <2>5, <2>6, <2>8 DEF IInv, LeaseOK
  <1>3. CASE StopSetsOff
    <2> DEFINE d == SetState(dhcp, "OFF")
    <2>1. dhcp' = d
      BY <1>3 DEF StopSetsOff, StopState
    <2>2. Same(dhcp, d) /\ d.state = "OFF"
      BY <1>1, SetStateFacts
    <2> HIDE DEF d
    <2>3. dhcp' \in Client /\ dhcp'.state = "OFF" /\ dhcp'.autoip = dhcp.autoip
      BY <2>1, <2>2 DEF Same
    <2>4. DhcpTypeOK' /\ pc' = "free_pcb" /\ pc = "set_off"
          /\ attached' = attached /\ DHCP_state' = DHCP_state
      BY <1>3, <2>3 DEF IInv, DhcpTypeOK, StopSetsOff
    <2>5. ClientInv' /\ SupervisorInv'
      BY <2>3, <2>4 DEF IInv, ClientInv, SupervisorInv, Waiting
    <2>6. LeaseOK(dhcp', addr', granted')
      BY <2>3, OffFacts
    <2> QED  BY <2>4, <2>5, <2>6 DEF IInv, LeaseOK
  <1>4. CASE StopFreesPcb
    <2>1. dhcp' \in Client /\ dhcp'.state = dhcp.state /\ dhcp'.autoip = dhcp.autoip
      BY <1>1, <1>4 DEF StopFreesPcb, Client
    <2>2. DhcpTypeOK' /\ pc' = "set_addr" /\ pc = "free_pcb"
          /\ attached' = attached /\ DHCP_state' = DHCP_state
      BY <1>4, <2>1 DEF IInv, DhcpTypeOK, StopFreesPcb
    <2>3. dhcp'.state = "OFF"
      BY <2>1, <2>2 DEF IInv, ClientInv
    <2>4. ClientInv' /\ SupervisorInv'
      BY <2>1, <2>2, <2>3 DEF IInv, ClientInv, SupervisorInv, Waiting
    <2>5. LeaseOK(dhcp', addr', granted')
      BY <2>3, OffFacts
    <2> QED  BY <2>2, <2>4, <2>5 DEF IInv, LeaseOK
  <1> QED  BY <1>2, <1>3, <1>4

\* The steps of the supervisor that leave the client alone.
LEMMA ClientAlone ==
  ASSUME IInv, SeesAddress \/ ReadsAddress \/ GivesUp \/ SetsStatic \/ LinkDown \/ Shown
  PROVE  IInv'
  <1>1. /\ dhcp' = dhcp /\ granted' = granted /\ attached' = attached
        /\ anonymous' = anonymous
        /\ pc # "sent" /\ pc' \notin {"sent", "free_pcb", "set_off"}
    BY DEF SeesAddress, ReadsAddress, GivesUp, SetsStatic, LinkDown, Shown, Polls
  <1>2. DhcpTypeOK'
    <2> USE AddressFacts DEF IInv, DhcpTypeOK, Polls
    <2>1. CASE SeesAddress
      BY <2>1 DEF SeesAddress
    <2>2. CASE ReadsAddress
      BY <2>2 DEF ReadsAddress
    <2>3. CASE GivesUp
      BY <2>3 DEF GivesUp
    <2>4. CASE SetsStatic
      BY <2>4 DEF SetsStatic
    <2>5. CASE LinkDown
      BY <2>5 DEF LinkDown
    <2>6. CASE Shown
      BY <2>6 DEF Shown
    <2> QED  BY <2>1, <2>2, <2>3, <2>4, <2>5, <2>6
  <1>3. ClientInv'
    BY <1>1 DEF IInv, ClientInv, Stranded
  <1>4. SupervisorInv'
    <2> USE DEF IInv, SupervisorInv, Polls
    <2>1. CASE SeesAddress
      BY <2>1 DEF SeesAddress
    <2>2. CASE ReadsAddress
      BY <2>2 DEF ReadsAddress
    <2>3. CASE GivesUp
      BY <2>3 DEF GivesUp
    <2>4. CASE SetsStatic
      BY <2>4 DEF SetsStatic
    <2>5. CASE LinkDown
      BY <2>5 DEF LinkDown
    <2>6. CASE Shown
      BY <2>6 DEF Shown
    <2> QED  BY <2>1, <2>2, <2>3, <2>4, <2>5, <2>6
  <1>5. LeaseOK(dhcp', addr', granted')
    <2>1. CASE SetsStatic
      <3>1. dhcp'.state = "OFF"
        BY <1>1, <2>1 DEF IInv, SupervisorInv, SetsStatic
      <3> QED  BY <3>1, OffFacts
    <2>2. CASE ~SetsStatic
      <3>1. addr' = addr
        BY <2>2 DEF SeesAddress, ReadsAddress, GivesUp, LinkDown, Shown
      <3> QED  BY <1>1, <3>1 DEF IInv
    <2> QED  BY <2>1, <2>2
  <1> QED  BY <1>2, <1>3, <1>4, <1>5 DEF IInv, LeaseOK

-----------------------------------------------------------------------------
(* The theorems. *)

\* The invariant is inductive.
LEMMA NextKeeps ==
  ASSUME IInv, [DhcpNext]_dhcpVars
  PROVE  IInv'
  <1>1. CASE SupervisorStep
    BY <1>1, StartFailsKeeps, StartSendsKeeps, StartReturnsKeeps, StopKeeps, ClientAlone
       DEF SupervisorStep
  <1>2. CASE Shown
    BY <1>2, ClientAlone
  <1>3. CASE TcpipStep
    BY <1>3, RecvOfferKeeps, RecvOfferNoServerKeeps, RecvAckKeeps, RecvNakKeeps, ArpReplyKeeps,
       RequestTimeoutKeeps, LeaseTickKeeps, AutoipKeeps
       DEF TcpipStep, FineTimer, CoarseTimer
  <1>4. CASE UNCHANGED dhcpVars
    BY <1>4 DEF IInv, DhcpTypeOK, ClientInv, SupervisorInv, LeaseOK, Running, Stranded, dhcpVars
  <1> QED  BY <1>1, <1>2, <1>3, <1>4 DEF DhcpNext

\* It holds when the supervisor's thread is created.
LEMMA InitHolds == DhcpInit => IInv
  <1> SUFFICES ASSUME DhcpInit PROVE IInv
    OBVIOUS
  <1>1. DhcpTypeOK
    <2>1. 0 \in 0 .. MaxReplies
      BY DhcpAssumption
    <2>2. attached \in BOOLEAN
      BY DEF DhcpInit
    <2> QED  BY <2>1, <2>2, ZeroedFacts, AddressFacts DEF DhcpInit, DhcpTypeOK
  <1>2. /\ dhcp.state = "OFF" /\ dhcp.autoip = "OFF" /\ pc = "poll"
        /\ DHCP_state \in {"START", "LINK_DOWN"}
    BY DEF DhcpInit, Zeroed
  <1>3. ClientInv /\ SupervisorInv
    BY <1>2 DEF ClientInv, SupervisorInv, Waiting
  <1> QED  BY <1>1, <1>2, <1>3, OffFacts DEF IInv

\* It holds in every reachable state.
LEMMA IInvHolds == DhcpSpec => []IInv
  <1>1. DhcpInit => IInv
    BY InitHolds
  <1>2. IInv /\ [DhcpNext]_dhcpVars => IInv'
    BY NextKeeps
  <1> QED  BY <1>1, <1>2, PTL DEF DhcpSpec

\* The state keeps its shape: the tries of tcpip's retransmissions saturate,
\* and no halving, ageing or infinite period takes a timer of dhcp.c out of
\* the natural numbers.
THEOREM DhcpTypeCorrect == DhcpSpec => []DhcpTypeOK
  <1>1. IInv => DhcpTypeOK
    BY DEF IInv
  <1> QED  BY <1>1, IInvHolds, PTL

\* A client that has bound, renews or rebinds a lease has on its interface
\* the address the server acknowledged in this transaction, or, after a NAK
\* that left an earlier lease's timers running, none but AutoIP's.
THEOREM AddressIsLeased == DhcpSpec => []LeasedAddress
  <1>1. IInv => LeasedAddress
    BY DEF IInv, LeaseOK, LeasedAddress, Holding
  <1> QED  BY <1>1, IInvHolds, PTL

\* No handler of the tcpip thread sends through a pcb dhcp_stop has freed.
THEOREM PcbOutlivesClient == DhcpSpec => []PcbOutlives
  <1>1. IInv => PcbOutlives
    BY DEF IInv, ClientInv, PcbOutlives
  <1> QED  BY <1>1, IInvHolds, PTL

\* Once dhcp_start has returned, a client that waits for an answer has its
\* request timer running, unless an offer without a server ID stopped it: no
\* other reply, lost message, failed allocation or timer leaves it without.
THEOREM ClientNeverWedged == DhcpSpec => []NoWedge
  <1>1. IInv => NoWedge
    BY DEF IInv, ClientInv, NoWedge, Waiting
  <1> QED  BY <1>1, IInvHolds, PTL

\* AutoIP is off whenever a lease is bound, by dhcp_bind or by a bind that
\* overtakes the end of dhcp_discover.
THEOREM AutoipYieldsToLease == DhcpSpec => []AutoipYields
  <1>1. IInv => AutoipYields
    BY DEF IInv, ClientInv, AutoipYields
  <1> QED  BY <1>1, IInvHolds, PTL

\* Once DHCP_thread has set the static address, no step of any thread, late
\* reply, timer or AutoIP, changes the interface's address.
THEOREM StaticStays == DhcpSpec => StaticIsFinal
  <1>1. IInv /\ IInv' /\ [DhcpNext]_dhcpVars =>
          [DHCP_state = "TIMEOUT" /\ pc \in {"show", "poll"} => addr' = "Static"]_dhcpVars
    <2> SUFFICES ASSUME IInv, IInv', [DhcpNext]_dhcpVars,
                        DHCP_state = "TIMEOUT", pc \in {"show", "poll"}
                 PROVE  addr' = "Static"
      OBVIOUS
    <2>1. DHCP_state' = "TIMEOUT" /\ pc' \in {"show", "poll"}
      <3>1. CASE SupervisorStep
        BY <3>1 DEF SupervisorStep, StartFails, StartSends, StartReturns, SeesAddress,
           ReadsAddress, GivesUp, StopAutoip, StopSetsOff, StopFreesPcb, SetsStatic, LinkDown, Polls
      <3>2. CASE Shown
        BY <3>2 DEF Shown
      <3>3. CASE TcpipStep
        <4>1. UNCHANGED <<DHCP_state, pc>>
          BY <3>3 DEF TcpipStep, RecvOffer, RecvOfferNoServer, RecvAck, RecvNak, ArpReply, FineTimer, CoarseTimer,
             RequestTimeout, LeaseTick, AutoipBinds, AutoipRestarts
        <4> QED  BY <4>1
      <3>4. CASE UNCHANGED dhcpVars
        BY <3>4 DEF dhcpVars
      <3> QED  BY <3>1, <3>2, <3>3, <3>4 DEF DhcpNext
    <2> QED  BY <2>1 DEF IInv, SupervisorInv
  <1> QED  BY <1>1, IInvHolds, PTL DEF DhcpSpec, StaticIsFinal
=============================================================================
