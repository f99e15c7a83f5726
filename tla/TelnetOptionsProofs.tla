------------------------ MODULE TelnetOptionsProofs ------------------------
(***************************************************************************)
(* Proofs about TelnetOptions: for any options, any wishes of the client,  *)
(* any number of requests and any contents of uninitialised memory the     *)
(* table keeps its shape, and whenever nothing is under way the two ends   *)
(* agree and the console's last request has won: on ECHO always, on any    *)
(* other option as long as growing the table has not harmed its entry.     *)
(***************************************************************************)
EXTENDS TelnetOptions, OrderFacts, TLAPS

\* A state and what is sent

Outcome == QState \X (Command \cup {"none"})

\* The switch statements answer every state.
LEMMA OutcomesTyped ==
  ASSUME NEW u \in QState, NEW o \in Opt
  PROVE  /\ OnWill(o)[u] \in Outcome /\ OnWont[u] \in Outcome
         /\ OnDo(o)[u] \in Outcome /\ OnDont[u] \in Outcome
         /\ AskWill[u] \in Outcome /\ AskWont[u] \in Outcome
  <1>1. CASE u = "NO" BY <1>1 DEF OnWill, OnWont, OnDo, OnDont, AskWill, AskWont, Outcome, QState, Command
  <1>2. CASE u = "YES" BY <1>2 DEF OnWill, OnWont, OnDo, OnDont, AskWill, AskWont, Outcome, QState, Command
  <1>3. CASE u = "WANTNO" BY <1>3 DEF OnWill, OnWont, OnDo, OnDont, AskWill, AskWont, Outcome, QState, Command
  <1>4. CASE u = "WANTYES" BY <1>4 DEF OnWill, OnWont, OnDo, OnDont, AskWill, AskWont, Outcome, QState, Command
  <1>5. CASE u = "WANTNO_OP" BY <1>5 DEF OnWill, OnWont, OnDo, OnDont, AskWill, AskWont, Outcome, QState, Command
  <1>6. CASE u = "WANTYES_OP" BY <1>6 DEF OnWill, OnWont, OnDo, OnDont, AskWill, AskWont, Outcome, QState, Command
  <1>7. CASE u = "junk" BY <1>7 DEF OnWill, OnWont, OnDo, OnDont, AskWill, AskWont, Outcome, QState, Command
  <1> QED BY <1>1, <1>2, <1>3, <1>4, <1>5, <1>6, <1>7 DEF QState

\* The loop of _get_rfc1143 finds the option's first entry.
LEMMA SlotIs ==
  ASSUME NEW tab \in Seq(Entry), NEW o, Tracked(tab, o)
  PROVE  /\ Slot(tab, o) \in DOMAIN tab /\ tab[Slot(tab, o)].opt = o
         /\ \A j \in 1 .. Slot(tab, o) - 1 : tab[j].opt # o
  <1> DEFINE T == {k \in DOMAIN tab : tab[k].opt = o}
  <1>1. T \subseteq Nat /\ T # {} BY DEF Tracked
  <1>2. PICK k \in T : \A j \in T : k <= j BY <1>1, NatMin
  <1>3. k \in DOMAIN tab /\ tab[k].opt = o OBVIOUS
  <1>4. ASSUME NEW j \in 1 .. k - 1 PROVE tab[j].opt # o
    <2>1. j \in DOMAIN tab /\ ~(k <= j) BY <1>3
    <2> QED BY <1>2, <2>1
  <1> QED BY <1>3, <1>4 DEF Slot

\* _get_rfc1143 returns an entry for the option.
LEMMA GetTyped ==
  ASSUME NEW tab \in Seq(Entry), NEW o \in Opt
  PROVE  Get(tab, o) \in Entry /\ Get(tab, o).us \in QState /\ Get(tab, o).him \in QState
         /\ Get(tab, o).opt = o
  <1>1. CASE Tracked(tab, o)
    <2>1. Slot(tab, o) \in DOMAIN tab /\ tab[Slot(tab, o)].opt = o BY <1>1, SlotIs
    <2>2. Get(tab, o) = tab[Slot(tab, o)] BY <1>1 DEF Get
    <2>3. Get(tab, o) \in Entry BY <2>1, <2>2
    <2> QED BY <2>1, <2>2, <2>3 DEF Entry
  <1>2. CASE ~Tracked(tab, o)
    BY <1>2 DEF Get, Entry, QState
  <1> QED BY <1>1, <1>2

First(tab, o, k) == k \in DOMAIN tab /\ tab[k].opt = o /\ \A j \in 1 .. k - 1 : tab[j].opt # o

\* It is the only one with no other in front of it.
LEMMA SlotUnique ==
  ASSUME NEW tab \in Seq(Entry), NEW o, NEW k, First(tab, o, k)
  PROVE  Tracked(tab, o) /\ Slot(tab, o) = k /\ Get(tab, o) = tab[k]
  <1>0. k \in DOMAIN tab /\ tab[k].opt = o /\ \A j \in 1 .. k - 1 : tab[j].opt # o BY DEF First
  <1>1. Tracked(tab, o) BY <1>0 DEF Tracked
  <1> DEFINE n == Slot(tab, o)
  <1>2. n \in DOMAIN tab /\ tab[n].opt = o /\ \A j \in 1 .. n - 1 : tab[j].opt # o BY <1>1, SlotIs
  <1>3. DOMAIN tab = 1 .. Len(tab) /\ Len(tab) \in Nat OBVIOUS
  <1> HIDE DEF n
  <1>4. n \in Nat /\ k \in Nat /\ n >= 1 /\ k >= 1 BY <1>0, <1>2, <1>3
  <1>5. n = k
    <2>1. ~(n < k) BY <1>0, <1>2, <1>4
    <2>2. ~(k < n) BY <1>0, <1>2, <1>4
    <2> QED BY <1>4, <2>1, <2>2
  <1>6. Slot(tab, o) = k BY <1>5 DEF n
  <1> QED BY <1>1, <1>6 DEF Get

Joined(a, b, c) ==
    /\ c \in Seq(Entry) /\ Len(c) = Len(a) + Len(b)
    /\ \A k \in 1 .. Len(a) : c[k] = a[k]
    /\ \A k \in Len(a) + 1 .. Len(a) + Len(b) : c[k] = b[k - Len(a)]

\* Joining two tables
LEMMA JoinIs ==
  ASSUME NEW a \in Seq(Entry), NEW b \in Seq(Entry)
  PROVE  Joined(a, b, a \o b)
  BY DEF Joined

Stale(tab) == [DOMAIN tab \ Copied(tab) -> Heap]

IsGrown(tab, e, new) ==
    /\ new \in Seq(Entry) /\ Len(new) = Len(tab) + 4
    /\ \A k \in 1 .. Len(tab) \div 2 : new[k] = tab[k]
    /\ new[Len(tab) + 1] = e
    /\ \A k \in Len(tab) + 2 .. Len(tab) + 4 : new[k] = Zero

\* The entry's place when _set_rfc1143 has grown the table, and what is in the
\* other slots
LEMMA GrownIs ==
  ASSUME NEW tab \in Seq(Entry), NEW e \in Entry, NEW stale \in Stale(tab)
  PROVE  IsGrown(tab, e, Grown(tab, stale, e))
  <1> DEFINE n == Len(tab)
             old == [k \in DOMAIN tab |-> IF k \in Copied(tab) THEN tab[k] ELSE stale[k]]
             fresh == <<e, Zero, Zero, Zero>>
             new == Grown(tab, stale, e)
  <1>1. n \in Nat /\ DOMAIN tab = 1 .. n OBVIOUS
  <1>2. Zero \in Entry BY DEF Zero, Entry, QState
  <1>3. \A k \in DOMAIN tab : old[k] \in Entry BY HeapAssumption DEF Stale
  <1>4. old \in Seq(Entry) /\ Len(old) = n
    <2>1. old \in [1 .. n -> Entry] BY <1>1, <1>3
    <2> QED BY <1>1, <2>1
  <1>5. \A k \in 1 .. n \div 2 : old[k] = tab[k]
    <2> TAKE k \in 1 .. n \div 2
    <2>1. k \in DOMAIN tab BY <1>1
    <2> QED BY <2>1 DEF Copied
  <1>6. fresh \in Seq(Entry) /\ Len(fresh) = 4 BY <1>2
  <1>6a. fresh[1] = e /\ fresh[2] = Zero /\ fresh[3] = Zero /\ fresh[4] = Zero OBVIOUS
  <1>7. new = old \o fresh BY DEF Grown
  <1> HIDE DEF n, old, fresh, new
  <1>7a. Joined(old, fresh, new) BY <1>4, <1>6, <1>7, JoinIs
  <1>8. new \in Seq(Entry) /\ Len(new) = n + 4 BY <1>4, <1>6, <1>7a DEF Joined
  <1>9. /\ \A k \in 1 .. n : new[k] = old[k]
        /\ \A k \in n + 1 .. n + 4 : new[k] = fresh[k - n]
    BY <1>4, <1>6, <1>7a DEF Joined
  <1>10. \A k \in 1 .. n \div 2 : new[k] = tab[k]
    <2> TAKE k \in 1 .. n \div 2
    <2>1. k \in 1 .. n BY <1>1
    <2> QED BY <1>5, <1>9, <2>1
  <1>11. new[n + 1] = e BY <1>1, <1>6a, <1>9
  <1>12. \A k \in n + 2 .. n + 4 : new[k] = Zero
    <2> TAKE k \in n + 2 .. n + 4
    <2>1. k \in n + 1 .. n + 4 /\ k - n \in {2, 3, 4} BY <1>1
    <2>2. fresh[k - n] = Zero BY <1>6a, <2>1
    <2> QED BY <1>9, <2>1, <2>2
  <1> QED BY <1>8, <1>10, <1>11, <1>12 DEF n, new, IsGrown

\* _set_rfc1143 leaves a table, whatever it failed to copy.
LEMMA SetTyped ==
  ASSUME NEW tab \in Seq(Entry), NEW o \in Opt, NEW us \in QState, NEW him \in QState,
         NEW new \in Set(tab, o, us, him)
  PROVE  /\ new \in Seq(Entry)
         /\ Len(new) = Len(tab) \/ (Len(new) = Len(tab) + 4 /\ ~Tracked(tab, o))
  <1> DEFINE e == [opt |-> o, us |-> us, him |-> him]
  <1>1. e \in Entry BY DEF Entry
  <1>2. CASE Tracked(tab, o)
    <2>1. new = [tab EXCEPT ![Slot(tab, o)] = e] BY <1>2 DEF Set
    <2> DEFINE k == Slot(tab, o)
    <2>2. k \in DOMAIN tab BY <1>2, SlotIs
    <2> HIDE DEF e, k
    <2>3. [tab EXCEPT ![k] = e] \in Seq(Entry) /\ Len([tab EXCEPT ![k] = e]) = Len(tab) BY <1>1, <2>2
    <2> QED BY <2>1, <2>3 DEF k
  <1>3. CASE ~Tracked(tab, o)
    <2>1. PICK stale \in Stale(tab) : new = Grown(tab, stale, e) BY <1>3 DEF Set, Stale
    <2> HIDE DEF e
    <2>2. IsGrown(tab, e, new) BY <1>1, <2>1, GrownIs
    <2> QED BY <1>3, <2>2 DEF IsGrown
  <1> QED BY <1>2, <1>3

\* So does a step of either state.
LEMMA StepTyped ==
  ASSUME NEW tab \in Seq(Entry), NEW o \in Opt, NEW outcome \in Outcome,
         NEW new \in UsStep(tab, o, outcome) \cup HimStep(tab, o, outcome)
  PROVE  new \in Seq(Entry) /\ Len(new) \in {Len(tab), Len(tab) + 4}
  <1>1. outcome[1] \in QState /\ Get(tab, o).us \in QState /\ Get(tab, o).him \in QState
    BY GetTyped DEF Outcome
  <1>2. \/ new = tab
        \/ new \in Set(tab, o, outcome[1], Get(tab, o).him)
        \/ new \in Set(tab, o, Get(tab, o).us, outcome[1])
    BY DEF UsStep, HimStep
  <1> QED BY <1>1, <1>2, SetTyped

\* What is sent is commands.
LEMMA SentTyped ==
  ASSUME NEW o \in Opt, NEW outcome \in Outcome
  PROVE  Sent(outcome, o) \in Seq(Message)
  <1>1. outcome[2] \in Command \cup {"none"} BY DEF Outcome
  <1>2. outcome[2] # "none" => Msg(outcome[2], o) \in Message BY <1>1 DEF Msg, Message
  <1> QED BY <1>2 DEF Sent

\* Four slots at a time
LEMMA ByFour ==
  ASSUME NEW m \in Nat, m % 4 = 0
  PROVE  (m + 4) % 4 = 0
  OBVIOUS

\* console_setflags and console_unsetflags
LEMMA NegotiateTyped ==
  ASSUME TypeOK, NEW ask, \A u \in QState : ask[u] \in Outcome, NegotiateBoth(ask)
  PROVE  q' \in Seq(Entry) /\ Len(q') % 4 = 0 /\ harmed' \subseteq Opt /\ toPeer' \in Seq(Message)
  <1> DEFINE e == ConsoleOpts[1]  s == ConsoleOpts[2]
  <1>1. e \in Opt /\ s \in Opt BY ConsoleOptsAssumption
  <1>2. q \in Seq(Entry) /\ Len(q) % 4 = 0 /\ harmed \subseteq Opt /\ toPeer \in Seq(Message) BY DEF TypeOK
  <1>3. PICK tab \in UsStep(q, e, ask[Get(q, e).us]) :
          /\ q' \in UsStep(tab, s, ask[Get(tab, s).us])
          /\ harmed' = harmed \cup Harmed(q, tab) \cup Harmed(tab, q')
          /\ toPeer' = toPeer \o Sent(ask[Get(q, e).us], e) \o Sent(ask[Get(tab, s).us], s)
    BY DEF NegotiateBoth
  <1> HIDE DEF e, s
  <1>4. ask[Get(q, e).us] \in Outcome BY <1>1, <1>2, GetTyped
  <1>5. tab \in Seq(Entry) /\ Len(tab) \in {Len(q), Len(q) + 4} BY <1>1, <1>2, <1>3, <1>4, StepTyped
  <1>6. ask[Get(tab, s).us] \in Outcome BY <1>1, <1>5, GetTyped
  <1>7. q' \in Seq(Entry) /\ Len(q') \in {Len(tab), Len(tab) + 4} BY <1>1, <1>3, <1>5, <1>6, StepTyped
  <1>8. Sent(ask[Get(q, e).us], e) \in Seq(Message) /\ Sent(ask[Get(tab, s).us], s) \in Seq(Message)
    BY <1>1, <1>4, <1>6, SentTyped
  <1>9. toPeer' \in Seq(Message) BY <1>2, <1>3, <1>8
  <1>10. Len(q') % 4 = 0
    <2>1. Len(q) \in Nat /\ Len(tab) \in Nat /\ Len(q') \in Nat BY <1>2, <1>5, <1>7
    <2> QED BY <1>2, <1>5, <1>7, <2>1, ByFour
  <1>11. harmed' \subseteq Opt BY <1>2, <1>3 DEF Harmed
  <1> QED BY <1>7, <1>9, <1>10, <1>11

PeerState == {"NO", "YES", "WANTNO", "WANTYES"}

\* The client's answers
LEMMA PeerOutcomesTyped ==
  ASSUME NEW p \in PeerState, NEW refuse \in BOOLEAN
  PROVE  /\ PeerOnWill(refuse)[p] \in PeerState \X (Command \cup {"none"})
         /\ PeerOnWont[p] \in PeerState \X (Command \cup {"none"})
  BY DEF PeerOnWill, PeerOnWont, PeerState, Command

\* A command is taken from the channel and answered.
LEMMA ServerTakesTyped ==
  ASSUME TypeOK, NEW cmd, ServerTakes(cmd),
         NEW outcome \in Outcome,
         ServerWrites(UsStep(q, Head(toServer).opt, outcome)) \/ ServerWrites(HimStep(q, Head(toServer).opt, outcome)),
         toPeer' = toPeer \o Sent(outcome, Head(toServer).opt)
  PROVE  TypeOK'
  <1> DEFINE o == Head(toServer).opt
  <1>1. Head(toServer) \in Message /\ Tail(toServer) \in Seq(Message)
    BY DEF TypeOK, ServerTakes
  <1>2. o \in Opt BY <1>1 DEF Message
  <1>3. q \in Seq(Entry) /\ Len(q) % 4 = 0 /\ harmed \subseteq Opt /\ toPeer \in Seq(Message) BY DEF TypeOK
  <1>3a. /\ q' \in UsStep(q, o, outcome) \cup HimStep(q, o, outcome)
         /\ harmed' = harmed \cup Harmed(q, q')
    BY DEF ServerWrites
  <1> HIDE DEF o
  <1>4. q' \in Seq(Entry) /\ Len(q') \in {Len(q), Len(q) + 4} BY <1>2, <1>3, <1>3a, StepTyped
  <1>4a. Len(q') % 4 = 0
    <2>1. Len(q) \in Nat BY <1>3
    <2> QED BY <1>3, <1>4, <2>1, ByFour
  <1>4b. harmed' \subseteq Opt BY <1>3, <1>3a DEF Harmed
  <1>5. Sent(outcome, o) \in Seq(Message) BY <1>2, SentTyped
  <1>6. toPeer' \in Seq(Message) BY <1>3, <1>5 DEF o
  <1>7. /\ toServer' \in Seq(Message)
        /\ UNCHANGED <<reading, lines, peerHim, peerUs, asks>>
    BY <1>1 DEF ServerTakes, peerVars
  <1> QED BY <1>4, <1>4a, <1>4b, <1>6, <1>7 DEF TypeOK

\* Every step keeps the types.
LEMMA TypePreserved ==
  ASSUME TypeOK, [Next]_vars
  PROVE  TypeOK'
  <1>0. /\ q \in Seq(Entry) /\ Len(q) % 4 = 0 /\ harmed \subseteq Opt /\ toPeer \in Seq(Message) /\ toServer \in Seq(Message)
        /\ peerHim \in [Opt -> PeerState] /\ peerUs \in [Opt -> PeerState]
        /\ reading \in BOOLEAN /\ lines \in 0 .. MaxLines /\ asks \in 0 .. MaxAsks
    BY DEF TypeOK, PeerState
  <1>1. MaxLines \in Nat /\ MaxAsks \in Nat BY BoundsAssumption
  <1>o. \E o \in Opt : TRUE BY ConsoleOptsAssumption
  <1>2. CASE SetFlags
    <2>1. \A u \in QState : AskWill[u] \in Outcome BY <1>o, OutcomesTyped
    <2>2. q' \in Seq(Entry) /\ Len(q') % 4 = 0 /\ harmed' \subseteq Opt /\ toPeer' \in Seq(Message)
      BY <1>2, <2>1, NegotiateTyped DEF SetFlags
    <2> QED BY <1>0, <1>2, <2>2 DEF SetFlags, peerVars, TypeOK, PeerState
  <1>3. CASE UnsetFlags
    <2>1. \A u \in QState : AskWont[u] \in Outcome BY <1>o, OutcomesTyped
    <2>2. q' \in Seq(Entry) /\ Len(q') % 4 = 0 /\ harmed' \subseteq Opt /\ toPeer' \in Seq(Message)
      BY <1>3, <2>1, NegotiateTyped DEF UnsetFlags
    <2>3. /\ reading' = FALSE /\ lines' = lines + 1 /\ lines < MaxLines
          /\ UNCHANGED <<toServer, peerHim, peerUs, asks>>
      BY <1>3 DEF UnsetFlags, peerVars
    <2>4. lines' \in 0 .. MaxLines BY <1>0, <1>1, <2>3
    <2> QED BY <1>0, <2>2, <2>3, <2>4 DEF TypeOK, PeerState
  <1> DEFINE o == Head(toServer).opt
  <1>4. toServer # << >> => Head(toServer) \in Message /\ o \in Opt
    <2>1. toServer # << >> => Head(toServer) \in Message BY <1>0
    <2> QED BY <2>1 DEF Message
  <1>5. ASSUME toServer # << >>
        PROVE  /\ Get(q, o).him \in QState /\ Get(q, o).us \in QState
               /\ OnWill(o)[Get(q, o).him] \in Outcome /\ OnWont[Get(q, o).him] \in Outcome
               /\ OnDo(o)[Get(q, o).us] \in Outcome /\ OnDont[Get(q, o).us] \in Outcome
    BY <1>0, <1>4, <1>5, GetTyped, OutcomesTyped
  <1>6. CASE ServerWill
    BY <1>5, <1>6, ServerTakesTyped DEF ServerWill, ServerTakes
  <1>7. CASE ServerWont
    BY <1>5, <1>7, ServerTakesTyped DEF ServerWont, ServerTakes
  <1>8. CASE ServerDo
    BY <1>5, <1>8, ServerTakesTyped DEF ServerDo, ServerTakes
  <1>9. CASE ServerDont
    BY <1>5, <1>9, ServerTakesTyped DEF ServerDont, ServerTakes
  <1> HIDE DEF o
  <1>10. ASSUME toPeer # << >> PROVE Head(toPeer).opt \in Opt /\ Tail(toPeer) \in Seq(Message)
    <2>1. Head(toPeer) \in Message /\ Tail(toPeer) \in Seq(Message) BY <1>0, <1>10
    <2> QED BY <2>1 DEF Message
  <1>11. ASSUME NEW cmd, PeerTakes(cmd), NEW outcome \in PeerState \X (Command \cup {"none"}),
                PeerAnswers(Head(toPeer).opt, outcome)
         PROVE  TypeOK'
    <2> DEFINE p == Head(toPeer).opt
    <2>1. p \in Opt /\ Tail(toPeer) \in Seq(Message) BY <1>10, <1>11 DEF PeerTakes
    <2>2. outcome \in Outcome /\ outcome[1] \in PeerState BY DEF Outcome, PeerState, QState
    <2> HIDE DEF p
    <2>3. Sent(outcome, p) \in Seq(Message) BY <2>1, <2>2, SentTyped
    <2>4. /\ peerHim' = [peerHim EXCEPT ![p] = outcome[1]] /\ toServer' = toServer \o Sent(outcome, p)
          /\ toPeer' = Tail(toPeer) /\ UNCHANGED <<q, harmed, reading, lines, peerUs, asks>>
      BY <1>11 DEF PeerAnswers, PeerTakes, serverVars, p
    <2>5. toServer' \in Seq(Message) /\ peerHim' \in [Opt -> PeerState]
      BY <1>0, <2>1, <2>2, <2>3, <2>4
    <2> QED BY <1>0, <2>1, <2>4, <2>5 DEF TypeOK, PeerState
  <1>12. CASE PeerWillArrives
    <2>1. PICK refuse \in BOOLEAN : PeerAnswers(Head(toPeer).opt, PeerOnWill(refuse)[peerHim[Head(toPeer).opt]])
      BY <1>12 DEF PeerWillArrives
    <2>2. PeerTakes("WILL") /\ toPeer # << >> BY <1>12 DEF PeerWillArrives, PeerTakes
    <2>3. peerHim[Head(toPeer).opt] \in PeerState BY <1>0, <1>10, <2>2
    <2> QED BY <1>11, <2>1, <2>2, <2>3, PeerOutcomesTyped
  <1>13. CASE PeerWontArrives
    <2>1. PeerAnswers(Head(toPeer).opt, PeerOnWont[peerHim[Head(toPeer).opt]])
      BY <1>13 DEF PeerWontArrives
    <2>2. PeerTakes("WONT") /\ toPeer # << >> BY <1>13 DEF PeerWontArrives, PeerTakes
    <2>3. peerHim[Head(toPeer).opt] \in PeerState BY <1>0, <1>10, <2>2
    <2> QED BY <1>11, <2>1, <2>2, <2>3, PeerOutcomesTyped
  <1>14. CASE PeerDontArrives
    BY <1>0, <1>10, <1>14 DEF PeerDontArrives, PeerTakes, serverVars, TypeOK, PeerState
  <1>15. ASSUME NEW p \in PeerDo, PeerAsksHim(p) PROVE TypeOK'
    <2>1. p \in Opt BY OptAssumption
    <2>2. Msg("DO", p) \in Message /\ Msg("DONT", p) \in Message BY <2>1 DEF Msg, Message, Command
    <2>3. /\ \/ peerHim' = [peerHim EXCEPT ![p] = "WANTYES"] /\ toServer' = Append(toServer, Msg("DO", p))
             \/ peerHim' = [peerHim EXCEPT ![p] = "WANTNO"] /\ toServer' = Append(toServer, Msg("DONT", p))
          /\ asks < MaxAsks /\ asks' = asks + 1
          /\ UNCHANGED <<q, harmed, reading, lines, toPeer, peerUs>>
      BY <1>15 DEF PeerAsksHim, serverVars
    <2>4. "WANTYES" \in PeerState /\ "WANTNO" \in PeerState BY DEF PeerState
    <2>5. peerHim' \in [Opt -> PeerState] BY <1>0, <2>1, <2>3, <2>4
    <2> DEFINE m == Msg("DO", p)  n == Msg("DONT", p)
    <2>6. toServer' \in Seq(Message)
      <3>1. toServer' = Append(toServer, m) \/ toServer' = Append(toServer, n) BY <2>3
      <3>2. m \in Message /\ n \in Message BY <2>2
      <3>3. toServer \in Seq(Message) BY <1>0
      <3> HIDE DEF m, n
      <3> QED BY ONLY <3>1, <3>2, <3>3
    <2>7. asks' \in 0 .. MaxAsks BY <1>0, <1>1, <2>3
    <2> QED BY <1>0, <2>3, <2>5, <2>6, <2>7 DEF TypeOK, PeerState
  <1>16. ASSUME NEW p \in PeerWill, PeerOffers(p) \/ PeerDeclines(p) PROVE TypeOK'
    <2>1. p \in Opt BY OptAssumption
    <2>2. Msg("WILL", p) \in Message /\ Msg("WONT", p) \in Message BY <2>1 DEF Msg, Message, Command
    <2> DEFINE m == Msg("WILL", p)  n == Msg("WONT", p)
    <2>a. peerUs' = peerUs \/ peerUs' = [peerUs EXCEPT ![p] = "WANTYES"]
      BY <1>16 DEF PeerOffers, PeerDeclines
    <2>b. toServer' = Append(toServer, m) \/ toServer' = Append(toServer, n)
      BY <1>16 DEF PeerOffers, PeerDeclines
    <2>c. "WANTYES" \in PeerState BY DEF PeerState
    <2>d. m \in Message /\ n \in Message BY <2>2
    <2> HIDE DEF m, n
    <2>e. toServer \in Seq(Message) BY <1>0
    <2>f. toServer' \in Seq(Message) BY ONLY <2>b, <2>d, <2>e
    <2>g. peerUs' \in [Opt -> PeerState] BY <1>0, <2>1, <2>a, <2>c
    <2>3. peerUs' \in [Opt -> PeerState] /\ toServer' \in Seq(Message) BY <2>f, <2>g
    <2>4. UNCHANGED <<q, harmed, reading, lines, toPeer, peerHim>> /\ asks' \in 0 .. MaxAsks
      BY <1>0, <1>1, <1>16 DEF PeerOffers, PeerDeclines, serverVars
    <2> QED BY <1>0, <2>3, <2>4 DEF TypeOK, PeerState
  <1>17. CASE UNCHANGED vars
    BY <1>17 DEF vars, TypeOK
  <1> QED BY <1>2, <1>3, <1>6, <1>7, <1>8, <1>9, <1>12, <1>13, <1>14, <1>15, <1>16, <1>17 DEF Next

\* For every set of options, number of requests and contents of uninitialised
\* memory the table grows by whole groups of four slots, the entries of which
\* lie in their ranges, and only commands are under way.
THEOREM TelnetTypeCorrect == Spec => []TypeOK
  <1>1. Init => TypeOK
    <2>1. << >> \in Seq(Entry) /\ Len(<< >>) % 4 = 0 /\ << >> \in Seq(Message) OBVIOUS
    <2>2. [o \in Opt |-> "NO"] \in [Opt -> {"NO", "YES", "WANTNO", "WANTYES"}] OBVIOUS
    <2>3. 0 \in 0 .. MaxLines /\ 0 \in 0 .. MaxAsks BY BoundsAssumption
    <2> QED BY <2>1, <2>2, <2>3 DEF Init, TypeOK
  <1>2. TypeOK /\ [Next]_vars => TypeOK' BY TypePreserved
  <1> QED BY <1>1, <1>2, PTL DEF Spec
-----------------------------------------------------------------------------
(***************************************************************************)
(* Agreement.  What matters of an option is the state of the two ends and  *)
(* the commands about it that are under way: in either direction at most   *)
(* one that turns it on (WILL, DO) and one that turns it off (WONT, DONT). *)
(***************************************************************************)
Console == {ConsoleOpts[1], ConsoleOpts[2]}

\* The server wants nothing of the client (my_telopts has no TELNET_DO).
WantsNothing == HimDo = {}

\* What a channel holds of two messages x ("on") and y ("off")
Word == {"none", "on", "off", "on_off", "off_on"}

Holds(s, m) == \E i \in DOMAIN s : s[i] = m
Once(s, m) == \A i, j \in DOMAIN s : s[i] = m /\ s[j] = m => i = j
Precedes(s, m, n) == \A i, j \in DOMAIN s : s[i] = m /\ s[j] = n => i < j

Reads(s, x, y, w) ==
    /\ Holds(s, x) <=> w \in {"on", "on_off", "off_on"}
    /\ Holds(s, y) <=> w \in {"off", "on_off", "off_on"}
    /\ Once(s, x) /\ Once(s, y)
    /\ w = "on_off" => Precedes(s, x, y)
    /\ w = "off_on" => Precedes(s, y, x)

\* A message is appended, or the first one taken
After(w, c) ==
    IF c = "none" THEN w
    ELSE IF w = "none" THEN c
    ELSE IF w = "on" /\ c = "off" THEN "on_off"
    ELSE IF w = "off" /\ c = "on" THEN "off_on"
    ELSE "full"

Rest == [none |-> "none", on |-> "none", off |-> "none", on_off |-> "off", off_on |-> "on"]

ToPeer(cmd) == IF cmd = "WILL" THEN "on" ELSE IF cmd = "WONT" THEN "off" ELSE "none"
ToServer(cmd) == IF cmd = "DO" THEN "on" ELSE IF cmd = "DONT" THEN "off" ELSE "none"

\* All that can be the case of an option: the server's state, the client's,
\* what is on its way to the client and what to the server.
Exchange ==
    {<<"NO", "NO", "none", "none">>, <<"NO", "WANTNO", "off", "none">>,
     <<"NO", "WANTYES", "none", "on">>, <<"NO", "WANTYES", "off", "none">>,
     <<"YES", "YES", "none", "none">>, <<"YES", "WANTNO", "none", "off">>,
     <<"YES", "WANTYES", "on", "none">>}
    \cup {"WANTNO", "WANTNO_OP"} \X {"NO"} \X {"none"} \X {"off"}
    \cup {"WANTNO", "WANTNO_OP"} \X {"YES"} \X {"off"} \X {"none"}
    \cup {"WANTNO", "WANTNO_OP"} \X {"WANTNO"} \X {"off"} \X {"off"}
    \cup {"WANTNO", "WANTNO_OP"} \X {"WANTYES"} \X {"none"} \X {"off_on"}
    \cup {"WANTNO", "WANTNO_OP"} \X {"WANTYES"} \X {"on_off"} \X {"none"}
    \cup {"WANTYES", "WANTYES_OP"} \X {"NO"} \X {"none"} \X {"off"}
    \cup {"WANTYES", "WANTYES_OP"} \X {"NO"} \X {"on"} \X {"none"}
    \cup {"WANTYES", "WANTYES_OP"} \X {"YES"} \X {"none"} \X {"on"}
    \cup {"WANTYES", "WANTYES_OP"} \X {"WANTNO"} \X {"none"} \X {"on_off"}
    \cup {"WANTYES", "WANTYES_OP"} \X {"WANTNO"} \X {"off_on"} \X {"none"}
    \cup {"WANTYES", "WANTYES_OP"} \X {"WANTYES"} \X {"none"} \X {"off_on"}
    \cup {"WANTYES", "WANTYES_OP"} \X {"WANTYES"} \X {"off_on"} \X {"none"}
    \cup {"WANTYES", "WANTYES_OP"} \X {"WANTYES"} \X {"on"} \X {"on"}

\* The states and words of the table
LEMMA ExchangeTyped ==
  ASSUME NEW u, NEW p, NEW a, NEW b, <<u, p, a, b>> \in Exchange
  PROVE  u \in QState /\ p \in PeerState /\ a \in Word /\ b \in Word
  BY DEF Exchange, QState, PeerState, Word

\* The server handles DO,
LEMMA DoExchange ==
  ASSUME NEW o \in Opt, NEW u, NEW p, NEW a, NEW b, <<u, p, a, b>> \in Exchange,
         b \in {"on", "on_off"}
  PROVE  <<OnDo(o)[u][1], p, After(a, ToPeer(OnDo(o)[u][2])), Rest[b]>> \in Exchange
  BY SMTT(30) DEF Exchange, OnDo, After, ToPeer, Rest

\* DONT,
LEMMA DontExchange ==
  ASSUME NEW u, NEW p, NEW a, NEW b, <<u, p, a, b>> \in Exchange,
         b \in {"off", "off_on"}
  PROVE  <<OnDont[u][1], p, After(a, ToPeer(OnDont[u][2])), Rest[b]>> \in Exchange
  BY SMTT(30) DEF Exchange, OnDont, After, ToPeer, Rest

\* is asked to say WILL
LEMMA AskWillExchange ==
  ASSUME NEW u, NEW p, NEW a, NEW b, <<u, p, a, b>> \in Exchange
  PROVE  <<AskWill[u][1], p, After(a, ToPeer(AskWill[u][2])), b>> \in Exchange
  BY SMTT(30) DEF Exchange, AskWill, After, ToPeer

\* or WONT.
LEMMA AskWontExchange ==
  ASSUME NEW u, NEW p, NEW a, NEW b, <<u, p, a, b>> \in Exchange
  PROVE  <<AskWont[u][1], p, After(a, ToPeer(AskWont[u][2])), b>> \in Exchange
  BY SMTT(30) DEF Exchange, AskWont, After, ToPeer

\* The client handles WILL,
LEMMA PeerWillExchange ==
  ASSUME NEW u, NEW p, NEW a, NEW b, <<u, p, a, b>> \in Exchange,
         a \in {"on", "on_off"}, NEW refuse \in BOOLEAN
  PROVE  <<u, PeerOnWill(refuse)[p][1], Rest[a], After(b, ToServer(PeerOnWill(refuse)[p][2]))>> \in Exchange
  BY SMTT(30) DEF Exchange, PeerOnWill, After, ToServer, Rest

\* WONT,
LEMMA PeerWontExchange ==
  ASSUME NEW u, NEW p, NEW a, NEW b, <<u, p, a, b>> \in Exchange,
         a \in {"off", "off_on"}
  PROVE  <<u, PeerOnWont[p][1], Rest[a], After(b, ToServer(PeerOnWont[p][2]))>> \in Exchange
  BY SMTT(30) DEF Exchange, PeerOnWont, After, ToServer, Rest

\* or asks on its own.
LEMMA PeerAskExchange ==
  ASSUME NEW u, NEW p, NEW a, NEW b, <<u, p, a, b>> \in Exchange
  PROVE  /\ p = "NO" => <<u, "WANTYES", a, After(b, "on")>> \in Exchange
         /\ p = "YES" => <<u, "WANTNO", a, After(b, "off")>> \in Exchange
  BY SMTT(30) DEF Exchange, After

-----------------------------------------------------------------------------
(***************************************************************************)
(* Channels.                                                               *)
(***************************************************************************)
\* A message about something else changes nothing to read;
LEMMA AppendOther ==
  ASSUME NEW S, NEW s \in Seq(S), NEW m \in S, NEW x, NEW y, m # x, m # y, NEW w \in Word, Reads(s, x, y, w)
  PROVE  Reads(Append(s, m), x, y, w)
  <1> DEFINE t == Append(s, m)  n == Len(s)
  <1>1. /\ n \in Nat /\ DOMAIN s = 1 .. n /\ DOMAIN t = 1 .. n + 1
        /\ \A i \in 1 .. n : t[i] = s[i]
        /\ t[n + 1] = m
    OBVIOUS
  <1> HIDE DEF t, n
  <1>2. \A i \in DOMAIN t : t[i] \in {x, y} => i \in DOMAIN s /\ s[i] = t[i] BY <1>1
  <1>3. \A i \in DOMAIN s : i \in DOMAIN t /\ t[i] = s[i] BY <1>1
  <1> QED BY <1>2, <1>3 DEF Reads, Holds, Once, Precedes, t

\* one that turns the option on or off is read after what was there.
LEMMA AppendOn ==
  ASSUME NEW S, NEW s \in Seq(S), NEW x \in S, NEW y, x # y, NEW w \in {"none", "off"}, Reads(s, x, y, w)
  PROVE  Reads(Append(s, x), x, y, After(w, "on"))
  <1> DEFINE t == Append(s, x)  n == Len(s)
  <1>1. /\ n \in Nat /\ DOMAIN s = 1 .. n /\ DOMAIN t = 1 .. n + 1
        /\ \A i \in 1 .. n : t[i] = s[i]
        /\ t[n + 1] = x
    OBVIOUS
  <1> HIDE DEF t, n
  <1>2. \A i \in DOMAIN s : s[i] # x BY DEF Reads, Holds
  <1>3. \A i \in DOMAIN t : t[i] = x <=> i = n + 1 BY <1>1, <1>2
  <1>4. \A i \in DOMAIN t : t[i] = y <=> i \in DOMAIN s /\ s[i] = y BY <1>1
  <1>5. n + 1 \in DOMAIN t /\ DOMAIN s \subseteq DOMAIN t BY <1>1
  <1>6. Holds(t, x) /\ Once(t, x) BY <1>3, <1>5 DEF Holds, Once
  <1>7. Once(t, y) /\ (Holds(t, y) <=> w = "off")
    BY <1>4, <1>5 DEF Reads, Holds, Once
  <1>8. Precedes(t, y, x) BY <1>1, <1>3, <1>4 DEF Precedes
  <1> QED BY <1>6, <1>7, <1>8 DEF Reads, After, t

\* (The same for the second of the two messages.)
LEMMA AppendOff ==
  ASSUME NEW S, NEW s \in Seq(S), NEW x, NEW y \in S, x # y, NEW w \in {"none", "on"}, Reads(s, x, y, w)
  PROVE  Reads(Append(s, y), x, y, After(w, "off"))
  <1> DEFINE t == Append(s, y)  n == Len(s)
  <1>1. /\ n \in Nat /\ DOMAIN s = 1 .. n /\ DOMAIN t = 1 .. n + 1
        /\ \A i \in 1 .. n : t[i] = s[i]
        /\ t[n + 1] = y
    OBVIOUS
  <1> HIDE DEF t, n
  <1>2. \A i \in DOMAIN s : s[i] # y BY DEF Reads, Holds
  <1>3. \A i \in DOMAIN t : t[i] = y <=> i = n + 1 BY <1>1, <1>2
  <1>4. \A i \in DOMAIN t : t[i] = x <=> i \in DOMAIN s /\ s[i] = x BY <1>1
  <1>5. n + 1 \in DOMAIN t /\ DOMAIN s \subseteq DOMAIN t BY <1>1
  <1>6. Holds(t, y) /\ Once(t, y) BY <1>3, <1>5 DEF Holds, Once
  <1>7. Once(t, x) /\ (Holds(t, x) <=> w = "on")
    BY <1>4, <1>5 DEF Reads, Holds, Once
  <1>8. Precedes(t, x, y) BY <1>1, <1>3, <1>4 DEF Precedes
  <1> QED BY <1>6, <1>7, <1>8 DEF Reads, After, t

\* The first message is taken.
LEMMA TailOther ==
  ASSUME NEW S, NEW s \in Seq(S), s # << >>, NEW x, NEW y, Head(s) # x, Head(s) # y,
         NEW w \in Word, Reads(s, x, y, w)
  PROVE  Reads(Tail(s), x, y, w)
  <1> DEFINE t == Tail(s)  n == Len(s)
  <1>1. /\ n \in Nat \ {0} /\ DOMAIN s = 1 .. n /\ DOMAIN t = 1 .. n - 1
        /\ \A i \in 1 .. n - 1 : t[i] = s[i + 1]
        /\ s[1] = Head(s)
    OBVIOUS
  <1> HIDE DEF t, n
  <1>2. \A i \in DOMAIN t : i + 1 \in DOMAIN s /\ s[i + 1] = t[i] BY <1>1
  <1>3. \A i \in DOMAIN s : s[i] \in {x, y} => i - 1 \in DOMAIN t /\ t[i - 1] = s[i]
    <2> TAKE i \in DOMAIN s
    <2> HAVE s[i] \in {x, y}
    <2>1. i \in 1 .. n /\ i # 1 BY <1>1
    <2>2. i - 1 \in 1 .. n - 1 /\ (i - 1) + 1 = i BY <1>1, <2>1
    <2> QED BY <1>1, <2>2
  <1>4. \A m \in {x, y} : Holds(t, m) <=> Holds(s, m)
    BY <1>2, <1>3 DEF Holds
  <1>5. DOMAIN t \subseteq Int BY <1>1
  <1>6. \A m \in {x, y} : Once(s, m) => Once(t, m)
    BY <1>2, <1>5 DEF Once
  <1>7. \A l, m \in {x, y} : Precedes(s, l, m) => Precedes(t, l, m)
    BY <1>2, <1>5 DEF Precedes
  <1> QED BY <1>4, <1>6, <1>7 DEF Reads, t

\* Of the two messages it was the one that came first.
LEMMA TailOn ==
  ASSUME NEW S, NEW s \in Seq(S), s # << >>, NEW x, NEW y, Head(s) = x, x # y,
         NEW w \in Word, Reads(s, x, y, w)
  PROVE  w \in {"on", "on_off"} /\ Reads(Tail(s), x, y, Rest[w])
  <1> DEFINE t == Tail(s)  n == Len(s)
  <1>1. /\ n \in Nat \ {0} /\ DOMAIN s = 1 .. n /\ DOMAIN t = 1 .. n - 1
        /\ \A i \in 1 .. n - 1 : t[i] = s[i + 1]
        /\ s[1] = x
    OBVIOUS
  <1> HIDE DEF t, n
  <1>0. 1 \in DOMAIN s BY <1>1
  <1>2. w \in {"on", "on_off"}
    <2>1. w \in {"on", "on_off", "off_on"} BY <1>0, <1>1 DEF Reads, Holds
    <2>2. ASSUME w = "off_on" PROVE FALSE
      <3>1. Precedes(s, y, x) /\ Holds(s, y) BY <2>2 DEF Reads
      <3>2. PICK i \in DOMAIN s : s[i] = y BY <3>1 DEF Holds
      <3>3. i < 1 BY <1>0, <1>1, <3>1, <3>2 DEF Precedes
      <3> QED BY <1>1, <3>2, <3>3
    <2> QED BY <2>1, <2>2
  <1>3. \A i \in DOMAIN t : i \in Int /\ i + 1 \in DOMAIN s /\ i + 1 # 1 /\ s[i + 1] = t[i] BY <1>1
  <1>4. ~Holds(t, x) BY <1>0, <1>1, <1>3 DEF Reads, Once, Holds
  <1>5. Once(t, x) BY <1>4 DEF Once, Holds
  <1>6. Once(t, y) BY <1>3 DEF Reads, Once
  <1>7. Holds(t, y) <=> Holds(s, y)
    <2>1. ASSUME Holds(s, y) PROVE Holds(t, y)
      <3>1. PICK i \in DOMAIN s : s[i] = y BY <2>1 DEF Holds
      <3>2. i \in 1 .. n /\ i # 1 BY <1>1, <3>1
      <3>3. i - 1 \in 1 .. n - 1 /\ (i - 1) + 1 = i BY <1>1, <3>2
      <3> QED BY <1>1, <3>1, <3>3 DEF Holds
    <2> QED BY <1>3, <2>1 DEF Holds
  <1>8. Holds(s, y) <=> w = "on_off" BY <1>2 DEF Reads
  <1>9. Rest[w] = IF w = "on_off" THEN "off" ELSE "none" BY <1>2 DEF Rest
  <1> QED BY <1>2, <1>4, <1>5, <1>6, <1>7, <1>8, <1>9 DEF Reads, t

\* (The same for the second of the two messages.)
LEMMA TailOff ==
  ASSUME NEW S, NEW s \in Seq(S), s # << >>, NEW x, NEW y, Head(s) = y, x # y,
         NEW w \in Word, Reads(s, x, y, w)
  PROVE  w \in {"off", "off_on"} /\ Reads(Tail(s), x, y, Rest[w])
  <1> DEFINE t == Tail(s)  n == Len(s)
  <1>1. /\ n \in Nat \ {0} /\ DOMAIN s = 1 .. n /\ DOMAIN t = 1 .. n - 1
        /\ \A i \in 1 .. n - 1 : t[i] = s[i + 1]
        /\ s[1] = y
    OBVIOUS
  <1> HIDE DEF t, n
  <1>0. 1 \in DOMAIN s BY <1>1
  <1>2. w \in {"off", "off_on"}
    <2>1. w \in {"off", "on_off", "off_on"} BY <1>0, <1>1 DEF Reads, Holds
    <2>2. ASSUME w = "on_off" PROVE FALSE
      <3>1. Precedes(s, x, y) /\ Holds(s, x) BY <2>2 DEF Reads
      <3>2. PICK i \in DOMAIN s : s[i] = x BY <3>1 DEF Holds
      <3>3. i < 1 BY <1>0, <1>1, <3>1, <3>2 DEF Precedes
      <3> QED BY <1>1, <3>2, <3>3
    <2> QED BY <2>1, <2>2
  <1>3. \A i \in DOMAIN t : i \in Int /\ i + 1 \in DOMAIN s /\ i + 1 # 1 /\ s[i + 1] = t[i] BY <1>1
  <1>4. ~Holds(t, y) BY <1>0, <1>1, <1>3 DEF Reads, Once, Holds
  <1>5. Once(t, y) BY <1>4 DEF Once, Holds
  <1>6. Once(t, x) BY <1>3 DEF Reads, Once
  <1>7. Holds(t, x) <=> Holds(s, x)
    <2>1. ASSUME Holds(s, x) PROVE Holds(t, x)
      <3>1. PICK i \in DOMAIN s : s[i] = x BY <2>1 DEF Holds
      <3>2. i \in 1 .. n /\ i # 1 BY <1>1, <3>1
      <3>3. i - 1 \in 1 .. n - 1 /\ (i - 1) + 1 = i BY <1>1, <3>2
      <3> QED BY <1>1, <3>1, <3>3 DEF Holds
    <2> QED BY <1>3, <2>1 DEF Holds
  <1>8. Holds(s, x) <=> w = "off_on" BY <1>2 DEF Reads
  <1>9. Rest[w] = IF w = "off_on" THEN "on" ELSE "none" BY <1>2 DEF Rest
  <1> QED BY <1>2, <1>4, <1>5, <1>6, <1>7, <1>8, <1>9 DEF Reads, t
-----------------------------------------------------------------------------
(***************************************************************************)
(* The invariant.                                                          *)
(***************************************************************************)
\* An option of the console about which the client has no wishes of its own
Plain == Console \ (PeerDo \cup PeerRefuses)

\* Then the server's last request is all there is to settle.
Quiet ==
    {<<"NO", "NO", "none", "none">>, <<"YES", "YES", "none", "none">>}
    \cup {"WANTNO", "WANTNO_OP"} \X {"NO"} \X {"none"} \X {"off"}
    \cup {"WANTNO", "WANTNO_OP"} \X {"YES"} \X {"off"} \X {"none"}
    \cup {"WANTYES", "WANTYES_OP"} \X {"NO"} \X {"on"} \X {"none"}
    \cup {"WANTYES", "WANTYES_OP"} \X {"YES"} \X {"none"} \X {"on"}

Allowed(o) == IF o \in Plain THEN Quiet ELSE Exchange

\* The states in which the server performs the option or wants to
On == {"YES", "WANTYES", "WANTNO_OP"}

OptInv(tab, tp, ts, ph, o) ==
    \E a, b \in Word :
        /\ Reads(tp, Msg("WILL", o), Msg("WONT", o), a)
        /\ Reads(ts, Msg("DO", o), Msg("DONT", o), b)
        /\ <<Get(tab, o).us, ph[o], a, b>> \in Allowed(o)

OptionsInv(tab, l, tp, ts, ph) == \A o \in Opt \ l : OptInv(tab, tp, ts, ph, o)

\* Slot 0 is ECHO's from the first prompt on, so ECHO is never harmed (l is the
\* set of harmed options); of an unharmed option the client performs nothing.
TableInv(tab, l) ==
    /\ tab \in Seq(Entry) /\ ConsoleOpts[1] \notin l
    /\ tab # << >> => Len(tab) >= 4 /\ tab[1].opt = ConsoleOpts[1]
    /\ \A o \in Opt \ l : Get(tab, o).him = "NO"

\* An offer of the client is under way, or its refusal.
OfferInv ==
    \A o \in Opt \ harmed :
        /\ peerUs[o] \in {"NO", "WANTYES"}
        /\ peerUs[o] = "WANTYES" =>
              Holds(toServer, Msg("WILL", o)) \/ Holds(toPeer, Msg("DONT", o))

\* The server's states follow the console's last request.
WishInv == \A o \in Plain \ harmed : Get(q, o).us \in On <=> reading

IInv ==
    /\ TypeOK /\ TableInv(q, harmed) /\ (reading => q # << >>)
    /\ OptionsInv(q, harmed, toPeer, toServer, peerHim)
    /\ OfferInv /\ WishInv

-----------------------------------------------------------------------------
(***************************************************************************)
(* The exchange about an option with a client that has no wishes.          *)
(***************************************************************************)
\* There is less to say then, and every step stays within it.
LEMMA QuietSteps ==
  ASSUME NEW u, NEW p, NEW a, NEW b, <<u, p, a, b>> \in Quiet
  PROVE  /\ <<u, p, a, b>> \in Exchange
         /\ <<AskWill[u][1], p, After(a, ToPeer(AskWill[u][2])), b>> \in Quiet
         /\ <<AskWont[u][1], p, After(a, ToPeer(AskWont[u][2])), b>> \in Quiet
         /\ b \in {"off", "off_on"} =>
              <<OnDont[u][1], p, After(a, ToPeer(OnDont[u][2])), Rest[b]>> \in Quiet
         /\ a \in {"on", "on_off"} =>
              <<u, PeerOnWill(FALSE)[p][1], Rest[a], After(b, ToServer(PeerOnWill(FALSE)[p][2]))>> \in Quiet
         /\ a \in {"off", "off_on"} =>
              <<u, PeerOnWont[p][1], Rest[a], After(b, ToServer(PeerOnWont[p][2]))>> \in Quiet
  <1>1. <<u, p, a, b>> \in Exchange BY DEF Quiet, Exchange
  <1>2. /\ <<AskWill[u][1], p, After(a, ToPeer(AskWill[u][2])), b>> \in Quiet
        /\ <<AskWont[u][1], p, After(a, ToPeer(AskWont[u][2])), b>> \in Quiet
    BY DEF Quiet, AskWill, AskWont, After, ToPeer
  <1>3. b \in {"off", "off_on"} =>
          <<OnDont[u][1], p, After(a, ToPeer(OnDont[u][2])), Rest[b]>> \in Quiet
    BY DEF Quiet, OnDont, After, ToPeer, Rest
  <1>4. a \in {"on", "on_off"} =>
          <<u, PeerOnWill(FALSE)[p][1], Rest[a], After(b, ToServer(PeerOnWill(FALSE)[p][2]))>> \in Quiet
    BY DEF Quiet, PeerOnWill, After, ToServer, Rest
  <1>5. a \in {"off", "off_on"} =>
          <<u, PeerOnWont[p][1], Rest[a], After(b, ToServer(PeerOnWont[p][2]))>> \in Quiet
    BY DEF Quiet, PeerOnWont, After, ToServer, Rest
  <1> QED BY <1>1, <1>2, <1>3, <1>4, <1>5

\* The server's answer to DO too.
LEMMA QuietDo ==
  ASSUME NEW o \in Opt, NEW u, NEW p, NEW a, NEW b, <<u, p, a, b>> \in Quiet, b \in {"on", "on_off"}
  PROVE  <<OnDo(o)[u][1], p, After(a, ToPeer(OnDo(o)[u][2])), Rest[b]>> \in Quiet
  BY DEF Quiet, OnDo, After, ToPeer, Rest

\* Whatever is allowed is one of the 33 cases of Exchange.
LEMMA AllowedTyped ==
  ASSUME NEW o, NEW t \in Allowed(o)
  PROVE  t \in Exchange
  BY DEF Allowed, Quiet, Exchange

\* What the server does about an option stays within what is allowed,
LEMMA AllowedServer ==
  ASSUME NEW o \in Opt, NEW u, NEW p, NEW a, NEW b, <<u, p, a, b>> \in Allowed(o)
  PROVE  /\ <<AskWill[u][1], p, After(a, ToPeer(AskWill[u][2])), b>> \in Allowed(o)
         /\ <<AskWont[u][1], p, After(a, ToPeer(AskWont[u][2])), b>> \in Allowed(o)
         /\ b \in {"on", "on_off"} =>
              <<OnDo(o)[u][1], p, After(a, ToPeer(OnDo(o)[u][2])), Rest[b]>> \in Allowed(o)
         /\ b \in {"off", "off_on"} =>
              <<OnDont[u][1], p, After(a, ToPeer(OnDont[u][2])), Rest[b]>> \in Allowed(o)
  <1>1. CASE o \in Plain BY <1>1, QuietSteps, QuietDo DEF Allowed
  <1>2. CASE o \notin Plain
    BY <1>2, AskWillExchange, AskWontExchange, DoExchange, DontExchange DEF Allowed
  <1> QED BY <1>1, <1>2

\* and so does the client.
LEMMA AllowedClient ==
  ASSUME NEW o \in Opt, NEW u, NEW p, NEW a, NEW b, <<u, p, a, b>> \in Allowed(o)
  PROVE  /\ a \in {"on", "on_off"} => \A refuse \in BOOLEAN : (refuse => o \in PeerRefuses) =>
              <<u, PeerOnWill(refuse)[p][1], Rest[a], After(b, ToServer(PeerOnWill(refuse)[p][2]))>> \in Allowed(o)
         /\ a \in {"off", "off_on"} =>
              <<u, PeerOnWont[p][1], Rest[a], After(b, ToServer(PeerOnWont[p][2]))>> \in Allowed(o)
         /\ o \in PeerDo /\ p = "NO" => <<u, "WANTYES", a, After(b, "on")>> \in Allowed(o)
         /\ o \in PeerDo /\ p = "YES" => <<u, "WANTNO", a, After(b, "off")>> \in Allowed(o)
  <1>1. CASE o \in Plain
    <2>1. o \notin PeerDo /\ o \notin PeerRefuses BY <1>1 DEF Plain
    <2> QED BY <1>1, <2>1, QuietSteps DEF Allowed
  <1>2. CASE o \notin Plain
    BY <1>2, PeerWillExchange, PeerWontExchange, PeerAskExchange DEF Allowed
  <1> QED BY <1>1, <1>2

-----------------------------------------------------------------------------
(***************************************************************************)
(* The table.                                                              *)
(***************************************************************************)
\* Growing the table leaves the entry of an option that it does not harm where
\* it was.
LEMMA GrownKeeps ==
  ASSUME NEW tab \in Seq(Entry), NEW e \in Entry, NEW new, IsGrown(tab, e, new),
         ~Tracked(tab, e.opt), NEW p \in Opt, p \notin Harmed(tab, new)
  PROVE  Get(new, p) = IF p = e.opt THEN e ELSE Get(tab, p)
  <1> DEFINE n == Len(tab)  h == Len(tab) \div 2
  <1>1. /\ new \in Seq(Entry) /\ Len(new) = n + 4
        /\ \A k \in 1 .. h : new[k] = tab[k]
        /\ new[n + 1] = e
        /\ \A k \in n + 2 .. n + 4 : new[k] = Zero
    BY DEF IsGrown
  <1>2. n \in Nat /\ h \in Nat /\ h <= n /\ DOMAIN tab = 1 .. n OBVIOUS
  <1>3. DOMAIN new = 1 .. n + 4 BY <1>1
  <1>4. \/ \E k \in 1 .. h : tab[k].opt = p
        \/ \A k \in h + 1 .. n : tab[k].opt # p /\ new[k].opt # p
    <2>1. Len(new) > Len(tab) BY <1>1, <1>2
    <2> QED BY <2>1 DEF Harmed
  <1>5. p # Zero.opt BY OptAssumption DEF Zero
  <1> HIDE DEF n, h
  <1>6. CASE \E k \in 1 .. h : tab[k].opt = p
    <2>1. PICK i \in 1 .. h : tab[i].opt = p BY <1>6
    <2>2. i \in DOMAIN tab BY <1>2, <2>1
    <2>3. Tracked(tab, p) BY <2>1, <2>2 DEF Tracked
    <2> DEFINE k == Slot(tab, p)
    <2>4. k \in DOMAIN tab /\ tab[k].opt = p /\ \A j \in 1 .. k - 1 : tab[j].opt # p BY <2>3, SlotIs
    <2> HIDE DEF k
    <2>5. k \in Nat /\ k >= 1 /\ k <= i /\ i \in Nat
      <3>1. k \in Nat /\ k >= 1 /\ i \in Nat /\ i >= 1 BY <1>2, <2>1, <2>4
      <3>2. ~(i < k) BY <2>1, <2>4, <3>1
      <3> QED BY <3>1, <3>2
    <2>6. k \in 1 .. h BY <1>2, <2>5
    <2>7. k \in DOMAIN new /\ new[k] = tab[k] BY <1>1, <1>2, <1>3, <2>6
    <2>8. \A j \in 1 .. k - 1 : new[j].opt # p
      <3> TAKE j \in 1 .. k - 1
      <3>1. j \in 1 .. h BY <1>2, <2>5, <2>6
      <3> QED BY <1>1, <2>4, <3>1
    <2>8a. First(new, p, k) BY <2>4, <2>7, <2>8 DEF First
    <2>9. Get(new, p) = tab[k] BY <1>1, <2>7, <2>8a, SlotUnique
    <2>10. Get(tab, p) = tab[k] BY <2>3 DEF Get, k
    <2>11. p # e.opt BY <2>3
    <2> QED BY <2>9, <2>10, <2>11
  <1>7. CASE ~\E k \in 1 .. h : tab[k].opt = p
    <2>1. \A k \in 1 .. n : tab[k].opt # p /\ new[k].opt # p
      <3> TAKE k \in 1 .. n
      <3>1. CASE k \in 1 .. h BY <1>1, <1>7, <3>1
      <3>2. CASE k \notin 1 .. h
        <4>1. k \in h + 1 .. n BY <1>2, <3>2
        <4> QED BY <1>4, <1>7, <4>1
      <3> QED BY <3>1, <3>2
    <2>2. ~Tracked(tab, p) BY <1>2, <2>1 DEF Tracked
    <2>3. CASE p = e.opt
      <3>1. n + 1 \in DOMAIN new /\ (n + 1) - 1 = n BY <1>2, <1>3
      <3>2. new[n + 1].opt = p BY <1>1, <2>3
      <3>3. \A j \in 1 .. (n + 1) - 1 : new[j].opt # p BY <2>1, <3>1
      <3>4. First(new, p, n + 1) BY <3>1, <3>2, <3>3 DEF First
      <3> QED BY <1>1, <2>3, <3>4, SlotUnique
    <2>4. CASE p # e.opt
      <3>1. \A k \in DOMAIN new : new[k].opt # p
        <4> TAKE k \in DOMAIN new
        <4>1. k \in 1 .. n \/ k = n + 1 \/ k \in n + 2 .. n + 4 BY <1>2, <1>3
        <4> QED BY <1>1, <1>5, <2>1, <2>4, <4>1
      <3>2. ~Tracked(new, p) BY <3>1 DEF Tracked
      <3> QED BY <2>2, <2>4, <3>2 DEF Get
    <2> QED BY <2>3, <2>4
  <1> QED BY <1>6, <1>7

\* Overwriting an entry changes that option only.
LEMMA WriteKeeps ==
  ASSUME NEW tab \in Seq(Entry), NEW e \in Entry, Tracked(tab, e.opt), NEW p \in Opt
  PROVE  Get([tab EXCEPT ![Slot(tab, e.opt)] = e], p) = IF p = e.opt THEN e ELSE Get(tab, p)
  <1> DEFINE k == Slot(tab, e.opt)  new == [tab EXCEPT ![k] = e]
  <1>1. k \in DOMAIN tab /\ tab[k].opt = e.opt /\ \A j \in 1 .. k - 1 : tab[j].opt # e.opt BY SlotIs
  <1>2. new = [tab EXCEPT ![k] = e] OBVIOUS
  <1> SUFFICES Get(new, p) = IF p = e.opt THEN e ELSE Get(tab, p) OBVIOUS
  <1> HIDE DEF k, new
  <1>3. /\ new \in Seq(Entry) /\ DOMAIN new = DOMAIN tab /\ DOMAIN tab = 1 .. Len(tab)
        /\ new[k] = e /\ \A j \in DOMAIN tab \ {k} : new[j] = tab[j]
    BY <1>1, <1>2
  <1>4. \A j \in DOMAIN tab : new[j].opt = tab[j].opt BY <1>1, <1>3
  <1>5. CASE p = e.opt
    <2>1. \A j \in 1 .. k - 1 : new[j].opt # p
      <3> TAKE j \in 1 .. k - 1
      <3>1. j \in DOMAIN tab BY <1>1, <1>3
      <3> QED BY <1>1, <1>4, <1>5, <3>1
    <2>2. First(new, p, k) BY <1>1, <1>3, <1>4, <1>5, <2>1 DEF First
    <2> QED BY <1>3, <1>5, <2>2, SlotUnique
  <1>6. CASE p # e.opt /\ Tracked(tab, p)
    <2> DEFINE i == Slot(tab, p)
    <2>1. i \in DOMAIN tab /\ tab[i].opt = p /\ \A j \in 1 .. i - 1 : tab[j].opt # p BY <1>6, SlotIs
    <2>2. Get(tab, p) = tab[i] BY <1>6 DEF Get
    <2> HIDE DEF i
    <2>3. i # k BY <1>1, <1>6, <2>1
    <2>4. new[i] = tab[i] BY <1>3, <2>1, <2>3
    <2>5. \A j \in 1 .. i - 1 : new[j].opt # p
      <3> TAKE j \in 1 .. i - 1
      <3>1. j \in DOMAIN tab BY <1>3, <2>1
      <3> QED BY <1>4, <2>1, <3>1
    <2>5a. First(new, p, i) BY <1>3, <2>1, <2>4, <2>5 DEF First
    <2>6. Get(new, p) = new[i] BY <1>3, <2>5a, SlotUnique
    <2> QED BY <1>6, <2>2, <2>4, <2>6
  <1>7. CASE p # e.opt /\ ~Tracked(tab, p)
    <2>1. ~Tracked(new, p) BY <1>3, <1>4, <1>7 DEF Tracked
    <2> QED BY <1>7, <2>1 DEF Get
  <1> QED BY <1>5, <1>6, <1>7

\* So writing an option's state changes that option only, among those that are
\* not harmed, and slot 0 keeps its option.
LEMMA SetFacts ==
  ASSUME NEW tab \in Seq(Entry), NEW o \in Opt, NEW us \in QState, NEW him \in QState,
         NEW new \in Set(tab, o, us, him)
  PROVE  /\ new \in Seq(Entry)
         /\ \A p \in Opt \ Harmed(tab, new) :
              /\ Get(new, p).us = IF p = o THEN us ELSE Get(tab, p).us
              /\ Get(new, p).him = IF p = o THEN him ELSE Get(tab, p).him
         /\ tab = << >> => Len(new) = 4 /\ new[1].opt = o
         /\ Len(tab) >= 4 => Len(new) >= 4 /\ new[1].opt = tab[1].opt
  <1> DEFINE e == [opt |-> o, us |-> us, him |-> him]
  <1>1. e \in Entry /\ e.opt = o /\ e.us = us /\ e.him = him BY DEF Entry
  <1>2. new \in Seq(Entry) BY SetTyped
  <1>3. CASE Tracked(tab, o)
    <2>1. new = [tab EXCEPT ![Slot(tab, o)] = e] BY <1>3 DEF Set
    <2> HIDE DEF e
    <2>2. new = [tab EXCEPT ![Slot(tab, e.opt)] = e] /\ Tracked(tab, e.opt) BY <1>1, <1>3, <2>1
    <2>3. \A p \in Opt : Get(new, p) = IF p = o THEN e ELSE Get(tab, p) BY <1>1, <2>2, WriteKeeps
    <2>4. tab # << >> BY <1>3 DEF Tracked
    <2> DEFINE k == Slot(tab, o)
    <2>5. k \in DOMAIN tab /\ tab[k].opt = o /\ new = [tab EXCEPT ![k] = e] BY <1>3, <2>1, SlotIs
    <2> HIDE DEF k
    <2>6. Len(new) = Len(tab) /\ \A j \in DOMAIN tab : new[j] = IF j = k THEN e ELSE tab[j] BY <1>1, <2>5
    <2>7. Len(tab) >= 4 => new[1].opt = tab[1].opt
      <3> HAVE Len(tab) >= 4
      <3>1. 1 \in DOMAIN tab OBVIOUS
      <3> QED BY <1>1, <2>5, <2>6, <3>1
    <2> QED BY <1>1, <1>2, <2>3, <2>4, <2>6, <2>7
  <1>4. CASE ~Tracked(tab, o)
    <2>1. PICK stale \in Stale(tab) : new = Grown(tab, stale, e) BY <1>4 DEF Set, Stale
    <2> HIDE DEF e
    <2>1a. IsGrown(tab, e, new) BY <1>1, <2>1, GrownIs
    <2>2. /\ Len(new) = Len(tab) + 4 /\ new[Len(tab) + 1] = e
          /\ \A k \in 1 .. Len(tab) \div 2 : new[k] = tab[k]
      BY <2>1a DEF IsGrown
    <2>2a. ~Tracked(tab, e.opt) BY <1>1, <1>4
    <2>3. \A p \in Opt \ Harmed(tab, new) : Get(new, p) = IF p = o THEN e ELSE Get(tab, p)
      BY <1>1, <2>1a, <2>2a, GrownKeeps
    <2>4. tab = << >> => Len(new) = 4 /\ new[1].opt = o BY <1>1, <2>2
    <2>5. Len(tab) >= 4 => Len(new) >= 4 /\ new[1].opt = tab[1].opt
      <3> HAVE Len(tab) >= 4
      <3>1. 1 \in 1 .. Len(tab) \div 2 OBVIOUS
      <3> QED BY <2>2, <3>1
    <2> QED BY <1>1, <1>2, <2>3, <2>4, <2>5
  <1> QED BY <1>3, <1>4

\* Slot 0 is copied and found first: its option is never harmed.
LEMMA FirstUnharmed ==
  ASSUME NEW tab \in Seq(Entry), NEW new, NEW o,
         tab # << >> => Len(tab) >= 4 /\ tab[1].opt = o
  PROVE  o \notin Harmed(tab, new)
  <1>1. CASE tab = << >>
    <2>1. Len(tab) \div 2 + 1 .. Len(tab) = {} BY <1>1
    <2> QED BY <2>1 DEF Harmed
  <1>2. CASE tab # << >>
    <2>1. 1 \in 1 .. Len(tab) \div 2 /\ tab[1].opt = o BY <1>2
    <2> QED BY <2>1 DEF Harmed
  <1> QED BY <1>1, <1>2

UsMoves(tab, l, o, outcome, new, l2) ==
    /\ TableInv(tab, l) /\ (tab # << >> \/ o = ConsoleOpts[1])
    /\ new \in UsStep(tab, o, outcome) /\ l2 = l \cup Harmed(tab, new)

\* A step of the server's state of an option
LEMMA StepFacts ==
  ASSUME NEW tab, NEW l, NEW o \in Opt, NEW outcome \in Outcome, NEW new, NEW l2,
         UsMoves(tab, l, o, outcome, new, l2)
  PROVE  /\ TableInv(new, l2)
         /\ tab # << >> => new # << >>
         /\ o \notin l2 => Get(new, o).us = outcome[1]
         /\ \A p \in Opt \ l2 : p # o => Get(new, p).us = Get(tab, p).us
  <1> USE DEF UsMoves
  <1>1. outcome[1] \in QState BY DEF Outcome
  <1>2. CASE outcome[1] = Get(tab, o).us
    <2>1. new = tab BY <1>2 DEF UsStep
    <2>2. Harmed(tab, new) = {}
      <3>1. tab \in Seq(Entry) /\ Len(tab) \in Nat BY DEF TableInv
      <3> QED BY <2>1, <3>1 DEF Harmed
    <2> QED BY <1>2, <2>1, <2>2
  <1>3. CASE outcome[1] # Get(tab, o).us
    <2>0. tab \in Seq(Entry) BY DEF TableInv
    <2>1. new \in Set(tab, o, outcome[1], Get(tab, o).him) BY <1>3 DEF UsStep
    <2>2. Get(tab, o).him \in QState BY <2>0, GetTyped
    <2>3. /\ new \in Seq(Entry)
          /\ \A p \in Opt \ Harmed(tab, new) :
               /\ Get(new, p).us = IF p = o THEN outcome[1] ELSE Get(tab, p).us
               /\ Get(new, p).him = IF p = o THEN Get(tab, o).him ELSE Get(tab, p).him
          /\ tab = << >> => Len(new) = 4 /\ new[1].opt = o
          /\ Len(tab) >= 4 => Len(new) >= 4 /\ new[1].opt = tab[1].opt
      BY <1>1, <2>0, <2>1, <2>2, SetFacts
    <2>4. ConsoleOpts[1] \notin Harmed(tab, new) BY <2>0, FirstUnharmed DEF TableInv
    <2>5. new # << >> => Len(new) >= 4 /\ new[1].opt = ConsoleOpts[1]
      <3>1. CASE tab = << >>
        <4>1. o = ConsoleOpts[1] BY <3>1
        <4>2. Len(new) = 4 /\ new[1].opt = o BY <2>3, <3>1
        <4> QED BY <4>1, <4>2
      <3>2. CASE tab # << >> BY <2>3, <3>2 DEF TableInv
      <3> QED BY <3>1, <3>2
    <2>6. \A p \in Opt \ l2 : Get(new, p).him = "NO" BY <2>3 DEF TableInv
    <2>7. tab # << >> => new # << >>
      <3> HAVE tab # << >>
      <3>1. Len(tab) >= 4 BY DEF TableInv
      <3>2. Len(new) >= 4 BY <2>3, <3>1
      <3> QED BY <3>2
    <2>8. TableInv(new, l2) BY <2>3, <2>4, <2>5, <2>6 DEF TableInv
    <2> QED BY <2>3, <2>7, <2>8
  <1> QED BY <1>2, <1>3

HimMoves(tab, l, o, outcome, new, l2) ==
    /\ TableInv(tab, l) /\ tab # << >> /\ o \in l
    /\ new \in HimStep(tab, o, outcome) /\ l2 = l \cup Harmed(tab, new)

\* A step of the client's state changes nothing of the options that are not
\* harmed, if it is about one that is.
LEMMA HimFacts ==
  ASSUME NEW tab, NEW l, NEW o \in Opt, NEW outcome \in Outcome, NEW new, NEW l2,
         HimMoves(tab, l, o, outcome, new, l2)
  PROVE  /\ TableInv(new, l2) /\ new # << >>
         /\ \A p \in Opt \ l2 : Get(new, p).us = Get(tab, p).us
  <1> USE DEF HimMoves
  <1>0. tab \in Seq(Entry) /\ outcome[1] \in QState BY DEF TableInv, Outcome
  <1>2. CASE outcome[1] = Get(tab, o).him
    <2>1. new = tab BY <1>2 DEF HimStep
    <2>2. Harmed(tab, new) = {} BY <1>0, <2>1 DEF Harmed
    <2> QED BY <2>1, <2>2
  <1>3. CASE outcome[1] # Get(tab, o).him
    <2>1. new \in Set(tab, o, Get(tab, o).us, outcome[1]) BY <1>3 DEF HimStep
    <2>2. Get(tab, o).us \in QState BY <1>0, GetTyped
    <2>3. /\ new \in Seq(Entry)
          /\ \A p \in Opt \ Harmed(tab, new) :
               /\ Get(new, p).us = IF p = o THEN Get(tab, o).us ELSE Get(tab, p).us
               /\ Get(new, p).him = IF p = o THEN outcome[1] ELSE Get(tab, p).him
          /\ Len(tab) >= 4 => Len(new) >= 4 /\ new[1].opt = tab[1].opt
      BY <1>0, <2>1, <2>2, SetFacts
    <2>4. ConsoleOpts[1] \notin Harmed(tab, new) BY <1>0, FirstUnharmed DEF TableInv
    <2>5. Len(tab) >= 4 /\ tab[1].opt = ConsoleOpts[1] BY DEF TableInv
    <2>6. Len(new) >= 4 /\ new # << >> BY <2>3, <2>5
    <2>7. \A p \in Opt \ l2 : Get(new, p).him = "NO" BY <2>3 DEF TableInv
    <2>8. TableInv(new, l2) BY <2>3, <2>4, <2>5, <2>6, <2>7 DEF TableInv
    <2> QED BY <2>3, <2>6, <2>8
  <1> QED BY <1>2, <1>3

-----------------------------------------------------------------------------
(***************************************************************************)
(* What is sent and taken, as a reader of either channel sees it.          *)
(***************************************************************************)
\* Commands are equal only if they are the same about the same option.
LEMMA MsgIs ==
  ASSUME NEW c, NEW o, NEW d, NEW p
  PROVE  /\ Msg(c, o) = Msg(d, p) <=> c = d /\ o = p
         /\ Msg(c, o).cmd = c /\ Msg(c, o).opt = o
  BY DEF Msg

\* Sending nothing or one command
LEMMA SentIs ==
  ASSUME NEW s \in Seq(Message), NEW outcome, NEW o \in Opt, outcome[2] \in Command \cup {"none"}
  PROVE  /\ outcome[2] = "none" => s \o Sent(outcome, o) = s
         /\ outcome[2] # "none" =>
              /\ Msg(outcome[2], o) \in Message
              /\ s \o Sent(outcome, o) = Append(s, Msg(outcome[2], o))
  <1>1. CASE outcome[2] = "none"
    <2>1. Sent(outcome, o) = << >> BY <1>1 DEF Sent
    <2> QED BY <1>1, <2>1
  <1>2. CASE outcome[2] # "none"
    <2> DEFINE m == Msg(outcome[2], o)
    <2>1. m \in Message BY <1>2 DEF Msg, Message
    <2>2. Sent(outcome, o) = <<m>> BY <1>2 DEF Sent
    <2> HIDE DEF m
    <2>3. s \o <<m>> = Append(s, m) BY <2>1
    <2> QED BY <1>2, <2>1, <2>2, <2>3 DEF m
  <1> QED BY <1>1, <1>2

\* Commands of other kinds or about other options change nothing.
LEMMA SentOther ==
  ASSUME NEW s \in Seq(Message), NEW outcome, NEW o \in Opt, outcome[2] \in Command \cup {"none"},
         NEW x, NEW y, outcome[2] # "none" => Msg(outcome[2], o) # x /\ Msg(outcome[2], o) # y,
         NEW w \in Word, Reads(s, x, y, w)
  PROVE  Reads(s \o Sent(outcome, o), x, y, w)
  <1>1. CASE outcome[2] = "none" BY <1>1, SentIs
  <1>2. CASE outcome[2] # "none"
    <2> DEFINE m == Msg(outcome[2], o)
    <2>1. m \in Message /\ s \o Sent(outcome, o) = Append(s, m) BY <1>2, SentIs
    <2>2. m # x /\ m # y BY <1>2
    <2> HIDE DEF m
    <2>3. Reads(Append(s, m), x, y, w) BY <2>1, <2>2, AppendOther
    <2> QED BY <2>1, <2>3
  <1> QED BY <1>1, <1>2

\* The server's announcements arrive in the channel to the client,
LEMMA SentToPeer ==
  ASSUME NEW s \in Seq(Message), NEW outcome, NEW o \in Opt, outcome[2] \in {"WILL", "WONT", "none"},
         NEW w \in Word, Reads(s, Msg("WILL", o), Msg("WONT", o), w),
         After(w, ToPeer(outcome[2])) \in Word
  PROVE  Reads(s \o Sent(outcome, o), Msg("WILL", o), Msg("WONT", o), After(w, ToPeer(outcome[2])))
  <1> DEFINE x == Msg("WILL", o)  y == Msg("WONT", o)
  <1>0. outcome[2] \in Command \cup {"none"} BY DEF Command
  <1>1. x # y BY MsgIs
  <1>2. CASE outcome[2] = "none"
    <2>1. s \o Sent(outcome, o) = s BY <1>0, <1>2, SentIs
    <2>2. After(w, ToPeer(outcome[2])) = w BY <1>2 DEF After, ToPeer
    <2> QED BY <2>1, <2>2
  <1>3. CASE outcome[2] = "WILL"
    <2>1. x \in Message /\ s \o Sent(outcome, o) = Append(s, x) BY <1>0, <1>3, SentIs
    <2>2. ToPeer(outcome[2]) = "on" BY <1>3 DEF ToPeer
    <2>3. w \in {"none", "off"} BY <2>2 DEF After, Word
    <2> HIDE DEF x, y
    <2>4. Reads(s, x, y, w) BY DEF x, y
    <2>5. Reads(Append(s, x), x, y, After(w, "on")) BY <1>1, <2>1, <2>3, <2>4, AppendOn
    <2> QED BY <2>1, <2>2, <2>5 DEF x, y
  <1>4. CASE outcome[2] = "WONT"
    <2>1. y \in Message /\ s \o Sent(outcome, o) = Append(s, y) BY <1>0, <1>4, SentIs
    <2>2. ToPeer(outcome[2]) = "off" BY <1>4 DEF ToPeer
    <2>3. w \in {"none", "on"} BY <2>2 DEF After, Word
    <2> HIDE DEF x, y
    <2>4. Reads(s, x, y, w) BY DEF x, y
    <2>5. Reads(Append(s, y), x, y, After(w, "off")) BY <1>1, <2>1, <2>3, <2>4, AppendOff
    <2> QED BY <2>1, <2>2, <2>5 DEF x, y
  <1> QED BY <1>2, <1>3, <1>4

\* the client's requests in the one to the server.
LEMMA SentToServer ==
  ASSUME NEW s \in Seq(Message), NEW outcome, NEW o \in Opt, outcome[2] \in {"DO", "DONT", "none"},
         NEW w \in Word, Reads(s, Msg("DO", o), Msg("DONT", o), w),
         After(w, ToServer(outcome[2])) \in Word
  PROVE  Reads(s \o Sent(outcome, o), Msg("DO", o), Msg("DONT", o), After(w, ToServer(outcome[2])))
  <1> DEFINE x == Msg("DO", o)  y == Msg("DONT", o)
  <1>0. outcome[2] \in Command \cup {"none"} BY DEF Command
  <1>1. x # y BY MsgIs
  <1>2. CASE outcome[2] = "none"
    <2>1. s \o Sent(outcome, o) = s BY <1>0, <1>2, SentIs
    <2>2. After(w, ToServer(outcome[2])) = w BY <1>2 DEF After, ToServer
    <2> QED BY <2>1, <2>2
  <1>3. CASE outcome[2] = "DO"
    <2>1. x \in Message /\ s \o Sent(outcome, o) = Append(s, x) BY <1>0, <1>3, SentIs
    <2>2. ToServer(outcome[2]) = "on" BY <1>3 DEF ToServer
    <2>3. w \in {"none", "off"} BY <2>2 DEF After, Word
    <2> HIDE DEF x, y
    <2>4. Reads(s, x, y, w) BY DEF x, y
    <2>5. Reads(Append(s, x), x, y, After(w, "on")) BY <1>1, <2>1, <2>3, <2>4, AppendOn
    <2> QED BY <2>1, <2>2, <2>5 DEF x, y
  <1>4. CASE outcome[2] = "DONT"
    <2>1. y \in Message /\ s \o Sent(outcome, o) = Append(s, y) BY <1>0, <1>4, SentIs
    <2>2. ToServer(outcome[2]) = "off" BY <1>4 DEF ToServer
    <2>3. w \in {"none", "on"} BY <2>2 DEF After, Word
    <2> HIDE DEF x, y
    <2>4. Reads(s, x, y, w) BY DEF x, y
    <2>5. Reads(Append(s, y), x, y, After(w, "off")) BY <1>1, <2>1, <2>3, <2>4, AppendOff
    <2> QED BY <2>1, <2>2, <2>5 DEF x, y
  <1> QED BY <1>2, <1>3, <1>4

\* What a channel holds it still holds when something is sent, and until it
\* is the first to be taken.
LEMMA HoldsStays ==
  ASSUME NEW s \in Seq(Message), NEW m, Holds(s, m)
  PROVE  /\ \A t \in Seq(Message) : Holds(s \o t, m)
         /\ s # << >> /\ (Head(s) = m \/ Holds(Tail(s), m))
  <1>1. PICK i \in DOMAIN s : s[i] = m BY DEF Holds
  <1>2. ASSUME NEW t \in Seq(Message) PROVE Holds(s \o t, m)
    <2>0. DOMAIN (s \o t) = 1 .. Len(s) + Len(t) /\ Len(s) \in Nat /\ Len(t) \in Nat OBVIOUS
    <2>1. i \in DOMAIN (s \o t) /\ (s \o t)[i] = m BY <1>1, <2>0
    <2> QED BY <2>1 DEF Holds
  <1>3. s # << >> BY <1>1
  <1>4. CASE i = 1 BY <1>1, <1>2, <1>3, <1>4
  <1>5. CASE i # 1
    <2>1. i - 1 \in DOMAIN Tail(s) /\ Tail(s)[i - 1] = m BY <1>1, <1>5
    <2> QED BY <1>2, <1>3, <2>1 DEF Holds
  <1> QED BY <1>4, <1>5

\* The first command of a channel
LEMMA HeadIs ==
  ASSUME NEW s \in Seq(Message), s # << >>
  PROVE  /\ Head(s) \in Message /\ Head(s).opt \in Opt /\ Head(s).cmd \in Command
         /\ Head(s) = Msg(Head(s).cmd, Head(s).opt)
         /\ Tail(s) \in Seq(Message)
  <1>1. Head(s) \in Message /\ Tail(s) \in Seq(Message) OBVIOUS
  <1> DEFINE m == Head(s)
  <1> HIDE DEF m
  <1>2. m \in Message => m.opt \in Opt /\ m.cmd \in Command /\ m = [cmd |-> m.cmd, opt |-> m.opt]
    BY DEF Message
  <1> QED BY <1>1, <1>2 DEF Msg, m

-----------------------------------------------------------------------------
(***************************************************************************)
(* One step of one option keeps the invariant of all options: first the    *)
(* server's steps,                                                         *)
(***************************************************************************)
LEMMA ServerStep ==
  ASSUME NEW tab, NEW l, NEW tp \in Seq(Message), NEW ts \in Seq(Message), NEW ts2 \in Seq(Message),
         NEW ph, NEW o \in Opt, NEW outcome \in Outcome, outcome[2] \in {"WILL", "WONT", "none"},
         NEW new, NEW l2, l \subseteq l2,
         o \notin l2 => Get(new, o).us = outcome[1],
         \A p \in Opt \ l2 : p # o => Get(new, p).us = Get(tab, p).us,
         OptionsInv(tab, l, tp, ts, ph),
         \A p \in Opt \ {o} : \A b \in Word :
            Reads(ts, Msg("DO", p), Msg("DONT", p), b) => Reads(ts2, Msg("DO", p), Msg("DONT", p), b),
         o \notin l => \E a, b \in Word :
            /\ Reads(tp, Msg("WILL", o), Msg("WONT", o), a)
            /\ Reads(ts2, Msg("DO", o), Msg("DONT", o), b)
            /\ <<outcome[1], ph[o], After(a, ToPeer(outcome[2])), b>> \in Allowed(o)
  PROVE  /\ tp \o Sent(outcome, o) \in Seq(Message)
         /\ OptionsInv(new, l2, tp \o Sent(outcome, o), ts2, ph)
  <1> DEFINE sent == tp \o Sent(outcome, o)
  <1>2. sent \in Seq(Message) BY SentTyped
  <1>3. ASSUME o \notin l2 PROVE OptInv(new, sent, ts2, ph, o)
    <2>0. PICK a, b \in Word : /\ Reads(tp, Msg("WILL", o), Msg("WONT", o), a)
                               /\ Reads(ts2, Msg("DO", o), Msg("DONT", o), b)
                               /\ <<outcome[1], ph[o], After(a, ToPeer(outcome[2])), b>> \in Allowed(o)
      BY <1>3
    <2>1. After(a, ToPeer(outcome[2])) \in Word BY <2>0, AllowedTyped, ExchangeTyped
    <2>2. Reads(sent, Msg("WILL", o), Msg("WONT", o), After(a, ToPeer(outcome[2]))) BY <2>0, <2>1, SentToPeer
    <2> HIDE DEF sent
    <2> QED BY <1>3, <2>0, <2>1, <2>2 DEF OptInv
  <1>4. ASSUME NEW p \in Opt \ l2, p # o PROVE OptInv(new, sent, ts2, ph, p)
    <2>1. PICK c, d \in Word : /\ Reads(tp, Msg("WILL", p), Msg("WONT", p), c)
                               /\ Reads(ts, Msg("DO", p), Msg("DONT", p), d)
                               /\ <<Get(tab, p).us, ph[p], c, d>> \in Allowed(p)
      BY DEF OptInv, OptionsInv
    <2>2. outcome[2] \in Command \cup {"none"} BY DEF Outcome
    <2>3. Msg(outcome[2], o) # Msg("WILL", p) /\ Msg(outcome[2], o) # Msg("WONT", p) BY <1>4, MsgIs
    <2>4. Reads(sent, Msg("WILL", p), Msg("WONT", p), c) BY <2>1, <2>2, <2>3, SentOther
    <2> HIDE DEF sent
    <2> QED BY <1>4, <2>1, <2>4 DEF OptInv
  <1> HIDE DEF sent
  <1>5. OptionsInv(new, l2, sent, ts2, ph) BY <1>3, <1>4 DEF OptionsInv
  <1> QED BY <1>2, <1>5 DEF sent

\* then the client's.
LEMMA ClientStep ==
  ASSUME NEW tab, NEW l, NEW tp \in Seq(Message), NEW tp2 \in Seq(Message), NEW ts \in Seq(Message),
         NEW ph \in [Opt -> PeerState], NEW o \in Opt,
         NEW outcome \in PeerState \X {"DO", "DONT", "none"},
         OptionsInv(tab, l, tp, ts, ph),
         \A p \in Opt \ {o} : \A a \in Word :
            Reads(tp, Msg("WILL", p), Msg("WONT", p), a) => Reads(tp2, Msg("WILL", p), Msg("WONT", p), a),
         o \notin l => \E a, b \in Word :
            /\ Reads(tp2, Msg("WILL", o), Msg("WONT", o), a)
            /\ Reads(ts, Msg("DO", o), Msg("DONT", o), b)
            /\ <<Get(tab, o).us, outcome[1], a, After(b, ToServer(outcome[2]))>> \in Allowed(o)
  PROVE  OptionsInv(tab, l, tp2, ts \o Sent(outcome, o), [ph EXCEPT ![o] = outcome[1]])
  <1> DEFINE sent == ts \o Sent(outcome, o)  ph2 == [ph EXCEPT ![o] = outcome[1]]
  <1>0. outcome[2] \in {"DO", "DONT", "none"} OBVIOUS
  <1>1. ph2[o] = outcome[1] /\ \A p \in Opt \ {o} : ph2[p] = ph[p] OBVIOUS
  <1> HIDE DEF ph2
  <1>3. ASSUME o \notin l PROVE OptInv(tab, tp2, sent, ph2, o)
    <2>0. PICK a, b \in Word : /\ Reads(tp2, Msg("WILL", o), Msg("WONT", o), a)
                               /\ Reads(ts, Msg("DO", o), Msg("DONT", o), b)
                               /\ <<Get(tab, o).us, outcome[1], a, After(b, ToServer(outcome[2]))>> \in Allowed(o)
      BY <1>3
    <2>1. After(b, ToServer(outcome[2])) \in Word BY <2>0, AllowedTyped, ExchangeTyped
    <2>2. Reads(sent, Msg("DO", o), Msg("DONT", o), After(b, ToServer(outcome[2])))
      BY <1>0, <2>0, <2>1, SentToServer
    <2> HIDE DEF sent
    <2> QED BY <1>1, <2>0, <2>1, <2>2 DEF OptInv
  <1>4. ASSUME NEW p \in Opt \ l, p # o PROVE OptInv(tab, tp2, sent, ph2, p)
    <2>1. PICK c, d \in Word : /\ Reads(tp, Msg("WILL", p), Msg("WONT", p), c)
                               /\ Reads(ts, Msg("DO", p), Msg("DONT", p), d)
                               /\ <<Get(tab, p).us, ph[p], c, d>> \in Allowed(p)
      BY DEF OptInv, OptionsInv
    <2>2. outcome[2] \in Command \cup {"none"} BY <1>0 DEF Command
    <2>3. Msg(outcome[2], o) # Msg("DO", p) /\ Msg(outcome[2], o) # Msg("DONT", p) BY <1>4, MsgIs
    <2>4. Reads(sent, Msg("DO", p), Msg("DONT", p), d) BY <2>1, <2>2, <2>3, SentOther
    <2> HIDE DEF sent
    <2> QED BY <1>1, <1>4, <2>1, <2>4 DEF OptInv
  <1> HIDE DEF sent
  <1>5. OptionsInv(tab, l, tp2, sent, ph2) BY <1>3, <1>4 DEF OptionsInv
  <1> QED BY <1>5 DEF sent, ph2

\* A command that says nothing of what the server performs may come or go.
LEMMA Unrelated ==
  ASSUME NEW s \in Seq(Message), s # << >>, NEW p, NEW w \in Word
  PROVE  /\ Head(s).opt # p \/ Head(s).cmd \notin {"WILL", "WONT"} =>
              (Reads(s, Msg("WILL", p), Msg("WONT", p), w) =>
                  Reads(Tail(s), Msg("WILL", p), Msg("WONT", p), w))
         /\ Head(s).opt # p \/ Head(s).cmd \notin {"DO", "DONT"} =>
              (Reads(s, Msg("DO", p), Msg("DONT", p), w) =>
                  Reads(Tail(s), Msg("DO", p), Msg("DONT", p), w))
  <1>1. Head(s).opt # p \/ Head(s).cmd \notin {"WILL", "WONT"} =>
          Head(s) # Msg("WILL", p) /\ Head(s) # Msg("WONT", p)
    BY MsgIs
  <1>2. Head(s).opt # p \/ Head(s).cmd \notin {"DO", "DONT"} =>
          Head(s) # Msg("DO", p) /\ Head(s) # Msg("DONT", p)
    BY MsgIs
  <1> QED BY <1>1, <1>2, TailOther

\* The console's requests
LEMMA AskFacts ==
  ASSUME NEW u \in QState
  PROVE  /\ AskWill[u] \in Outcome /\ AskWont[u] \in Outcome
         /\ AskWill[u][2] \in {"WILL", "WONT", "none"} /\ AskWont[u][2] \in {"WILL", "WONT", "none"}
         /\ u # "junk" => AskWill[u][1] \in On /\ AskWont[u][1] \notin On
  BY DEF AskWill, AskWont, On, Outcome, QState, Command

\* What one of them does, and what it keeps
Asks(ask, o, tab, tp, new, sent) ==
    LET outcome == ask[Get(tab, o).us]
    IN  new \in UsStep(tab, o, outcome) /\ sent = tp \o Sent(outcome, o)

Good(tab, l, tp, ts, ph) ==
    TableInv(tab, l) /\ tp \in Seq(Message) /\ ts \in Seq(Message) /\ OptionsInv(tab, l, tp, ts, ph)

AsksWell(ask, o, tab, l, tp, ts, ph, new, l2, sent) ==
    /\ Good(tab, l, tp, ts, ph) /\ (tab # << >> \/ o = ConsoleOpts[1])
    /\ Asks(ask, o, tab, tp, new, sent) /\ l2 = l \cup Harmed(tab, new)

\* A request of the console's for one option
LEMMA AskStep ==
  ASSUME NEW o \in Console, NEW ask \in {AskWill, AskWont},
         NEW tab, NEW l, NEW tp, NEW ts, NEW ph, NEW new, NEW l2, NEW sent,
         AsksWell(ask, o, tab, l, tp, ts, ph, new, l2, sent)
  PROVE  /\ Good(new, l2, sent, ts, ph)
         /\ o \notin l2 => (Get(new, o).us \in On <=> ask = AskWill)
         /\ \A p \in Opt \ l2 : p # o => Get(new, p).us = Get(tab, p).us
         /\ \A m : Holds(tp, m) => Holds(sent, m)
         /\ tab # << >> => new # << >>
  <1> DEFINE u == Get(tab, o).us  outcome == ask[u]
  <1> USE DEF AsksWell
  <1>0. /\ TableInv(tab, l) /\ tp \in Seq(Message) /\ ts \in Seq(Message) /\ OptionsInv(tab, l, tp, ts, ph)
        /\ new \in UsStep(tab, o, outcome) /\ sent = tp \o Sent(outcome, o)
    BY DEF Good, Asks
  <1>1. o \in Opt BY ConsoleOptsAssumption DEF Console
  <1>2. u \in QState
    <2>1. tab \in Seq(Entry) BY <1>0 DEF TableInv
    <2> QED BY <1>1, <2>1, GetTyped
  <1>3. outcome \in Outcome /\ outcome[2] \in {"WILL", "WONT", "none"} BY <1>2, AskFacts
  <1> HIDE DEF u
  <1>4. o \notin l => u # "junk" /\ \E a, b \in Word :
          /\ Reads(tp, Msg("WILL", o), Msg("WONT", o), a)
          /\ Reads(ts, Msg("DO", o), Msg("DONT", o), b)
          /\ <<outcome[1], ph[o], After(a, ToPeer(outcome[2])), b>> \in Allowed(o)
    <2> HAVE o \notin l
    <2>1. PICK a, b \in Word : /\ Reads(tp, Msg("WILL", o), Msg("WONT", o), a)
                               /\ Reads(ts, Msg("DO", o), Msg("DONT", o), b)
                               /\ <<u, ph[o], a, b>> \in Allowed(o)
      BY <1>0, <1>1 DEF OptInv, OptionsInv, u
    <2>2. u # "junk"
      <3>1. <<u, ph[o], a, b>> \in Exchange BY <2>1, AllowedTyped
      <3> QED BY <3>1 DEF Exchange
    <2>3. <<outcome[1], ph[o], After(a, ToPeer(outcome[2])), b>> \in Allowed(o)
      BY <1>1, <2>1, AllowedServer
    <2> QED BY <2>1, <2>2, <2>3
  <1>6. o \notin l => (outcome[1] \in On <=> ask = AskWill)
    <2>1. AskWill # AskWont
      <3>1. AskWill["NO"][1] = "WANTYES" /\ AskWont["NO"][1] = "NO" BY DEF AskWill, AskWont
      <3> QED BY <3>1
    <2> QED BY <1>2, <1>4, <2>1, AskFacts
  <1> HIDE DEF outcome
  <1>7. /\ TableInv(new, l2)
        /\ tab # << >> => new # << >>
        /\ o \notin l2 => Get(new, o).us = outcome[1]
        /\ \A p \in Opt \ l2 : p # o => Get(new, p).us = Get(tab, p).us
    <2>1. UsMoves(tab, l, o, outcome, new, l2) BY <1>0 DEF UsMoves
    <2> QED BY <1>1, <1>3, <2>1, StepFacts
  <1>7a. /\ tp \o Sent(outcome, o) \in Seq(Message)
         /\ OptionsInv(new, l2, tp \o Sent(outcome, o), ts, ph)
    <2>1. l \subseteq l2 OBVIOUS
    <2> QED BY <1>0, <1>1, <1>3, <1>4, <1>7, <2>1, ServerStep
  <1>8. \A m : Holds(tp, m) => Holds(sent, m)
    <2>1. Sent(outcome, o) \in Seq(Message) BY <1>1, <1>3, SentTyped
    <2> QED BY <1>0, <2>1, HoldsStays
  <1>9. Good(new, l2, sent, ts, ph) BY <1>0, <1>7, <1>7a DEF Good
  <1> QED BY <1>6, <1>7, <1>8, <1>9

\* The first request of all is about ECHO, and takes slot 0.
LEMMA FirstRequest ==
  ASSUME NEW o \in Opt, NEW tab, tab = << >>, NEW new \in UsStep(tab, o, AskWill[Get(tab, o).us])
  PROVE  new # << >>
  <1>1. Get(tab, o).us = "NO"
    <2>1. DOMAIN tab = {} OBVIOUS
    <2> QED BY <2>1 DEF Get, Tracked
  <1>2. AskWill[Get(tab, o).us][1] = "WANTYES" BY <1>1 DEF AskWill
  <1>3. new \in Set(tab, o, "WANTYES", Get(tab, o).him) BY <1>1, <1>2 DEF UsStep
  <1>4. tab \in Seq(Entry) OBVIOUS
  <1>5. Get(tab, o).him \in QState BY <1>4, GetTyped
  <1>6. "WANTYES" \in QState BY DEF QState
  <1> DEFINE h == Get(tab, o).him  w == "WANTYES"
  <1> HIDE DEF h, w
  <1>7. new \in Set(tab, o, w, h) /\ w \in QState /\ h \in QState BY <1>3, <1>5, <1>6 DEF h, w
  <1>8. ~Tracked(tab, o)
    <2>1. DOMAIN tab = {} OBVIOUS
    <2> QED BY <2>1 DEF Tracked
  <1>9. PICK stale \in Stale(tab) : new = Grown(tab, stale, [opt |-> o, us |-> w, him |-> h])
    BY <1>7, <1>8 DEF Set, Stale
  <1>10. [opt |-> o, us |-> w, him |-> h] \in Entry BY <1>7 DEF Entry
  <1>11. IsGrown(tab, [opt |-> o, us |-> w, him |-> h], new) BY <1>4, <1>9, <1>10, GrownIs
  <1>12. Len(tab) = 0 /\ Len(new) = Len(tab) + 4 BY <1>11 DEF IsGrown
  <1> QED BY <1>12

\* console_setflags and console_unsetflags
LEMMA NegotiateFacts ==
  ASSUME IInv, NEW ask \in {AskWill, AskWont}, NegotiateBoth(ask), ask = AskWill \/ q # << >>
  PROVE  /\ TableInv(q', harmed') /\ q' # << >>
         /\ harmed \subseteq harmed'
         /\ OptionsInv(q', harmed', toPeer', toServer, peerHim)
         /\ \A o \in Console \ harmed' : Get(q', o).us \in On <=> ask = AskWill
         /\ \A m : Holds(toPeer, m) => Holds(toPeer', m)
  <1> DEFINE e == ConsoleOpts[1]  s == ConsoleOpts[2]
  <1>1. /\ e \in Opt /\ s \in Opt /\ e # s /\ Console = {e, s}
        /\ e \in Console /\ s \in Console
    BY ConsoleOptsAssumption DEF Console
  <1>2. PICK tab \in UsStep(q, e, ask[Get(q, e).us]) :
          /\ q' \in UsStep(tab, s, ask[Get(tab, s).us])
          /\ harmed' = harmed \cup Harmed(q, tab) \cup Harmed(tab, q')
          /\ toPeer' = toPeer \o Sent(ask[Get(q, e).us], e) \o Sent(ask[Get(tab, s).us], s)
    BY DEF NegotiateBoth
  <1> DEFINE mid == toPeer \o Sent(ask[Get(q, e).us], e)  l == harmed \cup Harmed(q, tab)
  <1>4. Asks(ask, e, q, toPeer, tab, mid) /\ Asks(ask, s, tab, mid, q', toPeer')
    BY <1>2 DEF Asks
  <1>5. Good(q, harmed, toPeer, toServer, peerHim) BY DEF Good, IInv, TypeOK
  <1>5a. harmed' = l \cup Harmed(tab, q') /\ harmed \subseteq l BY <1>2
  <1>5b. AsksWell(ask, e, q, harmed, toPeer, toServer, peerHim, tab, l, mid)
    BY <1>4, <1>5 DEF AsksWell
  <1>6. /\ Good(tab, l, mid, toServer, peerHim)
        /\ e \notin l => (Get(tab, e).us \in On <=> ask = AskWill)
        /\ \A m : Holds(toPeer, m) => Holds(mid, m)
        /\ q # << >> => tab # << >>
    <2> HIDE DEF e, l, mid
    <2> QED BY <1>1, <1>5b, AskStep
  <1>6a. tab # << >>
    <2>1. CASE q = << >> BY <1>1, <1>2, <2>1, FirstRequest
    <2>2. CASE q # << >> BY <1>6, <2>2
    <2> QED BY <2>1, <2>2
  <1>6b. AsksWell(ask, s, tab, l, mid, toServer, peerHim, q', harmed', toPeer')
    <2> HIDE DEF s, l, mid
    <2> QED BY <1>4, <1>5a, <1>6, <1>6a DEF AsksWell
  <1> HIDE DEF e, s, mid, l
  <1>7. /\ Good(q', harmed', toPeer', toServer, peerHim)
        /\ s \notin harmed' => (Get(q', s).us \in On <=> ask = AskWill)
        /\ \A p \in Opt \ harmed' : p # s => Get(q', p).us = Get(tab, p).us
        /\ \A m : Holds(mid, m) => Holds(toPeer', m)
        /\ q' # << >>
    BY <1>1, <1>6a, <1>6b, AskStep
  <1>8. \A o \in Console \ harmed' : Get(q', o).us \in On <=> ask = AskWill
    <2>1. e \notin harmed' => (Get(q', e).us \in On <=> ask = AskWill) BY <1>1, <1>5a, <1>6, <1>7
    <2> QED BY <1>1, <1>7, <2>1
  <1> QED BY <1>5a, <1>6, <1>7, <1>8 DEF Good

-----------------------------------------------------------------------------
(***************************************************************************)
(* The actions.                                                            *)
(***************************************************************************)
\* What is left to show of each action once its types are known
Kept ==
    /\ TableInv(q', harmed') /\ (reading' => q' # << >>)
    /\ OptionsInv(q', harmed', toPeer', toServer', peerHim')
    /\ OfferInv' /\ WishInv'

\* An offer is not forgotten while the client's view of it stays.
LEMMA OfferKept ==
  ASSUME OfferInv, peerUs' = peerUs, harmed \subseteq harmed',
         \A p \in Opt \ harmed : Holds(toServer, Msg("WILL", p)) =>
            Holds(toServer', Msg("WILL", p)) \/ Holds(toPeer', Msg("DONT", p)),
         \A p \in Opt \ harmed : Holds(toPeer, Msg("DONT", p)) => Holds(toPeer', Msg("DONT", p))
  PROVE  OfferInv'
  BY DEF OfferInv

\* The answers never change the console's last word.
LEMMA WishStays ==
  ASSUME NEW o \in Opt, NEW u, NEW p, NEW a, NEW b, <<u, p, a, b>> \in Quiet
  PROVE  /\ b \in {"on", "on_off"} => (OnDo(o)[u][1] \in On <=> u \in On)
         /\ b \in {"off", "off_on"} => (OnDont[u][1] \in On <=> u \in On)
  BY DEF Quiet, OnDo, OnDont, On

\* The server reads DO or DONT.
LEMMA ServerReadsUs ==
  ASSUME IInv, ServerDo \/ ServerDont
  PROVE  Kept
  <1> DEFINE o == Head(toServer).opt  u == Get(q, o).us  m == Head(toServer)
  <1>1. /\ TypeOK /\ TableInv(q, harmed) /\ OptionsInv(q, harmed, toPeer, toServer, peerHim)
        /\ OfferInv /\ WishInv
    BY DEF IInv
  <1>2. /\ toServer \in Seq(Message) /\ toPeer \in Seq(Message) /\ toServer # << >>
        /\ toServer' = Tail(toServer) /\ UNCHANGED <<reading, peerHim, peerUs>>
        /\ q \in Seq(Entry) /\ q # << >>
    BY <1>1 DEF TypeOK, ServerDo, ServerDont, ServerTakes, peerVars, IInv
  <1>3. o \in Opt /\ m = Msg(m.cmd, o) /\ toServer' \in Seq(Message) BY <1>2, HeadIs
  <1>5. u \in QState BY <1>2, <1>3, GetTyped
  <1> DEFINE outcome == IF m.cmd = "DO" THEN OnDo(o)[u] ELSE OnDont[u]
  <1>7. /\ m.cmd \in {"DO", "DONT"}
        /\ q' \in UsStep(q, o, outcome) /\ toPeer' = toPeer \o Sent(outcome, o)
        /\ harmed' = harmed \cup Harmed(q, q')
    BY DEF ServerDo, ServerDont, ServerTakes, ServerWrites
  <1>9. \A p \in Opt \ {o} : \A w \in Word :
          Reads(toServer, Msg("DO", p), Msg("DONT", p), w) => Reads(toServer', Msg("DO", p), Msg("DONT", p), w)
    BY <1>2, Unrelated
  <1> HIDE DEF u
  <1>10. outcome \in Outcome /\ outcome[2] \in {"WILL", "WONT", "none"}
    BY <1>5 DEF OnDo, OnDont, Outcome, QState, Command
  <1>11. ASSUME o \notin harmed
         PROVE  /\ \E a, b \in Word :
                     /\ Reads(toPeer, Msg("WILL", o), Msg("WONT", o), a)
                     /\ Reads(toServer', Msg("DO", o), Msg("DONT", o), b)
                     /\ <<outcome[1], peerHim[o], After(a, ToPeer(outcome[2])), b>> \in Allowed(o)
                /\ o \in Plain => (outcome[1] \in On <=> u \in On)
    <2>1. PICK a, b \in Word : /\ Reads(toPeer, Msg("WILL", o), Msg("WONT", o), a)
                               /\ Reads(toServer, Msg("DO", o), Msg("DONT", o), b)
                               /\ <<u, peerHim[o], a, b>> \in Allowed(o)
      BY <1>1, <1>3, <1>11 DEF OptInv, OptionsInv, u
    <2>2. /\ Reads(toServer', Msg("DO", o), Msg("DONT", o), Rest[b]) /\ Rest[b] \in Word
          /\ m.cmd = "DO" => b \in {"on", "on_off"}
          /\ m.cmd = "DONT" => b \in {"off", "off_on"}
      <3>1. Msg("DO", o) # Msg("DONT", o) BY MsgIs
      <3>2. CASE m.cmd = "DO"
        <4>1. Head(toServer) = Msg("DO", o) BY <1>3, <3>2
        <4>2. b \in {"on", "on_off"} /\ Reads(Tail(toServer), Msg("DO", o), Msg("DONT", o), Rest[b])
          BY <1>2, <2>1, <3>1, <4>1, TailOn
        <4> QED BY <1>2, <3>2, <4>2 DEF Rest, Word
      <3>3. CASE m.cmd = "DONT"
        <4>1. Head(toServer) = Msg("DONT", o) BY <1>3, <3>3
        <4>2. b \in {"off", "off_on"} /\ Reads(Tail(toServer), Msg("DO", o), Msg("DONT", o), Rest[b])
          BY <1>2, <2>1, <3>1, <4>1, TailOff
        <4> QED BY <1>2, <3>3, <4>2 DEF Rest, Word
      <3> QED BY <1>7, <3>2, <3>3
    <2>3. <<outcome[1], peerHim[o], After(a, ToPeer(outcome[2])), Rest[b]>> \in Allowed(o)
      BY <1>3, <1>7, <2>1, <2>2, AllowedServer
    <2>4. o \in Plain => (outcome[1] \in On <=> u \in On)
      <3> HAVE o \in Plain
      <3>1. <<u, peerHim[o], a, b>> \in Quiet BY <2>1 DEF Allowed
      <3> QED BY <1>3, <1>7, <2>2, <3>1, WishStays
    <2> HIDE DEF outcome
    <2> QED BY <2>1, <2>2, <2>3, <2>4
  <1> HIDE DEF outcome
  <1>12. /\ TableInv(q', harmed') /\ q' # << >>
         /\ o \notin harmed' => Get(q', o).us = outcome[1]
         /\ \A p \in Opt \ harmed' : p # o => Get(q', p).us = Get(q, p).us
    <2>1. UsMoves(q, harmed, o, outcome, q', harmed') BY <1>1, <1>2, <1>7 DEF UsMoves
    <2> DEFINE n == o  new == q'  l2 == harmed'
    <2>2. UsMoves(q, harmed, n, outcome, new, l2) /\ n \in Opt BY <1>3, <2>1
    <2> HIDE DEF n, new, l2
    <2>3. /\ TableInv(new, l2)
          /\ q # << >> => new # << >>
          /\ n \notin l2 => Get(new, n).us = outcome[1]
          /\ \A p \in Opt \ l2 : p # n => Get(new, p).us = Get(q, p).us
      BY <1>10, <2>2, StepFacts
    <2> QED BY <1>2, <2>3 DEF n, new, l2
  <1>13. OptionsInv(q', harmed', toPeer', toServer', peerHim)
    <2> DEFINE ts2 == toServer'  n == o  l2 == harmed'  new == q'
    <2>1. /\ n \in Opt /\ ts2 \in Seq(Message)
          /\ harmed \subseteq l2
          /\ n \notin l2 => Get(new, n).us = outcome[1]
          /\ \A p \in Opt \ l2 : p # n => Get(new, p).us = Get(q, p).us
          /\ \A p \in Opt \ {n} : \A w \in Word :
                Reads(toServer, Msg("DO", p), Msg("DONT", p), w) => Reads(ts2, Msg("DO", p), Msg("DONT", p), w)
      BY <1>3, <1>7, <1>9, <1>12
    <2>2. n \notin harmed => \E a, b \in Word :
            /\ Reads(toPeer, Msg("WILL", n), Msg("WONT", n), a)
            /\ Reads(ts2, Msg("DO", n), Msg("DONT", n), b)
            /\ <<outcome[1], peerHim[n], After(a, ToPeer(outcome[2])), b>> \in Allowed(n)
      BY <1>11
    <2> HIDE DEF ts2, n, l2, new
    <2>3. OptionsInv(new, l2, toPeer \o Sent(outcome, n), ts2, peerHim)
      BY <1>1, <1>2, <1>10, <2>1, <2>2, ServerStep
    <2> QED BY <1>7, <2>3 DEF ts2, n, l2, new
  <1>14. WishInv'
    <2>1. Plain \subseteq Opt BY ConsoleOptsAssumption DEF Plain, Console
    <2> SUFFICES ASSUME NEW p \in Plain \ harmed' PROVE Get(q', p).us \in On <=> reading'
      BY DEF WishInv
    <2>2. p \notin harmed /\ p \in Opt BY <1>7, <2>1
    <2>3. Get(q, p).us \in On <=> reading BY <1>1, <2>2 DEF WishInv
    <2>4. CASE p = o BY <1>2, <1>11, <1>12, <2>2, <2>3, <2>4 DEF u
    <2>5. CASE p # o BY <1>2, <1>12, <2>2, <2>3, <2>5
    <2> QED BY <2>4, <2>5
  <1>15. OfferInv'
    <2>1. Sent(outcome, o) \in Seq(Message) BY <1>3, <1>10, SentTyped
    <2>2. \A p \in Opt : Holds(toPeer, Msg("DONT", p)) => Holds(toPeer', Msg("DONT", p))
      BY <1>2, <1>7, <2>1, HoldsStays
    <2>3. \A p : m # Msg("WILL", p) BY <1>7, MsgIs
    <2>4. \A p \in Opt : Holds(toServer, Msg("WILL", p)) => Holds(toServer', Msg("WILL", p))
      BY <1>2, <2>3, HoldsStays
    <2> QED BY <1>1, <1>2, <1>7, <2>2, <2>4, OfferKept
  <1> QED BY <1>2, <1>12, <1>13, <1>14, <1>15 DEF Kept

\* The server reads WILL or WONT: it wants nothing of the client.
LEMMA ServerReadsHim ==
  ASSUME IInv, WantsNothing, ServerWill \/ ServerWont
  PROVE  Kept
  <1> DEFINE o == Head(toServer).opt  m == Head(toServer)  h == Get(q, o).him
  <1>1. /\ TypeOK /\ TableInv(q, harmed) /\ OptionsInv(q, harmed, toPeer, toServer, peerHim)
        /\ OfferInv /\ WishInv
    BY DEF IInv
  <1>2. /\ toServer \in Seq(Message) /\ toPeer \in Seq(Message) /\ toServer # << >>
        /\ toServer' = Tail(toServer) /\ UNCHANGED <<reading, peerHim, peerUs>>
        /\ q \in Seq(Entry) /\ q # << >>
    BY <1>1 DEF TypeOK, ServerWill, ServerWont, ServerTakes, peerVars, IInv
  <1>3. o \in Opt /\ m = Msg(m.cmd, o) BY <1>2, HeadIs
  <1>4. h \in QState BY <1>2, <1>3, GetTyped
  <1>4a. o \notin harmed => h = "NO" BY <1>1, <1>3 DEF TableInv
  <1> DEFINE outcome == IF m.cmd = "WILL" THEN OnWill(o)[h] ELSE OnWont[h]
  <1>5. /\ m.cmd \in {"WILL", "WONT"} /\ q' \in HimStep(q, o, outcome)
        /\ harmed' = harmed \cup Harmed(q, q')
        /\ toPeer' = toPeer \o Sent(outcome, o)
    BY DEF ServerWill, ServerWont, ServerTakes, ServerWrites
  <1> HIDE DEF h
  <1>6. /\ outcome \in Outcome /\ outcome[2] \in {"DONT", "none"}
        /\ h = "NO" => outcome[1] = "NO" /\ (m.cmd = "WILL" => outcome[2] = "DONT")
    BY <1>4 DEF OnWill, OnWont, Outcome, QState, Command, WantsNothing
  <1> HIDE DEF outcome
  <1>7. /\ TableInv(q', harmed') /\ q' # << >>
        /\ harmed \subseteq harmed'
        /\ \A p \in Opt \ harmed' : Get(q', p).us = Get(q, p).us
    <2>1. CASE o \in harmed
      <3>1. /\ TableInv(q', harmed') /\ q' # << >>
            /\ \A p \in Opt \ harmed' : Get(q', p).us = Get(q, p).us
        <4>1. HimMoves(q, harmed, o, outcome, q', harmed') BY <1>1, <1>2, <1>5, <2>1 DEF HimMoves
        <4> QED BY <1>3, <1>6, <4>1, HimFacts
      <3> QED BY <1>5, <3>1
    <2>2. CASE o \notin harmed
      <3>1. outcome[1] = Get(q, o).him BY <1>4a, <1>6, <2>2 DEF h
      <3>2. q' = q BY <1>5, <3>1 DEF HimStep
      <3>3. Harmed(q, q') = {} BY <1>2, <3>2 DEF Harmed
      <3>4. harmed' = harmed BY <1>5, <3>3
      <3> QED BY <1>1, <1>2, <3>2, <3>4
    <2> QED BY <2>1, <2>2
  <1>8. OptionsInv(q', harmed', toPeer', toServer', peerHim')
    <2>1. ASSUME NEW p \in Opt \ harmed' PROVE OptInv(q', toPeer', toServer', peerHim, p)
      <3>0. p \in Opt \ harmed /\ Get(q', p).us = Get(q, p).us BY <1>7
      <3>1. PICK a, b \in Word : /\ Reads(toPeer, Msg("WILL", p), Msg("WONT", p), a)
                                 /\ Reads(toServer, Msg("DO", p), Msg("DONT", p), b)
                                 /\ <<Get(q, p).us, peerHim[p], a, b>> \in Allowed(p)
        BY <1>1, <3>0 DEF OptInv, OptionsInv
      <3>2. Reads(toServer', Msg("DO", p), Msg("DONT", p), b) BY <1>2, <1>5, <3>1, Unrelated
      <3>3. Msg(outcome[2], o) # Msg("WILL", p) /\ Msg(outcome[2], o) # Msg("WONT", p) BY <1>6, MsgIs
      <3>4. outcome[2] \in Command \cup {"none"} BY <1>6 DEF Command
      <3>5. Reads(toPeer', Msg("WILL", p), Msg("WONT", p), a) BY <1>2, <1>3, <1>5, <3>1, <3>3, <3>4, SentOther
      <3> QED BY <3>0, <3>1, <3>2, <3>5 DEF OptInv
    <2> QED BY <1>2, <2>1 DEF OptionsInv
  <1>9. OfferInv'
    <2>1. Sent(outcome, o) \in Seq(Message) BY <1>3, <1>6, SentTyped
    <2>2. \A p \in Opt : Holds(toPeer, Msg("DONT", p)) => Holds(toPeer', Msg("DONT", p))
      BY <1>2, <1>5, <2>1, HoldsStays
    <2>3. \A p \in Opt \ harmed : Holds(toServer, Msg("WILL", p)) =>
            Holds(toServer', Msg("WILL", p)) \/ Holds(toPeer', Msg("DONT", p))
      <3> TAKE p \in Opt \ harmed
      <3> HAVE Holds(toServer, Msg("WILL", p))
      <3>1. CASE m = Msg("WILL", p)
        <4>1. m.cmd = "WILL" /\ p = o BY <3>1, MsgIs
        <4>2. outcome[2] = "DONT" /\ outcome[2] \in Command BY <1>4a, <1>6, <4>1 DEF Command
        <4>3. Msg("DONT", o) \in Message /\ toPeer' = Append(toPeer, Msg("DONT", o))
          BY <1>2, <1>3, <1>5, <4>2, SentIs
        <4> DEFINE d == Msg("DONT", o)
        <4> HIDE DEF d
        <4>4. d \in Message /\ toPeer' = Append(toPeer, d) BY <4>3 DEF d
        <4>5. Len(toPeer) + 1 \in DOMAIN toPeer' /\ toPeer'[Len(toPeer) + 1] = d BY <1>2, <4>4
        <4> QED BY <4>1, <4>5 DEF Holds, d
      <3>2. CASE m # Msg("WILL", p)
        <4>1. Holds(Tail(toServer), Msg("WILL", p)) BY <1>2, <3>2, HoldsStays
        <4> QED BY <1>2, <4>1
      <3> QED BY <3>1, <3>2
    <2> QED BY <1>1, <1>2, <1>7, <2>2, <2>3, OfferKept
  <1>10. WishInv'
    <2>1. Plain \subseteq Opt BY ConsoleOptsAssumption DEF Plain, Console
    <2> QED BY <1>1, <1>2, <1>7, <2>1 DEF WishInv
  <1> QED BY <1>7, <1>8, <1>9, <1>10 DEF Kept

\* The client reads WILL,
LEMMA ClientReadsWill ==
  ASSUME IInv, PeerWillArrives
  PROVE  Kept
  <1> DEFINE o == Head(toPeer).opt  p == peerHim[o]
  <1>1. /\ TypeOK /\ TableInv(q, harmed) /\ (reading => q # << >>) /\ OfferInv /\ WishInv
        /\ OptionsInv(q, harmed, toPeer, toServer, peerHim)
    BY DEF IInv
  <1>2. PICK refuse \in BOOLEAN :
          /\ refuse => o \in PeerRefuses
          /\ PeerAnswers(o, PeerOnWill(refuse)[p])
    BY DEF PeerWillArrives
  <1> DEFINE outcome == PeerOnWill(refuse)[p]
  <1>3. /\ toServer \in Seq(Message) /\ toPeer \in Seq(Message) /\ toPeer # << >>
        /\ toPeer' = Tail(toPeer) /\ UNCHANGED <<q, harmed, reading, peerUs>>
        /\ Head(toPeer).cmd = "WILL"
        /\ peerHim \in [Opt -> PeerState]
    BY <1>1, <1>2 DEF TypeOK, PeerWillArrives, PeerTakes, PeerAnswers, serverVars, PeerState
  <1>4. /\ peerHim' = [peerHim EXCEPT ![o] = outcome[1]]
        /\ toServer' = toServer \o Sent(outcome, o)
    BY <1>2 DEF PeerAnswers
  <1>5. o \in Opt /\ Head(toPeer) = Msg("WILL", o) /\ Tail(toPeer) \in Seq(Message) BY <1>3, HeadIs
  <1>9. p \in PeerState BY <1>3, <1>5
  <1> HIDE DEF p
  <1>10. outcome \in PeerState \X {"DO", "DONT", "none"}
    BY <1>9 DEF PeerOnWill, PeerState
  <1>11. ASSUME o \notin harmed
         PROVE  \E a, b \in Word :
                   /\ Reads(Tail(toPeer), Msg("WILL", o), Msg("WONT", o), a)
                   /\ Reads(toServer, Msg("DO", o), Msg("DONT", o), b)
                   /\ <<Get(q, o).us, outcome[1], a, After(b, ToServer(outcome[2]))>> \in Allowed(o)
    <2>1. PICK a, b \in Word : /\ Reads(toPeer, Msg("WILL", o), Msg("WONT", o), a)
                               /\ Reads(toServer, Msg("DO", o), Msg("DONT", o), b)
                               /\ <<Get(q, o).us, p, a, b>> \in Allowed(o)
      BY <1>1, <1>5, <1>11 DEF OptInv, OptionsInv, p
    <2>2. a \in {"on", "on_off"} /\ Reads(Tail(toPeer), Msg("WILL", o), Msg("WONT", o), Rest[a])
      <3>1. Msg("WILL", o) # Msg("WONT", o) BY MsgIs
      <3> QED BY <1>3, <1>5, <2>1, <3>1, TailOn
    <2>3. Rest[a] \in Word BY <2>2 DEF Rest, Word
    <2>4. <<Get(q, o).us, outcome[1], Rest[a], After(b, ToServer(outcome[2]))>> \in Allowed(o)
      BY <1>2, <1>5, <2>1, <2>2, AllowedClient
    <2> HIDE DEF outcome
    <2> QED BY <2>1, <2>2, <2>3, <2>4
  <1>13. \A n \in Opt \ {o} : \A w \in Word :
          Reads(toPeer, Msg("WILL", n), Msg("WONT", n), w) => Reads(Tail(toPeer), Msg("WILL", n), Msg("WONT", n), w)
    BY <1>3, Unrelated
  <1> HIDE DEF outcome
  <1>14. OptionsInv(q', harmed', toPeer', toServer', peerHim')
    <2> DEFINE tp2 == Tail(toPeer)  n == o
    <2>1. n \in Opt /\ tp2 \in Seq(Message) BY <1>5
    <2>2. n \notin harmed => \E a, b \in Word :
            /\ Reads(tp2, Msg("WILL", n), Msg("WONT", n), a)
            /\ Reads(toServer, Msg("DO", n), Msg("DONT", n), b)
            /\ <<Get(q, n).us, outcome[1], a, After(b, ToServer(outcome[2]))>> \in Allowed(n)
      BY <1>11
    <2>3. \A k \in Opt \ {n} : \A w \in Word :
            Reads(toPeer, Msg("WILL", k), Msg("WONT", k), w) => Reads(tp2, Msg("WILL", k), Msg("WONT", k), w)
      BY <1>13
    <2> HIDE DEF tp2, n
    <2>4. OptionsInv(q, harmed, tp2, toServer \o Sent(outcome, n), [peerHim EXCEPT ![n] = outcome[1]])
      BY <1>1, <1>3, <1>10, <2>1, <2>2, <2>3, ClientStep
    <2> QED BY <1>3, <1>4, <2>4 DEF tp2, n
  <1>16. OfferInv'
    <2>1. outcome \in Outcome BY <1>10 DEF Outcome, PeerState, QState, Command
    <2>2. Sent(outcome, o) \in Seq(Message) BY <1>5, <2>1, SentTyped
    <2>3. \A n \in Opt : Holds(toServer, Msg("WILL", n)) => Holds(toServer', Msg("WILL", n))
      BY <1>3, <1>4, <2>2, HoldsStays
    <2>4. \A n : Head(toPeer) # Msg("DONT", n) BY <1>5, MsgIs
    <2>5. \A n \in Opt : Holds(toPeer, Msg("DONT", n)) => Holds(toPeer', Msg("DONT", n))
      BY <1>3, <2>4, HoldsStays
    <2> QED BY <1>1, <1>3, <2>3, <2>5, OfferKept
  <1>17. WishInv' BY <1>1, <1>3 DEF WishInv
  <1>18. TableInv(q', harmed') /\ (reading' => q' # << >>) BY <1>1, <1>3
  <1> QED BY <1>14, <1>16, <1>17, <1>18 DEF Kept

\* WONT,
LEMMA ClientReadsWont ==
  ASSUME IInv, PeerWontArrives
  PROVE  Kept
  <1> DEFINE o == Head(toPeer).opt  p == peerHim[o]  outcome == PeerOnWont[p]
  <1>1. /\ TypeOK /\ TableInv(q, harmed) /\ (reading => q # << >>) /\ OfferInv /\ WishInv
        /\ OptionsInv(q, harmed, toPeer, toServer, peerHim)
    BY DEF IInv
  <1>2. PeerAnswers(o, outcome) BY DEF PeerWontArrives
  <1>3. /\ toServer \in Seq(Message) /\ toPeer \in Seq(Message) /\ toPeer # << >>
        /\ toPeer' = Tail(toPeer) /\ UNCHANGED <<q, harmed, reading, peerUs>>
        /\ Head(toPeer).cmd = "WONT"
        /\ peerHim \in [Opt -> PeerState]
    BY <1>1, <1>2 DEF TypeOK, PeerWontArrives, PeerTakes, PeerAnswers, serverVars, PeerState
  <1>4. /\ peerHim' = [peerHim EXCEPT ![o] = outcome[1]]
        /\ toServer' = toServer \o Sent(outcome, o)
    BY <1>2 DEF PeerAnswers
  <1>5. o \in Opt /\ Head(toPeer) = Msg("WONT", o) /\ Tail(toPeer) \in Seq(Message) BY <1>3, HeadIs
  <1>9. p \in PeerState BY <1>3, <1>5
  <1> HIDE DEF p
  <1>10. outcome \in PeerState \X {"DO", "DONT", "none"} /\ outcome[1] = "NO"
    BY <1>9 DEF PeerOnWont, PeerState
  <1>11. ASSUME o \notin harmed
         PROVE  \E a, b \in Word :
                   /\ Reads(Tail(toPeer), Msg("WILL", o), Msg("WONT", o), a)
                   /\ Reads(toServer, Msg("DO", o), Msg("DONT", o), b)
                   /\ <<Get(q, o).us, outcome[1], a, After(b, ToServer(outcome[2]))>> \in Allowed(o)
    <2>1. PICK a, b \in Word : /\ Reads(toPeer, Msg("WILL", o), Msg("WONT", o), a)
                               /\ Reads(toServer, Msg("DO", o), Msg("DONT", o), b)
                               /\ <<Get(q, o).us, p, a, b>> \in Allowed(o)
      BY <1>1, <1>5, <1>11 DEF OptInv, OptionsInv, p
    <2>2. a \in {"off", "off_on"} /\ Reads(Tail(toPeer), Msg("WILL", o), Msg("WONT", o), Rest[a])
      <3>1. Msg("WILL", o) # Msg("WONT", o) BY MsgIs
      <3> QED BY <1>3, <1>5, <2>1, <3>1, TailOff
    <2>3. Rest[a] \in Word BY <2>2 DEF Rest, Word
    <2>4. <<Get(q, o).us, outcome[1], Rest[a], After(b, ToServer(outcome[2]))>> \in Allowed(o)
      BY <1>5, <2>1, <2>2, AllowedClient
    <2> HIDE DEF outcome
    <2> QED BY <2>1, <2>2, <2>3, <2>4
  <1>13. \A n \in Opt \ {o} : \A w \in Word :
          Reads(toPeer, Msg("WILL", n), Msg("WONT", n), w) => Reads(Tail(toPeer), Msg("WILL", n), Msg("WONT", n), w)
    BY <1>3, Unrelated
  <1> HIDE DEF outcome
  <1>14. OptionsInv(q', harmed', toPeer', toServer', peerHim')
    <2> DEFINE tp2 == Tail(toPeer)  n == o
    <2>1. n \in Opt /\ tp2 \in Seq(Message) BY <1>5
    <2>2. n \notin harmed => \E a, b \in Word :
            /\ Reads(tp2, Msg("WILL", n), Msg("WONT", n), a)
            /\ Reads(toServer, Msg("DO", n), Msg("DONT", n), b)
            /\ <<Get(q, n).us, outcome[1], a, After(b, ToServer(outcome[2]))>> \in Allowed(n)
      BY <1>11
    <2>3. \A k \in Opt \ {n} : \A w \in Word :
            Reads(toPeer, Msg("WILL", k), Msg("WONT", k), w) => Reads(tp2, Msg("WILL", k), Msg("WONT", k), w)
      BY <1>13
    <2> HIDE DEF tp2, n
    <2>4. OptionsInv(q, harmed, tp2, toServer \o Sent(outcome, n), [peerHim EXCEPT ![n] = outcome[1]])
      BY <1>1, <1>3, <1>10, <2>1, <2>2, <2>3, ClientStep
    <2> QED BY <1>3, <1>4, <2>4 DEF tp2, n
  <1>16. OfferInv'
    <2>1. outcome \in Outcome BY <1>10 DEF Outcome, PeerState, QState, Command
    <2>2. Sent(outcome, o) \in Seq(Message) BY <1>5, <2>1, SentTyped
    <2>3. \A n \in Opt : Holds(toServer, Msg("WILL", n)) => Holds(toServer', Msg("WILL", n))
      BY <1>3, <1>4, <2>2, HoldsStays
    <2>4. \A n : Head(toPeer) # Msg("DONT", n) BY <1>5, MsgIs
    <2>5. \A n \in Opt : Holds(toPeer, Msg("DONT", n)) => Holds(toPeer', Msg("DONT", n))
      BY <1>3, <2>4, HoldsStays
    <2> QED BY <1>1, <1>3, <2>3, <2>5, OfferKept
  <1>17. WishInv' BY <1>1, <1>3 DEF WishInv
  <1>18. TableInv(q', harmed') /\ (reading' => q' # << >>) BY <1>1, <1>3
  <1> QED BY <1>14, <1>16, <1>17, <1>18 DEF Kept

\* or DONT.
LEMMA ClientReadsDont ==
  ASSUME IInv, PeerDontArrives
  PROVE  Kept
  <1> DEFINE o == Head(toPeer).opt
  <1>1. /\ TypeOK /\ TableInv(q, harmed) /\ (reading => q # << >>) /\ OfferInv /\ WishInv
        /\ OptionsInv(q, harmed, toPeer, toServer, peerHim)
    BY DEF IInv
  <1>2. /\ toPeer \in Seq(Message) /\ toPeer # << >> /\ Head(toPeer).cmd = "DONT"
        /\ toPeer' = Tail(toPeer) /\ UNCHANGED <<q, harmed, reading, toServer, peerHim>>
        /\ peerUs' = [peerUs EXCEPT ![o] = "NO"] /\ peerUs \in [Opt -> PeerState]
    BY <1>1 DEF TypeOK, PeerDontArrives, PeerTakes, serverVars, PeerState
  <1>3. o \in Opt /\ Head(toPeer) = Msg("DONT", o) BY <1>2, HeadIs
  <1>4. OptionsInv(q', harmed', toPeer', toServer', peerHim')
    BY <1>1, <1>2, Unrelated DEF OptionsInv, OptInv
  <1>5. ASSUME NEW n \in Opt \ harmed
        PROVE  /\ peerUs'[n] \in {"NO", "WANTYES"}
               /\ peerUs'[n] = "WANTYES" =>
                     Holds(toServer', Msg("WILL", n)) \/ Holds(toPeer', Msg("DONT", n))
    <2>1. CASE n = o BY <1>2, <1>3, <2>1
    <2>2. CASE n # o
      <3>1. peerUs'[n] = peerUs[n] BY <1>2, <2>2
      <3>2. Head(toPeer) # Msg("DONT", n) BY <1>3, <2>2, MsgIs
      <3>3. Holds(toPeer, Msg("DONT", n)) => Holds(toPeer', Msg("DONT", n)) BY <1>2, <3>2, HoldsStays
      <3> QED BY <1>1, <1>2, <3>1, <3>3 DEF OfferInv
    <2> QED BY <2>1, <2>2
  <1>6. OfferInv' BY <1>2, <1>5 DEF OfferInv
  <1> QED BY <1>1, <1>2, <1>4, <1>6 DEF Kept, WishInv

\* The client asks the server to perform an option, or to stop,
LEMMA ClientAsks ==
  ASSUME IInv, NEW o \in PeerDo, PeerAsksHim(o)
  PROVE  Kept
  <1>0. o \in Opt BY OptAssumption
  <1>1. /\ TypeOK /\ TableInv(q, harmed) /\ (reading => q # << >>) /\ OfferInv /\ WishInv
        /\ OptionsInv(q, harmed, toPeer, toServer, peerHim)
    BY DEF IInv
  <1>2. /\ toServer \in Seq(Message) /\ toPeer \in Seq(Message) /\ peerHim \in [Opt -> PeerState]
        /\ UNCHANGED <<q, harmed, reading, toPeer, peerUs>>
    BY <1>1 DEF TypeOK, PeerAsksHim, serverVars, PeerState
  <1>3. PICK outcome \in {<<"WANTYES", "DO">>, <<"WANTNO", "DONT">>} :
          /\ outcome[2] = "DO" => peerHim[o] = "NO"
          /\ outcome[2] = "DONT" => peerHim[o] = "YES"
          /\ peerHim' = [peerHim EXCEPT ![o] = outcome[1]]
          /\ toServer' = Append(toServer, Msg(outcome[2], o))
    <2>1. CASE peerHim[o] = "NO" BY <2>1, Zenon DEF PeerAsksHim
    <2>2. CASE peerHim[o] = "YES" BY <2>2, Zenon DEF PeerAsksHim
    <2> QED BY <2>1, <2>2 DEF PeerAsksHim
  <1>5. /\ outcome \in PeerState \X {"DO", "DONT", "none"} /\ outcome \in Outcome
        /\ outcome[2] \in Command \cup {"none"} /\ outcome[2] # "none"
    BY <1>3 DEF PeerState, Outcome, QState, Command
  <1>6. ASSUME o \notin harmed
        PROVE  \E a, b \in Word :
                  /\ Reads(toPeer, Msg("WILL", o), Msg("WONT", o), a)
                  /\ Reads(toServer, Msg("DO", o), Msg("DONT", o), b)
                  /\ <<Get(q, o).us, outcome[1], a, After(b, ToServer(outcome[2]))>> \in Allowed(o)
    <2>1. PICK a, b \in Word : /\ Reads(toPeer, Msg("WILL", o), Msg("WONT", o), a)
                               /\ Reads(toServer, Msg("DO", o), Msg("DONT", o), b)
                               /\ <<Get(q, o).us, peerHim[o], a, b>> \in Allowed(o)
      BY <1>0, <1>1, <1>6 DEF OptInv, OptionsInv
    <2>2. CASE outcome[2] = "DO"
      <3>1. outcome[1] = "WANTYES" /\ ToServer(outcome[2]) = "on" /\ peerHim[o] = "NO"
        BY <1>3, <2>2 DEF ToServer
      <3>2. <<Get(q, o).us, "WANTYES", a, After(b, "on")>> \in Allowed(o)
        BY <1>0, <2>1, <3>1, AllowedClient
      <3> QED BY <2>1, <3>1, <3>2
    <2>3. CASE outcome[2] = "DONT"
      <3>1. outcome[1] = "WANTNO" /\ ToServer(outcome[2]) = "off" /\ peerHim[o] = "YES"
        BY <1>3, <2>3 DEF ToServer
      <3>2. <<Get(q, o).us, "WANTNO", a, After(b, "off")>> \in Allowed(o)
        BY <1>0, <2>1, <3>1, AllowedClient
      <3> QED BY <2>1, <3>1, <3>2
    <2> QED BY <1>3, <2>2, <2>3
  <1>7. toServer' = toServer \o Sent(outcome, o) BY <1>0, <1>2, <1>3, <1>5, SentIs
  <1>8. OptionsInv(q, harmed, toPeer, toServer \o Sent(outcome, o), [peerHim EXCEPT ![o] = outcome[1]])
    BY <1>0, <1>1, <1>2, <1>5, <1>6, ClientStep
  <1>10. OfferInv'
    <2>1. Sent(outcome, o) \in Seq(Message) BY <1>0, <1>5, SentTyped
    <2>2. \A n \in Opt : Holds(toServer, Msg("WILL", n)) => Holds(toServer', Msg("WILL", n))
      BY <1>2, <1>7, <2>1, HoldsStays
    <2> QED BY <1>1, <1>2, <2>2, OfferKept
  <1> QED BY <1>1, <1>2, <1>3, <1>7, <1>8, <1>10 DEF Kept, WishInv

\* or speaks of one of its own.
LEMMA ClientOffers ==
  ASSUME IInv, NEW o \in PeerWill, PeerOffers(o) \/ PeerDeclines(o)
  PROVE  Kept
  <1>0. o \in Opt BY OptAssumption
  <1>1. /\ TypeOK /\ TableInv(q, harmed) /\ (reading => q # << >>) /\ OfferInv /\ WishInv
        /\ OptionsInv(q, harmed, toPeer, toServer, peerHim)
    BY DEF IInv
  <1>2. /\ toServer \in Seq(Message) /\ peerUs \in [Opt -> PeerState]
        /\ UNCHANGED <<q, harmed, reading, toPeer, peerHim>>
    BY <1>1 DEF TypeOK, PeerOffers, PeerDeclines, serverVars, PeerState
  <1>3. PICK cmd \in {"WILL", "WONT"} :
          /\ toServer' = Append(toServer, Msg(cmd, o))
          /\ peerUs' = IF cmd = "WILL" THEN [peerUs EXCEPT ![o] = "WANTYES"] ELSE peerUs
    <2>1. CASE PeerOffers(o)
      <3>1. toServer' = Append(toServer, Msg("WILL", o)) /\ peerUs' = [peerUs EXCEPT ![o] = "WANTYES"]
        BY <2>1 DEF PeerOffers
      <3> QED BY <3>1
    <2>2. CASE PeerDeclines(o)
      <3>1. toServer' = Append(toServer, Msg("WONT", o)) /\ peerUs' = peerUs
        BY <2>2 DEF PeerDeclines
      <3> QED BY <3>1
    <2> QED BY <2>1, <2>2
  <1> DEFINE m == Msg(cmd, o)
  <1>4. m \in Message BY <1>0 DEF Msg, Message, Command
  <1>5. \A n : m # Msg("DO", n) /\ m # Msg("DONT", n) BY MsgIs
  <1>6. OptionsInv(q', harmed', toPeer', toServer', peerHim')
    <2>1. ASSUME NEW n \in Opt \ harmed PROVE OptInv(q, toPeer, toServer', peerHim, n)
      <3>1. PICK a, b \in Word : /\ Reads(toPeer, Msg("WILL", n), Msg("WONT", n), a)
                                 /\ Reads(toServer, Msg("DO", n), Msg("DONT", n), b)
                                 /\ <<Get(q, n).us, peerHim[n], a, b>> \in Allowed(n)
        BY <1>1 DEF OptInv, OptionsInv
      <3> HIDE DEF m
      <3>2. Reads(Append(toServer, m), Msg("DO", n), Msg("DONT", n), b)
        BY <1>2, <1>4, <1>5, <3>1, AppendOther
      <3> QED BY <1>3, <3>1, <3>2 DEF OptInv, m
    <2> QED BY <1>2, <2>1 DEF OptionsInv
  <1>7. \A x : Holds(toServer, x) \/ x = m => Holds(toServer', x)
    <2> HIDE DEF m
    <2>1. toServer' = Append(toServer, m) BY <1>3 DEF m
    <2>2. \A i \in DOMAIN toServer : i \in DOMAIN toServer' /\ toServer'[i] = toServer[i]
      BY <1>2, <1>4, <2>1
    <2>3. Len(toServer) + 1 \in DOMAIN toServer' /\ toServer'[Len(toServer) + 1] = m
      BY <1>2, <1>4, <2>1
    <2> QED BY <2>2, <2>3 DEF Holds
  <1>8. ASSUME NEW n \in Opt \ harmed
        PROVE  /\ peerUs'[n] \in {"NO", "WANTYES"}
               /\ peerUs'[n] = "WANTYES" =>
                     Holds(toServer', Msg("WILL", n)) \/ Holds(toPeer', Msg("DONT", n))
    <2>1. CASE n = o /\ cmd = "WILL"
      <3>1. peerUs'[n] = "WANTYES" BY <1>0, <1>2, <1>3, <2>1
      <3>2. Holds(toServer', Msg("WILL", n)) BY <1>7, <2>1
      <3> QED BY <3>1, <3>2
    <2>2. CASE n # o \/ cmd # "WILL"
      <3>1. peerUs'[n] = peerUs[n] BY <1>0, <1>2, <1>3, <2>2
      <3> QED BY <1>1, <1>2, <1>7, <3>1 DEF OfferInv
    <2> QED BY <2>1, <2>2
  <1>9. OfferInv' BY <1>2, <1>8 DEF OfferInv
  <1> QED BY <1>1, <1>2, <1>6, <1>9 DEF Kept, WishInv

\* The console's own requests
LEMMA ConsoleAsks ==
  ASSUME IInv, SetFlags \/ UnsetFlags
  PROVE  Kept
  <1>1. TypeOK /\ OfferInv /\ (reading => q # << >>) BY DEF IInv
  <1>2. PICK ask \in {AskWill, AskWont} :
          NegotiateBoth(ask) /\ (reading' <=> ask = AskWill) /\ (ask = AskWill \/ q # << >>)
    <2>1. AskWill # AskWont
      <3>1. AskWill["NO"][1] = "WANTYES" /\ AskWont["NO"][1] = "NO" BY DEF AskWill, AskWont
      <3> QED BY <3>1
    <2>2. CASE SetFlags BY <2>2 DEF SetFlags
    <2>3. CASE UnsetFlags BY <1>1, <2>1, <2>3 DEF UnsetFlags
    <2> QED BY <2>2, <2>3
  <1>3. UNCHANGED <<toServer, peerHim, peerUs>> BY DEF SetFlags, UnsetFlags, peerVars
  <1>4. /\ TableInv(q', harmed') /\ q' # << >> /\ harmed \subseteq harmed'
        /\ OptionsInv(q', harmed', toPeer', toServer, peerHim)
        /\ \A o \in Console \ harmed' : Get(q', o).us \in On <=> ask = AskWill
        /\ \A m : Holds(toPeer, m) => Holds(toPeer', m)
    BY <1>2, NegotiateFacts
  <1>5. WishInv' BY <1>2, <1>4 DEF WishInv, Plain
  <1>6. OfferInv' BY <1>1, <1>3, <1>4, OfferKept
  <1> QED BY <1>3, <1>4, <1>5, <1>6 DEF Kept

-----------------------------------------------------------------------------
\* A session starts with every option off at both ends.
LEMMA InitKept == Init => IInv
  <1> SUFFICES ASSUME Init PROVE IInv OBVIOUS
  <1>1. TypeOK
    <2>1. << >> \in Seq(Entry) /\ Len(<< >>) % 4 = 0 /\ << >> \in Seq(Message) OBVIOUS
    <2>2. [o \in Opt |-> "NO"] \in [Opt -> {"NO", "YES", "WANTNO", "WANTYES"}] OBVIOUS
    <2>3. 0 \in 0 .. MaxLines /\ 0 \in 0 .. MaxAsks BY BoundsAssumption
    <2> QED BY <2>1, <2>2, <2>3 DEF Init, TypeOK
  <1>2. q = << >> /\ toPeer = << >> /\ toServer = << >> /\ reading = FALSE /\ harmed = {}
        /\ \A o \in Opt : peerHim[o] = "NO" /\ peerUs[o] = "NO"
    BY DEF Init
  <1>4. \A o \in Opt : Get(q, o).us = "NO" /\ Get(q, o).him = "NO"
    <2>1. DOMAIN q = {} BY <1>2
    <2> QED BY <2>1 DEF Get, Tracked
  <1>3. TableInv(q, harmed)
    <2>1. q \in Seq(Entry) BY <1>2
    <2> QED BY <1>2, <1>4, <2>1 DEF TableInv
  <1>5. OptionsInv(q, harmed, toPeer, toServer, peerHim)
    <2> SUFFICES ASSUME NEW o \in Opt PROVE OptInv(q, toPeer, toServer, peerHim, o)
      BY DEF OptionsInv
    <2>1. <<"NO", "NO", "none", "none">> \in Allowed(o) BY DEF Allowed, Quiet, Exchange
    <2>2. \A x, y : Reads(<< >>, x, y, "none")
      <3>1. DOMAIN << >> = {} OBVIOUS
      <3> QED BY <3>1 DEF Reads, Holds, Once
    <2>3. "none" \in Word BY DEF Word
    <2> QED BY <1>2, <1>4, <2>1, <2>2, <2>3 DEF OptInv
  <1>6. OfferInv BY <1>2 DEF OfferInv
  <1>7. WishInv
    <2>1. Plain \subseteq Opt BY ConsoleOptsAssumption DEF Plain, Console
    <2> QED BY <1>2, <1>4, <2>1 DEF WishInv, On
  <1> QED BY <1>1, <1>2, <1>3, <1>5, <1>6, <1>7 DEF IInv

\* One step per action
LEMMA NextKept ==
  ASSUME WantsNothing, IInv, [Next]_vars
  PROVE  IInv'
  <1>1. TypeOK' BY TypePreserved DEF IInv
  <1>2. Kept
    <2>1. CASE SetFlags \/ UnsetFlags BY <2>1, ConsoleAsks
    <2>2. CASE ServerDo \/ ServerDont BY <2>2, ServerReadsUs
    <2>3. CASE ServerWill \/ ServerWont BY <2>3, ServerReadsHim
    <2>4. CASE PeerWillArrives BY <2>4, ClientReadsWill
    <2>5. CASE PeerWontArrives BY <2>5, ClientReadsWont
    <2>6. CASE PeerDontArrives BY <2>6, ClientReadsDont
    <2>7. CASE \E o \in PeerDo : PeerAsksHim(o) BY <2>7, ClientAsks
    <2>8. CASE \E o \in PeerWill : PeerOffers(o) \/ PeerDeclines(o) BY <2>8, ClientOffers
    <2>9. CASE UNCHANGED vars
      BY <2>9 DEF vars, IInv, Kept, OfferInv, WishInv
    <2> QED BY <2>1, <2>2, <2>3, <2>4, <2>5, <2>6, <2>7, <2>8, <2>9 DEF Next
  <1> QED BY <1>1, <1>2 DEF Kept, IInv

\* What is intact is what has not been harmed, ECHO among it.
LEMMA IntactIs ==
  ASSUME IInv
  PROVE  Intact = Opt \ harmed
  BY ConsoleOptsAssumption DEF IInv, TableInv, Intact

\* When nothing is under way both ends see every unharmed option the same way.
LEMMA IdleFacts ==
  ASSUME IInv, Idle, NEW o \in Opt \ harmed
  PROVE  AgreedOn(o)
  <1>1. PICK a, b \in Word : /\ Reads(toPeer, Msg("WILL", o), Msg("WONT", o), a)
                             /\ Reads(toServer, Msg("DO", o), Msg("DONT", o), b)
                             /\ <<Get(q, o).us, peerHim[o], a, b>> \in Allowed(o)
    BY DEF IInv, OptionsInv, OptInv
  <1>2. DOMAIN toPeer = {} /\ DOMAIN toServer = {} BY DEF Idle
  <1>3. \A m : ~Holds(toPeer, m) /\ ~Holds(toServer, m) BY <1>2 DEF Holds
  <1>4. a = "none" /\ b = "none" BY <1>1, <1>3 DEF Reads, Word
  <1>5. <<Get(q, o).us, peerHim[o], "none", "none">> \in Exchange BY <1>1, <1>4, AllowedTyped
  <1>6. Get(q, o).us = peerHim[o] /\ peerHim[o] \in {"NO", "YES"} BY <1>5 DEF Exchange
  <1>7. Get(q, o).him = "NO" BY DEF IInv, TableInv
  <1>8. peerUs[o] = "NO" BY <1>3 DEF IInv, OfferInv
  <1> QED BY <1>6, <1>7, <1>8 DEF AgreedOn

\* Provided the server wants no option of the client's, as the console's
\* my_telopts says, both ends agree whenever nothing is under way, however
\* their requests crossed, whatever options the client asks for and whatever
\* the memory of the table held: on ECHO always, on any other option as long as
\* growing the table has not harmed its entry.
THEOREM BothEndsAgree ==
  ASSUME WantsNothing
  PROVE  Spec => []Agreement
  <1>1. Init => IInv BY InitKept
  <1>2. IInv /\ [Next]_vars => IInv' BY NextKept
  <1>3. IInv => Agreement BY IntactIs, IdleFacts DEF Agreement
  <1> QED BY <1>1, <1>2, <1>3, PTL DEF Spec

\* And with a client that has no wishes of its own for an option, the server
\* then performs ECHO, and SGA unless its entry was harmed, exactly while it
\* reads a line.
THEOREM ConsoleHasLastWord ==
  ASSUME WantsNothing
  PROVE  Spec => []LastRequestWins
  <1>1. Init => IInv BY InitKept
  <1>2. IInv /\ [Next]_vars => IInv' BY NextKept
  <1>3. IInv => LastRequestWins
    <2> SUFFICES ASSUME IInv, Idle, NEW i \in {1, 2},
                        ConsoleOpts[i] \in Intact \ (PeerDo \cup PeerRefuses)
                 PROVE  Get(q, ConsoleOpts[i]).us = "YES" <=> reading
      BY DEF LastRequestWins
    <2> DEFINE o == ConsoleOpts[i]
    <2>1. o \in Plain \ harmed /\ o \in Opt \ harmed
      BY IntactIs, ConsoleOptsAssumption DEF Plain, Console
    <2> HIDE DEF o
    <2>2. Get(q, o).us \in {"NO", "YES"} BY <2>1, IdleFacts DEF AgreedOn
    <2>3. Get(q, o).us \in On <=> reading BY <2>1 DEF IInv, WishInv
    <2> QED BY <2>2, <2>3 DEF On, o
  <1> QED BY <1>1, <1>2, <1>3, PTL DEF Spec
=============================================================================
