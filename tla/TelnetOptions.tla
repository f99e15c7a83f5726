--------------------------- MODULE TelnetOptions ---------------------------
(***************************************************************************)
(* Telnet option negotiation of one session: the RFC 1143 state table of   *)
(* TcpShell/libtelnet.c, driven by the console (console_setflags,          *)
(* console_unsetflags, console_getchar) on one side and by the commands    *)
(* that arrive from the client on the other.                               *)
(*                                                                         *)
(* The table q is an array of slots that grows by four for every option    *)
(* that needs one.  Growing copies only half of the old table, and in the  *)
(* other half a slot then holds what the heap block held before: any       *)
(* option, in any state.  Both lookups search those slots too, before the  *)
(* new one.                                                                *)
(*                                                                         *)
(* The table's memory is taken to be there (pvPortMalloc succeeds) and the *)
(* connection to take what is sent.                                        *)
(*                                                                         *)
(* The client is external: a well-behaved one that keeps RFC 1143 states   *)
(* without queued requests.                                                *)
(***************************************************************************)
EXTENDS Naturals, Sequences, FiniteSets

CONSTANTS
    Opt,         \* telnet options that occur
    ConsoleOpts, \* those of console_setflags, in order (ECHO, SGA)
    UsWill,      \* options with us = TELNET_WILL in my_telopts
    HimDo,       \* options with him = TELNET_DO in my_telopts
    PeerDo,      \* options the client may ask the server to turn on or off
    PeerWill,    \* options the client offers to perform itself
    PeerRefuses, \* options the client may not want the server to perform
    Heap,        \* slots as uninitialised memory may hold them
    MaxLines,    \* bound on the applications that run (mostly, lines read)
    MaxAsks      \* bound on the requests the client starts itself

ASSUME OptAssumption ==
    /\ IsFiniteSet(Opt) /\ "other" \notin Opt
    /\ UsWill \subseteq Opt /\ HimDo \subseteq Opt
    /\ PeerDo \subseteq Opt /\ PeerWill \subseteq Opt /\ PeerRefuses \subseteq Opt
ASSUME ConsoleOptsAssumption == ConsoleOpts \in Opt \X Opt /\ ConsoleOpts[1] # ConsoleOpts[2]
ASSUME BoundsAssumption == MaxLines \in Nat /\ MaxAsks \in Nat

VARIABLES
    q,        \* telnet->q: Seq of slots
    harmed,   \* history: options whose entry got lost or forged in growing
    reading,  \* whether the console is between setflags and unsetflags
    lines,    \* how often unsetflags has been called
    toPeer,   \* commands on their way to the client
    toServer, \* commands on their way to the server
    peerHim,  \* the client's view of what the server performs
    peerUs,   \* the client's view of what it performs itself
    asks      \* requests the client has started

serverVars == <<q, harmed, reading, lines>>
peerVars == <<peerHim, peerUs, asks>>
vars == <<q, harmed, reading, lines, toPeer, toServer, peerHim, peerUs, asks>>

\* "junk": one of the ten values of four bits that no case of a switch names
QState == {"NO", "YES", "WANTNO", "WANTYES", "WANTNO_OP", "WANTYES_OP", "junk"}
Command == {"WILL", "WONT", "DO", "DONT"}
Entry == [opt : Opt \cup {"other"}, us : QState, him : QState]
Zero == [opt |-> "other", us |-> "NO", him |-> "NO"] \* telopt 0, BINARY
Message == [cmd : Command, opt : Opt]

Msg(cmd, o) == [cmd |-> cmd, opt |-> o]

ASSUME HeapAssumption == Heap \subseteq Entry /\ Heap # {}

-----------------------------------------------------------------------------
(***************************************************************************)
(* The table.                                                              *)
(***************************************************************************)
Tracked(tab, o) == \E k \in DOMAIN tab : tab[k].opt = o

\* The first entry of the option
Slot(tab, o) ==
    CHOOSE k \in DOMAIN tab : tab[k].opt = o /\ \A j \in 1 .. k - 1 : tab[j].opt # o

\* _get_rfc1143
Get(tab, o) ==
    IF Tracked(tab, o) THEN tab[Slot(tab, o)]
                       ELSE [opt |-> o, us |-> "NO", him |-> "NO"]

\* The memcpy of _set_rfc1143 copies q_size bytes, and a slot has two.
Copied(tab) == 1 .. Len(tab) \div 2

Grown(tab, stale, e) ==
    [k \in DOMAIN tab |-> IF k \in Copied(tab) THEN tab[k] ELSE stale[k]]
        \o <<e, Zero, Zero, Zero>>

\* _set_rfc1143: the tables that may result
Set(tab, o, us, him) ==
    LET e == [opt |-> o, us |-> us, him |-> him]
    IN  IF Tracked(tab, o)
          THEN {[tab EXCEPT ![Slot(tab, o)] = e]}
          ELSE {Grown(tab, stale, e) : stale \in [DOMAIN tab \ Copied(tab) -> Heap]}

\* The options that have no slot in the copied half and had one in the other,
\* or find one there now
Harmed(tab, new) ==
    {o \in Opt :
        /\ Len(new) > Len(tab)
        /\ \E k \in Len(tab) \div 2 + 1 .. Len(tab) : o \in {tab[k].opt, new[k].opt}
        /\ \A k \in 1 .. Len(tab) \div 2 : tab[k].opt # o}

(***************************************************************************)
(* _negotiate and telnet_negotiate: for each state the next one and what   *)
(* is sent.  A state that the code's switch does not name stays.           *)
(***************************************************************************)
OnWill(o) ==
    [NO         |-> IF o \in HimDo THEN <<"YES", "DO">> ELSE <<"NO", "DONT">>,
     YES        |-> <<"YES", "none">>,
     WANTNO     |-> <<"NO", "none">>,
     WANTNO_OP  |-> <<"YES", "none">>,
     WANTYES    |-> <<"YES", "none">>,
     WANTYES_OP |-> <<"WANTNO", "DONT">>,
     junk       |-> <<"junk", "none">>]

OnWont ==
    [NO         |-> <<"NO", "none">>,
     YES        |-> <<"NO", "DONT">>,
     WANTNO     |-> <<"NO", "none">>,
     WANTNO_OP  |-> <<"WANTYES", "none">>,
     WANTYES    |-> <<"NO", "none">>,
     WANTYES_OP |-> <<"NO", "none">>,
     junk       |-> <<"junk", "none">>]

OnDo(o) ==
    [NO         |-> IF o \in UsWill THEN <<"YES", "WILL">> ELSE <<"NO", "WONT">>,
     YES        |-> <<"YES", "none">>,
     WANTNO     |-> <<"NO", "none">>,
     WANTNO_OP  |-> <<"YES", "none">>,
     WANTYES    |-> <<"YES", "none">>,
     WANTYES_OP |-> <<"WANTNO", "WONT">>,
     junk       |-> <<"junk", "none">>]

\* mutant: a refusal is answered by asking again
OnDontInsist ==
    [NO         |-> <<"NO", "none">>,
     YES        |-> <<"NO", "WONT">>,
     WANTNO     |-> <<"NO", "none">>,
     WANTNO_OP  |-> <<"WANTYES", "WILL">>,
     WANTYES    |-> <<"WANTYES", "WILL">>,
     WANTYES_OP |-> <<"NO", "none">>,
     junk       |-> <<"junk", "none">>]

\* mutant: the WILL that waited for the answer to WONT is not sent
OnDontForgetsWill ==
    [NO         |-> <<"NO", "none">>,
     YES        |-> <<"NO", "WONT">>,
     WANTNO     |-> <<"NO", "none">>,
     WANTNO_OP  |-> <<"WANTYES", "none">>,
     WANTYES    |-> <<"NO", "none">>,
     WANTYES_OP |-> <<"NO", "none">>,
     junk       |-> <<"junk", "none">>]

OnDont ==
    [NO         |-> <<"NO", "none">>,
     YES        |-> <<"NO", "WONT">>,
     WANTNO     |-> <<"NO", "none">>,
     WANTNO_OP  |-> <<"WANTYES", "WILL">>,
     WANTYES    |-> <<"NO", "none">>,
     WANTYES_OP |-> <<"NO", "none">>,
     junk       |-> <<"junk", "none">>]

\* mutant: a request made while WONT is unanswered is dropped
AskWillUnqueued ==
    [NO         |-> <<"WANTYES", "WILL">>,
     YES        |-> <<"YES", "none">>,
     WANTNO     |-> <<"WANTNO", "none">>,
     WANTNO_OP  |-> <<"WANTNO_OP", "none">>,
     WANTYES    |-> <<"WANTYES", "none">>,
     WANTYES_OP |-> <<"WANTYES", "none">>,
     junk       |-> <<"junk", "none">>]

AskWill ==
    [NO         |-> <<"WANTYES", "WILL">>,
     YES        |-> <<"YES", "none">>,
     WANTNO     |-> <<"WANTNO_OP", "none">>,
     WANTNO_OP  |-> <<"WANTNO_OP", "none">>,
     WANTYES    |-> <<"WANTYES", "none">>,
     WANTYES_OP |-> <<"WANTYES", "none">>,
     junk       |-> <<"junk", "none">>]

AskWont ==
    [NO         |-> <<"NO", "none">>,
     YES        |-> <<"WANTNO", "WONT">>,
     WANTNO     |-> <<"WANTNO", "none">>,
     WANTNO_OP  |-> <<"WANTNO", "none">>,
     WANTYES    |-> <<"WANTYES_OP", "none">>,
     WANTYES_OP |-> <<"WANTYES_OP", "none">>,
     junk       |-> <<"junk", "none">>]

\* mutant: something is sent even when there is nothing to say
SentAlways(outcome, o) == <<Msg(outcome[2], o)>>

\* What is sent, as a sequence of no or one command
Sent(outcome, o) == IF outcome[2] = "none" THEN << >> ELSE <<Msg(outcome[2], o)>>

\* The table is only written when the state changes.
UsStep(tab, o, outcome) ==
    IF outcome[1] = Get(tab, o).us THEN {tab}
      ELSE Set(tab, o, outcome[1], Get(tab, o).him)

HimStep(tab, o, outcome) ==
    IF outcome[1] = Get(tab, o).him THEN {tab}
      ELSE Set(tab, o, Get(tab, o).us, outcome[1])

-----------------------------------------------------------------------------
Init ==
    /\ q = << >> /\ harmed = {} /\ reading = FALSE /\ lines = 0
    /\ toPeer = << >> /\ toServer = << >>
    /\ peerHim = [o \in Opt |-> "NO"] /\ peerUs = [o \in Opt |-> "NO"]
    /\ asks = 0

\* telnet_negotiate for both console options, first ECHO, then SGA
NegotiateBoth(ask) ==
    LET e == ConsoleOpts[1]
        s == ConsoleOpts[2]
    IN  \E tab \in UsStep(q, e, ask[Get(q, e).us]) :
          /\ q' \in UsStep(tab, s, ask[Get(tab, s).us])
          /\ harmed' = harmed \cup Harmed(q, tab) \cup Harmed(tab, q')
          /\ toPeer' = toPeer \o Sent(ask[Get(q, e).us], e) \o Sent(ask[Get(tab, s).us], s)

\* console_setflags: ShellAppRun and LogonAppRun before a prompt, the
\* printing commands before they print
SetFlags ==
    /\ ~reading
    /\ reading' = TRUE
    /\ NegotiateBoth(AskWill)
    /\ UNCHANGED <<lines, toServer, peerVars>>

\* console_unsetflags, after a line was read or the printing is done.
\* (BeepAppRun calls it once more, which changes nothing: AskWont leaves all
\* the states it leads to.)
UnsetFlags ==
    /\ reading /\ lines < MaxLines
    /\ reading' = FALSE /\ lines' = lines + 1
    /\ NegotiateBoth(AskWont)
    /\ UNCHANGED <<toServer, peerVars>>

\* console_getchar feeds a command to telnet_recv, which calls _negotiate.
ServerTakes(cmd) ==
    /\ reading
    /\ toServer # << >> /\ Head(toServer).cmd = cmd
    /\ toServer' = Tail(toServer)
    /\ UNCHANGED <<reading, lines, peerVars>>

\* What that does to the table
ServerWrites(tables) == q' \in tables /\ harmed' = harmed \cup Harmed(q, q')

ServerWill ==
    /\ ServerTakes("WILL")
    /\ LET o == Head(toServer).opt
           outcome == OnWill(o)[Get(q, o).him]
       IN  ServerWrites(HimStep(q, o, outcome)) /\ toPeer' = toPeer \o Sent(outcome, o)

ServerWont ==
    /\ ServerTakes("WONT")
    /\ LET o == Head(toServer).opt
           outcome == OnWont[Get(q, o).him]
       IN  ServerWrites(HimStep(q, o, outcome)) /\ toPeer' = toPeer \o Sent(outcome, o)

ServerDo ==
    /\ ServerTakes("DO")
    /\ LET o == Head(toServer).opt
           outcome == OnDo(o)[Get(q, o).us]
       IN  ServerWrites(UsStep(q, o, outcome)) /\ toPeer' = toPeer \o Sent(outcome, o)

ServerDont ==
    /\ ServerTakes("DONT")
    /\ LET o == Head(toServer).opt
           outcome == OnDont[Get(q, o).us]
       IN  ServerWrites(UsStep(q, o, outcome)) /\ toPeer' = toPeer \o Sent(outcome, o)

-----------------------------------------------------------------------------
(***************************************************************************)
(* The client.                                                             *)
(***************************************************************************)
\* The client's answer to WILL and WONT, by its view of the option
PeerOnWill(refuse) ==
    [NO      |-> IF refuse THEN <<"NO", "DONT">> ELSE <<"YES", "DO">>,
     YES     |-> <<"YES", "none">>,
     WANTNO  |-> <<"NO", "none">>,
     WANTYES |-> <<"YES", "none">>]

PeerOnWont ==
    [NO      |-> <<"NO", "none">>,
     YES     |-> <<"NO", "DONT">>,
     WANTNO  |-> <<"NO", "none">>,
     WANTYES |-> <<"NO", "none">>]

PeerTakes(cmd) ==
    /\ toPeer # << >> /\ Head(toPeer).cmd = cmd
    /\ toPeer' = Tail(toPeer)
    /\ UNCHANGED <<serverVars, asks>>

PeerAnswers(o, outcome) ==
    /\ peerHim' = [peerHim EXCEPT ![o] = outcome[1]]
    /\ toServer' = toServer \o Sent(outcome, o)
    /\ UNCHANGED peerUs

PeerWillArrives ==
    /\ PeerTakes("WILL")
    /\ LET o == Head(toPeer).opt
       IN  \E refuse \in BOOLEAN :
              /\ refuse => o \in PeerRefuses
              /\ PeerAnswers(o, PeerOnWill(refuse)[peerHim[o]])

PeerWontArrives ==
    /\ PeerTakes("WONT")
    /\ LET o == Head(toPeer).opt IN PeerAnswers(o, PeerOnWont[peerHim[o]])

\* The server does not want what the client offered.
PeerDontArrives ==
    /\ PeerTakes("DONT")
    /\ peerUs' = [peerUs EXCEPT ![Head(toPeer).opt] = "NO"]
    /\ UNCHANGED <<peerHim, toServer>>

\* The client starts a request of its own.
PeerAsksHim(o) ==
    /\ asks < MaxAsks /\ asks' = asks + 1
    /\ \/ /\ peerHim[o] = "NO"
          /\ peerHim' = [peerHim EXCEPT ![o] = "WANTYES"]
          /\ toServer' = Append(toServer, Msg("DO", o))
       \/ /\ peerHim[o] = "YES"
          /\ peerHim' = [peerHim EXCEPT ![o] = "WANTNO"]
          /\ toServer' = Append(toServer, Msg("DONT", o))
    /\ UNCHANGED <<serverVars, toPeer, peerUs>>

PeerOffers(o) ==
    /\ asks < MaxAsks /\ asks' = asks + 1
    /\ peerUs[o] = "NO"
    /\ peerUs' = [peerUs EXCEPT ![o] = "WANTYES"]
    /\ toServer' = Append(toServer, Msg("WILL", o))
    /\ UNCHANGED <<serverVars, toPeer, peerHim>>

\* Some clients also announce what they do not perform anyway.
PeerDeclines(o) ==
    /\ asks < MaxAsks /\ asks' = asks + 1
    /\ peerUs[o] = "NO"
    /\ toServer' = Append(toServer, Msg("WONT", o))
    /\ UNCHANGED <<serverVars, toPeer, peerHim, peerUs>>

PeerReads == PeerWillArrives \/ PeerWontArrives \/ PeerDontArrives
ServerReads == ServerWill \/ ServerWont \/ ServerDo \/ ServerDont

Next ==
    \/ SetFlags \/ UnsetFlags
    \/ ServerWill \/ ServerWont \/ ServerDo \/ ServerDont
    \/ PeerWillArrives \/ PeerWontArrives \/ PeerDontArrives
    \/ \E o \in PeerDo : PeerAsksHim(o)
    \/ \E o \in PeerWill : PeerOffers(o) \/ PeerDeclines(o)

\* The session thread goes on to the next prompt and reads what arrives; the
\* client reads too.  Lines and the client's own requests need not come.
Fairness == WF_vars(SetFlags) /\ WF_vars(ServerReads) /\ WF_vars(PeerReads)

Spec == Init /\ [][Next]_vars /\ Fairness

-----------------------------------------------------------------------------
TypeOK ==
    /\ q \in Seq(Entry) /\ Len(q) % 4 = 0 /\ harmed \subseteq Opt /\ reading \in BOOLEAN /\ lines \in 0 .. MaxLines
    /\ toPeer \in Seq(Message) /\ toServer \in Seq(Message)
    /\ peerHim \in [Opt -> {"NO", "YES", "WANTNO", "WANTYES"}]
    /\ peerUs \in [Opt -> {"NO", "YES", "WANTNO", "WANTYES"}]
    /\ asks \in 0 .. MaxAsks

Idle == toPeer = << >> /\ toServer = << >>

AgreedOn(o) ==
    /\ Get(q, o).us = peerHim[o] /\ peerHim[o] \in {"NO", "YES"}
    /\ Get(q, o).him = peerUs[o] /\ peerUs[o] \in {"NO", "YES"}

\* ECHO is negotiated first and keeps slot 0, which is always copied and
\* found first; the other options have the growing of the table to fear.
Intact == (Opt \ harmed) \cup {ConsoleOpts[1]}

\* Nothing is under way only when both ends agree and neither waits for an
\* answer, however requests of the two ends crossed: on ECHO whatever the
\* table's memory held, on every other option as long as growing the table
\* (libtelnet.c:339) has not put the entry of the option out of reach.
Agreement == Idle => \A o \in Intact : AgreedOn(o)

\* The console's last word holds: with a client that has no wishes of its own
\* for an option, once things have settled the server performs ECHO, and SGA
\* as long as its entry is intact, exactly while it reads a line
\* (console.c:192-224), although setflags and unsetflags never wait for an
\* answer.
LastRequestWins ==
    Idle => \A i \in {1, 2} :
              LET o == ConsoleOpts[i]
              IN  o \in Intact \ (PeerDo \cup PeerRefuses) => (Get(q, o).us = "YES" <=> reading)

\* Violated by the code: both ends agree on every option once nothing is under
\* way (libtelnet.h:424, "libtelnet uses RFC1143 option negotiation rules").
RFC1143 == Idle => \A o \in Opt : AgreedOn(o)

\* There is no negotiation loop: when the shell reads no more lines and the
\* client asks for nothing more, the exchange of commands ends.
Settles == <>[]Idle
=============================================================================
