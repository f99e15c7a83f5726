---------------------------- MODULE TelnetParser ----------------------------
(***************************************************************************)
(* The telnet parser of TcpShell/libtelnet.c (_process), as it is called   *)
(* by console_getchar: one byte per call of telnet_recv, without flags and *)
(* without zlib.  The operators give what one call does; the module that   *)
(* uses them keeps the parser's record (telnet_t).                         *)
(*                                                                         *)
(* A byte is a member of Letters, one of the control characters, or one of *)
(* the telnet commands.  COMPRESS and ENVIRON are the bytes that denote    *)
(* these options after SB; elsewhere they are characters like others.      *)
(***************************************************************************)
EXTENDS Listing

CONSTANTS
    Letters,     \* the ordinary characters
    BufferSizes  \* _buffer_sizes: 0 and the sizes the buffer grows through

ASSUME BufferSizesAssumption ==
    /\ BufferSizes \in Seq(Nat) /\ Len(BufferSizes) > 0 /\ BufferSizes[1] = 0
    /\ \A i, j \in DOMAIN BufferSizes : i < j => BufferSizes[i] < BufferSizes[j]

Control == {"SP", "CARET", "BS", "CR", "NL", "NUL"}
Negotiation == {"WILL", "WONT", "DO", "DONT"}
Option == {"COMPRESS", "ENVIRON"}
Byte == Letters \cup Control \cup Negotiation \cup Option \cup {"IAC", "SB", "SE"}

ParserState == {"DATA", "IAC", "SB", "SB_DATA", "SB_DATA_IAC"} \cup Negotiation

Parser == [state : ParserState, telopt : Byte \cup {"none"}, size : Nat, pos : Nat]

\* telnet_init
FreshParser == [state |-> "DATA", telopt |-> "none", size |-> 0, pos |-> 0]

\* What a call does: the parser after it, whether my_event_handler saw a
\* TELNET_EV_DATA of some size, the negotiation handed to _negotiate (if
\* any), and whether a byte of a subnegotiation could not be kept.
Result(t, data, nego, fail) == [telnet |-> t, data |-> data, nego |-> nego, fail |-> fail]
Quietly(t) == Result(t, FALSE, << >>, FALSE)
InState(t, s) == [t EXCEPT !.state = s]

-----------------------------------------------------------------------------
(***************************************************************************)
(* _buffer_byte.  mem: pvPortMalloc finds memory for the larger buffer.    *)
(***************************************************************************)
SizeIndex(t) == CHOOSE i \in DOMAIN BufferSizes : BufferSizes[i] = t.size

BufferFails(t, mem) == t.pos = t.size /\ (SizeIndex(t) = Len(BufferSizes) \/ ~mem)

Buffered(t) ==
    [t EXCEPT !.pos = @ + 1,
              !.size = IF t.pos = @ THEN BufferSizes[SizeIndex(t) + 1] ELSE @]

\* Keep a byte of a subnegotiation, or give the subnegotiation up
BufferByte(t, mem) ==
    IF BufferFails(t, mem) THEN Result(InState(t, "DATA"), FALSE, << >>, TRUE)
                           ELSE Quietly(InState(Buffered(t), "SB_DATA"))

\* _subnegotiate: the events it raises are ignored by my_event_handler; only
\* _environ_telnet may answer 1, and does for contents that are well formed.
Subnegotiate(t) == IF t.telopt = "ENVIRON" /\ t.pos > 0 THEN {0, 1} ELSE {0}

-----------------------------------------------------------------------------
(***************************************************************************)
(* The states of _process.  A byte that leaves the parser in state DATA    *)
(* with start = i is passed on as data.                                    *)
(***************************************************************************)
OnData(t, b) ==
    IF b = "IAC" THEN Quietly(InState(t, "IAC"))
                 ELSE Result(t, TRUE, << >>, FALSE)

\* mutant: IAC IAC is taken for a command without an effect
OnIACDropped(t, b) ==
    IF b = "SB" THEN Quietly(InState(t, "SB"))
    ELSE IF b \in Negotiation THEN Quietly(InState(t, b))
    ELSE Result(InState(t, "DATA"), FALSE, << >>, FALSE)

OnIAC(t, b) ==
    IF b = "SB" THEN Quietly(InState(t, "SB"))
    ELSE IF b \in Negotiation THEN Quietly(InState(t, b))
    ELSE Result(InState(t, "DATA"), b = "IAC", << >>, FALSE)

OnNegotiation(t, b) == Result(InState(t, "DATA"), FALSE, <<t.state, b>>, FALSE)

OnSB(t, b) == Quietly([t EXCEPT !.telopt = b, !.pos = 0, !.state = "SB_DATA"])

\* The MCCP version 1 marker sets start = i + 2.  With one byte per call that
\* is one past the end, i - start wraps, and an event of a huge size says
\* that there is data: the marker's WILL counts as typed.
OnSBData(t, b, mem) ==
    IF b = "IAC" THEN Quietly(InState(t, "SB_DATA_IAC"))
    ELSE IF t.telopt = "COMPRESS" /\ b = "WILL"
      THEN Result(InState(t, "DATA"), TRUE, << >>, FALSE)
      ELSE BufferByte(t, mem)

\* The byte that ends a subnegotiation without SE is evaluated as a command,
\* unless _subnegotiate answered 1: then it is gone and IAC stays open.
OnSBDataIAC(t, b, mem, ret) ==
    IF b = "SE" THEN Quietly(InState(t, "DATA"))
    ELSE IF b = "IAC" THEN BufferByte(t, mem)
    ELSE IF ret = 0 THEN OnIAC(InState(t, "IAC"), b)
                    ELSE Quietly(InState(t, "IAC"))

\* One call of telnet_recv with one byte: the results it may have
Process(t, b) ==
    CASE t.state = "DATA" -> {OnData(t, b)}
      [] t.state = "IAC" -> {OnIAC(t, b)}
      [] t.state \in Negotiation -> {OnNegotiation(t, b)}
      [] t.state = "SB" -> {OnSB(t, b)}
      [] t.state = "SB_DATA" -> {OnSBData(t, b, mem) : mem \in BOOLEAN}
      [] t.state = "SB_DATA_IAC" ->
            {OnSBDataIAC(t, b, mem, ret) : mem \in BOOLEAN, ret \in Subnegotiate(t)}

-----------------------------------------------------------------------------
(***************************************************************************)
(* Reference: the stream rx cut into items, each a character, a command or *)
(* a whole subnegotiation.  gaveUp holds the positions of bytes at which a *)
(* subnegotiation was given up for want of room.                           *)
(***************************************************************************)

\* An IAC in the body of the subnegotiation that starts at i, not an escaped one
OpensInBody(rx, i, j) ==
    /\ rx[j] = "IAC"
    /\ \E k \in i + 3 .. j :
          /\ (j - k) % 2 = 0 /\ (\A m \in k .. j : rx[m] = "IAC")
          /\ k = i + 3 \/ rx[k - 1] # "IAC"

\* Where the subnegotiation ends: before a command, with SE, or given up
SubEnds(rx, i, gaveUp) ==
    LET ends == {j + 1 : j \in {j \in i + 3 .. Len(rx) - 1 :
                                  OpensInBody(rx, i, j) /\ rx[j + 1] = "SE"}}
                  \cup {j - 1 : j \in {j \in i + 3 .. Len(rx) - 1 :
                                  OpensInBody(rx, i, j) /\ rx[j + 1] \notin {"IAC", "SE"}}}
                  \cup {j \in gaveUp : j > i}
    IN  {e \in ends : \A f \in ends : e <= f}

\* The last byte of the item that starts at i, if it is there already
ItemEnds(rx, i, gaveUp) ==
    IF rx[i] # "IAC" THEN {i}
    ELSE IF i = Len(rx) THEN {}
    ELSE IF rx[i + 1] = "SB" THEN SubEnds(rx, i, gaveUp)
    ELSE IF rx[i + 1] \in Negotiation THEN {i + 2} \cap (1 .. Len(rx))
    ELSE {i + 1}

\* Where items start: at the beginning, and after the last byte of another one
Starts(rx, gaveUp) ==
    LET found[i \in 0 .. Len(rx)] ==
            IF i = 0 THEN {}
            ELSE IF i = 1 \/ \E k \in found[i - 1] : i - 1 \in ItemEnds(rx, k, gaveUp)
              THEN found[i - 1] \cup {i}
              ELSE found[i - 1]
    IN  found[Len(rx)]

\* The items that have arrived completely
ItemStarts(rx, gaveUp) == {i \in Starts(rx, gaveUp) : ItemEnds(rx, i, gaveUp) # {}}

\* The characters of the stream
TextItems(rx, gaveUp) == {i \in ItemStarts(rx, gaveUp) : rx[i] # "IAC" \/ rx[i + 1] = "IAC"}
TextOf(rx, gaveUp) == At(rx, InOrder(TextItems(rx, gaveUp), Len(rx)))

\* The negotiations of the stream
NegotiationItems(rx, gaveUp) ==
    {i \in ItemStarts(rx, gaveUp) : rx[i] = "IAC" /\ rx[i + 1] \in Negotiation}
NegotiationsOf(rx, gaveUp) ==
    LET at == InOrder(NegotiationItems(rx, gaveUp), Len(rx))
    IN  [k \in DOMAIN at |-> <<rx[at[k] + 1], rx[at[k] + 2]>>]

\* Whether an option occurs whose subnegotiation the library treats specially
SpecialOption(rx) ==
    \E i \in 3 .. Len(rx) : rx[i - 2] = "IAC" /\ rx[i - 1] = "SB" /\ rx[i] \in Option
=============================================================================
