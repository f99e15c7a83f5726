------------------------------ MODULE Display ------------------------------
(***************************************************************************)
(* The status display (led_display.c): any thread calls led_display_clear, *)
(* led_display_set_ip or led_display_set_message, which turn into messages *)
(* of a queue that holds one; DisplayLedThread takes them and draws.       *)
(*                                                                         *)
(* A call is the sequence of steps it has still to take.  Sending waits for*)
(* room in the queue for ever, so a call is interleaved with the calls of  *)
(* other threads at every step; nothing in the code keeps them apart.      *)
(*                                                                         *)
(* The screen is a line of cells, TextHeight rows of TextWidth; a text is a*)
(* sequence of marks.  The display commands behind a cell are left out, the*)
(* first I2C error among them is DisplayFails.                             *)
(***************************************************************************)
EXTENDS Naturals, Sequences

CONSTANTS
    Callers,        \* the threads that call: TcpThread, DHCP_thread, sessions
    TextWidth,      \* SSD1306_TEXT_COLS: 21
    TextHeight,     \* SSD1306_TEXT_ROWS: 6
    Marks           \* what a printed cell may hold

Blank == " "    \* an empty cell

ASSUME DisplayAssumption ==
    /\ TextWidth \in Nat \ {0} /\ TextHeight \in Nat /\ TextHeight >= 2
    /\ Blank \notin Marks

VARIABLES
    queue,          \* DisplayQueue, at most one message
    alive,          \* DisplayLedThread has not exited
    screen,         \* the display's memory
    cursor,         \* LcdY * TextWidth + LcdX
    ipAddr,         \* the address led_display_clear prints again
    todo,           \* per caller, what is left of its call
    mixed,          \* history: calls overlapped since a clear began alone
    message         \* history: the last text of led_display_set_message

displayVars == <<queue, alive, screen, cursor, ipAddr, todo, mixed, message>>

Cells == 0 .. TextWidth * TextHeight - 1
Texts == Seq(Marks)

Clear == [op |-> "Clear"]
SetCursor(y) == [op |-> "SetCursor", at |-> y * TextWidth]
PrintText(text) == [op |-> "Print", text |-> text]

(* Local steps: copying ipAddr into the message, and the text into ipAddr. *)
CopyIp == [op |-> "CopyIp"]
KeepIp(text) == [op |-> "KeepIp", text |-> text]

(* mutant: the address is not kept *)
SetIpForgotten(text) == <<SetCursor(0), PrintText(text)>>

led_display_set_ip(text) == <<SetCursor(0), PrintText(text), KeepIp(text)>>

(* mutant: the address is not printed again *)
ClearOnly == <<Clear, SetCursor(0)>>

(* The argument of its led_display_set_ip is ipAddr itself: read after the
   cursor is sent, and copied onto itself at the end. *)
led_display_clear == <<Clear, SetCursor(0), CopyIp>>

led_display_set_message(text) ==
    led_display_clear \o <<SetCursor(1), PrintText(text)>>

-----------------------------------------------------------------------------
(* ipAddr begins as spaces, which print like a cleared row: no text here.
   What the display's memory holds at power-on is cleared before it is seen,
   the last row excepted. *)
DisplayInit ==
    /\ queue = <<>>
    /\ alive = TRUE
    /\ screen = [c \in Cells |-> Blank]
    /\ cursor = 0
    /\ ipAddr = <<>>
    /\ todo = [t \in Callers |-> <<>>]
    /\ mixed = FALSE
    /\ message = <<>>

Idle(t) == todo[t] = <<>>
Others(t) == Callers \ {t}

(* Thread t calls with these steps. *)
Call(t, steps) ==
    /\ Idle(t)
    /\ todo' = [todo EXCEPT ![t] = steps]
    /\ mixed' = IF \A u \in Others(t) : Idle(u)
                THEN mixed /\ Head(steps) # Clear
                ELSE TRUE
    /\ UNCHANGED <<queue, alive, screen, cursor, ipAddr>>

(* xQueueSend, which waits for room. *)
Send(t) ==
    /\ ~Idle(t) /\ Head(todo[t]).op \in {"Clear", "SetCursor", "Print"}
    /\ queue = <<>>
    /\ queue' = <<Head(todo[t])>>
    /\ todo' = [todo EXCEPT ![t] = Tail(@)]
    /\ UNCHANGED <<alive, screen, cursor, ipAddr, mixed, message>>

CopiesIp(t) ==
    /\ ~Idle(t) /\ Head(todo[t]).op = "CopyIp"
    /\ todo' = [todo EXCEPT ![t] = <<PrintText(ipAddr)>> \o Tail(@)]
    /\ UNCHANGED <<queue, alive, screen, cursor, ipAddr, mixed, message>>

KeepsIp(t) ==
    /\ ~Idle(t) /\ Head(todo[t]).op = "KeepIp"
    /\ ipAddr' = Head(todo[t]).text
    /\ todo' = [todo EXCEPT ![t] = Tail(@)]
    /\ UNCHANGED <<queue, alive, screen, cursor, mixed, message>>

CallerStep(t) == Send(t) \/ CopiesIp(t) \/ KeepsIp(t)

-----------------------------------------------------------------------------
(* DisplayLedThread. *)

(* The loop writes TextHeight - 1 rows: the last one is never cleared. *)
Cleared(s) == [c \in Cells |-> IF c < TextWidth * (TextHeight - 1) THEN Blank ELSE s[c]]

(* Character by character from the cursor on, back to the top at the end. *)
Printed(s, at, text) ==
    [c \in Cells |->
        LET i == (c + TextWidth * TextHeight - at) % (TextWidth * TextHeight)
        IN  IF i < Len(text) THEN text[i + 1] ELSE s[c]]

(* mutant: no way back to the top *)
AdvancedOff(at, n) == at + n

Advanced(at, n) == (at + n) % (TextWidth * TextHeight)

Draw(m) ==
    \/ /\ m.op = "Clear"
       /\ screen' = Cleared(screen)
       /\ cursor' = 0
    \/ /\ m.op = "SetCursor"
       /\ cursor' = m.at
       /\ UNCHANGED screen
    \/ /\ m.op = "Print"
       /\ screen' = Printed(screen, cursor, m.text)
       /\ cursor' = Advanced(cursor, Len(m.text))

(* mutant: the message stays in the queue *)
DisplayPeeks ==
    /\ alive /\ queue # <<>>
    /\ Draw(Head(queue))
    /\ UNCHANGED <<queue, alive, ipAddr, todo, mixed, message>>

DisplayReceives ==
    /\ alive /\ queue # <<>>
    /\ Draw(Head(queue))
    /\ queue' = <<>>
    /\ UNCHANGED <<alive, ipAddr, todo, mixed, message>>

(* The thread exits at the first error, in its set-up or while drawing. *)
DisplayFails ==
    /\ alive
    /\ alive' = FALSE
    /\ queue' \in {queue, <<>>}
    /\ UNCHANGED <<screen, cursor, ipAddr, todo, mixed, message>>

DisplayStep ==
    \/ \E t \in Callers : CallerStep(t)
    \/ DisplayReceives
    \/ DisplayFails

DisplayFairness ==
    /\ WF_displayVars(DisplayReceives)
    /\ \A t \in Callers : WF_displayVars(CallerStep(t))

-----------------------------------------------------------------------------
(* Properties. *)

Step ==
    {Clear, CopyIp} \cup {SetCursor(y) : y \in {0, 1}}
        \cup [op : {"Print", "KeepIp"}, text : Texts]

(* The queue holds at most one message, every call is made of known steps,
   and the cursor stays on the screen however the prints are mixed. *)
DisplayTypeOK ==
    /\ queue \in Seq([op : {"Print"}, text : Texts] \cup {Clear, SetCursor(0), SetCursor(1)})
    /\ Len(queue) <= 1
    /\ alive \in BOOLEAN
    /\ screen \in [Cells -> Marks \cup {Blank}]
    /\ cursor \in Cells
    /\ ipAddr \in Texts
    /\ todo \in [Callers -> Seq(Step)]
    /\ mixed \in BOOLEAN
    /\ message \in Texts

Quiet == alive /\ queue = <<>> /\ \A t \in Callers : Idle(t)

(* A text over the cells from row y on, all of it, and nothing else as far as
   a clear reaches: the last row may keep the tail of an older message. *)
Shows(y, text) ==
    \A c \in y * TextWidth .. TextWidth * (IF y = 0 THEN 1 ELSE TextHeight) - 1 :
        IF c - y * TextWidth < Len(text) THEN screen[c] = text[c - y * TextWidth + 1]
        ELSE c < TextWidth * (TextHeight - 1) => screen[c] = Blank

(* When nobody is in a call and no calls overlapped since a clear that began
   alone, the top row shows exactly the address of the last
   led_display_set_ip and the rows below the last message, with nothing of an
   older one but on the last row, whatever order clears, addresses and
   messages came in and whatever mess overlapping calls had left before that
   clear. *)
ShownWhenAlone ==
    Quiet /\ ~mixed => Shows(0, ipAddr) /\ Shows(1, message)

(* A call of the display returns, unless the display's thread has exited:
   then the caller waits for room in the queue for ever, TcpThread before it
   has started the server. *)
CallsReturn == \A t \in Callers : ~Idle(t) ~> (Idle(t) \/ ~alive)
=============================================================================
