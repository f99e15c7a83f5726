--------------------------- MODULE NetworkProofs ---------------------------
(***************************************************************************)
(* Proofs about Display and Network.  First the display alone, for any     *)
(* threads, texts and sizes of the screen: what a printed text leaves on   *)
(* the screen, how a call that nobody disturbs goes on step by step, and   *)
(* that the state keeps its types however calls are mixed.  Then the       *)
(* invariants of Display and Dhcp together with what ties them, the one    *)
(* address that the supervisor shows.                                      *)
(***************************************************************************)
EXTENDS Network, DhcpProofs, SequenceTheorems

\* The cells of the screen, and those that a clear reaches
Size == TextWidth * TextHeight
Bottom == TextWidth * (TextHeight - 1)

\* There are at least two rows; a clear leaves the last one.
LEMMA SizeFacts ==
  /\ TextWidth \in Nat /\ TextWidth >= 1 /\ Size \in Nat /\ Bottom \in Nat
  /\ TextWidth <= Bottom /\ Bottom + TextWidth = Size
  /\ Cells = 0 .. Size - 1 /\ 0 \in Cells /\ TextWidth \in Cells
  <1> DEFINE k == TextHeight - 2
  <1>1. TextWidth \in Nat /\ TextWidth >= 1 /\ TextHeight \in Nat /\ k \in Nat BY DisplayAssumption
  <1>2. TextWidth * k \in Nat BY <1>1
  <1>3. Bottom = TextWidth * k + TextWidth BY <1>1 DEF Bottom
  <1>4. Size = Bottom + TextWidth BY <1>1 DEF Size, Bottom
  <1> HIDE DEF k
  <1>5. Size \in Nat /\ Bottom \in Nat /\ TextWidth <= Bottom BY <1>1, <1>2, <1>3, <1>4
  <1>6. Cells = 0 .. Size - 1 BY DEF Cells, Size
  <1> QED BY <1>1, <1>4, <1>5, <1>6

\* The messages of the queue
Order == [op : {"Print"}, text : Texts] \cup {Clear, SetCursor(0), SetCursor(1)}

\* What the steps of a call are
LEMMA StepFacts ==
  /\ Clear \in Step /\ Clear.op = "Clear" /\ CopyIp \in Step /\ CopyIp.op = "CopyIp"
  /\ SetCursor(0) \in Step /\ SetCursor(0).op = "SetCursor" /\ SetCursor(0).at = 0
  /\ SetCursor(1) \in Step /\ SetCursor(1).op = "SetCursor" /\ SetCursor(1).at = TextWidth
  /\ \A x \in Texts : /\ PrintText(x) \in Step /\ PrintText(x).op = "Print" /\ PrintText(x).text = x
                      /\ KeepIp(x) \in Step /\ KeepIp(x).op = "KeepIp" /\ KeepIp(x).text = x
  BY SizeFacts DEF Step, Clear, CopyIp, SetCursor, PrintText, KeepIp

\* A step by its kind
LEMMA StepKinds ==
  ASSUME NEW x \in Step
  PROVE  /\ x.op \in {"Clear", "SetCursor", "Print", "CopyIp", "KeepIp"}
         /\ x.op \in {"Clear", "SetCursor", "Print"} => x \in Order
         /\ x.op = "KeepIp" => x.text \in Texts
  BY DEF Step, Order, Clear, CopyIp, SetCursor, PrintText, KeepIp

\* A message by its kind
LEMMA OrderKinds ==
  ASSUME NEW x \in Order
  PROVE  /\ x \in Step /\ x.op \in {"Clear", "SetCursor", "Print"}
         /\ x.op = "Clear" => x = Clear
         /\ x.op = "SetCursor" => x = SetCursor(0) \/ x = SetCursor(1)
         /\ x.op = "Print" => x.text \in Texts /\ x = PrintText(x.text)
  BY DEF Step, Order, Clear, CopyIp, SetCursor, PrintText, KeepIp

-----------------------------------------------------------------------------
(* What is on the screen. *)

Row(s, x) == \A c \in 0 .. TextWidth - 1 : s[c] = IF c < Len(x) THEN x[c + 1] ELSE Blank
Clean(s, x) == \A c \in 0 .. TextWidth - 1 : c >= Len(x) => s[c] = Blank
Rows(s, x) ==
    \A c \in TextWidth .. Size - 1 :
        IF c - TextWidth < Len(x) THEN s[c] = x[c - TextWidth + 1]
        ELSE c < Bottom => s[c] = Blank

\* Shows in these words
LEMMA ShowsFacts ==
  ASSUME NEW x
  PROVE  (Shows(0, x) <=> Row(screen, x)) /\ (Shows(1, x) <=> Rows(screen, x))
  <1>1. TextWidth \in Nat /\ 0 * TextWidth = 0 /\ 1 * TextWidth = TextWidth BY SizeFacts
  <1>2. TextWidth * (TextHeight - 1) = Bottom BY DEF Bottom
  <1>3. TextWidth * TextHeight = Size /\ TextWidth * 1 = TextWidth BY SizeFacts DEF Size
  <1>4. Shows(0, x) <=> \A c \in 0 .. TextWidth - 1 :
                          IF c - 0 < Len(x) THEN screen[c] = x[c - 0 + 1]
                          ELSE c < Bottom => screen[c] = Blank
    BY <1>1, <1>2, <1>3 DEF Shows
  <1>5. \A c \in 0 .. TextWidth - 1 : c - 0 = c /\ c < Bottom BY <1>1, SizeFacts
  <1>6. Shows(0, x) <=> Row(screen, x) BY <1>4, <1>5 DEF Row
  <1>7. Shows(1, x) <=> Rows(screen, x) BY <1>1, <1>2, <1>3 DEF Shows, Rows
  <1> QED BY <1>6, <1>7

\* A clear
LEMMA ClearedFacts ==
  ASSUME NEW s \in [Cells -> Marks \cup {Blank}]
  PROVE  /\ Cleared(s) \in [Cells -> Marks \cup {Blank}]
         /\ Row(Cleared(s), << >>) /\ Rows(Cleared(s), << >>)
  <1>1. \A c \in 0 .. Bottom - 1 : Cleared(s)[c] = Blank
    BY SizeFacts DEF Cleared, Bottom
  <1>2. Cleared(s) \in [Cells -> Marks \cup {Blank}] BY DEF Cleared
  <1> QED BY <1>1, <1>2, SizeFacts DEF Row, Rows

\* Cells are counted round the screen.
LEMMA RoundFacts ==
  ASSUME NEW n \in Nat, NEW k \in 0 .. n - 1
  PROVE  k % n = k /\ (k + n) % n = k
  OBVIOUS

\* A text that does not reach the end of the screen goes to the cells from the cursor on.
LEMMA PrintedFacts ==
  ASSUME NEW s \in [Cells -> Marks \cup {Blank}], NEW at \in Cells, NEW x \in Texts
  PROVE  /\ Printed(s, at, x) \in [Cells -> Marks \cup {Blank}]
         /\ at + Len(x) <= Size =>
              \A c \in Cells : Printed(s, at, x)[c] =
                 IF at <= c /\ c < at + Len(x) THEN x[c - at + 1] ELSE s[c]
         /\ Advanced(at, Len(x)) \in Cells
  <1> DEFINE i(c) == (c + Size - at) % Size
  <1>1. Size \in Nat /\ Size > 0 /\ Cells = 0 .. Size - 1 BY SizeFacts
  <1>2. ASSUME NEW c \in Cells PROVE /\ i(c) \in 0 .. Size - 1
                                     /\ c >= at => i(c) = c - at
                                     /\ c < at => i(c) = c + Size - at
    <2>1. CASE c >= at
      <3>1. c - at \in 0 .. Size - 1 /\ c + Size - at = (c - at) + Size BY <1>1, <2>1
      <3>2. i(c) = c - at BY <1>1, <3>1, RoundFacts
      <3> QED BY <1>1, <2>1, <3>1, <3>2
    <2>2. CASE c < at
      <3>1. c + Size - at \in 0 .. Size - 1 BY <1>1, <2>2
      <3>2. i(c) = c + Size - at BY <1>1, <3>1, RoundFacts
      <3> QED BY <1>1, <2>2, <3>1, <3>2
    <2> QED BY <1>1, <2>1, <2>2
  <1>3. Len(x) \in Nat /\ \A k \in 1 .. Len(x) : x[k] \in Marks BY DEF Texts
  <1>4. Printed(s, at, x) = [c \in Cells |-> IF i(c) < Len(x) THEN x[i(c) + 1] ELSE s[c]]
    BY DEF Printed, Size
  <1> HIDE DEF i
  <1>5. ASSUME NEW c \in Cells PROVE (IF i(c) < Len(x) THEN x[i(c) + 1] ELSE s[c]) \in Marks \cup {Blank}
    <2>1. i(c) \in 0 .. Size - 1 BY <1>2
    <2>2. s[c] \in Marks \cup {Blank} OBVIOUS
    <2>3. ASSUME i(c) < Len(x) PROVE x[i(c) + 1] \in Marks
      <3>1. i(c) + 1 \in 1 .. Len(x) BY <1>1, <1>3, <2>1, <2>3
      <3> QED BY <1>3, <3>1
    <2> QED BY <2>2, <2>3
  <1>6. Printed(s, at, x) \in [Cells -> Marks \cup {Blank}] BY <1>4, <1>5
  <1>7. ASSUME at + Len(x) <= Size, NEW c \in Cells
        PROVE  Printed(s, at, x)[c] = IF at <= c /\ c < at + Len(x) THEN x[c - at + 1] ELSE s[c]
    <2>1. Printed(s, at, x)[c] = IF i(c) < Len(x) THEN x[i(c) + 1] ELSE s[c] BY <1>4
    <2>2. CASE c >= at
      <3>1. i(c) = c - at BY <1>2, <2>2
      <3>2. c - at < Len(x) <=> c < at + Len(x) BY <1>1, <1>3
      <3> QED BY <2>1, <2>2, <3>1, <3>2
    <2>3. CASE c < at
      <3>1. i(c) = c + Size - at BY <1>2, <2>3
      <3>2. ~(c + Size - at < Len(x)) BY <1>1, <1>3, <1>7
      <3>3. ~(at <= c) BY <1>1, <2>3
      <3> QED BY <2>1, <3>1, <3>2, <3>3
    <2> QED BY <1>1, <2>2, <2>3
  <1>8. Advanced(at, Len(x)) \in Cells BY <1>1, <1>3 DEF Advanced, Size
  <1> QED BY <1>6, <1>7, <1>8

\* What is printed over a row, or below it
LEMMA PrintsFacts ==
  ASSUME NEW s \in [Cells -> Marks \cup {Blank}], NEW x \in Texts, NEW m \in Texts
  PROVE  /\ Clean(s, x) /\ Len(x) <= TextWidth => Row(Printed(s, 0, x), x)
         /\ Rows(s, m) /\ Len(x) <= TextWidth => Rows(Printed(s, 0, x), m)
         /\ Rows(s, << >>) /\ Len(x) <= Bottom => Rows(Printed(s, TextWidth, x), x)
         /\ Row(s, m) /\ Len(x) <= Bottom => Row(Printed(s, TextWidth, x), m)
  <1>1. Len(x) \in Nat BY DEF Texts
  <1>2. ASSUME Len(x) <= TextWidth, NEW c \in Cells
        PROVE  Printed(s, 0, x)[c] = IF c < Len(x) THEN x[c + 1] ELSE s[c]
    <2>1. 0 + Len(x) <= Size BY <1>1, <1>2, SizeFacts
    <2>2. Printed(s, 0, x)[c] = IF 0 <= c /\ c < 0 + Len(x) THEN x[c - 0 + 1] ELSE s[c]
      <3>1. 0 \in Cells BY SizeFacts
      <3> QED BY <2>1, <3>1, PrintedFacts
    <2>3. c \in Nat BY SizeFacts
    <2> QED BY <1>1, <2>2, <2>3
  <1>3. ASSUME Len(x) <= Bottom, NEW c \in Cells
        PROVE  Printed(s, TextWidth, x)[c] =
                 IF TextWidth <= c /\ c < TextWidth + Len(x) THEN x[c - TextWidth + 1] ELSE s[c]
    <2>1. TextWidth + Len(x) <= Size BY <1>1, <1>3, SizeFacts
    <2>2. TextWidth \in Cells BY SizeFacts
    <2>3. Printed(s, TextWidth, x)[c] =
            IF TextWidth <= c /\ c < TextWidth + Len(x) THEN x[c - TextWidth + 1] ELSE s[c]
      BY <2>1, <2>2, PrintedFacts
    <2> QED BY <2>3
  <1>4. ASSUME Clean(s, x), Len(x) <= TextWidth PROVE Row(Printed(s, 0, x), x)
    BY <1>1, <1>2, <1>4, SizeFacts DEF Clean, Row
  <1>5. ASSUME Rows(s, m), Len(x) <= TextWidth PROVE Rows(Printed(s, 0, x), m)
    <2>1. ASSUME NEW c \in TextWidth .. Size - 1 PROVE Printed(s, 0, x)[c] = s[c]
      <3>1. c \in Cells /\ ~(c < Len(x)) BY <1>1, <1>5, SizeFacts
      <3> QED BY <1>2, <1>5, <3>1
    <2> QED BY <1>5, <2>1 DEF Rows
  <1>6. ASSUME Rows(s, << >>), Len(x) <= Bottom PROVE Rows(Printed(s, TextWidth, x), x)
    <2>1. ASSUME NEW c \in TextWidth .. Size - 1
          PROVE  IF c - TextWidth < Len(x) THEN Printed(s, TextWidth, x)[c] = x[c - TextWidth + 1]
                 ELSE c < Bottom => Printed(s, TextWidth, x)[c] = Blank
      <3>1. c \in Cells /\ TextWidth <= c BY SizeFacts
      <3>2. c < Bottom => s[c] = Blank
        <4>1. Len(<< >>) = 0 /\ ~(c - TextWidth < 0) BY SizeFacts
        <4> QED BY <1>6, <4>1 DEF Rows
      <3>3. c < TextWidth + Len(x) <=> c - TextWidth < Len(x) BY <1>1, SizeFacts
      <3> QED BY <1>3, <1>6, <3>1, <3>2, <3>3
    <2> QED BY <2>1 DEF Rows
  <1>7. ASSUME Row(s, m), Len(x) <= Bottom PROVE Row(Printed(s, TextWidth, x), m)
    <2>1. ASSUME NEW c \in 0 .. TextWidth - 1 PROVE Printed(s, TextWidth, x)[c] = s[c]
      <3>1. c \in Cells /\ ~(TextWidth <= c) BY SizeFacts
      <3> QED BY <1>3, <1>7, <3>1
    <2> QED BY <1>7, <2>1 DEF Row
  <1> QED BY <1>4, <1>5, <1>6, <1>7

-----------------------------------------------------------------------------
(* Calls as sequences. *)

\* One step before others
LEMMA StepFirst ==
  ASSUME NEW S, NEW t \in Seq(S), NEW a \in S
  PROVE  /\ <<a>> \o t \in Seq(S) /\ <<a>> \o t # << >>
         /\ Head(<<a>> \o t) = a /\ Tail(<<a>> \o t) = t
  <1> DEFINE u == <<a>> \o t
  <1>1. <<a>> \in Seq(S) /\ Len(<<a>>) = 1 /\ <<a>>[1] = a OBVIOUS
  <1>2. Len(t) \in Nat /\ Len(<<a>>) + Len(t) = 1 + Len(t) BY <1>1
  <1>3. /\ u \in Seq(S) /\ Len(u) = 1 + Len(t)
        /\ \A i \in 1 .. 1 + Len(t) : u[i] = IF i <= 1 THEN <<a>>[i] ELSE t[i - 1]
    BY <1>1, <1>2, ConcatProperties
  <1> HIDE DEF u
  <1>4. u # << >> /\ Head(u) = a BY <1>1, <1>2, <1>3
  <1>5. /\ Tail(u) \in Seq(S) /\ Len(Tail(u)) = Len(t)
        /\ \A i \in 1 .. Len(Tail(u)) : Tail(u)[i] = u[i + 1]
    BY <1>2, <1>3, <1>4, HeadTailProperties
  <1>6. \A i \in 1 .. Len(Tail(u)) : Tail(u)[i] = t[i] BY <1>2, <1>3, <1>5
  <1>7. Tail(u) = t BY <1>5, <1>6, SeqEqual
  <1> QED BY <1>3, <1>4, <1>7 DEF u

\* Two and three
LEMMA StepsFirst ==
  ASSUME NEW S, NEW t \in Seq(S), NEW a \in S, NEW b \in S, NEW c \in S
  PROVE  /\ <<a, b>> \o t = <<a>> \o (<<b>> \o t)
         /\ <<a, b, c>> \o t = <<a>> \o (<<b, c>> \o t)
         /\ <<a, b>> \o t \in Seq(S) /\ <<a, b, c>> \o t \in Seq(S)
  <1>1. <<a>> \in Seq(S) /\ <<b>> \in Seq(S) /\ <<a, b>> \in Seq(S) /\ <<b, c>> \in Seq(S)
        /\ <<a, b, c>> \in Seq(S)
    OBVIOUS
  <1>2. ASSUME NEW u \in Seq(S), NEW v \in Seq(S), Len(u) = Len(v) + 1, Head(u) = a, Tail(u) = v
        PROVE  u = <<a>> \o v
    <2>1. /\ <<a>> \o v \in Seq(S) /\ Len(<<a>> \o v) = 1 + Len(v)
          /\ \A i \in 1 .. 1 + Len(v) : (<<a>> \o v)[i] = IF i <= 1 THEN <<a>>[i] ELSE v[i - 1]
      <3>1. Len(<<a>>) = 1 OBVIOUS
      <3> QED BY <1>1, <3>1, ConcatProperties
    <2>2. u # << >> BY <1>2
    <2>3. \A i \in 1 .. Len(u) - 1 : u[i + 1] = v[i] BY <1>2, <2>2, HeadTailProperties
    <2>4. Len(u) = Len(<<a>> \o v) BY <1>2, <2>1
    <2>5. \A i \in 1 .. Len(u) : u[i] = (<<a>> \o v)[i]
      <3> TAKE i \in 1 .. Len(u)
      <3>1. CASE i = 1 BY <1>2, <2>1, <2>2, <3>1
      <3>2. CASE i # 1
        <4>1. i - 1 \in 1 .. Len(u) - 1 /\ (i - 1) + 1 = i BY <3>2
        <4>2. u[i] = v[i - 1] BY <2>3, <4>1
        <4> QED BY <1>2, <2>1, <3>2, <4>2
      <3> QED BY <3>1, <3>2
    <2> QED BY <2>1, <2>4, <2>5, SeqEqual
  <1>3. <<a, b>> = <<a>> \o <<b>>
    <2>1. Len(<<a, b>>) = Len(<<b>>) + 1 /\ Head(<<a, b>>) = a /\ Tail(<<a, b>>) = <<b>> OBVIOUS
    <2> QED BY <1>1, <1>2, <2>1
  <1>4. <<a, b, c>> = <<a>> \o <<b, c>>
    <2>1. /\ Len(<<a, b, c>>) = Len(<<b, c>>) + 1 /\ Head(<<a, b, c>>) = a
          /\ Tail(<<a, b, c>>) = <<b, c>>
      OBVIOUS
    <2> QED BY <1>1, <1>2, <2>1
  <1>5. (<<a>> \o <<b>>) \o t = <<a>> \o (<<b>> \o t) BY <1>1, ConcatAssociative
  <1>6. (<<a>> \o <<b, c>>) \o t = <<a>> \o (<<b, c>> \o t) BY <1>1, ConcatAssociative
  <1>7. <<a, b>> \o t \in Seq(S) /\ <<a, b, c>> \o t \in Seq(S) BY <1>1, ConcatProperties
  <1> QED BY <1>3, <1>4, <1>5, <1>6, <1>7

-----------------------------------------------------------------------------
(* A call that nobody disturbs.  q is the queue, r what is left of the     *)
(* call, s the screen, at the cursor, ip and m the address and the message *)
(* that it will show.                                                      *)
Screens == [Cells -> Marks \cup {Blank}]

\* Nobody has anything to do but the display's thread, which prints at most the last text.
Settled(q, s, at, ip, m) ==
    \/ q = << >> /\ Row(s, ip) /\ Rows(s, m)
    \/ q = <<PrintText(m)>> /\ at = TextWidth /\ Row(s, ip) /\ Rows(s, << >>)
    \/ q = <<PrintText(ip)>> /\ at = 0 /\ Clean(s, ip) /\ Rows(s, m)

\* led_display_set_ip with the text x, which covers the old one
Setting(q, r, s, at, ip, m, x) ==
    /\ x \in Texts /\ Len(ip) <= Len(x) /\ Len(x) <= TextWidth
    /\ \/ r = <<SetCursor(0), PrintText(x), KeepIp(x)>> /\ Settled(q, s, at, ip, m)
       \/ /\ r = <<PrintText(x), KeepIp(x)>> /\ Clean(s, x) /\ Rows(s, m)
          /\ q = <<SetCursor(0)>> \/ (q = << >> /\ at = 0)
       \/ /\ r = <<KeepIp(x)>> /\ Rows(s, m)
          /\ (q = <<PrintText(x)>> /\ at = 0 /\ Clean(s, x)) \/ (q = << >> /\ Row(s, x))

\* The end of led_display_set_message
Writing(q, r, s, at, ip, m) ==
    \/ r = <<SetCursor(1), PrintText(m)>> /\ Settled(q, s, at, ip, << >>)
    \/ /\ r = <<PrintText(m)>> /\ Row(s, ip) /\ Rows(s, << >>)
       /\ q = <<SetCursor(1)>> \/ (q = << >> /\ at = TextWidth)

\* led_display_clear, and t after it
Clearing(q, r, s, at, ip, m, t) ==
    /\ t \in Seq(Step)
    /\ \/ t = <<SetCursor(1), PrintText(m)>>
       \/ /\ ip = << >> /\ m = << >>
          /\ \E x \in Texts : Len(x) <= TextWidth /\ t = <<SetCursor(0), PrintText(x), KeepIp(x)>>
    /\ \/ r = <<Clear, SetCursor(0), CopyIp>> \o t
       \/ /\ r = <<SetCursor(0), CopyIp>> \o t
          /\ q = <<Clear>> \/ (q = << >> /\ Row(s, << >>) /\ Rows(s, << >>))
       \/ /\ r = <<CopyIp>> \o t \/ r = <<PrintText(ip)>> \o t
          /\ Row(s, << >>) /\ Rows(s, << >>)
          /\ q = <<SetCursor(0)>> \/ (q = << >> /\ at = 0)

Lone(q, r, s, at, ip, m) ==
    \/ r = << >> /\ Settled(q, s, at, ip, m)
    \/ \E x : Setting(q, r, s, at, ip, m, x)
    \/ Writing(q, r, s, at, ip, m)
    \/ \E t : Clearing(q, r, s, at, ip, m, t)

\* Rows and texts
LEMMA PictureFacts ==
  ASSUME NEW s \in Screens, NEW x \in Texts, NEW y \in Texts
  PROVE  /\ Row(s, x) /\ Len(x) <= Len(y) => Clean(s, y)
         /\ Row(s, << >>) => Clean(s, x)
         /\ Len(x) \in Nat /\ Len(<< >>) = 0 /\ << >> \in Texts
  <1>1. Len(x) \in Nat /\ Len(y) \in Nat /\ Len(<< >>) = 0 /\ << >> \in Texts BY DEF Texts
  <1>2. ASSUME Row(s, x), Len(x) <= Len(y) PROVE Clean(s, y)
    BY <1>1, <1>2, SizeFacts DEF Row, Clean
  <1>3. ASSUME Row(s, << >>) PROVE Clean(s, x)
    BY <1>1, <1>3, SizeFacts DEF Row, Clean
  <1> QED BY <1>1, <1>2, <1>3

\* The steps of led_display_clear before others
LEMMA ClearSteps ==
  ASSUME NEW t \in Seq(Step)
  PROVE  /\ <<SetCursor(0), CopyIp>> \o t = <<SetCursor(0)>> \o (<<CopyIp>> \o t)
         /\ <<Clear, SetCursor(0), CopyIp>> \o t = <<Clear>> \o (<<SetCursor(0), CopyIp>> \o t)
         /\ <<CopyIp>> \o t \in Seq(Step) /\ <<SetCursor(0), CopyIp>> \o t \in Seq(Step)
         /\ <<Clear, SetCursor(0), CopyIp>> \o t \in Seq(Step)
  <1>1. Clear \in Step /\ SetCursor(0) \in Step /\ CopyIp \in Step BY StepFacts
  <1> DEFINE a == SetCursor(0)
  <1>2. a \in Step BY <1>1
  <1> HIDE DEF a
  <1>3. <<a, CopyIp>> \o t = <<a>> \o (<<CopyIp>> \o t) BY <1>1, <1>2, StepsFirst
  <1>4. <<Clear, a, CopyIp>> \o t = <<Clear>> \o (<<a, CopyIp>> \o t) BY <1>1, <1>2, StepsFirst
  <1>5. <<a, CopyIp>> \o t \in Seq(Step) /\ <<Clear, a, CopyIp>> \o t \in Seq(Step)
    BY <1>1, <1>2, StepsFirst
  <1>6. <<CopyIp>> \o t \in Seq(Step) BY <1>1, StepFirst
  <1> QED BY <1>3, <1>4, <1>5, <1>6 DEF a

\* xQueueSend
LEMMA LoneSends ==
  ASSUME NEW r \in Seq(Step), NEW s \in Screens, NEW at \in Cells, NEW ip \in Texts, NEW m \in Texts,
         r # << >>, Head(r).op \in {"Clear", "SetCursor", "Print"}, Lone(<< >>, r, s, at, ip, m)
  PROVE  Lone(<<Head(r)>>, Tail(r), s, at, ip, m)
  <1> DEFINE h == Head(r)  z == Tail(r)
  <1>1. ASSUME NEW x, Setting(<< >>, r, s, at, ip, m, x)
        PROVE  Setting(<<h>>, z, s, at, ip, m, x)
    <2>1. x \in Texts /\ Len(ip) <= Len(x) /\ Len(x) <= TextWidth BY <1>1 DEF Setting
    <2>2. CASE r = <<SetCursor(0), PrintText(x), KeepIp(x)>> /\ Settled(<< >>, s, at, ip, m)
      <3>1. h = SetCursor(0) /\ z = <<PrintText(x), KeepIp(x)>> BY <2>2
      <3>2. Row(s, ip) /\ Rows(s, m)
        <4>1. << >> # <<PrintText(m)>> /\ << >> # <<PrintText(ip)>> OBVIOUS
        <4> QED BY <2>2, <4>1 DEF Settled
      <3>3. Clean(s, x) BY <2>1, <3>2, PictureFacts
      <3> QED BY <2>1, <3>1, <3>2, <3>3 DEF Setting
    <2>3. CASE r = <<PrintText(x), KeepIp(x)>> /\ Clean(s, x) /\ Rows(s, m) /\ at = 0
      <3>1. h = PrintText(x) /\ z = <<KeepIp(x)>> BY <2>3
      <3> QED BY <2>1, <2>3, <3>1 DEF Setting
    <2>4. CASE r = <<KeepIp(x)>>
      <3>1. h = KeepIp(x) BY <2>4
      <3> QED BY <2>1, <3>1, StepFacts
    <2>5. << >> # <<SetCursor(0)>> OBVIOUS
    <2> QED BY <1>1, <2>2, <2>3, <2>4, <2>5 DEF Setting
  <1>2. ASSUME Writing(<< >>, r, s, at, ip, m)
        PROVE  Lone(<<h>>, z, s, at, ip, m)
    <2>1. CASE r = <<SetCursor(1), PrintText(m)>> /\ Settled(<< >>, s, at, ip, << >>)
      <3>1. h = SetCursor(1) /\ z = <<PrintText(m)>> BY <2>1
      <3>2. Row(s, ip) /\ Rows(s, << >>)
        <4>1. << >> # <<PrintText(<< >>)>> /\ << >> # <<PrintText(ip)>> OBVIOUS
        <4> QED BY <2>1, <4>1 DEF Settled
      <3>3. Writing(<<h>>, z, s, at, ip, m) BY <3>1, <3>2 DEF Writing
      <3> QED BY <3>3 DEF Lone
    <2>2. CASE r = <<PrintText(m)>> /\ Row(s, ip) /\ Rows(s, << >>) /\ at = TextWidth
      <3>1. h = PrintText(m) /\ z = << >> BY <2>2
      <3>2. Settled(<<h>>, s, at, ip, m) BY <2>2, <3>1 DEF Settled
      <3> QED BY <3>1, <3>2 DEF Lone
    <2>3. << >> # <<SetCursor(1)>> OBVIOUS
    <2> QED BY <1>2, <2>1, <2>2, <2>3 DEF Writing
  <1>3. ASSUME NEW t, Clearing(<< >>, r, s, at, ip, m, t)
        PROVE  Lone(<<h>>, z, s, at, ip, m)
    <2> DEFINE rest == \/ t = <<SetCursor(1), PrintText(m)>>
                       \/ /\ ip = << >> /\ m = << >>
                          /\ \E x \in Texts : Len(x) <= TextWidth /\ t = <<SetCursor(0), PrintText(x), KeepIp(x)>>
    <2>1. t \in Seq(Step) /\ rest BY <1>3 DEF Clearing
    <2>2. /\ <<SetCursor(0), CopyIp>> \o t = <<SetCursor(0)>> \o (<<CopyIp>> \o t)
          /\ <<Clear, SetCursor(0), CopyIp>> \o t = <<Clear>> \o (<<SetCursor(0), CopyIp>> \o t)
          /\ <<CopyIp>> \o t \in Seq(Step) /\ <<SetCursor(0), CopyIp>> \o t \in Seq(Step)
      BY <2>1, ClearSteps
    <2>3. CASE r = <<Clear, SetCursor(0), CopyIp>> \o t
      <3>1. h = Clear /\ z = <<SetCursor(0), CopyIp>> \o t BY <2>2, <2>3, StepFacts, StepFirst
      <3>2. Clearing(<<h>>, z, s, at, ip, m, t) BY <2>1, <3>1 DEF Clearing
      <3> QED BY <3>2 DEF Lone
    <2>4. CASE r = <<SetCursor(0), CopyIp>> \o t /\ Row(s, << >>) /\ Rows(s, << >>)
      <3>1. h = SetCursor(0) /\ z = <<CopyIp>> \o t BY <2>2, <2>4, StepFacts, StepFirst
      <3>2. Clearing(<<h>>, z, s, at, ip, m, t) BY <2>1, <2>4, <3>1 DEF Clearing
      <3> QED BY <3>2 DEF Lone
    <2>5. CASE r = <<CopyIp>> \o t
      <3>1. h = CopyIp BY <2>1, <2>5, StepFacts, StepFirst
      <3> QED BY <3>1, StepFacts
    <2>6. CASE r = <<PrintText(ip)>> \o t /\ Row(s, << >>) /\ Rows(s, << >>) /\ at = 0
      <3>1. h = PrintText(ip) /\ z = t BY <2>1, <2>6, StepFacts, StepFirst
      <3>2. Clean(s, ip) BY <2>6, PictureFacts
      <3>3. Settled(<<h>>, s, at, ip, << >>) BY <2>6, <3>1, <3>2 DEF Settled
      <3>4. CASE t = <<SetCursor(1), PrintText(m)>>
        <4>1. Writing(<<h>>, z, s, at, ip, m) BY <3>1, <3>3, <3>4 DEF Writing
        <4> QED BY <4>1 DEF Lone
      <3>5. ASSUME ip = << >>, m = << >>, NEW x \in Texts, Len(x) <= TextWidth,
                   t = <<SetCursor(0), PrintText(x), KeepIp(x)>>
            PROVE  Lone(<<h>>, z, s, at, ip, m)
        <4>1. Len(ip) <= Len(x) BY <3>5, PictureFacts
        <4>2. Setting(<<h>>, z, s, at, ip, m, x) BY <3>1, <3>3, <3>5, <4>1 DEF Setting
        <4> QED BY <4>2 DEF Lone
      <3> QED BY <2>1, <3>4, <3>5
    <2>7. << >> # <<Clear>> /\ << >> # <<SetCursor(0)>> OBVIOUS
    <2> QED BY <1>3, <2>3, <2>4, <2>5, <2>6, <2>7 DEF Clearing
  <1> QED BY <1>1, <1>2, <1>3 DEF Lone

\* What is left of a call begins with the step at its head.
LEMMA LoneHeads ==
  ASSUME NEW q, NEW r, NEW s \in Screens, NEW at \in Cells, NEW ip \in Texts, NEW m \in Texts
  PROVE  /\ \A x : Setting(q, r, s, at, ip, m, x) =>
                r # << >> /\ Head(r).op \in {"SetCursor", "Print", "KeepIp"}
         /\ Writing(q, r, s, at, ip, m) => r # << >> /\ Head(r).op \in {"SetCursor", "Print"}
         /\ \A t : Clearing(q, r, s, at, ip, m, t) =>
                r # << >> /\ Head(r).op \in {"Clear", "SetCursor", "CopyIp", "Print"}
  <1>1. ASSUME NEW x, Setting(q, r, s, at, ip, m, x)
        PROVE  r # << >> /\ Head(r).op \in {"SetCursor", "Print", "KeepIp"}
    <2>1. x \in Texts BY <1>1 DEF Setting
    <2>2. r # << >> /\ Head(r) \in {SetCursor(0), PrintText(x), KeepIp(x)} BY <1>1 DEF Setting
    <2> QED BY <2>1, <2>2, StepFacts
  <1>2. ASSUME Writing(q, r, s, at, ip, m) PROVE r # << >> /\ Head(r).op \in {"SetCursor", "Print"}
    <2>1. r # << >> /\ Head(r) \in {SetCursor(1), PrintText(m)} BY <1>2 DEF Writing
    <2> QED BY <2>1, StepFacts
  <1>3. ASSUME NEW t, Clearing(q, r, s, at, ip, m, t)
        PROVE  r # << >> /\ Head(r).op \in {"Clear", "SetCursor", "CopyIp", "Print"}
    <2>1. t \in Seq(Step) BY <1>3 DEF Clearing
    <2>2. \/ r = <<Clear>> \o (<<SetCursor(0), CopyIp>> \o t)
          \/ r = <<SetCursor(0)>> \o (<<CopyIp>> \o t)
          \/ r = <<CopyIp>> \o t
          \/ r = <<PrintText(ip)>> \o t
      BY <1>3, <2>1, ClearSteps DEF Clearing
    <2>3. <<SetCursor(0), CopyIp>> \o t \in Seq(Step) /\ <<CopyIp>> \o t \in Seq(Step) BY <2>1, ClearSteps
    <2>4. r # << >> /\ Head(r) \in {Clear, SetCursor(0), CopyIp, PrintText(ip)}
      BY <2>1, <2>2, <2>3, StepFacts, StepFirst
    <2> QED BY <2>4, StepFacts
  <1> QED BY <1>1, <1>2, <1>3

\* Nobody is in a call.
LEMMA LoneIdle ==
  ASSUME NEW q, NEW s \in Screens, NEW at \in Cells, NEW ip \in Texts, NEW m \in Texts
  PROVE  Lone(q, << >>, s, at, ip, m) <=> Settled(q, s, at, ip, m)
  BY LoneHeads DEF Lone

\* led_display_clear reads ipAddr.
LEMMA LoneCopies ==
  ASSUME NEW q, NEW r \in Seq(Step), NEW s \in Screens, NEW at \in Cells, NEW ip \in Texts, NEW m \in Texts,
         r # << >>, Head(r).op = "CopyIp", Lone(q, r, s, at, ip, m)
  PROVE  Lone(q, <<PrintText(ip)>> \o Tail(r), s, at, ip, m)
  <1>1. PICK t : Clearing(q, r, s, at, ip, m, t) BY LoneHeads DEF Lone
  <1>2. t \in Seq(Step) BY <1>1 DEF Clearing
  <1>3. r # <<Clear, SetCursor(0), CopyIp>> \o t /\ r # <<SetCursor(0), CopyIp>> \o t
    BY <1>2, ClearSteps, StepFacts, StepFirst
  <1>4. r # <<PrintText(ip)>> \o t BY <1>2, StepFacts, StepFirst
  <1>5. r = <<CopyIp>> \o t BY <1>1, <1>3, <1>4 DEF Clearing
  <1>6. Tail(r) = t BY <1>2, <1>5, StepFacts, StepFirst
  <1>7. Clearing(q, <<PrintText(ip)>> \o Tail(r), s, at, ip, m, t) BY <1>1, <1>3, <1>6 DEF Clearing
  <1> QED BY <1>7 DEF Lone

\* led_display_set_ip keeps the address.
LEMMA LoneKeeps ==
  ASSUME NEW q, NEW r \in Seq(Step), NEW s \in Screens, NEW at \in Cells, NEW ip \in Texts, NEW m \in Texts,
         r # << >>, Head(r).op = "KeepIp", Lone(q, r, s, at, ip, m)
  PROVE  Lone(q, Tail(r), s, at, Head(r).text, m)
  <1>1. PICK x : Setting(q, r, s, at, ip, m, x) BY LoneHeads DEF Lone
  <1>2. x \in Texts BY <1>1 DEF Setting
  <1>3. r # <<SetCursor(0), PrintText(x), KeepIp(x)>> /\ r # <<PrintText(x), KeepIp(x)>>
    BY <1>2, StepFacts
  <1>4. /\ r = <<KeepIp(x)>> /\ Rows(s, m)
        /\ (q = <<PrintText(x)>> /\ at = 0 /\ Clean(s, x)) \/ (q = << >> /\ Row(s, x))
    BY <1>1, <1>3 DEF Setting
  <1>5. Head(r).text = x /\ Tail(r) = << >> BY <1>2, <1>4, StepFacts
  <1>6. Settled(q, s, at, x, m) BY <1>4 DEF Settled
  <1> QED BY <1>5, <1>6 DEF Lone

\* The display's thread draws the message z.
Drawn(z, s, at, s2, at2) ==
    \/ z.op = "Clear" /\ s2 = Cleared(s) /\ at2 = 0
    \/ z.op = "SetCursor" /\ s2 = s /\ at2 = z.at
    \/ z.op = "Print" /\ s2 = Printed(s, at, z.text) /\ at2 = Advanced(at, Len(z.text))

\* What it draws, by the message
LEMMA DrawnFacts ==
  ASSUME NEW z, NEW s \in Screens, NEW at \in Cells, NEW s2, NEW at2, Drawn(z, s, at, s2, at2)
  PROVE  /\ z = Clear => s2 = Cleared(s) /\ at2 = 0
         /\ z = SetCursor(0) => s2 = s /\ at2 = 0
         /\ z = SetCursor(1) => s2 = s /\ at2 = TextWidth
         /\ \A x \in Texts : z = PrintText(x) => s2 = Printed(s, at, x)
         /\ z \in Order => s2 \in Screens /\ at2 \in Cells
  <1>1. ASSUME z \in Order PROVE s2 \in Screens /\ at2 \in Cells
    <2>1. CASE z.op = "Clear" BY <2>1, ClearedFacts, SizeFacts DEF Drawn, Screens
    <2>2. CASE z.op = "SetCursor"
      <3>1. z.at = 0 \/ z.at = TextWidth BY <1>1, <2>2, OrderKinds, StepFacts
      <3> QED BY <2>2, <3>1, SizeFacts DEF Drawn
    <2>3. CASE z.op = "Print"
      <3>1. z.text \in Texts BY <1>1, <2>3, OrderKinds
      <3> QED BY <2>3, <3>1, PrintedFacts DEF Drawn, Screens
    <2> QED BY <1>1, <2>1, <2>2, <2>3, OrderKinds
  <1> QED BY <1>1, StepFacts DEF Drawn

\* The last text is printed.
LEMMA SettledDrawn ==
  ASSUME NEW z, NEW s \in Screens, NEW at \in Cells, NEW s2, NEW at2, NEW ip \in Texts, NEW m \in Texts,
         Len(ip) <= TextWidth, Len(m) <= Bottom, Drawn(z, s, at, s2, at2), Settled(<<z>>, s, at, ip, m)
  PROVE  Row(s2, ip) /\ Rows(s2, m)
  <1>d. /\ z = Clear => s2 = Cleared(s) /\ at2 = 0
        /\ z = SetCursor(0) => s2 = s /\ at2 = 0
        /\ z = SetCursor(1) => s2 = s /\ at2 = TextWidth
        /\ \A x \in Texts : z = PrintText(x) => s2 = Printed(s, at, x)
        /\ z \in Order => s2 \in Screens /\ at2 \in Cells
    BY DrawnFacts
  <1>1. <<z>> # << >> OBVIOUS
  <1>2. CASE z = PrintText(m) /\ at = TextWidth /\ Row(s, ip) /\ Rows(s, << >>)
    <2>1. s2 = Printed(s, TextWidth, m) BY <1>2, <1>d
    <2> QED BY <1>2, <2>1, PrintsFacts DEF Screens
  <1>3. CASE z = PrintText(ip) /\ at = 0 /\ Clean(s, ip) /\ Rows(s, m)
    <2>1. s2 = Printed(s, 0, ip) BY <1>3, <1>d
    <2> QED BY <1>3, <2>1, PrintsFacts DEF Screens
  <1> QED BY <1>1, <1>2, <1>3 DEF Settled

\* DisplayLedThread takes the message from the queue and draws it.
LEMMA LoneDrawn ==
  ASSUME NEW z, NEW r \in Seq(Step), NEW s \in Screens, NEW at \in Cells, NEW s2, NEW at2,
         NEW ip \in Texts, NEW m \in Texts,
         Len(ip) <= TextWidth, Len(m) <= Bottom, Drawn(z, s, at, s2, at2), Lone(<<z>>, r, s, at, ip, m)
  PROVE  Lone(<< >>, r, s2, at2, ip, m)
  <1>d. /\ z = Clear => s2 = Cleared(s) /\ at2 = 0
        /\ z = SetCursor(0) => s2 = s /\ at2 = 0
        /\ z = SetCursor(1) => s2 = s /\ at2 = TextWidth
        /\ \A x \in Texts : z = PrintText(x) => s2 = Printed(s, at, x)
        /\ z \in Order => s2 \in Screens /\ at2 \in Cells
    BY DrawnFacts
  <1>0. <<z>> # << >> /\ Len(<< >>) <= Bottom /\ << >> \in Texts BY PictureFacts, SizeFacts
  <1>1. CASE r = << >> /\ Settled(<<z>>, s, at, ip, m)
    <2>1. Settled(<< >>, s2, at2, ip, m) BY <1>1, SettledDrawn DEF Settled
    <2> QED BY <1>1, <2>1 DEF Lone
  <1>2. ASSUME NEW x, Setting(<<z>>, r, s, at, ip, m, x)
        PROVE  Setting(<< >>, r, s2, at2, ip, m, x)
    <2>1. x \in Texts /\ Len(ip) <= Len(x) /\ Len(x) <= TextWidth BY <1>2 DEF Setting
    <2>2. CASE r = <<SetCursor(0), PrintText(x), KeepIp(x)>> /\ Settled(<<z>>, s, at, ip, m)
      <3>1. Settled(<< >>, s2, at2, ip, m) BY <2>2, SettledDrawn DEF Settled
      <3> QED BY <2>1, <2>2, <3>1 DEF Setting
    <2>3. CASE r = <<PrintText(x), KeepIp(x)>> /\ Clean(s, x) /\ Rows(s, m) /\ z = SetCursor(0)
      <3>1. s2 = s /\ at2 = 0 BY <2>3, <1>d
      <3> QED BY <2>1, <2>3, <3>1 DEF Setting
    <2>4. CASE r = <<KeepIp(x)>> /\ Rows(s, m) /\ z = PrintText(x) /\ at = 0 /\ Clean(s, x)
      <3>1. s2 = Printed(s, 0, x) BY <2>1, <2>4, <1>d
      <3>2. Row(s2, x) /\ Rows(s2, m) BY <2>1, <2>4, <3>1, PrintsFacts DEF Screens
      <3> QED BY <2>1, <2>4, <3>2 DEF Setting
    <2> QED BY <1>0, <1>2, <2>2, <2>3, <2>4 DEF Setting
  <1>3. ASSUME Writing(<<z>>, r, s, at, ip, m)
        PROVE  Writing(<< >>, r, s2, at2, ip, m)
    <2>1. CASE r = <<SetCursor(1), PrintText(m)>> /\ Settled(<<z>>, s, at, ip, << >>)
      <3>1. Settled(<< >>, s2, at2, ip, << >>) BY <1>0, <2>1, SettledDrawn DEF Settled
      <3> QED BY <2>1, <3>1 DEF Writing
    <2>2. CASE r = <<PrintText(m)>> /\ Row(s, ip) /\ Rows(s, << >>) /\ z = SetCursor(1)
      <3>1. s2 = s /\ at2 = TextWidth BY <2>2, <1>d
      <3> QED BY <2>2, <3>1 DEF Writing
    <2> QED BY <1>0, <1>3, <2>1, <2>2 DEF Writing
  <1>4. ASSUME NEW t, Clearing(<<z>>, r, s, at, ip, m, t)
        PROVE  Clearing(<< >>, r, s2, at2, ip, m, t)
    <2>1. /\ t \in Seq(Step)
          /\ \/ t = <<SetCursor(1), PrintText(m)>>
             \/ /\ ip = << >> /\ m = << >>
                /\ \E x \in Texts : Len(x) <= TextWidth /\ t = <<SetCursor(0), PrintText(x), KeepIp(x)>>
      BY <1>4 DEF Clearing
    <2>2. CASE r = <<Clear, SetCursor(0), CopyIp>> \o t
      BY <2>1, <2>2 DEF Clearing
    <2>3. CASE r = <<SetCursor(0), CopyIp>> \o t /\ z = Clear
      <3>1. s2 = Cleared(s) BY <2>3, <1>d
      <3>2. Row(s2, << >>) /\ Rows(s2, << >>) BY <3>1, ClearedFacts DEF Screens
      <3> QED BY <2>1, <2>3, <3>2 DEF Clearing
    <2>4. CASE /\ r = <<CopyIp>> \o t \/ r = <<PrintText(ip)>> \o t
               /\ Row(s, << >>) /\ Rows(s, << >>) /\ z = SetCursor(0)
      <3>1. s2 = s /\ at2 = 0 BY <2>4, <1>d
      <3> QED BY <2>1, <2>4, <3>1 DEF Clearing
    <2> QED BY <1>0, <1>4, <2>2, <2>3, <2>4 DEF Clearing
  <1> QED BY <1>1, <1>2, <1>3, <1>4 DEF Lone

-----------------------------------------------------------------------------
(* The calls. *)

\* led_display_set_ip begins when the display settles.
LEMMA SetIpCall ==
  ASSUME NEW q, NEW s \in Screens, NEW at \in Cells, NEW ip \in Texts, NEW m \in Texts, NEW x \in Texts
  PROVE  /\ led_display_set_ip(x) \in Seq(Step) /\ led_display_set_ip(x) # << >>
         /\ Head(led_display_set_ip(x)) # Clear
         /\ Len(ip) <= Len(x) /\ Len(x) <= TextWidth /\ Settled(q, s, at, ip, m) =>
               Lone(q, led_display_set_ip(x), s, at, ip, m)
  <1> DEFINE r == <<SetCursor(0), PrintText(x), KeepIp(x)>>
  <1>1. led_display_set_ip(x) = r BY DEF led_display_set_ip
  <1>2. SetCursor(0) \in Step /\ PrintText(x) \in Step /\ KeepIp(x) \in Step /\ SetCursor(0) # Clear
    BY StepFacts
  <1>3. r \in Seq(Step) /\ r # << >> /\ Head(r) = SetCursor(0) BY <1>2
  <1>4. Len(ip) <= Len(x) /\ Len(x) <= TextWidth /\ Settled(q, s, at, ip, m) => Setting(q, r, s, at, ip, m, x)
    BY DEF Setting
  <1> HIDE DEF r
  <1> QED BY <1>1, <1>2, <1>3, <1>4 DEF Lone

\* A call that clears first may find any queue and any screen.
LEMMA ClearCall ==
  ASSUME NEW q, NEW s \in Screens, NEW at \in Cells, NEW ip \in Texts, NEW m \in Texts, NEW x \in Texts
  PROVE  /\ led_display_set_message(m) \in Seq(Step) /\ led_display_set_message(m) # << >>
         /\ Lone(q, led_display_set_message(m), s, at, ip, m)
         /\ LET r == led_display_clear \o led_display_set_ip(x)
            IN  /\ r \in Seq(Step) /\ r # << >>
                /\ Len(x) <= TextWidth => Lone(q, r, s, at, << >>, << >>)
  <1>1. ASSUME NEW t \in Seq(Step)
        PROVE  led_display_clear \o t \in Seq(Step) /\ led_display_clear \o t # << >>
    BY ClearSteps, StepFacts, StepFirst DEF led_display_clear
  <1> DEFINE T == <<SetCursor(1), PrintText(m)>>
  <1>2. T \in Seq(Step) /\ led_display_set_message(m) = led_display_clear \o T
    BY StepFacts DEF led_display_set_message
  <1>3. Clearing(q, led_display_clear \o T, s, at, ip, m, T)
    BY <1>2 DEF Clearing, led_display_clear
  <1>4. Lone(q, led_display_set_message(m), s, at, ip, m) BY <1>2, <1>3 DEF Lone
  <1> DEFINE U == led_display_set_ip(x)
  <1>5. U \in Seq(Step) BY SetIpCall
  <1>6. ASSUME Len(x) <= TextWidth PROVE Lone(q, led_display_clear \o U, s, at, << >>, << >>)
    <2>1. Clearing(q, led_display_clear \o U, s, at, << >>, << >>, U)
      BY <1>5, <1>6 DEF Clearing, led_display_clear, led_display_set_ip
    <2> QED BY <2>1 DEF Lone
  <1> QED BY <1>1, <1>2, <1>4, <1>5, <1>6

-----------------------------------------------------------------------------
(* Types. *)

\* A queue of one
LEMMA OneMessage ==
  ASSUME NEW S, NEW s \in Seq(S), s # << >>, Len(s) <= 1
  PROVE  s = <<Head(s)>>
  <1>1. Len(s) \in Nat /\ Len(s) # 0 BY EmptySeq
  <1>2. Len(s) = 1 BY <1>1
  <1>3. <<Head(s)>> \in Seq(S) /\ Len(<<Head(s)>>) = 1 BY <1>2
  <1>4. \A i \in 1 .. Len(s) : s[i] = <<Head(s)>>[i] BY <1>2
  <1> QED BY <1>2, <1>3, <1>4, SeqEqual

\* A call leaves the types alone.
LEMMA CallTyped ==
  ASSUME DisplayTypeOK, NEW t \in Callers, NEW steps \in Seq(Step), Call(t, steps), message' \in Texts
  PROVE  DisplayTypeOK'
  <1>1. todo' \in [Callers -> Seq(Step)] BY DEF DisplayTypeOK, Call
  <1>2. mixed' \in BOOLEAN
    <2>1. CASE \A u \in Others(t) : Idle(u)
      <3>1. mixed' = (mixed /\ Head(steps) # Clear) BY <2>1 DEF Call
      <3> QED BY <3>1
    <2>2. CASE ~ \A u \in Others(t) : Idle(u)
      <3>1. mixed' = TRUE BY <2>2 DEF Call
      <3> QED BY <3>1
    <2> QED BY <2>1, <2>2
  <1> QED BY <1>1, <1>2 DEF DisplayTypeOK, Call

\* So does every step of a call and of the display's thread.
LEMMA DisplayStepTyped ==
  ASSUME DisplayTypeOK, DisplayStep
  PROVE  DisplayTypeOK'
  <1>1. /\ queue \in Seq(Order) /\ Len(queue) <= 1 /\ screen \in Screens /\ cursor \in Cells
        /\ ipAddr \in Texts /\ todo \in [Callers -> Seq(Step)]
    BY DEF DisplayTypeOK, Order, Screens
  <1>2. ASSUME queue' \in Seq(Order), Len(queue') <= 1, alive' \in BOOLEAN, screen' \in Screens,
               cursor' \in Cells, ipAddr' \in Texts, todo' \in [Callers -> Seq(Step)],
               mixed' = mixed, message' = message
        PROVE  DisplayTypeOK'
    <2>1. message' \in Texts /\ mixed' \in BOOLEAN BY <1>2, Zenon DEF DisplayTypeOK
    <2> QED BY <1>2, <2>1, Zenon DEF DisplayTypeOK, Order, Screens
  <1>3. alive \in BOOLEAN BY DEF DisplayTypeOK
  <1>4. ASSUME NEW t \in Callers, ~Idle(t)
        PROVE  /\ todo[t] \in Seq(Step) /\ todo[t] # << >>
               /\ Head(todo[t]) \in Step /\ Tail(todo[t]) \in Seq(Step)
    BY <1>1, <1>4 DEF Idle
  <1>5. ASSUME NEW t \in Callers, Send(t) PROVE DisplayTypeOK'
    <2>1. Head(todo[t]) \in Order BY <1>4, <1>5, StepKinds DEF Send
    <2>2. queue' = <<Head(todo[t])>> /\ todo' = [todo EXCEPT ![t] = Tail(todo[t])] BY <1>5 DEF Send
    <2>3. queue' \in Seq(Order) /\ Len(queue') <= 1 BY <2>1, <2>2
    <2>4. todo' \in [Callers -> Seq(Step)] BY <1>1, <1>4, <1>5, <2>2 DEF Send
    <2> QED BY <1>1, <1>2, <1>3, <1>5, <2>3, <2>4 DEF Send
  <1>6. ASSUME NEW t \in Callers, CopiesIp(t) PROVE DisplayTypeOK'
    <2>1. PrintText(ipAddr) \in Step BY <1>1, StepFacts
    <2>2. Tail(todo[t]) \in Seq(Step) BY <1>4, <1>6 DEF CopiesIp
    <2>3. <<PrintText(ipAddr)>> \o Tail(todo[t]) \in Seq(Step) BY <2>1, <2>2, StepFirst
    <2>4. todo' \in [Callers -> Seq(Step)] BY <1>1, <1>6, <2>3 DEF CopiesIp
    <2> QED BY <1>1, <1>2, <1>3, <1>6, <2>4 DEF CopiesIp
  <1>7. ASSUME NEW t \in Callers, KeepsIp(t) PROVE DisplayTypeOK'
    <2>1. Head(todo[t]).text \in Texts BY <1>4, <1>7, StepKinds DEF KeepsIp
    <2>2. todo' \in [Callers -> Seq(Step)] BY <1>1, <1>4, <1>7 DEF KeepsIp
    <2> QED BY <1>1, <1>2, <1>3, <1>7, <2>1, <2>2 DEF KeepsIp
  <1>8. CASE DisplayReceives
    <2>1. Head(queue) \in Order BY <1>1, <1>8 DEF DisplayReceives
    <2>2. Drawn(Head(queue), screen, cursor, screen', cursor') BY <1>8 DEF DisplayReceives, Draw, Drawn
    <2>3. screen' \in Screens /\ cursor' \in Cells BY <1>1, <2>1, <2>2, DrawnFacts
    <2>4. queue' \in Seq(Order) /\ Len(queue') <= 1 BY <1>8 DEF DisplayReceives
    <2> QED BY <1>1, <1>2, <1>3, <1>8, <2>3, <2>4 DEF DisplayReceives
  <1>9. CASE DisplayFails
    <2>1. queue' \in Seq(Order) /\ Len(queue') <= 1
      <3>1. CASE queue' = queue BY <1>1, <3>1
      <3>2. CASE queue' = << >> BY <3>2
      <3> QED BY <1>9, <3>1, <3>2 DEF DisplayFails
    <2> QED BY <1>1, <1>2, <1>9, <2>1 DEF DisplayFails
  <1> QED BY <1>5, <1>6, <1>7, <1>8, <1>9 DEF DisplayStep, CallerStep

-----------------------------------------------------------------------------
(* Calls that do not overlap. *)

\* One caller at most is in a call.
AloneInv ==
    alive /\ ~mixed =>
        \E t \in Callers :
            /\ \A u \in Others(t) : Idle(u)
            /\ Lone(queue, todo[t], screen, cursor, ipAddr, message)

\* No text is longer than what it has to fit.
FitInv == Len(ipAddr) <= TextWidth /\ Len(message) <= Bottom

\* Whoever takes a step is the one caller, and its call goes on as it should.
LEMMA AloneKept ==
  ASSUME DisplayTypeOK, FitInv, AloneInv, DisplayStep
  PROVE  AloneInv'
  <1> SUFFICES ASSUME alive', ~mixed'
               PROVE  \E t \in Callers :
                        /\ \A u \in Others(t) : Idle(u)'
                        /\ Lone(queue', todo'[t], screen', cursor', ipAddr', message')
    BY DEF AloneInv
  <1>1. /\ queue \in Seq(Order) /\ Len(queue) <= 1 /\ screen \in Screens /\ cursor \in Cells
        /\ ipAddr \in Texts /\ todo \in [Callers -> Seq(Step)] /\ message \in Texts /\ alive \in BOOLEAN
    BY DEF DisplayTypeOK, Order, Screens
  <1>2. ~DisplayFails BY DEF DisplayFails
  <1>3. alive /\ ~mixed /\ message' = message
    <2>1. UNCHANGED <<alive, mixed, message>>
      BY <1>2, Zenon DEF DisplayStep, CallerStep, Send, CopiesIp, KeepsIp, DisplayReceives
    <2> QED BY <2>1, Zenon
  <1>4. PICK t \in Callers :
          /\ \A u \in Others(t) : Idle(u)
          /\ Lone(queue, todo[t], screen, cursor, ipAddr, message)
    BY <1>3 DEF AloneInv
  <1>5. todo[t] \in Seq(Step) BY <1>1
  <1>6. ASSUME NEW v \in Callers, ~Idle(v) PROVE v = t
    BY <1>4, <1>6 DEF Others
  <1>7. ASSUME NEW y, todo' = [todo EXCEPT ![t] = y]
        PROVE  todo'[t] = y /\ \A u \in Others(t) : Idle(u)'
    BY <1>1, <1>4, <1>7 DEF Others, Idle
  <1>8. ASSUME NEW v \in Callers, Send(v)
        PROVE  Lone(queue', todo'[t], screen', cursor', ipAddr', message') /\ \A u \in Others(t) : Idle(u)'
    <2>1. v = t BY <1>6, <1>8 DEF Send
    <2>2. todo[t] # << >> /\ Head(todo[t]).op \in {"Clear", "SetCursor", "Print"} /\ queue = << >>
      BY <1>8, <2>1 DEF Send, Idle
    <2>3. Lone(<<Head(todo[t])>>, Tail(todo[t]), screen, cursor, ipAddr, message)
      BY <1>1, <1>4, <1>5, <2>2, LoneSends
    <2>4. todo' = [todo EXCEPT ![t] = Tail(todo[t])] BY <1>8, <2>1 DEF Send
    <2>5. todo'[t] = Tail(todo[t]) /\ \A u \in Others(t) : Idle(u)' BY <1>7, <2>4
    <2> QED BY <1>8, <2>1, <2>3, <2>5 DEF Send
  <1>9. ASSUME NEW v \in Callers, CopiesIp(v)
        PROVE  Lone(queue', todo'[t], screen', cursor', ipAddr', message') /\ \A u \in Others(t) : Idle(u)'
    <2>1. v = t BY <1>6, <1>9 DEF CopiesIp
    <2>2. todo[t] # << >> /\ Head(todo[t]).op = "CopyIp" BY <1>9, <2>1 DEF CopiesIp, Idle
    <2>3. Lone(queue, <<PrintText(ipAddr)>> \o Tail(todo[t]), screen, cursor, ipAddr, message)
      BY <1>1, <1>4, <1>5, <2>2, LoneCopies
    <2>4. todo' = [todo EXCEPT ![t] = <<PrintText(ipAddr)>> \o Tail(todo[t])] BY <1>9, <2>1 DEF CopiesIp
    <2>5. todo'[t] = <<PrintText(ipAddr)>> \o Tail(todo[t]) /\ \A u \in Others(t) : Idle(u)' BY <1>7, <2>4
    <2> QED BY <1>9, <2>1, <2>3, <2>5 DEF CopiesIp
  <1>10. ASSUME NEW v \in Callers, KeepsIp(v)
         PROVE  Lone(queue', todo'[t], screen', cursor', ipAddr', message') /\ \A u \in Others(t) : Idle(u)'
    <2>1. v = t BY <1>6, <1>10 DEF KeepsIp
    <2>2. todo[t] # << >> /\ Head(todo[t]).op = "KeepIp" BY <1>10, <2>1 DEF KeepsIp, Idle
    <2>3. Lone(queue, Tail(todo[t]), screen, cursor, Head(todo[t]).text, message)
      BY <1>1, <1>4, <1>5, <2>2, LoneKeeps
    <2>4. todo' = [todo EXCEPT ![t] = Tail(todo[t])] BY <1>10, <2>1 DEF KeepsIp
    <2>5. todo'[t] = Tail(todo[t]) /\ \A u \in Others(t) : Idle(u)' BY <1>7, <2>4
    <2> QED BY <1>10, <2>1, <2>3, <2>5 DEF KeepsIp
  <1>11. ASSUME DisplayReceives
         PROVE  Lone(queue', todo'[t], screen', cursor', ipAddr', message') /\ \A u \in Others(t) : Idle(u)'
    <2>1. queue = <<Head(queue)>>
      <3>1. queue # << >> BY <1>11 DEF DisplayReceives
      <3> QED BY <1>1, <3>1, OneMessage
    <2>2. Drawn(Head(queue), screen, cursor, screen', cursor') BY <1>11 DEF DisplayReceives, Draw, Drawn
    <2>3. Lone(<<Head(queue)>>, todo[t], screen, cursor, ipAddr, message) BY <1>4, <2>1
    <2>4. Lone(<< >>, todo[t], screen', cursor', ipAddr, message)
      BY <1>1, <1>5, <2>2, <2>3, LoneDrawn DEF FitInv
    <2> QED BY <1>4, <1>11, <2>4 DEF DisplayReceives, Idle
  <1> QED BY <1>2, <1>8, <1>9, <1>10, <1>11 DEF DisplayStep, CallerStep

\* Between calls the display's thread has at most the last text to print.
LEMMA AloneSettled ==
  ASSUME DisplayTypeOK, AloneInv, alive, ~mixed, \A t \in Callers : Idle(t)
  PROVE  Settled(queue, screen, cursor, ipAddr, message)
  <1>1. PICK t \in Callers : Lone(queue, todo[t], screen, cursor, ipAddr, message) BY DEF AloneInv
  <1>2. Lone(queue, << >>, screen, cursor, ipAddr, message) BY <1>1 DEF Idle
  <1> QED BY <1>2, LoneIdle DEF DisplayTypeOK, Screens

\* A call that does not overlap another one begins well.
LEMMA AloneCalls ==
  ASSUME DisplayTypeOK, AloneInv, NEW t \in Callers, NEW steps, Call(t, steps),
         Lone(queue, steps, screen, cursor, ipAddr, message') \/ mixed'
  PROVE  AloneInv'
  <1> SUFFICES ASSUME ~mixed'
               PROVE  /\ \A u \in Others(t) : Idle(u)'
                      /\ Lone(queue', todo'[t], screen', cursor', ipAddr', message')
    BY DEF AloneInv
  <1>1. \A u \in Others(t) : Idle(u) BY DEF Call
  <1>2. todo \in [Callers -> Seq(Step)] /\ todo' = [todo EXCEPT ![t] = steps] BY DEF DisplayTypeOK, Call
  <1>3. todo'[t] = steps /\ \A u \in Others(t) : Idle(u)' BY <1>1, <1>2 DEF Others, Idle
  <1> QED BY <1>3 DEF Call

\* Nothing is on the screen at first.
LEMMA AloneInit ==
  ASSUME DisplayInit, Callers # {}
  PROVE  DisplayTypeOK /\ AloneInv /\ FitInv
  <1>1. << >> \in Texts /\ Len(<< >>) = 0 BY DEF Texts
  <1>2. Row(screen, << >>) /\ Rows(screen, << >>) BY <1>1, SizeFacts DEF DisplayInit, Row, Rows
  <1>3. DisplayTypeOK BY <1>1, SizeFacts DEF DisplayInit, DisplayTypeOK
  <1>4. FitInv BY <1>1, SizeFacts DEF DisplayInit, FitInv
  <1>5. PICK t \in Callers : TRUE OBVIOUS
  <1>6. Settled(queue, screen, cursor, ipAddr, message) BY <1>2 DEF DisplayInit, Settled
  <1>7. /\ \A u \in Others(t) : Idle(u)
        /\ Lone(queue, todo[t], screen, cursor, ipAddr, message)
    BY <1>6 DEF DisplayInit, Others, Idle, Lone
  <1> QED BY <1>3, <1>4, <1>7 DEF AloneInv

-----------------------------------------------------------------------------
(***************************************************************************)
(* The display, the supervisor and the sessions together.                  *)
(***************************************************************************)

\* The threads and the texts
LEMMA NetworkFacts ==
  /\ "TcpThread" \in Callers /\ "DHCP_thread" \in Callers /\ "TcpThread" # "DHCP_thread"
  /\ Sessions \subseteq Callers /\ "TcpThread" \notin Sessions /\ "DHCP_thread" \notin Sessions
  /\ MaxMessages \in Nat /\ << >> \in Texts /\ Len(<< >>) = 0 /\ Len(<< >>) <= Bottom
  /\ Loading \in Texts /\ Len(Loading) <= TextWidth /\ Len(Loading) \in Nat
  /\ \A a \in NetifAddress : /\ AddressText(a) \in Texts /\ Len(AddressText(a)) <= TextWidth
                             /\ Len(Loading) <= Len(AddressText(a)) /\ Len(AddressText(a)) \in Nat
  /\ \A m \in Messages : m \in Texts /\ Len(m) <= Bottom
  <1>1. << >> \in Texts /\ Len(<< >>) = 0 /\ Bottom \in Nat /\ TextWidth \in Nat
    BY SizeFacts DEF Texts
  <1>2. \A x \in Texts : Len(x) \in Nat BY DEF Texts
  <1>3. /\ Callers = Sessions \cup {"TcpThread", "DHCP_thread"}
        /\ {"TcpThread", "DHCP_thread"} \cap Sessions = {} /\ MaxMessages \in Nat
        /\ Loading \in Texts
        /\ \A m \in Messages : m \in Texts /\ Len(m) <= Bottom
        /\ \A a \in NetifAddress :
              AddressText(a) \in Texts /\ Len(Loading) <= Len(AddressText(a)) /\ Len(AddressText(a)) <= TextWidth
    BY NetworkAssumption DEF Bottom
  <1>4. "Any" \in NetifAddress BY DEF NetifAddress
  <1>5. Len(Loading) <= TextWidth BY <1>1, <1>2, <1>3, <1>4
  <1> QED BY <1>1, <1>2, <1>3, <1>5

-----------------------------------------------------------------------------
(* The steps of the address. *)

Final == {"ADDRESS_ASSIGNED", "TIMEOUT"}

\* What the supervisor's step does to the address it shows
LEMMA SupervisorMoves ==
  ASSUME SupervisorInv, SupervisorStep
  PROVE  /\ pc # "show" /\ (pc = "poll" => DHCP_state \notin Final)
         /\ pc' = "poll" => DHCP_state' \notin Final
         /\ pc' # "show" => toShow' = toShow
         /\ pc' = "show" => DHCP_state' \in Final /\ (DHCP_state' = "TIMEOUT" => toShow' = "Static")
  BY Zenon DEF SupervisorInv, SupervisorStep, StartFails, StartSends, StartReturns, SeesAddress,
     ReadsAddress, GivesUp, StopAutoip, StopSetsOff, StopFreesPcb, SetsStatic, LinkDown, Polls, Final

\* The tcpip thread leaves the supervisor where it is.
LEMMA StackMoves ==
  ASSUME TcpipStep
  PROVE  UNCHANGED <<DHCP_state, pc, toShow>>
  BY DEF TcpipStep, RecvOffer, RecvOfferNoServer, RecvAck, RecvNak, ArpReply, FineTimer, CoarseTimer,
     RequestTimeout, LeaseTick, AutoipBinds, AutoipRestarts

-----------------------------------------------------------------------------
(* The invariant. *)

\* What is left of led_display_set_ip
IpCall(r, x) ==
    \/ r = <<SetCursor(0), PrintText(x), KeepIp(x)>>
    \/ r = <<PrintText(x), KeepIp(x)>>
    \/ r = <<KeepIp(x)>>

\* A call that keeps no address, unless it is TcpThread's, which keeps "loading".
KeepsNoAddress(t, r) ==
    \A i \in DOMAIN r : r[i].op = "KeepIp" => t = "TcpThread" /\ r[i].text = Loading

\* Before TcpThread has started the others nothing happens beside its call.
BootInv ==
    /\ boot \in {"begin", "shows", "done"} /\ commands \in 0 .. MaxMessages
    /\ boot # "done" => pc = "poll" /\ DHCP_state \notin Final
    /\ boot = "begin" => ipAddr = << >> /\ \A t \in Callers : Idle(t)
    /\ boot = "done" => Idle("TcpThread")

\* The supervisor has shown no address yet
NotShown ==
    \/ pc # "show" /\ (pc = "poll" => DHCP_state \notin Final)
    \/ pc = "show" /\ ~Idle("DHCP_thread")

\* The supervisor shows one address, its last, and only its call and
\* TcpThread's keep one; the fallback is still the address kept when it is done.
KeptInv ==
    /\ \A t \in Callers \ {"DHCP_thread"} : KeepsNoAddress(t, todo[t])
    /\ ~Idle("DHCP_thread") => pc = "show" /\ IpCall(todo["DHCP_thread"], AddressText(toShow))
    /\ NotShown => ipAddr \in {<< >>, Loading}
    /\ pc = "show" => /\ DHCP_state \in Final
                      /\ DHCP_state = "TIMEOUT" => toShow = "Static"
                      /\ Idle("DHCP_thread") => ipAddr = AddressText(toShow)
    /\ pc = "poll" /\ DHCP_state = "TIMEOUT" => ipAddr = AddressText("Static")

NetworkInv == DisplayTypeOK /\ IInv /\ FitInv /\ BootInv /\ KeptInv /\ AloneInv

\* It holds at power-on.
LEMMA NetworkInit == Init => NetworkInv
  <1> SUFFICES ASSUME Init PROVE NetworkInv
    OBVIOUS
  <1>1. IInv BY InitHolds DEF Init
  <1>2. DisplayTypeOK /\ AloneInv /\ FitInv BY AloneInit, NetworkFacts DEF Init
  <1>3. \A t \in Callers : todo[t] = << >> /\ Idle(t) BY DEF Init, DisplayInit, Idle
  <1>4. BootInv BY <1>3, NetworkFacts DEF Init, DisplayInit, DhcpInit, BootInv, Final
  <1>5. KeptInv
    <2>1. \A t \in Callers : KeepsNoAddress(t, todo[t]) BY <1>3 DEF KeepsNoAddress
    <2> QED BY <1>3, <2>1, NetworkFacts DEF Init, DisplayInit, DhcpInit, KeptInv, NotShown, Final
  <1> QED BY <1>1, <1>2, <1>4, <1>5 DEF NetworkInv

-----------------------------------------------------------------------------
(* Steps of the display and of calls. *)

\* A call goes on with fewer steps, none of which is new but a message.
LEMMA KeepsNoAddressGoesOn ==
  ASSUME NEW t, NEW r \in Seq(Step), r # << >>, KeepsNoAddress(t, r), NEW x \in Texts
  PROVE  KeepsNoAddress(t, Tail(r)) /\ KeepsNoAddress(t, <<PrintText(x)>> \o Tail(r))
  <1>1. /\ Tail(r) \in Seq(Step) /\ Len(Tail(r)) = Len(r) - 1 /\ Len(r) \in Nat
        /\ \A i \in 1 .. Len(Tail(r)) : Tail(r)[i] = r[i + 1]
    BY HeadTailProperties
  <1>2. \A i \in 1 .. Len(Tail(r)) : Tail(r)[i].op = "KeepIp" => t = "TcpThread" /\ Tail(r)[i].text = Loading
    BY <1>1 DEF KeepsNoAddress
  <1> DEFINE z == Tail(r)  u == <<PrintText(x)>> \o z
  <1>3. KeepsNoAddress(t, z) BY <1>1, <1>2 DEF KeepsNoAddress
  <1>4. PrintText(x) \in Step /\ PrintText(x).op = "Print" BY StepFacts
  <1>5. u \in Seq(Step) /\ u # << >> /\ Head(u) = PrintText(x) /\ Tail(u) = z BY <1>1, <1>4, StepFirst
  <1> HIDE DEF u, z
  <1>6. /\ Len(u) \in Nat /\ Len(Tail(u)) = Len(u) - 1
        /\ \A i \in 1 .. Len(Tail(u)) : Tail(u)[i] = u[i + 1]
    BY <1>5, HeadTailProperties
  <1>7. ASSUME NEW i \in DOMAIN u, u[i].op = "KeepIp" PROVE t = "TcpThread" /\ u[i].text = Loading
    <2>1. i \in 1 .. Len(u) BY <1>5
    <2>2. i # 1 BY <1>4, <1>5, <1>7
    <2>3. i - 1 \in 1 .. Len(z) /\ u[i] = z[i - 1] BY <1>5, <1>6, <2>1, <2>2
    <2>4. i - 1 \in DOMAIN z
      <3>1. z \in Seq(Step) BY <1>1 DEF z
      <3> QED BY <2>3, <3>1
    <2> QED BY <1>3, <1>7, <2>3, <2>4 DEF KeepsNoAddress
  <1> QED BY <1>3, <1>7 DEF KeepsNoAddress, u, z

\* The steps of led_display_set_ip in their order
LEMMA IpCallGoesOn ==
  ASSUME NEW r, NEW x \in Texts, IpCall(r, x)
  PROVE  /\ r # << >> /\ Head(r).op # "CopyIp"
         /\ Head(r).op = "KeepIp" => Tail(r) = << >> /\ Head(r).text = x
         /\ Head(r).op # "KeepIp" => IpCall(Tail(r), x)
  <1>1. CASE r = <<SetCursor(0), PrintText(x), KeepIp(x)>>
    <2>1. r # << >> /\ Head(r) = SetCursor(0) /\ Tail(r) = <<PrintText(x), KeepIp(x)>> BY <1>1
    <2> QED BY <2>1, StepFacts DEF IpCall
  <1>2. CASE r = <<PrintText(x), KeepIp(x)>>
    <2>1. r # << >> /\ Head(r) = PrintText(x) /\ Tail(r) = <<KeepIp(x)>> BY <1>2
    <2> QED BY <2>1, StepFacts DEF IpCall
  <1>3. CASE r = <<KeepIp(x)>>
    <2>1. r # << >> /\ Head(r) = KeepIp(x) /\ Tail(r) = << >> BY <1>3
    <2> QED BY <2>1, StepFacts
  <1> QED BY <1>1, <1>2, <1>3 DEF IpCall

\* The display's thread and the calls keep it.
LEMMA ScreenKeeps ==
  ASSUME NetworkInv, Screen
  PROVE  NetworkInv'
  <1>1. DisplayStep /\ UNCHANGED <<dhcpVars, boot, commands>> BY DEF Screen
  <1>2. DisplayTypeOK /\ IInv /\ FitInv /\ BootInv /\ KeptInv /\ AloneInv BY DEF NetworkInv
  <1>3. DisplayTypeOK' /\ AloneInv' BY <1>1, <1>2, DisplayStepTyped, AloneKept
  <1>4. IInv' BY <1>1, <1>2, NextKeeps
  <1>5. UNCHANGED <<pc, DHCP_state, toShow>> BY <1>1 DEF dhcpVars
  <1>6. todo \in [Callers -> Seq(Step)] /\ ipAddr \in Texts BY <1>2 DEF DisplayTypeOK
  <1>7. toShow \in NetifAddress BY <1>2 DEF IInv, DhcpTypeOK
  <1> DEFINE a == AddressText(toShow)
  <1>8. a \in Texts /\ Len(a) <= TextWidth BY <1>7, NetworkFacts
  <1>9. ASSUME UNCHANGED <<todo, ipAddr, message>> PROVE FitInv' /\ BootInv' /\ KeptInv'
    BY <1>1, <1>2, <1>5, <1>9 DEF FitInv, BootInv, KeptInv, NotShown, Idle
  <1>10. ASSUME NEW t \in Callers, CallerStep(t)
         PROVE  FitInv' /\ BootInv' /\ KeptInv'
    <2> DEFINE r == todo[t]  h == Head(r)
    <2>1. ~Idle(t) /\ r # << >> /\ message' = message
      BY <1>10 DEF CallerStep, Send, CopiesIp, KeepsIp, Idle
    <2>2. r \in Seq(Step) BY <1>6
    <2>3. \/ h.op # "KeepIp" /\ h.op # "CopyIp" /\ ipAddr' = ipAddr /\ todo' = [todo EXCEPT ![t] = Tail(r)]
          \/ h.op = "CopyIp" /\ ipAddr' = ipAddr /\ todo' = [todo EXCEPT ![t] = <<PrintText(ipAddr)>> \o Tail(r)]
          \/ h.op = "KeepIp" /\ ipAddr' = h.text /\ todo' = [todo EXCEPT ![t] = Tail(r)]
      BY <1>10 DEF CallerStep, Send, CopiesIp, KeepsIp
    <2>4. boot # "begin" BY <1>2, <2>1 DEF BootInv
    <2>5. \A u \in Callers : u # t => todo'[u] = todo[u] BY <1>6, <2>3
    <2>6. BootInv'
      <3>1. boot = "done" => t # "TcpThread" BY <1>2, <2>1 DEF BootInv
      <3>2. boot = "done" => Idle("TcpThread")' BY <1>2, <2>5, <3>1, NetworkFacts DEF BootInv, Idle
      <3> QED BY <1>1, <1>2, <1>5, <2>4, <3>2 DEF BootInv
    <2>7. CASE t = "DHCP_thread"
      <3>1. pc = "show" /\ IpCall(r, a) BY <1>2, <2>1, <2>7 DEF KeptInv
      <3>2. /\ h.op # "CopyIp" /\ (h.op = "KeepIp" => Tail(r) = << >> /\ h.text = a)
            /\ h.op # "KeepIp" => IpCall(Tail(r), a)
        BY <1>8, <3>1, IpCallGoesOn
      <3>3. todo'[t] = Tail(r) BY <1>6, <2>3, <3>2
      <3>4. \A u \in Callers \ {"DHCP_thread"} : KeepsNoAddress(u, todo'[u])
        BY <1>2, <2>5, <2>7 DEF KeptInv
      <3>5. CASE h.op = "KeepIp"
        <4>1. ipAddr' = a /\ Idle("DHCP_thread")' BY <2>3, <2>7, <3>2, <3>3, <3>5 DEF Idle
        <4>2. FitInv' BY <1>2, <1>8, <2>1, <4>1 DEF FitInv
        <4>3. pc' = "show" /\ AddressText(toShow') = a BY <1>5, <3>1
        <4>4. DHCP_state' \in Final /\ (DHCP_state' = "TIMEOUT" => toShow' = "Static")
          BY <1>2, <1>5, <3>1 DEF KeptInv
        <4>5. ~NotShown' BY <4>1, <4>3 DEF NotShown
        <4>6. KeptInv' BY <3>4, <4>1, <4>3, <4>4, <4>5 DEF KeptInv
        <4> QED BY <2>6, <4>2, <4>6
      <3>6. CASE h.op # "KeepIp"
        <4>1. ipAddr' = ipAddr /\ IpCall(todo'["DHCP_thread"], a) BY <2>3, <2>7, <3>2, <3>3, <3>6
        <4>2. ~Idle("DHCP_thread")' BY <1>8, <4>1, IpCallGoesOn DEF Idle
        <4>3. FitInv' BY <1>2, <2>1, <4>1 DEF FitInv
        <4>4. KeptInv' BY <1>2, <1>5, <2>1, <2>7, <3>1, <3>4, <4>1, <4>2 DEF KeptInv, NotShown
        <4> QED BY <2>6, <4>3, <4>4
      <3> QED BY <3>5, <3>6
    <2>8. CASE t # "DHCP_thread"
      <3>1. KeepsNoAddress(t, r) BY <1>2, <2>8 DEF KeptInv
      <3>2. KeepsNoAddress(t, todo'[t])
        <4>1. KeepsNoAddress(t, Tail(r)) /\ KeepsNoAddress(t, <<PrintText(ipAddr)>> \o Tail(r))
          <5> HIDE DEF r
          <5> QED BY <1>6, <2>1, <2>2, <3>1, KeepsNoAddressGoesOn
        <4>2. todo'[t] = Tail(r) \/ todo'[t] = <<PrintText(ipAddr)>> \o Tail(r) BY <1>6, <2>3
        <4> QED BY <4>1, <4>2
      <3>3. \A u \in Callers \ {"DHCP_thread"} : KeepsNoAddress(u, todo'[u])
        BY <1>2, <2>5, <3>2 DEF KeptInv
      <3>4. todo'["DHCP_thread"] = todo["DHCP_thread"] BY <2>5, <2>8, NetworkFacts
      <3>5. Idle("DHCP_thread")' <=> Idle("DHCP_thread") BY <3>4 DEF Idle
      <3>6. CASE ipAddr' = ipAddr
        <4>1. FitInv' BY <1>2, <2>1, <3>6 DEF FitInv
        <4>2. KeptInv' BY <1>2, <1>5, <3>3, <3>4, <3>5, <3>6 DEF KeptInv, NotShown
        <4> QED BY <2>6, <4>1, <4>2
      <3>7. CASE ipAddr' # ipAddr
        <4>1. h.op = "KeepIp" /\ ipAddr' = h.text BY <2>3, <3>7
        <4>2. 1 \in DOMAIN r /\ h = r[1] BY <2>1, <2>2
        <4>3. t = "TcpThread" /\ ipAddr' = Loading BY <3>1, <4>1, <4>2 DEF KeepsNoAddress
        <4>4. pc = "poll" /\ DHCP_state \notin Final BY <1>2, <2>1, <4>3 DEF BootInv
        <4>5. FitInv' BY <1>2, <2>1, <4>3, NetworkFacts DEF FitInv
        <4>6. DHCP_state' # "TIMEOUT" /\ pc' = "poll" BY <1>5, <4>4 DEF Final
        <4>7. Idle("DHCP_thread") BY <1>2, <4>4 DEF KeptInv
        <4>8. KeptInv' BY <3>3, <3>5, <4>3, <4>6, <4>7 DEF KeptInv
        <4> QED BY <2>6, <4>5, <4>8
      <3> QED BY <3>6, <3>7
    <2> QED BY <2>7, <2>8
  <1>11. FitInv' /\ BootInv' /\ KeptInv'
    <2>1. CASE \E t \in Callers : CallerStep(t) BY <1>10, <2>1
    <2>2. CASE DisplayReceives BY <1>9, <2>2 DEF DisplayReceives
    <2>3. CASE DisplayFails BY <1>9, <2>3 DEF DisplayFails
    <2> QED BY <1>1, <2>1, <2>2, <2>3 DEF DisplayStep
  <1> QED BY <1>3, <1>4, <1>11 DEF NetworkInv

-----------------------------------------------------------------------------
(* Steps of start-up, supervisor, sessions and lwIP. *)

\* A text fits or the overlap is recorded.
LEMMA CallKeeps ==
  ASSUME NetworkInv, NEW t \in Callers, NEW steps \in Seq(Step), Call(t, steps), message' \in Texts,
         Lone(queue, steps, screen, cursor, ipAddr, message') \/ mixed'
  PROVE  /\ DisplayTypeOK' /\ AloneInv'
         /\ ipAddr' = ipAddr /\ todo'[t] = steps /\ Idle(t)
         /\ \A u \in Callers : u # t => todo'[u] = todo[u]
  <1>1. DisplayTypeOK' /\ AloneInv' BY CallTyped, AloneCalls DEF NetworkInv
  <1>2. todo \in [Callers -> Seq(Step)] BY DEF NetworkInv, DisplayTypeOK
  <1>3. ipAddr' = ipAddr /\ todo' = [todo EXCEPT ![t] = steps] /\ Idle(t) BY DEF Call
  <1> QED BY <1>1, <1>2, <1>3

\* The calls of TcpThread and of the sessions keep no address of the network.
LEMMA CallKeepsNoAddress ==
  ASSUME NEW m \in Texts, NEW t
  PROVE  /\ KeepsNoAddress(t, led_display_set_message(m))
         /\ KeepsNoAddress("TcpThread", led_display_clear \o led_display_set_ip(Loading))
  <1>1. ASSUME NEW b, NEW u \in Seq(Step), KeepsNoAddress(b, u)
        PROVE  KeepsNoAddress(b, led_display_clear \o u)
    <2>1. /\ led_display_clear \in Seq(Step) /\ Len(led_display_clear) = 3
          /\ \A i \in 1 .. 3 : led_display_clear[i].op # "KeepIp"
      BY StepFacts DEF led_display_clear
    <2>2. Len(u) \in Nat BY <1>1
    <2> DEFINE z == led_display_clear \o u
    <2>3. /\ z \in Seq(Step) /\ Len(z) = 3 + Len(u)
          /\ \A i \in 1 .. 3 + Len(u) : z[i] = IF i <= 3 THEN led_display_clear[i] ELSE u[i - 3]
      <3>1. led_display_clear \in Seq(Step) /\ u \in Seq(Step) BY <1>1, <2>1
      <3>2. Len(led_display_clear) = 3 BY <2>1
      <3>3. /\ z \in Seq(Step) /\ Len(z) = Len(led_display_clear) + Len(u)
            /\ \A i \in 1 .. Len(led_display_clear) + Len(u) :
                  z[i] = IF i <= Len(led_display_clear) THEN led_display_clear[i]
                         ELSE u[i - Len(led_display_clear)]
        BY <3>1, ConcatProperties
      <3> HIDE DEF z
      <3> QED BY <3>2, <3>3
    <2> HIDE DEF z
    <2>4. ASSUME NEW i \in DOMAIN z, z[i].op = "KeepIp" PROVE b = "TcpThread" /\ z[i].text = Loading
      <3>1. i \in 1 .. 3 + Len(u) BY <2>3
      <3>2. ~(i <= 3) BY <2>1, <2>3, <2>4, <3>1
      <3>3. i - 3 \in DOMAIN u /\ z[i] = u[i - 3] BY <1>1, <2>2, <2>3, <3>1, <3>2
      <3> QED BY <1>1, <2>4, <3>3 DEF KeepsNoAddress
    <2> QED BY <2>4 DEF KeepsNoAddress, z
  <1> DEFINE T == <<SetCursor(1), PrintText(m)>>
  <1>2. T \in Seq(Step) /\ KeepsNoAddress(t, T) /\ led_display_set_message(m) = led_display_clear \o T
    BY StepFacts DEF KeepsNoAddress, led_display_set_message
  <1>3. led_display_set_ip(Loading) \in Seq(Step)
    <2>1. SetCursor(0) \in Step /\ PrintText(Loading) \in Step /\ KeepIp(Loading) \in Step
      BY StepFacts, NetworkFacts
    <2> QED BY <2>1 DEF led_display_set_ip
  <1>4. KeepsNoAddress("TcpThread", led_display_set_ip(Loading))
    <2>1. Loading \in Texts BY NetworkFacts
    <2> DEFINE U == <<SetCursor(0), PrintText(Loading), KeepIp(Loading)>>
    <2>2. DOMAIN U = 1 .. 3 /\ U[1] = SetCursor(0) /\ U[2] = PrintText(Loading) /\ U[3] = KeepIp(Loading)
      OBVIOUS
    <2>3. led_display_set_ip(Loading) = U BY DEF led_display_set_ip
    <2> HIDE DEF U
    <2> QED BY <2>1, <2>2, <2>3, StepFacts DEF KeepsNoAddress
  <1> HIDE DEF T
  <1> QED BY <1>1, <1>2, <1>3, <1>4

\* TcpThread shows "loading".
LEMMA BootShowsKeeps ==
  ASSUME NetworkInv, BootShows
  PROVE  NetworkInv'
  <1> DEFINE steps == led_display_clear \o led_display_set_ip(Loading)
  <1>1. /\ boot = "begin" /\ Call("TcpThread", steps) /\ message' = << >> /\ boot' = "shows"
        /\ UNCHANGED dhcpVars /\ commands' = commands
    BY DEF BootShows
  <1>2. DisplayTypeOK /\ IInv /\ FitInv /\ BootInv /\ KeptInv /\ AloneInv BY DEF NetworkInv
  <1>3. ipAddr = << >> /\ pc = "poll" /\ DHCP_state \notin Final BY <1>1, <1>2 DEF BootInv
  <1>4. screen \in Screens /\ cursor \in Cells BY <1>2 DEF DisplayTypeOK, Screens
  <1>5. steps \in Seq(Step) /\ Lone(queue, steps, screen, cursor, << >>, << >>)
    BY <1>4, ClearCall, NetworkFacts
  <1>6. KeepsNoAddress("TcpThread", steps) BY CallKeepsNoAddress, NetworkFacts
  <1> HIDE DEF steps
  <1>7. /\ DisplayTypeOK' /\ AloneInv' /\ ipAddr' = ipAddr /\ todo'["TcpThread"] = steps
        /\ \A u \in Callers : u # "TcpThread" => todo'[u] = todo[u]
    BY <1>1, <1>3, <1>5, CallKeeps, NetworkFacts
  <1>8. IInv' BY <1>1, <1>2, NextKeeps
  <1>9. UNCHANGED <<pc, DHCP_state, toShow>> BY <1>1 DEF dhcpVars
  <1>10. FitInv' BY <1>1, <1>2, <1>7, NetworkFacts DEF FitInv
  <1>11. BootInv' BY <1>1, <1>2, <1>3, <1>9 DEF BootInv
  <1>12. KeptInv'
    <2>1. \A t \in Callers \ {"DHCP_thread"} : KeepsNoAddress(t, todo'[t]) BY <1>2, <1>6, <1>7 DEF KeptInv
    <2>2. Idle("DHCP_thread") BY <1>2, <1>3 DEF KeptInv
    <2>3. Idle("DHCP_thread")' BY <1>7, <2>2, NetworkFacts DEF Idle
    <2>4. DHCP_state' # "TIMEOUT" /\ pc' = "poll" BY <1>3, <1>9 DEF Final
    <2> QED BY <1>3, <1>7, <2>1, <2>3, <2>4 DEF KeptInv
  <1> QED BY <1>7, <1>8, <1>10, <1>11, <1>12 DEF NetworkInv

\* It starts the others.
LEMMA BootStartsKeeps ==
  ASSUME NetworkInv, BootStarts
  PROVE  NetworkInv'
  <1>1. /\ boot = "shows" /\ Idle("TcpThread") /\ boot' = "done"
        /\ UNCHANGED displayVars /\ UNCHANGED dhcpVars /\ commands' = commands
    BY DEF BootStarts
  <1>2. DisplayTypeOK /\ IInv /\ FitInv /\ BootInv /\ KeptInv /\ AloneInv BY DEF NetworkInv
  <1>3. /\ UNCHANGED <<queue, alive, screen, cursor, ipAddr, todo, mixed, message>>
        /\ UNCHANGED <<pc, DHCP_state, toShow>>
    BY <1>1 DEF displayVars, dhcpVars
  <1>4. IInv' BY <1>1, <1>2, NextKeeps
  <1>5. DisplayTypeOK' BY <1>2, <1>3 DEF DisplayTypeOK
  <1>6. AloneInv' BY <1>2, <1>3 DEF AloneInv, Idle
  <1>7. FitInv' BY <1>2, <1>3 DEF FitInv
  <1>8. KeptInv' BY <1>2, <1>3 DEF KeptInv, NotShown, Idle
  <1>9. BootInv' BY <1>1, <1>2, <1>3 DEF BootInv, Idle
  <1> QED BY <1>4, <1>5, <1>6, <1>7, <1>8, <1>9 DEF NetworkInv

\* Steps that leave the display alone, and the supervisor's address
LEMMA DisplayAlone ==
  ASSUME NetworkInv, UNCHANGED displayVars, boot' = boot, commands' = commands, IInv'
  PROVE  DisplayTypeOK' /\ IInv' /\ FitInv' /\ AloneInv'
  <1>1. UNCHANGED <<queue, alive, screen, cursor, ipAddr, todo, mixed, message>> BY DEF displayVars
  <1>2. DisplayTypeOK /\ IInv /\ FitInv /\ AloneInv BY DEF NetworkInv
  <1>3. DisplayTypeOK' BY <1>1, <1>2 DEF DisplayTypeOK
  <1>4. AloneInv' BY <1>1, <1>2 DEF AloneInv, Idle
  <1>5. FitInv' BY <1>1, <1>2 DEF FitInv
  <1> QED BY <1>3, <1>4, <1>5

\* The supervisor, and the call of led_display_set_ip its step may end in
LEMMA SuperviseKeeps ==
  ASSUME NetworkInv, Supervise
  PROVE  NetworkInv'
  <1>1. boot = "done" /\ SupervisorStep /\ boot' = boot /\ commands' = commands BY DEF Supervise
  <1>2. DisplayTypeOK /\ IInv /\ FitInv /\ BootInv /\ KeptInv /\ AloneInv BY DEF NetworkInv
  <1>3. IInv' BY <1>1, <1>2, NextKeeps DEF DhcpNext
  <1>4. /\ pc # "show" /\ (pc = "poll" => DHCP_state \notin Final)
        /\ pc' = "poll" => DHCP_state' \notin Final
        /\ pc' # "show" => toShow' = toShow
        /\ pc' = "show" => DHCP_state' \in Final /\ (DHCP_state' = "TIMEOUT" => toShow' = "Static")
    BY <1>1, <1>2, SupervisorMoves DEF IInv
  <1>5. NotShown /\ ipAddr \in {<< >>, Loading} /\ Idle("DHCP_thread") BY <1>2, <1>4 DEF NotShown, KeptInv
  <1>6. CASE pc' = "show"
    <2> DEFINE a == AddressText(toShow')
    <2>1. Call("DHCP_thread", led_display_set_ip(a)) /\ message' = message BY <1>6 DEF Supervise
    <2>2. toShow' \in NetifAddress BY <1>3 DEF IInv, DhcpTypeOK
    <2>3. a \in Texts /\ Len(ipAddr) <= Len(a) /\ Len(a) <= TextWidth
      BY <1>5, <2>2, NetworkFacts
    <2>4. /\ screen \in Screens /\ cursor \in Cells /\ ipAddr \in Texts /\ message \in Texts /\ alive \in BOOLEAN
      BY <1>2 DEF DisplayTypeOK, Screens
    <2> HIDE DEF a
    <2>5. led_display_set_ip(a) \in Seq(Step) /\ Head(led_display_set_ip(a)) # Clear
      BY <2>3, <2>4, SetIpCall
    <2>6. DisplayTypeOK' BY <1>2, <2>1, <2>4, <2>5, CallTyped, NetworkFacts
    <2>7. AloneInv'
      <3>1. CASE ~alive'
        BY <3>1 DEF AloneInv
      <3>2. CASE mixed'
        BY <3>2 DEF AloneInv
      <3>3. CASE alive' /\ ~mixed'
        <4>1. alive /\ \A u \in Others("DHCP_thread") : Idle(u) BY <2>1, <3>3 DEF Call
        <4>2. ~mixed BY <2>1, <2>5, <3>3, <4>1 DEF Call
        <4>3. \A u \in Callers : Idle(u) BY <1>5, <4>1 DEF Others
        <4>4. Settled(queue, screen, cursor, ipAddr, message) BY <1>2, <4>1, <4>2, <4>3, AloneSettled
        <4>5. Lone(queue, led_display_set_ip(a), screen, cursor, ipAddr, message)
          BY <2>3, <2>4, <4>4, SetIpCall
        <4> QED BY <1>2, <2>1, <4>5, AloneCalls, NetworkFacts
      <3> QED BY <3>1, <3>2, <3>3
    <2>8. /\ ipAddr' = ipAddr /\ todo'["DHCP_thread"] = led_display_set_ip(a)
          /\ \A u \in Callers : u # "DHCP_thread" => todo'[u] = todo[u]
      BY <1>2, <2>1, NetworkFacts DEF Call, DisplayTypeOK
    <2>9. IpCall(todo'["DHCP_thread"], a) BY <2>8 DEF IpCall, led_display_set_ip
    <2>10. ~Idle("DHCP_thread")' BY <2>3, <2>9, IpCallGoesOn DEF Idle
    <2>11. \A t \in Callers \ {"DHCP_thread"} : KeepsNoAddress(t, todo'[t]) BY <1>2, <2>8 DEF KeptInv
    <2>12. KeptInv' BY <1>4, <1>5, <1>6, <2>8, <2>9, <2>10, <2>11 DEF KeptInv, a
    <2>13. BootInv' BY <1>1, <1>2, <2>8, NetworkFacts DEF BootInv, Idle
    <2>14. FitInv' BY <1>2, <2>1, <2>8 DEF FitInv
    <2> QED BY <1>3, <2>6, <2>7, <2>12, <2>13, <2>14 DEF NetworkInv
  <1>7. CASE pc' # "show"
    <2>1. UNCHANGED displayVars BY <1>7 DEF Supervise
    <2>2. UNCHANGED <<todo, ipAddr>> BY <2>1 DEF displayVars
    <2>3. BootInv' BY <1>1, <1>2, <2>2 DEF BootInv, Idle
    <2>4. Idle("DHCP_thread")' BY <1>5, <2>2 DEF Idle
    <2>5. \A t \in Callers \ {"DHCP_thread"} : KeepsNoAddress(t, todo'[t]) BY <1>2, <2>2 DEF KeptInv
    <2>6. pc' = "poll" => DHCP_state' # "TIMEOUT" BY <1>4 DEF Final
    <2>7. KeptInv' BY <1>5, <1>7, <2>2, <2>4, <2>5, <2>6 DEF KeptInv
    <2> QED BY <1>1, <1>3, <2>1, <2>3, <2>7, DisplayAlone DEF NetworkInv
  <1> QED BY <1>6, <1>7

\* led_display_set_ip returns to the supervisor.
LEMMA SupervisorReturnsKeeps ==
  ASSUME NetworkInv, SupervisorReturns
  PROVE  NetworkInv'
  <1>1. /\ Idle("DHCP_thread") /\ Shown /\ UNCHANGED displayVars /\ boot' = boot /\ commands' = commands
    BY DEF SupervisorReturns
  <1>2. IInv /\ BootInv /\ KeptInv BY DEF NetworkInv
  <1>3. IInv' BY <1>1, <1>2, NextKeeps DEF DhcpNext
  <1>4. UNCHANGED <<todo, ipAddr>> BY <1>1 DEF displayVars
  <1>5. pc = "show" /\ pc' = "poll" /\ DHCP_state' = DHCP_state BY <1>1 DEF Shown
  <1>6. /\ DHCP_state \in Final /\ (DHCP_state = "TIMEOUT" => toShow = "Static")
        /\ ipAddr = AddressText(toShow)
    BY <1>1, <1>2, <1>5 DEF KeptInv
  <1>7. BootInv' BY <1>1, <1>2, <1>4, <1>5 DEF BootInv, Idle
  <1>8. Idle("DHCP_thread")' BY <1>1, <1>4 DEF Idle
  <1>9. ~NotShown' BY <1>5, <1>6 DEF NotShown
  <1>10. \A t \in Callers \ {"DHCP_thread"} : KeepsNoAddress(t, todo'[t]) BY <1>2, <1>4 DEF KeptInv
  <1>11. DHCP_state' = "TIMEOUT" => ipAddr' = AddressText("Static") BY <1>4, <1>5, <1>6
  <1>12. KeptInv' BY <1>5, <1>8, <1>9, <1>10, <1>11 DEF KeptInv
  <1> QED BY <1>1, <1>3, <1>7, <1>12, DisplayAlone DEF NetworkInv

\* A session shows a message.
LEMMA ShowMessageKeeps ==
  ASSUME NetworkInv, NEW t \in Sessions, NEW m \in Messages, ShowMessage(t, m)
  PROVE  NetworkInv'
  <1>1. /\ boot = "done" /\ commands < MaxMessages /\ Call(t, led_display_set_message(m)) /\ message' = m
        /\ commands' = commands + 1 /\ UNCHANGED dhcpVars /\ boot' = boot
    BY DEF ShowMessage
  <1>2. DisplayTypeOK /\ IInv /\ FitInv /\ BootInv /\ KeptInv /\ AloneInv BY DEF NetworkInv
  <1>3. m \in Texts /\ Len(m) <= Bottom /\ t \in Callers /\ t # "TcpThread" /\ t # "DHCP_thread" BY NetworkFacts
  <1>4. screen \in Screens /\ cursor \in Cells /\ ipAddr \in Texts BY <1>2 DEF DisplayTypeOK, Screens
  <1>5. /\ led_display_set_message(m) \in Seq(Step)
        /\ Lone(queue, led_display_set_message(m), screen, cursor, ipAddr, m)
    BY <1>3, <1>4, ClearCall
  <1>6. /\ DisplayTypeOK' /\ AloneInv' /\ ipAddr' = ipAddr /\ todo'[t] = led_display_set_message(m)
        /\ \A u \in Callers : u # t => todo'[u] = todo[u]
    BY <1>1, <1>3, <1>5, CallKeeps
  <1>7. IInv' BY <1>1, <1>2, NextKeeps
  <1>8. UNCHANGED <<pc, DHCP_state, toShow>> BY <1>1 DEF dhcpVars
  <1>9. FitInv' BY <1>1, <1>2, <1>3, <1>6 DEF FitInv
  <1>10. BootInv'
    <2>1. commands' \in 0 .. MaxMessages BY <1>1, <1>2, NetworkFacts DEF BootInv
    <2> QED BY <1>1, <1>2, <1>3, <1>6, <1>8, <2>1, NetworkFacts DEF BootInv, Idle
  <1>11. KeptInv'
    <2>1. \A u \in Callers \ {"DHCP_thread"} : KeepsNoAddress(u, todo'[u])
      <3>1. KeepsNoAddress(t, todo'[t]) BY <1>3, <1>6, CallKeepsNoAddress
      <3> QED BY <1>2, <1>6, <3>1 DEF KeptInv
    <2>2. todo'["DHCP_thread"] = todo["DHCP_thread"] BY <1>3, <1>6, NetworkFacts
    <2> QED BY <1>2, <1>6, <1>8, <2>1, <2>2 DEF KeptInv, NotShown, Idle
  <1> QED BY <1>6, <1>7, <1>9, <1>10, <1>11 DEF NetworkInv

\* lwIP's thread
LEMMA StackKeeps ==
  ASSUME NetworkInv, Stack
  PROVE  NetworkInv'
  <1>1. TcpipStep /\ UNCHANGED displayVars /\ boot' = boot /\ commands' = commands BY DEF Stack
  <1>2. IInv /\ BootInv /\ KeptInv BY DEF NetworkInv
  <1>3. IInv' BY <1>1, <1>2, NextKeeps DEF DhcpNext
  <1>4. UNCHANGED <<todo, ipAddr>> BY <1>1 DEF displayVars
  <1>5. UNCHANGED <<DHCP_state, pc, toShow>> BY <1>1, StackMoves
  <1>6. BootInv' BY <1>1, <1>2, <1>4, <1>5 DEF BootInv, Idle
  <1>7. KeptInv' BY <1>2, <1>4, <1>5 DEF KeptInv, NotShown, Idle
  <1> QED BY <1>1, <1>3, <1>6, <1>7, DisplayAlone DEF NetworkInv

\* Nothing happens.
LEMMA StutterKeeps ==
  ASSUME NetworkInv, UNCHANGED vars
  PROVE  NetworkInv'
  <1>1. UNCHANGED displayVars /\ UNCHANGED dhcpVars /\ boot' = boot /\ commands' = commands BY DEF vars
  <1>2. IInv /\ BootInv /\ KeptInv BY DEF NetworkInv
  <1>3. IInv' BY <1>1, <1>2, NextKeeps
  <1>4. UNCHANGED <<todo, ipAddr>> /\ UNCHANGED <<DHCP_state, pc, toShow>> BY <1>1 DEF displayVars, dhcpVars
  <1>5. BootInv' BY <1>1, <1>2, <1>4 DEF BootInv, Idle
  <1>6. KeptInv' BY <1>2, <1>4 DEF KeptInv, NotShown, Idle
  <1> QED BY <1>1, <1>3, <1>5, <1>6, DisplayAlone DEF NetworkInv

-----------------------------------------------------------------------------
(* The theorems. *)

\* The invariant holds in every reachable state.
LEMMA NetworkInvHolds == Spec => []NetworkInv
  <1>1. NetworkInv /\ [Next]_vars => NetworkInv'
    BY BootShowsKeeps, BootStartsKeeps, SuperviseKeeps, SupervisorReturnsKeeps, ShowMessageKeeps,
       StackKeeps, ScreenKeeps, StutterKeeps DEF Next
  <1> QED BY <1>1, NetworkInit, PTL DEF Spec

\* The queue never holds more than one message, calls are made of known steps,
\* and the cursor stays on the screen however the calls of led_display.c are
\* mixed and whenever the display's thread dies, together with DhcpTypeOK.
THEOREM NetworkTypeCorrect == Spec => []TypeOK
  <1>1. NetworkInv => TypeOK BY DEF NetworkInv, BootInv, IInv, TypeOK
  <1> QED BY <1>1, NetworkInvHolds, PTL

\* When no calls of led_display.c overlap since a clear that began alone, the
\* top row shows the address and nothing else, the rows below the last message,
\* all of it, and nothing else down to the last row, which Clear never blanks:
\* there the tail of an older message may follow.
THEOREM AddressAndMessageShown == Spec => []ShownWhenAlone
  <1>1. NetworkInv => ShownWhenAlone
    <2> SUFFICES ASSUME NetworkInv, Quiet, ~mixed PROVE Shows(0, ipAddr) /\ Shows(1, message)
      BY DEF ShownWhenAlone
    <2>1. Settled(<< >>, screen, cursor, ipAddr, message) BY AloneSettled DEF NetworkInv, Quiet
    <2>2. Row(screen, ipAddr) /\ Rows(screen, message)
      <3>1. << >> # <<PrintText(message)>> /\ << >> # <<PrintText(ipAddr)>> OBVIOUS
      <3> QED BY <2>1, <3>1 DEF Settled
    <2> QED BY <2>2, ShowsFacts
  <1> QED BY <1>1, NetworkInvHolds, PTL

\* And once DHCP_thread has fallen back to the static address, that is the
\* address the display then shows and the interface has.
THEOREM FallbackIsShown == Spec => []FallbackShown
  <1>1. NetworkInv => FallbackShown
    <2> SUFFICES ASSUME NetworkInv, Quiet, ~mixed, DHCP_state = "TIMEOUT", pc = "poll"
                 PROVE  Shows(0, AddressText(addr))
      BY DEF FallbackShown
    <2>1. Settled(<< >>, screen, cursor, ipAddr, message) BY AloneSettled DEF NetworkInv, Quiet
    <2>2. Row(screen, ipAddr)
      <3>1. << >> # <<PrintText(message)>> /\ << >> # <<PrintText(ipAddr)>> OBVIOUS
      <3> QED BY <2>1, <3>1 DEF Settled
    <2>3. addr = "Static" BY DEF NetworkInv, IInv, SupervisorInv
    <2>4. ipAddr = AddressText("Static") BY DEF NetworkInv, KeptInv
    <2> QED BY <2>2, <2>3, <2>4, ShowsFacts
  <1> QED BY <1>1, NetworkInvHolds, PTL
=============================================================================
