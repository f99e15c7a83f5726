------------------------- MODULE ConsoleInputProofs -------------------------
(***************************************************************************)
(* Proofs about what Console makes of the bytes that arrive, for every     *)
(* stream, line and size of a buffer: the line that console_getline leaves *)
(* (LineEdited), and the characters and negotiations that the parser takes *)
(* from the stream (Decoded).  Both relate the variables to a reference    *)
(* over everything that has arrived, so each needs to know what one byte   *)
(* more adds to its reference and in which state a step finds it.          *)
(***************************************************************************)
EXTENDS ConsoleProofs, FiniteSetTheorems

-----------------------------------------------------------------------------
(***************************************************************************)
(* The line: which characters remain of those that were typed.             *)
(***************************************************************************)

\* The characters so far and one more: what is counted up to a position does
\* not change, and the new one counts for itself.
LEMMA CountsStep ==
  ASSUME NEW t \in Seq(Byte), NEW ch \in Byte, NEW i \in 1 .. Len(t) + 1
  PROVE  LET u == Append(t, ch)  n == Len(t)
         IN  /\ \A j \in i - 1 .. n : /\ Opened(u, i, j) = Opened(t, i, j) /\ Opened(t, i, j) \in Nat
                                      /\ Closed(u, i, j) = Closed(t, i, j) /\ Closed(t, i, j) \in Nat
             /\ Opened(u, i, n + 1) = Opened(t, i, n) + (IF ch \in {"BS", "CR", "NL"} THEN 0 ELSE 1)
             /\ Closed(u, i, n + 1) = Closed(t, i, n) + (IF ch = "BS" THEN 1 ELSE 0)
  <1> DEFINE u == Append(t, ch)  n == Len(t)
             P(s, j) == {k \in i .. j : Printing(s, k)}
             B(s, j) == {k \in i .. j : s[k] = "BS"}
  <1>0. n \in Nat /\ i \in Nat OBVIOUS
  <1>1. \A k \in 1 .. n : u[k] = t[k] OBVIOUS
  <1>2. u[n + 1] = ch OBVIOUS
  <1> HIDE DEF u
  <1>3. \A j \in i - 1 .. n : P(u, j) = P(t, j) /\ B(u, j) = B(t, j)
    <2> TAKE j \in i - 1 .. n
    <2>1. \A k \in i .. j : k \in 1 .. n BY <1>0
    <2>2. \A k \in i .. j : u[k] = t[k] BY <1>1, <2>1
    <2> QED BY <2>2 DEF Printing
  <1>4. \A j \in i - 1 .. n : /\ IsFiniteSet(P(t, j)) /\ IsFiniteSet(B(t, j))
                              /\ Cardinality(P(t, j)) \in Nat /\ Cardinality(B(t, j)) \in Nat
    <2> TAKE j \in i - 1 .. n
    <2>1. i \in Int /\ j \in Int BY <1>0
    <2>2. IsFiniteSet(i .. j) BY <2>1, FS_Interval
    <2>3. P(t, j) \subseteq i .. j /\ B(t, j) \subseteq i .. j OBVIOUS
    <2> HIDE DEF P, B
    <2>4. IsFiniteSet(P(t, j)) /\ IsFiniteSet(B(t, j)) BY <2>2, <2>3, FS_Subset
    <2> QED BY <2>4, FS_CardinalityType
  <1>5. /\ P(u, n + 1) = IF ch \in {"BS", "CR", "NL"} THEN P(u, n) ELSE P(u, n) \cup {n + 1}
        /\ B(u, n + 1) = IF ch = "BS" THEN B(u, n) \cup {n + 1} ELSE B(u, n)
        /\ n + 1 \notin P(u, n) /\ n + 1 \notin B(u, n)
    <2>1. \A k : k \in i .. n + 1 <=> k \in i .. n \/ k = n + 1 BY <1>0
    <2>2. n + 1 \notin i .. n BY <1>0
    <2> QED BY <1>2, <2>1, <2>2 DEF Printing
  <1>6. n \in i - 1 .. n BY <1>0
  <1>7. /\ IsFiniteSet(P(u, n)) /\ IsFiniteSet(B(u, n))
        /\ Cardinality(P(u, n)) \in Nat /\ Cardinality(B(u, n)) \in Nat
        /\ P(u, n) = P(t, n) /\ B(u, n) = B(t, n)
    <2> HIDE DEF P, B
    <2> QED BY <1>3, <1>4, <1>6
  <1>8. \A s, j : Opened(s, i, j) = Cardinality(P(s, j)) /\ Closed(s, i, j) = Cardinality(B(s, j))
    BY DEF Opened, Closed
  <1> HIDE DEF P, B
  <1>9. /\ Cardinality(P(u, n) \cup {n + 1}) = Cardinality(P(u, n)) + 1
        /\ Cardinality(B(u, n) \cup {n + 1}) = Cardinality(B(u, n)) + 1
    BY <1>5, <1>7, FS_AddElement
  <1>10. \A j \in i - 1 .. n : /\ Opened(u, i, j) = Opened(t, i, j) /\ Opened(t, i, j) \in Nat
                               /\ Closed(u, i, j) = Closed(t, i, j) /\ Closed(t, i, j) \in Nat
    BY <1>3, <1>4, <1>8
  <1>11. Opened(u, i, n + 1) = Opened(t, i, n) + (IF ch \in {"BS", "CR", "NL"} THEN 0 ELSE 1)
    BY <1>5, <1>7, <1>8, <1>9
  <1>12. Closed(u, i, n + 1) = Closed(t, i, n) + (IF ch = "BS" THEN 1 ELSE 0)
    BY <1>5, <1>7, <1>8, <1>9
  <1> QED BY <1>10, <1>11, <1>12 DEF u

\* Which characters remain when one more comes: those it does not take back,
\* and it itself if it is one that prints.
LEMMA RemainingStep ==
  ASSUME NEW t \in Seq(Byte), NEW ch \in Byte
  PROVE  LET u == Append(t, ch)  n == Len(t)
         IN  /\ n + 1 \in Remaining(u) <=> ch \notin {"BS", "CR", "NL"}
             /\ \A i \in 1 .. n :
                  i \in Remaining(u) <=>
                     /\ i \in Remaining(t)
                     /\ ~ /\ ch = "BS"
                          /\ Opened(t, i, n) = Closed(t, i, n) + 1
                          /\ \A m \in i .. n : Opened(t, i, m) > Closed(t, i, m)
             /\ Remaining(t) \subseteq 1 .. n
  <1> DEFINE u == Append(t, ch)  n == Len(t)
  <1>0. n \in Nat OBVIOUS
  <1>1. /\ \A k \in 1 .. n : u[k] = t[k]
        /\ u[n + 1] = ch /\ Len(u) = n + 1 /\ DOMAIN u = 1 .. n + 1 /\ DOMAIN t = 1 .. n
    OBVIOUS
  <1> HIDE DEF u
  <1>2. n + 1 \in Remaining(u) <=> ch \notin {"BS", "CR", "NL"}
    <2>1. n + 1 \in 1 .. n + 1 /\ (n + 1) + 1 .. n + 1 = {} BY <1>0
    <2> QED BY <1>1, <2>1 DEF Remaining, Printing
  <1>3. ASSUME NEW i \in 1 .. n
        PROVE  /\ \A j \in i + 1 .. n : Erases(u, i, j) <=> Erases(t, i, j)
               /\ Erases(u, i, n + 1) <=>
                     /\ ch = "BS"
                     /\ Opened(t, i, n) = Closed(t, i, n) + 1
                     /\ \A m \in i .. n : Opened(t, i, m) > Closed(t, i, m)
    <2>1. i \in 1 .. n + 1 /\ \A j \in i .. n : j \in i - 1 .. n /\ j \in 1 .. n BY <1>0
    <2>2. /\ \A j \in i - 1 .. n : /\ Opened(u, i, j) = Opened(t, i, j) /\ Opened(t, i, j) \in Nat
                                   /\ Closed(u, i, j) = Closed(t, i, j) /\ Closed(t, i, j) \in Nat
          /\ Opened(u, i, n + 1) = Opened(t, i, n) + (IF ch \in {"BS", "CR", "NL"} THEN 0 ELSE 1)
          /\ Closed(u, i, n + 1) = Closed(t, i, n) + (IF ch = "BS" THEN 1 ELSE 0)
      BY <2>1, CountsStep DEF u
    <2>3. ASSUME NEW j \in i + 1 .. n PROVE Erases(u, i, j) <=> Erases(t, i, j)
      <3>1. j \in i .. n /\ \A k \in i .. j - 1 : k \in i .. n BY <1>0
      <3> QED BY <1>1, <2>1, <2>2, <3>1 DEF Erases
    <2>4. (n + 1) - 1 = n /\ n \in i .. n BY <1>0
    <2>5. Erases(u, i, n + 1) <=>
            /\ ch = "BS"
            /\ Opened(u, i, n + 1) = Closed(u, i, n + 1)
            /\ \A m \in i .. n : Opened(t, i, m) > Closed(t, i, m)
      BY <1>1, <2>1, <2>2, <2>4 DEF Erases
    <2>6. ch = "BS" => /\ Opened(u, i, n + 1) = Opened(t, i, n)
                       /\ Closed(u, i, n + 1) = Closed(t, i, n) + 1
      <3>1. n \in i - 1 .. n BY <2>1, <2>4
      <3> QED BY <2>2, <3>1
    <2> QED BY <2>3, <2>5, <2>6
  <1>4. ASSUME NEW i \in 1 .. n
        PROVE  i \in Remaining(u) <=>
                     /\ i \in Remaining(t)
                     /\ ~ /\ ch = "BS"
                          /\ Opened(t, i, n) = Closed(t, i, n) + 1
                          /\ \A m \in i .. n : Opened(t, i, m) > Closed(t, i, m)
    <2>1. i \in 1 .. n + 1 /\ \A j : j \in i + 1 .. n + 1 <=> j \in i + 1 .. n \/ j = n + 1 BY <1>0
    <2>2. Printing(u, i) <=> Printing(t, i) BY <1>1 DEF Printing
    <2>3. i \in Remaining(u) <=> Printing(u, i) /\ \A j \in i + 1 .. n + 1 : ~Erases(u, i, j)
      BY <1>1, <2>1 DEF Remaining
    <2>4. i \in Remaining(t) <=> Printing(t, i) /\ \A j \in i + 1 .. n : ~Erases(t, i, j)
      BY <1>1 DEF Remaining
    <2>5. i \in Remaining(u) <=>
            Printing(u, i) /\ (\A j \in i + 1 .. n : ~Erases(u, i, j)) /\ ~Erases(u, i, n + 1)
      BY <2>1, <2>3
    <2> QED BY <1>3, <2>2, <2>4, <2>5
  <1>5. Remaining(t) \subseteq 1 .. n BY <1>1 DEF Remaining
  <1> QED BY <1>2, <1>4, <1>5 DEF u

\* The positions of the characters that are not taken back
Kept(t) == InOrder(Remaining(t), Len(t))

\* Between two characters: the buffer holds the characters that are not taken
\* back, and of each of them as many are open as the line has from there on; a
\* '\b' takes back the last one.
Edited(t, l, o) ==
    /\ Len(Kept(t)) = o
    /\ \A k \in 1 .. o :
          /\ l[k] = t[Kept(t)[k]]
          /\ Opened(t, Kept(t)[k], Len(t)) = Closed(t, Kept(t)[k], Len(t)) + o - k + 1
          /\ \A m \in Kept(t)[k] .. Len(t) : Opened(t, Kept(t)[k], m) > Closed(t, Kept(t)[k], m)

\* What is kept are positions.
LEMMA KeptTyped ==
  ASSUME NEW t \in Seq(Byte)
  PROVE  Kept(t) \in Seq(1 .. Len(t)) /\ \A k \in 1 .. Len(Kept(t)) : Kept(t)[k] \in Remaining(t)
  <1> DEFINE S == Remaining(t)  n == Len(t)  kept == Kept(t)
  <1>1. n \in Nat OBVIOUS
  <1>2. kept \in Seq(S \cap (1 .. n)) BY <1>1, InOrderTyped DEF Kept
  <1> HIDE DEF S, kept
  <1> DEFINE T == S \cap (1 .. n)
  <1>3. T \subseteq 1 .. n /\ T \subseteq S /\ kept \in Seq(T) BY <1>2
  <1> HIDE DEF T
  <1>4. \A k \in 1 .. Len(kept) : kept[k] \in T BY <1>3
  <1>5. kept \in Seq(1 .. n) BY <1>3, SeqMonotonic
  <1> QED BY <1>3, <1>4, <1>5 DEF S, kept

\* An empty line: nothing is kept.
LEMMA EditedEmpty ==
  ASSUME NEW l
  PROVE  Edited(<< >>, l, 0)
  <1>1. Kept(<< >>) = << >>
    <2>1. Len(<< >>) = 0 OBVIOUS
    <2> QED BY <2>1, InOrderRecursion DEF Kept
  <1>2. Len(Kept(<< >>)) = 0 /\ 1 .. 0 = {} BY <1>1
  <1> QED BY <1>2 DEF Edited

\* What a character does that neither prints nor takes one back,
LEMMA EditedSilent ==
  ASSUME NEW t \in Seq(Byte), NEW l, NEW o \in Nat, Edited(t, l, o), NEW ch \in {"CR", "NL"}
  PROVE  Edited(Append(t, ch), l, o) /\ Kept(Append(t, ch)) = Kept(t)
  <1> DEFINE u == Append(t, ch)  n == Len(t)
  <1>0. n \in Nat /\ Len(u) = n + 1 /\ ch \in Byte BY DEF Byte, Control
  <1>1. /\ n + 1 \notin Remaining(u)
        /\ \A i \in 1 .. n : i \in Remaining(u) <=> i \in Remaining(t)
    BY <1>0, RemainingStep
  <1>2. \A k \in 1 .. n : u[k] = t[k] OBVIOUS
  <1> HIDE DEF u
  <1>3. Kept(u) = Kept(t)
    <2>1. InOrder(Remaining(u), n + 1) = InOrder(Remaining(u), n) BY <1>0, <1>1, InOrderRecursion
    <2>2. InOrder(Remaining(u), n) = InOrder(Remaining(t), n) BY <1>0, <1>1, InOrderSame
    <2> QED BY <1>0, <2>1, <2>2 DEF Kept
  <1>4. ASSUME NEW k \in 1 .. o
        PROVE  /\ l[k] = u[Kept(t)[k]]
               /\ Opened(u, Kept(t)[k], n + 1) = Closed(u, Kept(t)[k], n + 1) + o - k + 1
               /\ \A m \in Kept(t)[k] .. n + 1 : Opened(u, Kept(t)[k], m) > Closed(u, Kept(t)[k], m)
    <2> DEFINE i == Kept(t)[k]
    <2>1. i \in 1 .. n /\ i \in 1 .. n + 1 BY <1>0, KeptTyped DEF Edited
    <2>2. /\ l[k] = t[i] /\ Opened(t, i, n) = Closed(t, i, n) + o - k + 1
          /\ \A m \in i .. n : Opened(t, i, m) > Closed(t, i, m)
      BY DEF Edited
    <2> HIDE DEF i
    <2>3. /\ \A j \in i - 1 .. n : /\ Opened(u, i, j) = Opened(t, i, j) /\ Opened(t, i, j) \in Nat
                                    /\ Closed(u, i, j) = Closed(t, i, j) /\ Closed(t, i, j) \in Nat
          /\ Opened(u, i, n + 1) = Opened(t, i, n) /\ Closed(u, i, n + 1) = Closed(t, i, n)
      <3>1. /\ \A j \in i - 1 .. n : /\ Opened(u, i, j) = Opened(t, i, j) /\ Opened(t, i, j) \in Nat
                                      /\ Closed(u, i, j) = Closed(t, i, j) /\ Closed(t, i, j) \in Nat
            /\ Opened(u, i, n + 1) = Opened(t, i, n) + 0 /\ Closed(u, i, n + 1) = Closed(t, i, n) + 0
        BY <1>0, <2>1, CountsStep DEF u
      <3>2. n \in i - 1 .. n BY <1>0, <2>1
      <3> QED BY <3>1, <3>2
    <2>4. n \in i .. n /\ \A m \in i .. n + 1 : m \in i .. n \/ m = n + 1 BY <1>0, <2>1
    <2>5. \A m \in i .. n : m \in i - 1 .. n BY <2>1
    <2> QED BY <1>2, <2>1, <2>2, <2>3, <2>4, <2>5 DEF i
  <1> QED BY <1>0, <1>3, <1>4 DEF Edited, u

\* one that prints,
LEMMA EditedPrinting ==
  ASSUME NEW t \in Seq(Byte), NEW l \in [1 .. UserLen -> Byte], NEW o \in Nat, o < UserLen,
         Edited(t, l, o), NEW ch \in Byte, ch \notin {"BS", "CR", "NL"}
  PROVE  Edited(Append(t, ch), [l EXCEPT ![o + 1] = ch], o + 1)
  <1> DEFINE u == Append(t, ch)  n == Len(t)  lu == [l EXCEPT ![o + 1] = ch]
  <1>0. n \in Nat /\ Len(u) = n + 1 OBVIOUS
  <1>1. /\ n + 1 \in Remaining(u)
        /\ \A i \in 1 .. n : i \in Remaining(u) <=> i \in Remaining(t)
    BY <1>0, RemainingStep
  <1>2. (\A k \in 1 .. n : u[k] = t[k]) /\ u[n + 1] = ch OBVIOUS
  <1>3. lu[o + 1] = ch /\ \A k \in 1 .. o : lu[k] = l[k]
    <2>1. UserLen \in Nat BY SizesAssumption
    <2>2. o + 1 \in 1 .. UserLen /\ \A k \in 1 .. o : k \in 1 .. UserLen /\ k # o + 1 BY <2>1
    <2> QED BY <2>2
  <1> HIDE DEF u, lu
  <1>4. Kept(u) = Append(Kept(t), n + 1)
    <2>1. InOrder(Remaining(u), n + 1) = Append(InOrder(Remaining(u), n), n + 1)
      BY <1>0, <1>1, InOrderRecursion
    <2>2. InOrder(Remaining(u), n) = InOrder(Remaining(t), n) BY <1>0, <1>1, InOrderSame
    <2> QED BY <1>0, <2>1, <2>2 DEF Kept
  <1>5. /\ Kept(t) \in Seq(1 .. n) /\ Len(Kept(t)) = o BY KeptTyped DEF Edited
  <1>6. /\ Len(Kept(u)) = o + 1 /\ Kept(u)[o + 1] = n + 1
        /\ \A k \in 1 .. o : Kept(u)[k] = Kept(t)[k] /\ Kept(t)[k] \in 1 .. n
    BY <1>4, <1>5
  <1>7. ASSUME NEW i \in 1 .. n + 1
        PROVE  /\ \A j \in i - 1 .. n : /\ Opened(u, i, j) = Opened(t, i, j) /\ Opened(t, i, j) \in Nat
                                         /\ Closed(u, i, j) = Closed(t, i, j) /\ Closed(t, i, j) \in Nat
               /\ Opened(u, i, n + 1) = Opened(t, i, n) + 1 /\ Closed(u, i, n + 1) = Closed(t, i, n)
    <2>1. /\ \A j \in i - 1 .. n : /\ Opened(u, i, j) = Opened(t, i, j) /\ Opened(t, i, j) \in Nat
                                    /\ Closed(u, i, j) = Closed(t, i, j) /\ Closed(t, i, j) \in Nat
          /\ Opened(u, i, n + 1) = Opened(t, i, n) + 1 /\ Closed(u, i, n + 1) = Closed(t, i, n) + 0
      BY CountsStep DEF u
    <2>2. n \in i - 1 .. n BY <1>0
    <2> QED BY <2>1, <2>2
  <1>8. ASSUME NEW k \in 1 .. o
        PROVE  /\ lu[k] = u[Kept(u)[k]]
               /\ Opened(u, Kept(u)[k], n + 1) = Closed(u, Kept(u)[k], n + 1) + (o + 1) - k + 1
               /\ \A m \in Kept(u)[k] .. n + 1 : Opened(u, Kept(u)[k], m) > Closed(u, Kept(u)[k], m)
    <2> DEFINE i == Kept(u)[k]
    <2>1. i \in 1 .. n /\ i \in 1 .. n + 1 /\ i = Kept(t)[k] BY <1>0, <1>6
    <2>2. /\ l[k] = t[i] /\ Opened(t, i, n) = Closed(t, i, n) + o - k + 1
          /\ \A m \in i .. n : Opened(t, i, m) > Closed(t, i, m)
      BY <2>1 DEF Edited
    <2> HIDE DEF i
    <2>3. n \in i .. n /\ (\A m \in i .. n : m \in i - 1 .. n)
          /\ \A m \in i .. n + 1 : m \in i .. n \/ m = n + 1
      BY <1>0, <2>1
    <2>4. /\ \A j \in i .. n : /\ Opened(u, i, j) = Opened(t, i, j) /\ Opened(t, i, j) \in Nat
                                /\ Closed(u, i, j) = Closed(t, i, j) /\ Closed(t, i, j) \in Nat
          /\ Opened(u, i, n + 1) = Opened(t, i, n) + 1 /\ Closed(u, i, n + 1) = Closed(t, i, n)
      BY <1>7, <2>1, <2>3
    <2>5. lu[k] = u[i] BY <1>2, <1>3, <2>1, <2>2
    <2>6. Opened(u, i, n + 1) = Closed(u, i, n + 1) + (o + 1) - k + 1
      <3>1. Opened(t, i, n) \in Nat /\ Closed(t, i, n) \in Nat /\ k \in Nat BY <2>3, <2>4
      <3>2. Opened(t, i, n) = Closed(t, i, n) + o - k + 1 BY <2>2
      <3> QED BY <2>4, <3>1, <3>2
    <2>7. Opened(u, i, n + 1) > Closed(u, i, n + 1) BY <2>2, <2>3, <2>4
    <2>8. \A m \in i .. n + 1 : Opened(u, i, m) > Closed(u, i, m) BY <2>2, <2>3, <2>4, <2>7
    <2> QED BY <2>5, <2>6, <2>8 DEF i
  <1>9. /\ lu[o + 1] = u[n + 1]
        /\ Opened(u, n + 1, n + 1) = Closed(u, n + 1, n + 1) + (o + 1) - (o + 1) + 1
        /\ \A m \in n + 1 .. n + 1 : Opened(u, n + 1, m) > Closed(u, n + 1, m)
    <2>1. Opened(t, n + 1, n) = 0 /\ Closed(t, n + 1, n) = 0
      <3>1. n + 1 .. n = {} BY <1>0
      <3>2. {k \in n + 1 .. n : Printing(t, k)} = {} /\ {k \in n + 1 .. n : t[k] = "BS"} = {} BY <3>1
      <3> QED BY <3>2, FS_EmptySet DEF Opened, Closed
    <2>2. Opened(u, n + 1, n + 1) = 1 /\ Closed(u, n + 1, n + 1) = 0
      <3>1. n + 1 \in 1 .. n + 1 BY <1>0
      <3> QED BY <1>7, <2>1, <3>1
    <2>3. \A m \in n + 1 .. n + 1 : m = n + 1 BY <1>0
    <2> QED BY <1>2, <1>3, <2>2, <2>3
  <1>10. \A k \in 1 .. o + 1 : k \in 1 .. o \/ k = o + 1 OBVIOUS
  <1> QED BY <1>0, <1>6, <1>8, <1>9, <1>10 DEF Edited, u, lu

\* a '\b' on an empty line,
LEMMA EditedNothing ==
  ASSUME NEW t \in Seq(Byte), NEW l, Edited(t, l, 0)
  PROVE  Edited(Append(t, "BS"), l, 0)
  <1> DEFINE u == Append(t, "BS")  n == Len(t)
  <1>0. n \in Nat /\ Len(u) = n + 1 /\ "BS" \in Byte BY DEF Byte, Control
  <1>1. /\ n + 1 \notin Remaining(u)
        /\ \A i \in 1 .. n : i \in Remaining(u) => i \in Remaining(t)
    BY <1>0, RemainingStep
  <1> HIDE DEF u
  <1>2. \A i \in 1 .. n : i \notin Remaining(t)
    <2> TAKE i \in 1 .. n
    <2> SUFFICES ASSUME i \in Remaining(t) PROVE FALSE OBVIOUS
    <2>1. \E k \in 1 .. Len(Kept(t)) : Kept(t)[k] = i BY <1>0, InOrderOnto DEF Kept
    <2> QED BY <2>1 DEF Edited
  <1>3. \A i \in 0 + 1 .. n + 1 : i \notin Remaining(u)
    <2>1. \A i \in 0 + 1 .. n + 1 : i \in 1 .. n \/ i = n + 1 BY <1>0
    <2> QED BY <1>1, <1>2, <2>1
  <1>4. Kept(u) = << >>
    <2>1. Remaining(u) \cap (0 + 1 .. n + 1) = {} /\ 0 \in Nat /\ n + 1 \in Nat /\ 0 <= n + 1 BY <1>0, <1>3
    <2>2. InOrder(Remaining(u), n + 1) = InOrder(Remaining(u), 0) BY <2>1, InOrderRest
    <2> QED BY <1>0, <2>2, InOrderRecursion DEF Kept
  <1>5. Len(Kept(u)) = 0 /\ 1 .. 0 = {} BY <1>4
  <1> QED BY <1>5 DEF Edited, u

\* and one that takes back the last character kept.
LEMMA EditedErased ==
  ASSUME NEW t \in Seq(Byte), NEW l, NEW o \in Nat, o > 0, Edited(t, l, o)
  PROVE  Edited(Append(t, "BS"), l, o - 1)
  <1> DEFINE u == Append(t, "BS")  n == Len(t)  R == Remaining(t)  Q == Remaining(u)
             p == Kept(t)[o]  q == p - 1
  <1>0. n \in Nat /\ Len(u) = n + 1 /\ "BS" \in Byte /\ \A k \in 1 .. n : u[k] = t[k]
    BY DEF Byte, Control
  <1>1. /\ n + 1 \notin Q
        /\ \A i \in 1 .. n : i \in Q <=>
              /\ i \in R
              /\ ~ /\ Opened(t, i, n) = Closed(t, i, n) + 1
                   /\ \A m \in i .. n : Opened(t, i, m) > Closed(t, i, m)
    BY <1>0, RemainingStep
  <1>2. /\ Kept(t) \in Seq(1 .. n) /\ Len(Kept(t)) = o /\ \A k \in 1 .. o : Kept(t)[k] \in R
    BY KeptTyped DEF Edited
  <1>3. \A k \in 1 .. o :
          /\ l[k] = t[Kept(t)[k]]
          /\ Opened(t, Kept(t)[k], n) = Closed(t, Kept(t)[k], n) + o - k + 1
          /\ \A m \in Kept(t)[k] .. n : Opened(t, Kept(t)[k], m) > Closed(t, Kept(t)[k], m)
    BY DEF Edited
  <1>4. p \in R /\ p \in 1 .. n /\ R \cap (p + 1 .. n) = {} /\ Kept(t) = Append(InOrder(R, q), p)
    <2>1. Kept(t) = InOrder(R, n) /\ p = Kept(t)[Len(Kept(t))] /\ Len(Kept(t)) > 0 BY <1>2 DEF Kept
    <2> HIDE DEF p, R
    <2> QED BY <1>0, <2>1, InOrderGreatest
  <1> HIDE DEF u, R, Q
  <1>5. ASSUME NEW i \in 1 .. n
        PROVE  \A j \in i - 1 .. n : /\ Opened(u, i, j) = Opened(t, i, j) /\ Opened(t, i, j) \in Nat
                                      /\ Closed(u, i, j) = Closed(t, i, j) /\ Closed(t, i, j) \in Nat
    <2>1. i \in 1 .. n + 1 BY <1>0
    <2> QED BY <1>0, <2>1, CountsStep DEF u
  <1>6. ASSUME NEW i \in 1 .. n
        PROVE  Opened(u, i, n + 1) = Opened(t, i, n) /\ Closed(u, i, n + 1) = Closed(t, i, n) + 1
    <2>1. i \in 1 .. n + 1 /\ n \in i - 1 .. n BY <1>0
    <2>2. Opened(u, i, n + 1) = Opened(t, i, n) + 0 /\ Closed(u, i, n + 1) = Closed(t, i, n) + 1
      BY <1>0, <2>1, CountsStep DEF u
    <2> QED BY <1>5, <2>1, <2>2
  <1>7. p \notin Q
    <2>1. o \in 1 .. o /\ Opened(t, p, n) = Closed(t, p, n) + o - o + 1
          /\ \A m \in p .. n : Opened(t, p, m) > Closed(t, p, m)
      BY <1>3
    <2>2. Closed(t, p, n) \in Nat
      <3>1. n \in p - 1 .. n BY <1>0, <1>4
      <3> QED BY <1>4, <1>5, <3>1
    <2>3. Opened(t, p, n) = Closed(t, p, n) + 1 BY <2>1, <2>2
    <2> QED BY <1>1, <1>4, <2>1, <2>3
  <1>8. q \in Nat /\ q < p /\ q <= n + 1 /\ p = q + 1 BY <1>0, <1>4
  <1>9. InOrder(R, q) \in Seq(R \cap (1 .. q)) BY <1>8, InOrderTyped
  <1>10. /\ Len(InOrder(R, q)) = o - 1
         /\ \A k \in 1 .. o - 1 : InOrder(R, q)[k] = Kept(t)[k] /\ Kept(t)[k] \in 1 .. q
    <2> DEFINE s == InOrder(R, q)  T == R \cap (1 .. q)
    <2>1. s \in Seq(T) /\ T \subseteq 1 .. q BY <1>9
    <2>2. Kept(t) = Append(s, p) BY <1>4
    <2> HIDE DEF s, T, p, q
    <2>3. Len(s) \in Nat /\ Len(s) + 1 = o BY <1>2, <2>1, <2>2
    <2>4. \A k \in 1 .. Len(s) : Kept(t)[k] = s[k] /\ s[k] \in T BY <2>1, <2>2
    <2>5. Len(s) = o - 1 BY <2>3
    <2>6. \A k \in 1 .. o - 1 : s[k] = Kept(t)[k] /\ Kept(t)[k] \in 1 .. q BY <2>1, <2>4, <2>5
    <2> QED BY <2>5, <2>6 DEF s
  <1>11. ASSUME NEW i \in 1 .. q, i \in R PROVE i \in Q
    <2>1. i \in 1 .. n BY <1>0, <1>4, <1>8
    <2>2. PICK k \in 1 .. Len(InOrder(R, q)) : InOrder(R, q)[k] = i BY <1>8, <1>11, InOrderOnto
    <2>3. k \in 1 .. o - 1 /\ k \in 1 .. o /\ Kept(t)[k] = i /\ k \in Nat BY <1>10, <2>2
    <2>4. Opened(t, i, n) = Closed(t, i, n) + o - k + 1 BY <1>3, <2>3
    <2>5. Closed(t, i, n) \in Nat
      <3>1. n \in i - 1 .. n BY <1>0, <2>1
      <3> QED BY <1>5, <2>1, <3>1
    <2>6. Opened(t, i, n) # Closed(t, i, n) + 1 BY <2>3, <2>4, <2>5
    <2> QED BY <1>1, <1>11, <2>1, <2>6
  <1>12. Kept(u) = InOrder(R, q)
    <2>1. \A i \in 1 .. q : i \in Q <=> i \in R
      <3>1. \A i \in 1 .. q : i \in 1 .. n BY <1>0, <1>4, <1>8
      <3> QED BY <1>1, <1>11, <3>1
    <2>2. Q \cap (q + 1 .. n + 1) = {}
      <3>1. \A i \in q + 1 .. n + 1 : i = p \/ i = n + 1 \/ (i \in p + 1 .. n /\ i \in 1 .. n)
        BY <1>0, <1>4, <1>8
      <3> QED BY <1>1, <1>4, <1>7, <3>1
    <2> HIDE DEF q
    <2>3. InOrder(Q, n + 1) = InOrder(Q, q)
      <3>1. n + 1 \in Nat BY <1>0
      <3> QED BY <1>8, <2>2, <3>1, InOrderRest
    <2>4. InOrder(Q, q) = InOrder(R, q) BY <1>8, <2>1, InOrderSame
    <2> QED BY <1>0, <2>3, <2>4 DEF Kept, Q, R
  <1>13. ASSUME NEW k \in 1 .. o - 1
         PROVE  /\ l[k] = u[Kept(u)[k]]
                /\ Opened(u, Kept(u)[k], n + 1) = Closed(u, Kept(u)[k], n + 1) + (o - 1) - k + 1
                /\ \A m \in Kept(u)[k] .. n + 1 : Opened(u, Kept(u)[k], m) > Closed(u, Kept(u)[k], m)
    <2> DEFINE i == Kept(u)[k]
    <2>1. i = Kept(t)[k] /\ i \in 1 .. n /\ k \in 1 .. o
      BY <1>0, <1>4, <1>8, <1>10, <1>12
    <2>2. /\ l[k] = t[i] /\ Opened(t, i, n) = Closed(t, i, n) + o - k + 1
          /\ \A m \in i .. n : Opened(t, i, m) > Closed(t, i, m)
      BY <1>3, <2>1
    <2> HIDE DEF i, p, q
    <2>3. n \in i .. n /\ (\A m \in i .. n : m \in i - 1 .. n)
          /\ \A m \in i .. n + 1 : m \in i .. n \/ m = n + 1
      BY <1>0, <2>1
    <2>4. /\ \A j \in i .. n : /\ Opened(u, i, j) = Opened(t, i, j) /\ Opened(t, i, j) \in Nat
                                /\ Closed(u, i, j) = Closed(t, i, j) /\ Closed(t, i, j) \in Nat
          /\ Opened(u, i, n + 1) = Opened(t, i, n) /\ Closed(u, i, n + 1) = Closed(t, i, n) + 1
      BY <1>5, <1>6, <2>1, <2>3
    <2>5. Opened(t, i, n) \in Nat /\ Closed(t, i, n) \in Nat /\ k \in Nat /\ k <= o - 1 BY <2>3, <2>4
    <2>6. Opened(u, i, n + 1) = Closed(u, i, n + 1) + (o - 1) - k + 1 BY <2>2, <2>4, <2>5
    <2>7. Opened(u, i, n + 1) > Closed(u, i, n + 1) BY <2>2, <2>4, <2>5
    <2>8. \A m \in i .. n + 1 : Opened(u, i, m) > Closed(u, i, m) BY <2>2, <2>3, <2>4, <2>7
    <2>9. l[k] = u[i] BY <1>0, <2>1, <2>2
    <2> QED BY <2>6, <2>8, <2>9 DEF i
  <1> QED BY <1>0, <1>10, <1>12, <1>13 DEF Edited, u

\* The string in a buffer that holds some characters and a terminator after them
LEMMA CharsOfLine ==
  ASSUME NEW l \in Seq(Byte), NEW s \in Seq(Byte), Len(s) < Len(l),
         \A k \in 1 .. Len(s) : l[k] = s[k], l[Len(s) + 1] = "NUL"
  PROVE  Chars(l) = Chars(s)
  <1> DEFINE n == Len(s)  m == Len(l)
             I == {i \in 1 .. m : l[i] = "NUL"}
             J == {i \in 1 .. n : s[i] = "NUL"}
             first(A) == CHOOSE x \in A : \A y \in A : x <= y
  <1>0. n \in Nat /\ m \in Nat /\ n < m /\ DOMAIN l = 1 .. m /\ DOMAIN s = 1 .. n OBVIOUS
  <1>1. n + 1 \in I BY <1>0
  <1>2. Chars(l) = SubSeq(l, 1, first(I) - 1)
    <2>1. \E i \in DOMAIN l : l[i] = "NUL" BY <1>0, <1>1
    <2> QED BY <1>1, <2>1 DEF Chars, SelectInSeq, Min
  <1>3. ASSUME NEW A, A \subseteq Nat, A # {} PROVE first(A) \in A /\ \A y \in A : first(A) <= y
    <2>1. \E x \in A : \A y \in A : x <= y BY <1>3, NatMin
    <2> QED BY <2>1
  <1>4. CASE J = {}
    <2>1. Chars(s) = s
      <3>1. ~ \E i \in DOMAIN s : s[i] = "NUL" BY <1>0, <1>4
      <3> QED BY <3>1, Zenon DEF Chars
    <2>2. first(I) \in I /\ \A y \in I : first(I) <= y
      <3>1. I \subseteq Nat /\ I # {} BY <1>0, <1>1
      <3> HIDE DEF I, first
      <3> QED BY <1>3, <3>1
    <2> DEFINE f == first(I)
    <2>3. f \in 1 .. m /\ l[f] = "NUL" /\ f <= n + 1 BY <1>1, <2>2
    <2> HIDE DEF f
    <2>4. ~(f <= n)
      <3> SUFFICES ASSUME f <= n PROVE FALSE OBVIOUS
      <3>1. f \in 1 .. n BY <1>0, <2>3
      <3>2. s[f] = "NUL" BY <2>3, <3>1
      <3> QED BY <1>4, <3>1, <3>2
    <2>5. f - 1 = n BY <1>0, <2>3, <2>4
    <2>6. Chars(l) = SubSeq(l, 1, n) BY <1>2, <2>5 DEF f
    <2>7. SubSeq(l, 1, n) = s BY <1>0
    <2> QED BY <2>1, <2>6, <2>7
  <1>5. CASE J # {}
    <2> DEFINE f == first(I)  g == first(J)
    <2>1. Chars(s) = SubSeq(s, 1, g - 1)
      <3>1. \E i \in DOMAIN s : s[i] = "NUL" BY <1>0, <1>5
      <3> QED BY <1>5, <3>1 DEF Chars, SelectInSeq, Min
    <2>2. f \in I /\ \A y \in I : f <= y
      <3>1. I \subseteq Nat /\ I # {} BY <1>0, <1>1
      <3> HIDE DEF I, first
      <3> QED BY <1>3, <3>1
    <2>3. g \in J /\ \A y \in J : g <= y
      <3>1. J \subseteq Nat BY <1>0
      <3> HIDE DEF J, first
      <3> QED BY <1>3, <1>5, <3>1
    <2>4. f \in 1 .. m /\ l[f] = "NUL" /\ g \in 1 .. n /\ s[g] = "NUL" BY <2>2, <2>3
    <2> HIDE DEF f, g
    <2>5. g \in I BY <1>0, <2>4
    <2>6. f <= g BY <2>2, <2>5
    <2>7. f \in 1 .. n BY <1>0, <2>4, <2>6
    <2>8. f \in J BY <2>4, <2>7
    <2>9. f = g BY <2>3, <2>4, <2>6, <2>8
    <2>10. SubSeq(l, 1, g - 1) = SubSeq(s, 1, g - 1) BY <1>0, <2>4
    <2> QED BY <1>2, <2>1, <2>9, <2>10 DEF f
  <1> QED BY <1>4, <1>5

\* What LineEdited says of a line that has ended
LineIs(t, l) == Chars(l) = Chars(At(t, Kept(t)))

LEMMA LineEditedIs ==
  LineEdited <=> (pc = "logged_on" => LineIs(typed, line))
  BY DEF LineEdited, LineIs, Kept

\* A full buffer holds the characters kept,
LEMMA LineFull ==
  ASSUME NEW t \in Seq(Byte), NEW l \in [1 .. UserLen -> Byte], Edited(t, l, UserLen)
  PROVE  LineIs(t, l)
  <1> DEFINE kept == Kept(t)
  <1>0. UserLen \in Nat BY SizesAssumption
  <1>1. Len(kept) = UserLen /\ \A k \in 1 .. UserLen : l[k] = t[kept[k]] BY DEF Edited
  <1>2. kept \in Seq(1 .. Len(t)) BY KeptTyped
  <1> HIDE DEF kept
  <1>3. DOMAIN kept = 1 .. UserLen BY <1>1, <1>2
  <1>4. At(t, kept) = [k \in 1 .. UserLen |-> t[kept[k]]] BY <1>3 DEF At
  <1>5. l = At(t, kept) BY <1>1, <1>4
  <1> QED BY <1>5 DEF LineIs, kept

\* and a line that is ended by a newline is terminated after them.
LEMMA LineEnds ==
  ASSUME NEW t \in Seq(Byte), NEW l \in [1 .. UserLen -> Byte], NEW o \in Nat, o < UserLen,
         Edited(t, l, o)
  PROVE  LineIs(t, [l EXCEPT ![o + 1] = "NUL"])
  <1> DEFINE kept == Kept(t)  m == [l EXCEPT ![o + 1] = "NUL"]  w == At(t, kept)
  <1>0. UserLen \in Nat /\ "NUL" \in Byte BY SizesAssumption DEF Byte, Control
  <1>1. Len(kept) = o /\ \A k \in 1 .. o : l[k] = t[kept[k]] BY DEF Edited
  <1>2. kept \in Seq(1 .. Len(t)) BY KeptTyped
  <1> HIDE DEF kept
  <1>3. DOMAIN kept = 1 .. o /\ \A k \in 1 .. o : kept[k] \in 1 .. Len(t) BY <1>1, <1>2
  <1>4. w = [k \in 1 .. o |-> t[kept[k]]] BY <1>3 DEF At
  <1>5. \A k \in 1 .. o : t[kept[k]] \in Byte BY <1>3
  <1> HIDE DEF w
  <1>6. w \in Seq(Byte) /\ Len(w) = o BY <1>4, <1>5
  <1>7. \A k \in 1 .. o : w[k] = l[k] BY <1>1, <1>4
  <1>8. o + 1 \in 1 .. UserLen /\ \A k \in 1 .. o : k \in 1 .. UserLen /\ k # o + 1 BY <1>0
  <1>9. m \in [1 .. UserLen -> Byte] /\ m[o + 1] = "NUL" /\ \A k \in 1 .. o : m[k] = l[k]
    BY <1>0, <1>8
  <1> HIDE DEF m
  <1>10. m \in Seq(Byte) /\ Len(m) = UserLen BY <1>0, <1>9
  <1>11. Chars(m) = Chars(w)
    <2>1. Len(w) < Len(m) /\ m[Len(w) + 1] = "NUL" /\ \A k \in 1 .. Len(w) : m[k] = w[k]
      BY <1>6, <1>7, <1>9, <1>10
    <2> QED BY <1>6, <1>10, <2>1, CharsOfLine
  <1> QED BY <1>11 DEF LineIs, kept, m, w

\* A character that is typed keeps the relation, or ends the line with it.
LEMMA TypedEdited ==
  ASSUME typed \in Seq(Byte), line \in [1 .. UserLen -> Byte], off \in Nat, off < UserLen,
         Edited(typed, line, off), NEW b \in Byte, typed' = Append(typed, b), ~Ignored(b), Typed(b)
  PROVE  \/ pc' = "logged_on" /\ LineIs(typed', line')
         \/ pc' = pc /\ Edited(typed', line', off')
  <1>0. UserLen \in Nat BY SizesAssumption
  <1>1. /\ Stored(b)
        /\ \/ pc' = "logged_on" /\ (b = "NL" \/ off' = UserLen)
           \/ pc' = pc /\ b # "NL" /\ off' # UserLen
    BY DEF Typed
  <1>2. typed' \in Seq(Byte) OBVIOUS
  <1>3. ASSUME b # "NL" PROVE Edited(typed', line', off') /\ line' \in [1 .. UserLen -> Byte]
    <2>1. CASE b = "BS"
      <3>1. off > 0 BY <2>1 DEF Ignored
      <3>2. off' = off - 1 /\ line' = line BY <1>1, <2>1 DEF Stored
      <3> QED BY <2>1, <3>1, <3>2, EditedErased
    <2>2. CASE b = "CR"
      <3>1. off' = off /\ line' = line BY <1>1, <2>2 DEF Stored
      <3>2. Edited(Append(typed, b), line, off) BY <2>2, EditedSilent
      <3> QED BY <3>1, <3>2
    <2>3. CASE b \notin {"BS", "CR"}
      <3>1. off' = off + 1 /\ line' = [line EXCEPT ![off + 1] = b] BY <1>1, <1>3, <2>3 DEF Stored
      <3>2. Edited(Append(typed, b), [line EXCEPT ![off + 1] = b], off + 1)
        BY <1>3, <2>3, EditedPrinting
      <3> QED BY <1>0, <3>1, <3>2
    <2> QED BY <2>1, <2>2, <2>3
  <1>4. ASSUME b # "NL", off' = UserLen PROVE LineIs(typed', line')
    BY <1>2, <1>3, <1>4, LineFull
  <1>5. ASSUME b = "NL" PROVE LineIs(typed', line')
    <2>1. line' = [line EXCEPT ![off + 1] = "NUL"] BY <1>1, <1>5 DEF Stored
    <2>2. Edited(Append(typed, "NL"), line, off) BY EditedSilent
    <2>3. Edited(typed', line, off) BY <1>5, <2>2
    <2> QED BY <1>2, <2>1, <2>3, LineEnds
  <1> QED BY <1>1, <1>3, <1>4, <1>5

(***************************************************************************)
(* The line so far: while it is read, the buffer and the characters belong *)
(* together; when it has ended, it is what LineEdited says; and when the   *)
(* next one begins, nothing has been typed.                                *)
(***************************************************************************)
EditInv ==
    /\ pc = "getline" => Edited(typed, line, off)
    /\ pc = "logged_on" => LineIs(typed, line)
    /\ pc = "run" => typed = << >> /\ off = 0

\* A byte from the client: a character, an ignored '\b', or neither.
LEMMA GetByteEdited ==
  ASSUME IInv, EditInv, NEW b \in Byte, GetByte(b)
  PROVE  EditInv'
  <1>1. /\ typed \in Seq(Byte) /\ line \in [1 .. UserLen -> Byte] /\ off \in Nat /\ off < UserLen
        /\ pc = "getline" /\ Edited(typed, line, off)
    BY DEF IInv, ParserInv, LineInv, EditInv, GetByte, String
  <1>2. PICK r \in Process(telnet, b) :
          /\ typed' = IF r.data THEN Append(typed, b) ELSE typed
          /\ IF r.data /\ ~Ignored(b) THEN Typed(b) \/ EchoFails ELSE ReadOn
    BY DEF GetByte
  <1>3. CASE r.data /\ ~Ignored(b) /\ Typed(b)
    <2>1. typed' = Append(typed, b) BY <1>2, <1>3
    <2>2. \/ pc' = "logged_on" /\ LineIs(typed', line')
          \/ pc' = "getline" /\ Edited(typed', line', off')
      BY <1>1, <1>3, <2>1, TypedEdited
    <2> QED BY <2>2 DEF EditInv
  <1>4. CASE EchoFails BY <1>4 DEF EchoFails, EditInv
  <1>5. CASE r.data /\ Ignored(b)
    <2>1. /\ b = "BS" /\ off = 0 /\ typed' = Append(typed, "BS")
          /\ line' = line /\ off' = off /\ pc' = "getline"
      BY <1>1, <1>2, <1>5 DEF Ignored, ReadOn
    <2>2. Edited(typed', line', off') BY <1>1, <2>1, EditedNothing
    <2> QED BY <2>1, <2>2 DEF EditInv
  <1>6. CASE ~r.data
    <2>1. typed' = typed /\ line' = line /\ off' = off /\ pc' = "getline"
      BY <1>1, <1>2, <1>6 DEF ReadOn
    <2> QED BY <1>1, <2>1 DEF EditInv
  <1> QED BY <1>2, <1>3, <1>4, <1>5, <1>6

\* Every step keeps the relation between the characters and the buffer.
LEMMA EditStep ==
  ASSUME IInv, EditInv, [Next]_vars
  PROVE  EditInv'
  <1>1. CASE Input
    <2>1. PICK b \in BytesIn(telnet.state) : GetByte(b) BY <1>1 DEF Input
    <2>2. b \in Byte BY DEF BytesIn, Byte, Control, Negotiation, Option
    <2> QED BY <2>1, <2>2, GetByteEdited
  <1>2. CASE RecvFails BY <1>2 DEF RecvFails, EditInv
  <1>3. CASE Logon BY <1>3 DEF Logon, EditInv
  <1>4. CASE LoopSetError BY <1>4 DEF LoopSetError, ForgetLine, EditInv
  <1>5. CASE Shell BY <1>5 DEF Shell, EditInv
  <1>6. CASE ShellFails BY <1>6 DEF ShellFails, EditInv
  <1>7. CASE ShellOverrun BY <1>7 DEF ShellOverrun, EditInv
  <1>8. CASE LogonAgain
    <2>1. pc = "run" /\ pc' = "getline" /\ typed' = typed /\ line' = line /\ off' = off
      BY <1>8 DEF LogonAgain, Runs, Done, inputVars
    <2>2. typed' = << >> /\ off' = 0 BY <2>1 DEF EditInv
    <2>3. Edited(typed', line', off') BY <2>2, EditedEmpty
    <2> QED BY <2>1, <2>3 DEF EditInv
  <1>9. CASE SetDump \/ SetShow \/ SetAssign \/ SetInvalid \/ OtherApp
    BY <1>9 DEF SetDump, SetShow, SetAssign, SetInvalid, OtherApp, EditInv
  <1>10. CASE UNCHANGED vars BY <1>10 DEF vars, EditInv
  <1> QED BY <1>1, <1>2, <1>3, <1>4, <1>5, <1>6, <1>7, <1>8, <1>9, <1>10 DEF Next, Run

\* Console.LineEdited: the name that logon stores is what the user typed and
\* did not take back, also when the buffer fills up before the line ends: for
\* every size of the buffer and every input.
THEOREM LineIsEdited == Spec => []LineEdited
  <1>1. Init => EditInv
    <2>1. Edited(<< >>, EmptyLine, 0) BY EditedEmpty
    <2> QED BY <2>1 DEF Init, EditInv
  <1>2. IInv /\ EditInv /\ [Next]_vars => EditInv' BY EditStep
  <1>3. EditInv => LineEdited BY LineEditedIs DEF EditInv
  <1> QED BY <1>1, <1>2, <1>3, Invariance, PTL DEF Spec

-----------------------------------------------------------------------------
\* Before its body, a subnegotiation has no open IAC; and of the IACs in a row
\* every other one opens a command.
LEMMA OpensNext ==
  ASSUME NEW s, NEW i \in Nat, NEW j \in Nat, j >= i + 2
  PROVE  /\ ~OpensInBody(s, i, i + 2)
         /\ OpensInBody(s, i, j + 1) <=> s[j + 1] = "IAC" /\ ~OpensInBody(s, i, j)
  <1> DEFINE row(k, m) == \A a \in k .. m : s[a] = "IAC"
             first(k) == k = i + 3 \/ s[k - 1] # "IAC"
  <1>0. \A m : OpensInBody(s, i, m) <=>
                 s[m] = "IAC" /\ \E k \in i + 3 .. m : (m - k) % 2 = 0 /\ row(k, m) /\ first(k)
    BY DEF OpensInBody
  <1>1. ~OpensInBody(s, i, i + 2)
    <2>1. i + 3 .. i + 2 = {} OBVIOUS
    <2> QED BY <1>0, <2>1
  <1>2. ASSUME OpensInBody(s, i, j + 1), OpensInBody(s, i, j) PROVE FALSE
    <2>1. PICK k \in i + 3 .. j + 1 : (j + 1 - k) % 2 = 0 /\ row(k, j + 1) /\ first(k) BY <1>0, <1>2
    <2>2. PICK m \in i + 3 .. j : (j - m) % 2 = 0 /\ row(m, j) /\ first(m) BY <1>0, <1>2
    <2> HIDE DEF row, first
    <2>3. k # m
      <3>1. j - k \in Int /\ (j + 1 - k) = (j - k) + 1 OBVIOUS
      <3> QED BY <2>1, <2>2, <3>1
    <2>4. CASE k < m
      <3>1. m # i + 3 /\ m - 1 \in k .. j + 1 BY <2>4
      <3> QED BY <2>1, <2>2, <3>1 DEF row, first
    <2>5. CASE m < k
      <3>1. k # i + 3 /\ k - 1 \in m .. j BY <2>5
      <3> QED BY <2>1, <2>2, <3>1 DEF row, first
    <2> QED BY <2>3, <2>4, <2>5
  <1>3. ASSUME s[j + 1] = "IAC", ~OpensInBody(s, i, j) PROVE OpensInBody(s, i, j + 1)
    <2>1. CASE j = i + 2 \/ s[j] # "IAC"
      <3> DEFINE k == j + 1
      <3>1. k \in i + 3 .. j + 1 /\ (j + 1 - k) = 0 /\ k - 1 = j /\ (j = i + 2 => k = i + 3)
            /\ k .. j + 1 = {j + 1} /\ 0 % 2 = 0
        OBVIOUS
      <3> HIDE DEF k
      <3>2. row(k, j + 1) /\ first(k) /\ (j + 1 - k) % 2 = 0 BY <1>3, <2>1, <3>1
      <3> HIDE DEF row, first
      <3> QED BY <1>0, <1>3, <3>1, <3>2
    <2>2. CASE j # i + 2 /\ s[j] = "IAC"
      <3> DEFINE A == {k \in i + 3 .. j : row(k, j)}
      <3>1. j \in A
        <4>1. j \in i + 3 .. j /\ j .. j = {j} BY <2>2
        <4> QED BY <2>2, <4>1
      <3>2. PICK k \in A : \A m \in A : k <= m
        <4>1. A \subseteq Nat OBVIOUS
        <4> HIDE DEF A
        <4> QED BY <3>1, <4>1, NatMin
      <3>3. k \in i + 3 .. j /\ row(k, j) OBVIOUS
      <3>4. first(k)
        <4> SUFFICES ASSUME k # i + 3, s[k - 1] = "IAC" PROVE FALSE OBVIOUS
        <4>1. k - 1 \in i + 3 .. j /\ \A a \in k - 1 .. j : a = k - 1 \/ a \in k .. j BY <3>3
        <4>2. row(k - 1, j) BY <3>3, <4>1
        <4>3. k - 1 \in A /\ ~(k <= k - 1) BY <3>3, <4>1, <4>2
        <4> HIDE DEF A
        <4> QED BY <3>2, <4>3
      <3> HIDE DEF A
      <3>5. (j - k) % 2 # 0
        <4> HIDE DEF row, first
        <4> QED BY <1>0, <1>3, <2>2, <3>3, <3>4
      <3>6. (j + 1 - k) % 2 = 0 /\ k \in i + 3 .. j + 1
        <4>1. j - k \in Int /\ j + 1 - k = (j - k) + 1 BY <3>3
        <4> QED BY <3>3, <3>5, <4>1
      <3>7. row(k, j + 1)
        <4>1. \A a \in k .. j + 1 : a \in k .. j \/ a = j + 1 BY <3>3
        <4> QED BY <1>3, <3>3, <4>1
      <3> HIDE DEF row, first
      <3> QED BY <1>0, <1>3, <3>4, <3>6, <3>7
    <2> QED BY <2>1, <2>2
  <1>4. OpensInBody(s, i, j + 1) => s[j + 1] = "IAC" BY <1>0
  <1> QED BY <1>1, <1>2, <1>3, <1>4

\* One byte more does not change what the others open.
LEMMA OpensSame ==
  ASSUME NEW s, NEW u, NEW n \in Nat, \A k \in 1 .. n : u[k] = s[k], NEW i \in Nat, NEW j \in 0 .. n
  PROVE  OpensInBody(u, i, j) <=> OpensInBody(s, i, j)
  <1>1. ASSUME NEW k \in i + 3 .. j
        PROVE  /\ k - 1 \in 1 .. n /\ u[k - 1] = s[k - 1] /\ j \in 1 .. n /\ u[j] = s[j]
               /\ \A m \in k .. j : m \in 1 .. n /\ u[m] = s[m]
    OBVIOUS
  <1> QED BY <1>1 DEF OpensInBody

-----------------------------------------------------------------------------
\* The recursion of Starts, as a function
Openers(s, g) ==
    [i \in Nat |-> [S \in SUBSET Nat |->
        IF i = 1 \/ \E k \in S : i - 1 \in ItemEnds(s, k, g) THEN S \cup {i} ELSE S]]

\* Starts is the last value of this recursion.
LEMMA StartsValue ==
  ASSUME NEW s, NEW g, NEW n \in Nat, Len(s) = n
  PROVE  \E f \in [0 .. n -> SUBSET Nat] : Recurs(f, Openers(s, g), {}, n) /\ Starts(s, g) = f[n]
  <1> DEFINE V == SUBSET Nat
             ends(i, S) == i = 1 \/ \E k \in S : i - 1 \in ItemEnds(s, k, g)
             step(f, i) == IF i = 0 THEN {}
                           ELSE IF i = 1 \/ \E k \in f[i - 1] : i - 1 \in ItemEnds(s, k, g)
                             THEN f[i - 1] \cup {i} ELSE f[i - 1]
             is(f) == f = [i \in 0 .. n |-> step(f, i)]
             h == CHOOSE f : is(f)
  <1>1. Starts(s, g) = h[n] BY DEF Starts
  <1>2. \E f \in [0 .. n -> V] : Recurs(f, Openers(s, g), {}, n)
    <2>1. {} \in V OBVIOUS
    <2>2. ASSUME NEW i \in Nat, NEW S \in V PROVE (IF ends(i, S) THEN S \cup {i} ELSE S) \in V
      OBVIOUS
    <2>3. Openers(s, g) = [i \in Nat |-> [S \in V |-> IF ends(i, S) THEN S \cup {i} ELSE S]]
      BY DEF Openers
    <2> HIDE DEF V, ends
    <2>4. Openers(s, g) \in [Nat -> [V -> V]] BY <2>2, <2>3
    <2> DEFINE F == Openers(s, g)  z == {}
    <2>5. z \in V /\ F \in [Nat -> [V -> V]] BY <2>1, <2>4
    <2> HIDE DEF F, z
    <2>6. \E f \in [0 .. n -> V] : Recurs(f, F, z, n) BY <2>5, Recursion
    <2> QED BY <2>6 DEF F, z
  <1>3. ASSUME NEW f \in [0 .. n -> V], NEW i \in 1 .. n
        PROVE  Openers(s, g)[i][f[i - 1]] = step(f, i)
    <2>1. i - 1 \in 0 .. n /\ i \in Nat /\ i # 0 OBVIOUS
    <2>2. f[i - 1] \in SUBSET Nat BY <2>1
    <2> DEFINE S == f[i - 1]
    <2>3. S \in SUBSET Nat BY <2>2
    <2> HIDE DEF S
    <2>4. Openers(s, g)[i][S] = IF i = 1 \/ \E k \in S : i - 1 \in ItemEnds(s, k, g) THEN S \cup {i} ELSE S
      BY <2>1, <2>3 DEF Openers
    <2> QED BY <2>1, <2>4 DEF S
  <1>4. \E f : is(f)
    <2>1. PICK f \in [0 .. n -> V] : f[0] = {} /\ \A i \in 1 .. n : f[i] = Openers(s, g)[i][f[i - 1]]
      BY <1>2 DEF Recurs
    <2>2. ASSUME NEW i \in 0 .. n PROVE f[i] = step(f, i)
      <3>1. CASE i = 0 BY <2>1, <3>1
      <3>2. CASE i # 0
        <4>1. i \in 1 .. n BY <3>2
        <4>2. f[i] = Openers(s, g)[i][f[i - 1]] BY <2>1, <4>1
        <4>3. Openers(s, g)[i][f[i - 1]] = step(f, i) BY <1>3, <4>1
        <4> QED BY <4>2, <4>3
      <3> QED BY <3>1, <3>2
    <2> HIDE DEF step
    <2>3. is(f) BY <2>1, <2>2
    <2> QED BY <2>3
  <1>5. is(h)
    <2> HIDE DEF is
    <2> QED BY <1>4
  <1> HIDE DEF h, V
  <1>6. \A i \in 0 .. n : h[i] = step(h, i)
    <2> HIDE DEF step
    <2> QED BY <1>5
  <1>7. PICK f \in [0 .. n -> V] : Recurs(f, Openers(s, g), {}, n)
    BY <1>2
  <1> HIDE DEF step
  <1>8. \A i \in 0 .. n : f[i] = h[i]
    <2> DEFINE bad == {i \in 0 .. n : f[i] # h[i]}
    <2> SUFFICES ASSUME bad # {} PROVE FALSE
      OBVIOUS
    <2>1. PICK m \in bad : \A y \in bad : m <= y
      <3>1. bad \subseteq Nat OBVIOUS
      <3> QED BY <3>1, NatMin
    <2>2. m \in 0 .. n /\ f[m] # h[m] OBVIOUS
    <2>3. m # 0 BY <1>6, <1>7, <2>2 DEF Recurs, step
    <2>4. m \in 1 .. n /\ m - 1 \in 0 .. n /\ ~(m <= m - 1) BY <2>2, <2>3
    <2>5. f[m - 1] = h[m - 1] BY <2>1, <2>4
    <2>6. f[m] = step(f, m) /\ h[m] = step(h, m) BY <1>3, <1>6, <1>7, <2>4 DEF Recurs
    <2>7. step(f, m) = step(h, m) BY <2>5 DEF step
    <2> QED BY <2>2, <2>6, <2>7
  <1>9. Starts(s, g) = f[n] BY <1>1, <1>8
  <1>10. f \in [0 .. n -> SUBSET Nat] BY DEF V
  <1> QED BY <1>7, <1>9, <1>10, Zenon

\* An item starts at the beginning and after the last byte of another one,
AreStarts(s, g, W) ==
    /\ W \subseteq 1 .. Len(s)
    /\ \A i \in 1 .. Len(s) : i \in W <=> i = 1 \/ \E k \in W : k < i /\ i - 1 \in ItemEnds(s, k, g)

LEMMA StartsAre ==
  ASSUME NEW s, NEW g, Len(s) \in Nat
  PROVE  AreStarts(s, g, Starts(s, g))
  <1> DEFINE n == Len(s)
  <1>1. PICK f \in [0 .. n -> SUBSET Nat] : Recurs(f, Openers(s, g), {}, n) /\ Starts(s, g) = f[n]
    BY StartsValue
  <1>2. ASSUME NEW i \in 1 .. n
        PROVE  f[i] = IF i = 1 \/ \E k \in f[i - 1] : i - 1 \in ItemEnds(s, k, g)
                        THEN f[i - 1] \cup {i} ELSE f[i - 1]
    <2>1. f[i] = Openers(s, g)[i][f[i - 1]] BY <1>1 DEF Recurs
    <2>2. i \in Nat /\ f[i - 1] \in SUBSET Nat
      <3>1. i - 1 \in 0 .. n OBVIOUS
      <3> QED BY <3>1
    <2> QED BY <2>1, <2>2 DEF Openers
  <1> DEFINE good(m) ==
               /\ f[m] \subseteq 1 .. m
               /\ \A i \in 1 .. m : i \in f[m] <=>
                     i = 1 \/ \E k \in f[m] : k < i /\ i - 1 \in ItemEnds(s, k, g)
             bad == {m \in 0 .. n : ~good(m)}
  <1>3. bad = {}
    <2> SUFFICES ASSUME bad # {} PROVE FALSE
      OBVIOUS
    <2>1. PICK m \in bad : \A y \in bad : m <= y
      <3>1. bad \subseteq Nat OBVIOUS
      <3> QED BY <3>1, NatMin
    <2>2. m \in 0 .. n /\ ~good(m) OBVIOUS
    <2>3. m # 0
      <3>1. f[0] = {} BY <1>1 DEF Recurs
      <3>2. good(0) BY <3>1, 1 .. 0 = {}
      <3> HIDE DEF good
      <3> QED BY <2>2, <3>2
    <2> DEFINE q == m - 1  S == f[q]
    <2>4. q \in 0 .. n /\ q \in Nat /\ m = q + 1 /\ m \in 1 .. n /\ ~(m <= q) BY <2>2, <2>3
    <2>5. good(q)
      <3> HIDE DEF good
      <3>1. q \notin bad
        <4> HIDE DEF bad, q
        <4> QED BY <2>1, <2>4
      <3> QED BY <2>4, <3>1
    <2>6. f[m] = IF m = 1 \/ \E k \in S : q \in ItemEnds(s, k, g) THEN S \cup {m} ELSE S
      BY <1>2, <2>4
    <2> HIDE DEF q
    <2>7. S \subseteq 1 .. q /\ \A i \in 1 .. q : i \in S <=>
              i = 1 \/ \E k \in S : k < i /\ i - 1 \in ItemEnds(s, k, g)
      BY <2>5
    <2> HIDE DEF S, good
    <2>8. f[m] \subseteq 1 .. m /\ m \notin S /\ \A i \in 1 .. q : i \in f[m] <=> i \in S
      BY <2>4, <2>6, <2>7
    <2>9. ASSUME NEW i \in 1 .. m
          PROVE  i \in f[m] <=> i = 1 \/ \E k \in f[m] : k < i /\ i - 1 \in ItemEnds(s, k, g)
      <3>1. \A k \in 1 .. m : k < i => (k \in f[m] <=> k \in S) /\ k \in 1 .. q BY <2>4, <2>8
      <3>2. CASE i = m
        <4>1. m - 1 = q /\ \A k \in S : k < m BY <2>4, <2>7
        <4>2. m \in f[m] <=> m = 1 \/ \E k \in S : q \in ItemEnds(s, k, g) BY <2>6, <2>8
        <4>3. \A k : k \in f[m] /\ k < m <=> k \in S
          <5>1. \A k : k \in S => k \in 1 .. m /\ k < m BY <2>4, <2>7
          <5>2. \A k \in 1 .. m : k < m => (k \in f[m] <=> k \in S) BY <3>1, <3>2
          <5> QED BY <2>8, <5>1, <5>2
        <4> QED BY <3>2, <4>1, <4>2, <4>3
      <3>3. CASE i # m
        <4>1. i \in 1 .. q BY <2>4, <3>3
        <4>2. (\E k \in S : k < i /\ i - 1 \in ItemEnds(s, k, g)) <=>
              \E k \in f[m] : k < i /\ i - 1 \in ItemEnds(s, k, g)
          <5>1. \A k \in S : k \in 1 .. m BY <2>4, <2>7
          <5> QED BY <2>8, <3>1, <5>1
        <4> QED BY <2>7, <2>8, <4>1, <4>2
      <3> QED BY <3>2, <3>3
    <2>10. good(m) BY <2>8, <2>9 DEF good
    <2> QED BY <2>2, <2>10
  <1>4. good(n)
    <2> HIDE DEF good
    <2>1. n \in 0 .. n OBVIOUS
    <2> QED BY <1>3, <2>1
  <1> QED BY <1>1, <1>4 DEF AreStarts

\* and nothing else says so.
LEMMA StartsUnique ==
  ASSUME NEW s, NEW g, Len(s) \in Nat, NEW W, AreStarts(s, g, W)
  PROVE  Starts(s, g) = W
  <1> DEFINE V == Starts(s, g)
             differ == {i \in 1 .. Len(s) : ~(i \in V <=> i \in W)}
  <1>1. AreStarts(s, g, V) BY StartsAre
  <1> HIDE DEF V
  <1>2. differ = {}
    <2> SUFFICES ASSUME differ # {} PROVE FALSE
      OBVIOUS
    <2>1. PICK i \in differ : \A y \in differ : i <= y
      <3>1. differ \subseteq Nat OBVIOUS
      <3> QED BY <3>1, NatMin
    <2>2. i \in 1 .. Len(s) /\ ~(i \in V <=> i \in W) OBVIOUS
    <2>3. \A k \in 1 .. Len(s) : k < i => (k \in V <=> k \in W)
      <3> TAKE k \in 1 .. Len(s)
      <3> HAVE k < i
      <3>1. ~(i <= k) BY <2>2
      <3>2. k \notin differ
        <4> HIDE DEF differ
        <4> QED BY <2>1, <3>1
      <3> QED BY <3>2
    <2> QED BY <1>1, <2>2, <2>3 DEF AreStarts
  <1> QED BY <1>1, <1>2 DEF V, AreStarts

-----------------------------------------------------------------------------
\* Where a subnegotiation may end; it ends at the first of these.
MayEnd(s, i, g, e) ==
    \/ \E j \in i + 3 .. Len(s) - 1 : OpensInBody(s, i, j) /\ s[j + 1] = "SE" /\ e = j + 1
    \/ \E j \in i + 3 .. Len(s) - 1 :
          OpensInBody(s, i, j) /\ s[j + 1] \notin {"IAC", "SE"} /\ e = j - 1
    \/ e \in g /\ e > i

LEMMA SubEndsFirst ==
  ASSUME NEW s, NEW i, NEW g, NEW e
  PROVE  e \in SubEnds(s, i, g) <=> MayEnd(s, i, g, e) /\ \A f : MayEnd(s, i, g, f) => e <= f
  <1> DEFINE ends == {j + 1 : j \in {j \in i + 3 .. Len(s) - 1 :
                                  OpensInBody(s, i, j) /\ s[j + 1] = "SE"}}
                  \cup {j - 1 : j \in {j \in i + 3 .. Len(s) - 1 :
                                  OpensInBody(s, i, j) /\ s[j + 1] \notin {"IAC", "SE"}}}
                  \cup {j \in g : j > i}
  <1>1. \A f : f \in ends <=> MayEnd(s, i, g, f) BY DEF MayEnd
  <1>2. SubEnds(s, i, g) = {f \in ends : \A m \in ends : f <= m} BY DEF SubEnds
  <1> HIDE DEF ends
  <1> QED BY <1>1, <1>2

\* The stream s and one byte more, at which a subnegotiation was given up or not
More(s, g, b, u, h) ==
    /\ s \in Seq(Byte) /\ b \in Byte /\ g \subseteq 1 .. Len(s)
    /\ u = Append(s, b) /\ h \in {g, g \cup {Len(s) + 1}}

LEMMA MoreFacts ==
  ASSUME NEW s, NEW g, NEW b, NEW u, NEW h, More(s, g, b, u, h)
  PROVE  /\ Len(s) \in Nat /\ u \in Seq(Byte) /\ Len(u) = Len(s) + 1
         /\ u[Len(s) + 1] = b /\ \A k \in 1 .. Len(s) : u[k] = s[k] /\ (k \in h <=> k \in g)
         /\ h \subseteq 1 .. Len(u) /\ g \subseteq h
  <1>1. s \in Seq(Byte) /\ b \in Byte /\ u = Append(s, b) BY DEF More
  <1>2. Len(s) \in Nat /\ u \in Seq(Byte) /\ Len(u) = Len(s) + 1
         /\ u[Len(s) + 1] = b /\ \A k \in 1 .. Len(s) : u[k] = s[k]
    BY <1>1
  <1> DEFINE n == Len(s)
  <1>3. g \subseteq 1 .. n /\ h \in {g, g \cup {n + 1}} BY DEF More
  <1>4. n \in Nat /\ Len(u) = n + 1 BY <1>2
  <1> HIDE DEF n
  <1>5. 1 .. n \subseteq 1 .. n + 1 /\ n + 1 \in 1 .. n + 1 /\ n + 1 \notin 1 .. n BY ONLY <1>4
  <1>6. h \subseteq 1 .. n + 1 /\ g \subseteq h /\ \A k \in 1 .. n : k \in h <=> k \in g
    BY ONLY <1>3, <1>5
  <1> QED BY <1>2, <1>4, <1>6 DEF n

\* What the byte adds to where a subnegotiation may end
LEMMA MayEndStep ==
  ASSUME NEW s, NEW g, NEW b, NEW u, NEW h, More(s, g, b, u, h), NEW i \in 1 .. Len(s), NEW e
  PROVE  MayEnd(u, i, h, e) <=>
            \/ MayEnd(s, i, g, e)
            \/ i + 3 <= Len(s) /\ OpensInBody(s, i, Len(s)) /\ b = "SE" /\ e = Len(s) + 1
            \/ i + 3 <= Len(s) /\ OpensInBody(s, i, Len(s)) /\ b \notin {"IAC", "SE"} /\ e = Len(s) - 1
            \/ e = Len(s) + 1 /\ e \in h
  <1> DEFINE n == Len(s)
  <1>1. /\ n \in Nat /\ Len(u) = n + 1 /\ u[n + 1] = b /\ \A k \in 1 .. n : u[k] = s[k]
        /\ h \subseteq 1 .. n + 1 /\ g \subseteq 1 .. n /\ \A k \in 1 .. n : k \in h <=> k \in g
    <2>1. g \subseteq 1 .. n BY DEF More
    <2> QED BY <2>1, MoreFacts
  <1>2. \A j \in i + 3 .. n : OpensInBody(u, i, j) <=> OpensInBody(s, i, j)
    <2>1. \A j \in i + 3 .. n : j \in 0 .. n /\ i \in Nat OBVIOUS
    <2> QED BY <1>1, <2>1, OpensSame
  <1>3. \A j \in i + 3 .. n - 1 : j \in i + 3 .. n /\ j + 1 \in 1 .. n BY <1>1
  <1>4. (n + 1) - 1 = n /\ \A j : j \in i + 3 .. n <=> j \in i + 3 .. n - 1 \/ (j = n /\ i + 3 <= n)
    BY <1>1
  <1>5. e \in h /\ e > i <=> (e \in g /\ e > i) \/ (e = n + 1 /\ e \in h)
    <2>1. n + 1 \notin g /\ n + 1 > i /\ \A k \in 1 .. n + 1 : k \in 1 .. n \/ k = n + 1 BY <1>1
    <2> QED BY <1>1, <2>1
  <1> HIDE DEF n
  <1>6. (\E j \in i + 3 .. (n + 1) - 1 : OpensInBody(u, i, j) /\ u[j + 1] = "SE" /\ e = j + 1) <=>
          \/ \E j \in i + 3 .. n - 1 : OpensInBody(s, i, j) /\ s[j + 1] = "SE" /\ e = j + 1
          \/ i + 3 <= n /\ OpensInBody(s, i, n) /\ b = "SE" /\ e = n + 1
    BY <1>1, <1>2, <1>3, <1>4
  <1>7. (\E j \in i + 3 .. (n + 1) - 1 :
            OpensInBody(u, i, j) /\ u[j + 1] \notin {"IAC", "SE"} /\ e = j - 1) <=>
          \/ \E j \in i + 3 .. n - 1 :
                OpensInBody(s, i, j) /\ s[j + 1] \notin {"IAC", "SE"} /\ e = j - 1
          \/ i + 3 <= n /\ OpensInBody(s, i, n) /\ b \notin {"IAC", "SE"} /\ e = n - 1
    BY <1>1, <1>2, <1>3, <1>4
  <1> QED BY <1>1, <1>5, <1>6, <1>7 DEF MayEnd, n

\* An item that has arrived: it has a last byte, and the next byte cannot move it.
Complete(s, g, k, e) ==
    /\ ItemEnds(s, k, g) = {e} /\ e \in k .. Len(s)
    /\ ~(s[k] = "IAC" /\ s[k + 1] = "SB" /\ e = Len(s) /\ OpensInBody(s, k, Len(s)))

\* A subnegotiation that ends at e
LEMMA SubComplete ==
  ASSUME NEW s, NEW g, NEW i, NEW e \in Int, MayEnd(s, i, g, e), Len(s) \in Nat, i \in Nat, g \subseteq Nat,
         \A f \in Int : MayEnd(s, i, g, f) => e <= f
  PROVE  SubEnds(s, i, g) = {e}
  <1>1. ASSUME NEW f, MayEnd(s, i, g, f) PROVE f \in Int
    <2>1. \A j \in i + 3 .. Len(s) - 1 : j + 1 \in Int /\ j - 1 \in Int OBVIOUS
    <2>2. (\E j \in i + 3 .. Len(s) - 1 : f = j + 1 \/ f = j - 1) \/ f \in g BY <1>1 DEF MayEnd
    <2>3. g \subseteq Int OBVIOUS
    <2> QED BY <2>1, <2>2, <2>3
  <1>2. e \in SubEnds(s, i, g) BY <1>1, SubEndsFirst
  <1>3. ASSUME NEW f \in SubEnds(s, i, g) PROVE f = e
    <2>1. MayEnd(s, i, g, f) /\ f <= e BY <1>3, SubEndsFirst
    <2>2. f \in Int /\ e <= f BY <1>1, <2>1
    <2> QED BY <2>1, <2>2
  <1> QED BY <1>2, <1>3

LEMMA CompleteStays ==
  ASSUME NEW s, NEW g, NEW b, NEW u, NEW h, More(s, g, b, u, h), NEW k \in 1 .. Len(s), NEW e,
         Complete(s, g, k, e)
  PROVE  Complete(u, h, k, e) /\ (s[k] = "IAC" => k + 1 \in 1 .. Len(s))
  <1> DEFINE n == Len(s)
  <1>1. /\ n \in Nat /\ Len(u) = n + 1 /\ u[n + 1] = b /\ \A j \in 1 .. n : u[j] = s[j]
        /\ h \subseteq 1 .. n + 1
    BY MoreFacts
  <1>2. ItemEnds(s, k, g) = {e} /\ e \in k .. n /\ e # n + 1 /\ e \in k .. n + 1 BY <1>1 DEF Complete
  <1>3. s[k] = "IAC" => k # n /\ k + 1 \in 1 .. n
    <2>1. s[k] = "IAC" /\ k = n => ItemEnds(s, k, g) = {} BY DEF ItemEnds
    <2> QED BY <1>1, <1>2, <2>1
  <1>4. u[k] = s[k] /\ (s[k] = "IAC" => u[k + 1] = s[k + 1] /\ k # n + 1) BY <1>1, <1>3
  <1> HIDE DEF n
  <1>5. CASE s[k] = "IAC" /\ s[k + 1] = "SB"
    <2>1. SubEnds(s, k, g) = {e} BY <1>2, <1>3, <1>5 DEF ItemEnds, n
    <2>2. MayEnd(s, k, g, e) /\ \A f : MayEnd(s, k, g, f) => e <= f
      <3>1. e \in SubEnds(s, k, g) BY <2>1
      <3> QED BY <3>1, SubEndsFirst
    <2>3. ~(e = n /\ OpensInBody(s, k, n)) BY <1>5 DEF Complete, n
    <2>4. e \in Int /\ e <= n BY <1>1, <1>2
    <2>5. ASSUME NEW f, MayEnd(u, k, h, f) PROVE e <= f
      <3>1. \/ MayEnd(s, k, g, f)
            \/ f = n + 1
            \/ OpensInBody(s, k, n) /\ f = n - 1
        BY <2>5, MayEndStep DEF n
      <3> QED BY <1>1, <2>2, <2>3, <2>4, <3>1
    <2>6. MayEnd(u, k, h, e) BY <2>2, MayEndStep
    <2>7. SubEnds(u, k, h) = {e}
      <3>1. Len(u) \in Nat /\ h \subseteq Nat /\ k \in Nat BY <1>1
      <3> QED BY <2>4, <2>5, <2>6, <3>1, SubComplete
    <2>8. ItemEnds(u, k, h) = {e} BY <1>1, <1>4, <1>5, <2>7 DEF ItemEnds
    <2> QED BY <1>1, <1>2, <1>3, <2>8 DEF Complete, n
  <1>6. CASE s[k] = "IAC" /\ s[k + 1] \in Negotiation
    <2>1. s[k + 1] # "SB" BY <1>6 DEF Negotiation
    <2>2. {k + 2} \cap (1 .. n) = {e} BY <1>2, <1>3, <1>6, <2>1 DEF ItemEnds, n
    <2>3. e = k + 2 /\ e \in 1 .. n + 1 BY <1>1, <2>2
    <2>4. ItemEnds(u, k, h) = {k + 2} \cap (1 .. n + 1) BY <1>1, <1>4, <1>6, <2>1 DEF ItemEnds
    <2> QED BY <1>1, <1>2, <1>3, <2>3, <2>4 DEF Complete, n
  <1>7. CASE s[k] = "IAC" /\ s[k + 1] \notin Negotiation \cup {"SB"}
    <2>1. {k + 1} = {e} BY <1>2, <1>3, <1>7 DEF ItemEnds, n
    <2>2. ItemEnds(u, k, h) = {k + 1} BY <1>1, <1>4, <1>7 DEF ItemEnds
    <2> QED BY <1>1, <1>2, <1>3, <2>1, <2>2 DEF Complete, n
  <1>8. CASE s[k] # "IAC"
    <2>1. ItemEnds(s, k, g) = {k} /\ ItemEnds(u, k, h) = {k} BY <1>4, <1>8 DEF ItemEnds
    <2> QED BY <1>1, <1>2, <1>4, <1>8, <2>1 DEF Complete, n
  <1> QED BY <1>5, <1>6, <1>7, <1>8

-----------------------------------------------------------------------------
(***************************************************************************)
(* The stream cut into items: all that start before p have arrived, and at *)
(* p there is one that has not, or p is where the next one will start.     *)
(***************************************************************************)
Items(s, g, p) ==
    /\ p \in 1 .. Len(s) + 1 /\ g \subseteq 1 .. p - 1
    /\ \A k \in Starts(s, g) : k <= p /\ (k < p => \E e \in k .. p - 1 : Complete(s, g, k, e))
    /\ p <= Len(s) => p \in Starts(s, g) /\ ItemEnds(s, p, g) = {}
    /\ p = Len(s) + 1 /\ p # 1 => \E k \in Starts(s, g) : Len(s) \in ItemEnds(s, k, g)

\* Of the positions from p on, the starts are p and Y.
StartsFrom(u, h, p, Y) ==
    /\ Y \subseteq p + 1 .. Len(u)
    /\ \A i \in p + 1 .. Len(u) :
         i \in Y <=> \E k \in {p} \cup Y : k < i /\ i - 1 \in ItemEnds(u, k, h)

\* The next byte brings Y more starts, all of them after p.
LEMMA MoreStarts ==
  ASSUME NEW s, NEW g, NEW b, NEW u, NEW h, More(s, g, b, u, h), NEW p, Items(s, g, p), p <= Len(s),
         NEW Y, StartsFrom(u, h, p, Y)
  PROVE  Starts(u, h) = Starts(s, g) \cup Y
  <1> DEFINE n == Len(s)  W == Starts(s, g)  V == W \cup Y
  <1>1. n \in Nat /\ Len(u) = n + 1 BY MoreFacts
  <1>2. AreStarts(s, g, W) BY <1>1, StartsAre
  <1>3. p \in 1 .. n /\ p \in W /\ \A k \in W : k \in 1 .. p BY <1>1, <1>2 DEF Items, AreStarts
  <1>4. ASSUME NEW k \in W, k < p
        PROVE  \E e \in k .. p - 1 : ItemEnds(s, k, g) = {e} /\ ItemEnds(u, k, h) = {e}
    <2>1. PICK e \in k .. p - 1 : Complete(s, g, k, e) BY <1>4 DEF Items
    <2>2. k \in 1 .. n BY <1>3
    <2>3. Complete(u, h, k, e) BY <2>1, <2>2, CompleteStays
    <2> QED BY <2>1, <2>3 DEF Complete
  <1> HIDE DEF W, n
  <1>5. V \subseteq 1 .. n + 1
    <2>1. 1 .. p \subseteq 1 .. n + 1 /\ p + 1 .. n + 1 \subseteq 1 .. n + 1 BY <1>1, <1>3
    <2>2. W \subseteq 1 .. p /\ Y \subseteq p + 1 .. n + 1 BY <1>1, <1>3 DEF StartsFrom
    <2> QED BY <2>1, <2>2
  <1>6. ASSUME NEW i \in 1 .. p
        PROVE  i \in V <=> i = 1 \/ \E k \in V : k < i /\ i - 1 \in ItemEnds(u, k, h)
    <2>1. i \notin Y /\ i \in 1 .. n /\ \A k \in Y : ~(k < i) BY <1>1, <1>3 DEF StartsFrom
    <2>2. i \in W <=> i = 1 \/ \E k \in W : k < i /\ i - 1 \in ItemEnds(s, k, g)
      BY <1>2, <2>1 DEF AreStarts, n
    <2>3. \A k \in W : k < i => ItemEnds(s, k, g) = ItemEnds(u, k, h)
      <3> TAKE k \in W
      <3> HAVE k < i
      <3>1. k < p BY <1>3
      <3> QED BY <1>4, <3>1
    <2> QED BY <2>1, <2>2, <2>3
  <1>7. ASSUME NEW i \in p + 1 .. n + 1
        PROVE  i \in V <=> i = 1 \/ \E k \in V : k < i /\ i - 1 \in ItemEnds(u, k, h)
    <2>1. i \notin W /\ i # 1 /\ i \in Int BY <1>1, <1>3
    <2>2. ASSUME NEW k \in W, k < p PROVE i - 1 \notin ItemEnds(u, k, h)
      <3>1. PICK e \in k .. p - 1 : ItemEnds(u, k, h) = {e} BY <1>4, <2>2
      <3>2. e # i - 1 BY <1>3, <2>2
      <3> QED BY <3>1, <3>2
    <2>3. \A k \in W : k < p \/ k = p BY <1>3
    <2>4. i \in Y <=> \E k \in {p} \cup Y : k < i /\ i - 1 \in ItemEnds(u, k, h)
      BY <1>1 DEF StartsFrom
    <2>5. (\E k \in {p} \cup Y : k < i /\ i - 1 \in ItemEnds(u, k, h)) <=>
          \E k \in V : k < i /\ i - 1 \in ItemEnds(u, k, h)
      BY <1>3, <2>2, <2>3
    <2> QED BY <2>1, <2>4, <2>5
  <1>8. \A i \in 1 .. n + 1 : i \in 1 .. p \/ i \in p + 1 .. n + 1 BY <1>1, <1>3
  <1> HIDE DEF V
  <1>9. \A i \in 1 .. n + 1 : i \in V <=> i = 1 \/ \E k \in V : k < i /\ i - 1 \in ItemEnds(u, k, h)
    BY <1>6, <1>7, <1>8
  <1>10. AreStarts(u, h, V) BY <1>1, <1>5, <1>9 DEF AreStarts
  <1>11. Starts(u, h) = V
    <2>1. Len(u) \in Nat BY <1>1
    <2> QED BY <1>10, <2>1, StartsUnique
  <1> QED BY <1>11 DEF V, W

\* What a step of the parser makes of the items: the ones in X have arrived.
Gains(s, g, u, h, q, X) ==
    Items(u, h, q) /\ ItemStarts(u, h) = ItemStarts(s, g) \cup X

\* The items that have arrived
LEMMA Arrived ==
  ASSUME NEW s, NEW g, NEW p, Len(s) \in Nat, Items(s, g, p)
  PROVE  ItemStarts(s, g) = {k \in Starts(s, g) : k < p} /\ ItemStarts(s, g) \subseteq 1 .. p - 1
  <1>1. AreStarts(s, g, Starts(s, g)) BY StartsAre
  <1>2. \A k \in Starts(s, g) : k \in 1 .. Len(s) /\ p \in Nat /\ (k < p \/ k = p)
    BY <1>1 DEF Items, AreStarts
  <1>3. \A k \in Starts(s, g) : k < p => ItemEnds(s, k, g) # {} BY DEF Items, Complete
  <1>4. \A k \in Starts(s, g) : k = p => ItemEnds(s, k, g) = {}
    BY <1>2 DEF Items
  <1>5. ItemStarts(s, g) = {k \in Starts(s, g) : k < p} BY <1>2, <1>3, <1>4 DEF ItemStarts
  <1>6. \A k \in Starts(s, g) : k < p => k \in 1 .. p - 1 BY <1>2
  <1> QED BY <1>5, <1>6

\* Between two items, a byte starts one: a character is an item of its own,
LEMMA ItemWhole ==
  ASSUME NEW s, NEW g, NEW b, NEW u, More(s, g, b, u, g), NEW p, Items(s, g, p), p = Len(s) + 1
  PROVE  IF b # "IAC" THEN Gains(s, g, u, g, Len(u) + 1, {p}) ELSE Gains(s, g, u, g, p, {})
  <1> DEFINE n == Len(s)  W == Starts(s, g)  V == W \cup {p}
  <1>1. n \in Nat /\ Len(u) = n + 1 /\ u[n + 1] = b BY MoreFacts
  <1>2. AreStarts(s, g, W) BY <1>1, StartsAre
  <1>3. \A k \in W : k \in 1 .. n /\ \E e \in k .. n : Complete(s, g, k, e)
    <2>1. \A k \in W : k \in 1 .. n BY <1>2 DEF AreStarts
    <2>2. p - 1 = n /\ \A k \in 1 .. n : k < p BY <1>1
    <2> QED BY <2>1, <2>2 DEF Items
  <1>4. \A k \in W : \E e \in k .. n : Complete(u, g, k, e) /\ ItemEnds(s, k, g) = {e} /\ ItemEnds(u, k, g) = {e}
    <2> TAKE k \in W
    <2>1. PICK e \in k .. n : Complete(s, g, k, e) BY <1>3
    <2>2. k \in 1 .. n BY <1>3
    <2>3. Complete(u, g, k, e) BY <2>1, <2>2, CompleteStays
    <2> QED BY <2>1, <2>3 DEF Complete
  <1>5. p # 1 => \E k \in W : n \in ItemEnds(s, k, g) BY DEF Items
  <1>6. g \subseteq 1 .. n BY DEF More
  <1>7. ItemEnds(u, p, g) = IF b # "IAC" THEN {p} ELSE {} BY <1>1 DEF ItemEnds
  <1>8. ItemStarts(s, g) = W
    <2>1. \A k \in W : k < p BY <1>1, <1>3
    <2>2. ItemStarts(s, g) = {k \in W : k < p} BY <1>1, Arrived
    <2> HIDE DEF W
    <2> QED BY <2>1, <2>2
  <1> HIDE DEF W, n
  <1>9. p = n + 1 /\ p \notin W BY <1>1, <1>3 DEF n
  <1>10. V \subseteq 1 .. n + 1 BY <1>1, <1>3, <1>9
  <1>11. ASSUME NEW i \in 1 .. n + 1
         PROVE  i \in V <=> i = 1 \/ \E k \in V : k < i /\ i - 1 \in ItemEnds(u, k, g)
    <2>1. \A k \in W : ItemEnds(s, k, g) = ItemEnds(u, k, g) BY <1>4
    <2>2. CASE i = p
      <3>1. \A k \in W : k < i BY <1>1, <1>3, <1>9, <2>2
      <3> QED BY <1>1, <1>5, <1>9, <2>1, <2>2, <3>1
    <2>3. CASE i # p
      <3>1. i \in 1 .. n /\ ~(p < i) BY <1>1, <1>9, <2>3
      <3>2. i \in W <=> i = 1 \/ \E k \in W : k < i /\ i - 1 \in ItemEnds(s, k, g)
        BY <1>2, <3>1 DEF AreStarts, n
      <3> QED BY <2>1, <2>3, <3>1, <3>2
    <2> QED BY <2>2, <2>3
  <1> HIDE DEF V
  <1>12. Starts(u, g) = V
    <2>1. AreStarts(u, g, V) /\ Len(u) \in Nat BY <1>1, <1>10, <1>11 DEF AreStarts
    <2> QED BY <2>1, StartsUnique
  <1>13. CASE b # "IAC"
    <2> DEFINE q == n + 2
    <2>1. ASSUME NEW k \in V PROVE k < q /\ \E e \in k .. q - 1 : Complete(u, g, k, e)
      <3>1. CASE k \in W
        <4>1. k \in 1 .. n BY <1>3, <3>1
        <4>2. PICK e \in k .. n : Complete(u, g, k, e) BY <1>4, <3>1
        <4> QED BY <1>1, <4>1, <4>2
      <3>2. CASE k = p
        <4>1. ItemEnds(u, k, g) = {k} /\ k \in k .. n + 1 /\ k < q /\ k \in k .. q - 1
          BY <1>1, <1>7, <1>9, <1>13, <3>2
        <4>2. Complete(u, g, k, k) BY <1>1, <1>9, <1>13, <3>2, <4>1 DEF Complete
        <4> QED BY <4>1, <4>2
      <3> QED BY <3>1, <3>2 DEF V
    <2>2. q \in 1 .. (n + 1) + 1 /\ g \subseteq 1 .. q - 1 /\ ~(q <= n + 1) /\ q = (n + 1) + 1 BY <1>1, <1>6
    <2>3. p \in V /\ n + 1 \in ItemEnds(u, p, g) BY <1>7, <1>9, <1>13 DEF V
    <2> HIDE DEF q
    <2>4. \A k \in V : k <= q BY <1>1, <1>10, <2>2
    <2>5. Items(u, g, q) BY <1>1, <1>12, <2>1, <2>2, <2>3, <2>4 DEF Items
    <2>6. ItemStarts(u, g) = {k \in V : k < q}
      <3>1. Len(u) \in Nat BY <1>1
      <3> QED BY <1>12, <2>5, <3>1, Arrived
    <2>7. ItemStarts(u, g) = V BY <2>1, <2>6
    <2>8. q = Len(u) + 1 BY <1>1, <2>2
    <2> QED BY <1>8, <1>13, <2>5, <2>7, <2>8 DEF Gains, V
  <1>14. CASE b = "IAC"
    <2>1. ASSUME NEW k \in V PROVE k <= p /\ (k < p => \E e \in k .. p - 1 : Complete(u, g, k, e))
      <3>1. CASE k \in W
        <4>1. k \in 1 .. n /\ p - 1 = n /\ k <= p BY <1>1, <1>3, <1>9, <3>1
        <4> QED BY <1>4, <3>1, <4>1
      <3>2. CASE k = p BY <1>1, <1>9, <3>2
      <3> QED BY <3>1, <3>2 DEF V
    <2>2. p \in 1 .. (n + 1) + 1 /\ g \subseteq 1 .. p - 1 /\ p <= n + 1 /\ p # (n + 1) + 1 BY <1>1, <1>6, <1>9
    <2>3. p \in V /\ ItemEnds(u, p, g) = {} BY <1>7, <1>14 DEF V
    <2>4. Items(u, g, p) BY <1>1, <1>12, <2>1, <2>2, <2>3 DEF Items
    <2>5. ItemStarts(u, g) = {k \in V : k < p}
      <3>1. Len(u) \in Nat BY <1>1
      <3> QED BY <1>12, <2>4, <3>1, Arrived
    <2>6. \A k \in W : k < p BY <1>1, <1>3, <1>9
    <2>7. ItemStarts(u, g) = W BY <1>9, <2>5, <2>6 DEF V
    <2>8. W = W \cup {} OBVIOUS
    <2> QED BY <1>8, <1>14, <2>4, <2>7, <2>8 DEF Gains
  <1> QED BY <1>13, <1>14

\* Of these, those before q have arrived; q is open, or is where the next starts.
ItemsFrom(u, h, p, q, Y) ==
    /\ q \in p .. Len(u) + 1 /\ h \subseteq 1 .. q - 1
    /\ \A k \in {p} \cup Y : k <= q /\ (k < q => \E e \in k .. q - 1 : Complete(u, h, k, e))
    /\ q <= Len(u) => q \in {p} \cup Y /\ ItemEnds(u, q, h) = {}
    /\ q = Len(u) + 1 => \E k \in {p} \cup Y : Len(u) \in ItemEnds(u, k, h)

\* Inside of an item: what is said of the starts from p on holds of them all.
LEMMA MoreItems ==
  ASSUME NEW s, NEW g, NEW b, NEW u, NEW h, More(s, g, b, u, h), NEW p, Items(s, g, p), p <= Len(s),
         NEW Y, StartsFrom(u, h, p, Y), NEW q, ItemsFrom(u, h, p, q, Y),
         NEW X, X = {k \in {p} \cup Y : k < q}
  PROVE  Gains(s, g, u, h, q, X)
  <1> DEFINE n == Len(s)  W == Starts(s, g)  V == Starts(u, h)
  <1>1. n \in Nat /\ Len(u) = n + 1 BY MoreFacts
  <1>2. p \in 1 .. n /\ p \in W /\ \A k \in W : k \in 1 .. p
    <2>1. AreStarts(s, g, W) BY <1>1, StartsAre
    <2> QED BY <1>1, <2>1 DEF Items, AreStarts
  <1>3. ASSUME NEW k \in W, k < p PROVE k <= q /\ k < q /\ \E e \in k .. q - 1 : Complete(u, h, k, e)
    <2>1. PICK e \in k .. p - 1 : Complete(s, g, k, e) BY <1>3 DEF Items
    <2>2. k \in 1 .. n
      <3>1. k \in 1 .. p BY <1>2
      <3>2. n \in Nat /\ p \in 1 .. n BY <1>1, <1>2
      <3> HIDE DEF n
      <3> QED BY ONLY <3>1, <3>2
    <2>3. Complete(u, h, k, e) BY <2>1, <2>2, CompleteStays
    <2>4. e \in k .. q - 1 /\ k < q /\ k <= q BY <1>1, <1>2, <1>3, <2>2 DEF ItemsFrom
    <2> HIDE DEF W
    <2> QED BY <2>3, <2>4, Zenon
  <1>4. V = W \cup Y BY MoreStarts
  <1> HIDE DEF n, W, V
  <1>5. \A k \in V : k <= q /\ (k < q => \E e \in k .. q - 1 : Complete(u, h, k, e))
    <2>1. \A k \in V : (k \in W /\ k < p) \/ k \in {p} \cup Y BY <1>2, <1>4
    <2> QED BY <1>3, <2>1 DEF ItemsFrom
  <1>6. q \in 1 .. (n + 1) + 1 BY <1>1, <1>2 DEF ItemsFrom
  <1>7. {p} \cup Y \subseteq V BY <1>2, <1>4
  <1>8. q <= n + 1 => q \in V /\ ItemEnds(u, q, h) = {} BY <1>1, <1>7 DEF ItemsFrom
  <1>9. q = (n + 1) + 1 /\ q # 1 => \E k \in V : n + 1 \in ItemEnds(u, k, h)
    BY <1>1, <1>7 DEF ItemsFrom
  <1>10. Items(u, h, q) BY <1>1, <1>5, <1>6, <1>8, <1>9 DEF Items, ItemsFrom, V
  <1>11. ItemStarts(s, g) = {k \in W : k < p} BY <1>1, Arrived DEF n, W
  <1>12. ItemStarts(u, h) = {k \in V : k < q}
    <2>1. Len(u) \in Nat BY <1>1
    <2> QED BY <1>10, <2>1, Arrived DEF V
  <1>13. \A k \in V : k < q <=> (k \in W /\ k < p) \/ (k \in {p} \cup Y /\ k < q)
    <2>1. \A k \in V : (k \in W /\ k < p) \/ k \in {p} \cup Y BY <1>2, <1>4
    <2> QED BY <1>3, <2>1
  <1>14. \A k \in W : k \in V BY <1>4
  <1>15. ItemStarts(u, h) = ItemStarts(s, g) \cup X
    BY <1>7, <1>11, <1>12, <1>13, <1>14
  <1> QED BY <1>10, <1>15 DEF Gains

\* An item that has not arrived with the byte either,
LEMMA ItemOpen ==
  ASSUME NEW s, NEW g, NEW b, NEW u, More(s, g, b, u, g), NEW p, Items(s, g, p), p <= Len(s),
         ItemEnds(u, p, g) = {}
  PROVE  Gains(s, g, u, g, p, {})
  <1> DEFINE n == Len(s)  Y == {}
  <1>1. n \in Nat /\ Len(u) = n + 1 /\ p \in 1 .. n /\ g \subseteq 1 .. p - 1 BY MoreFacts DEF Items
  <1>2. StartsFrom(u, g, p, Y) BY DEF StartsFrom
  <1>3. p \in p .. Len(u) + 1 /\ p # Len(u) + 1 /\ p <= p /\ ~(p < p) BY <1>1
  <1>4. ItemsFrom(u, g, p, p, Y) BY <1>1, <1>3 DEF ItemsFrom
  <1>5. Y = {k \in {p} \cup Y : k < p} BY <1>3
  <1> HIDE DEF Y
  <1>6. Gains(s, g, u, g, p, Y) BY <1>2, <1>4, <1>5, MoreItems
  <1> QED BY <1>6 DEF Y

\* one that has now,
LEMMA ItemClosed ==
  ASSUME NEW s, NEW g, NEW b, NEW u, NEW h, More(s, g, b, u, h), NEW p, Items(s, g, p), p <= Len(s),
         Complete(u, h, p, Len(u))
  PROVE  Gains(s, g, u, h, Len(u) + 1, {p})
  <1> DEFINE n == Len(s)  q == Len(u) + 1  Y == {}  X == {p}
  <1>1. n \in Nat /\ p \in 1 .. n /\ Len(u) = n + 1 /\ h \subseteq 1 .. n + 1 BY MoreFacts DEF Items
  <1>2. ItemEnds(u, p, h) = {n + 1} BY <1>1 DEF Complete
  <1>3. StartsFrom(u, h, p, Y)
    <2>1. \A i \in p + 1 .. n + 1 : i - 1 # n + 1 BY <1>1
    <2> QED BY <1>1, <1>2, <2>1 DEF StartsFrom
  <1>4. /\ q = n + 2 /\ q \in p .. Len(u) + 1 /\ 1 .. q - 1 = 1 .. n + 1 /\ ~(q <= Len(u)) /\ p < q /\ p <= q
        /\ Len(u) \in p .. q - 1
    BY <1>1
  <1>5. ItemsFrom(u, h, p, q, Y)
    <2>1. \A k \in {p} \cup Y : k = p OBVIOUS
    <2>2. p \in {p} \cup Y OBVIOUS
    <2> HIDE DEF Y, q
    <2>3. \A k \in {p} \cup Y : k <= q /\ (k < q => \E e \in k .. q - 1 : Complete(u, h, k, e))
      BY <1>4, <2>1
    <2>4. \E k \in {p} \cup Y : Len(u) \in ItemEnds(u, k, h) BY <1>1, <1>2, <2>2
    <2> QED BY <1>1, <1>4, <2>3, <2>4 DEF ItemsFrom
  <1>6. X = {k \in {p} \cup Y : k < q} BY <1>4
  <1> HIDE DEF Y, q, X
  <1>7. Gains(s, g, u, h, q, X) BY <1>3, <1>5, <1>6, MoreItems
  <1> QED BY <1>7 DEF q, X

\* and a subnegotiation that a command has cut off: the command starts with
\* the byte before.
LEMMA ItemCut ==
  ASSUME NEW s, NEW g, NEW b, NEW u, More(s, g, b, u, g), NEW p, Items(s, g, p), p < Len(s),
         Complete(u, g, p, Len(s) - 1), NEW q,
         \/ q = Len(s) /\ ItemEnds(u, Len(s), g) = {}
         \/ q = Len(u) + 1 /\ Complete(u, g, Len(s), Len(u))
  PROVE  Gains(s, g, u, g, q, {p} \cup (IF q = Len(s) THEN {} ELSE {Len(s)}))
  <1> DEFINE n == Len(s)  Y == {n}  X == {p} \cup (IF q = n THEN {} ELSE {n})
  <1>1. n \in Nat /\ p \in 1 .. n /\ p < n /\ Len(u) = n + 1 /\ g \subseteq 1 .. p - 1 BY MoreFacts DEF Items
  <1>2. ItemEnds(u, p, g) = {n - 1} BY DEF Complete
  <1>3. ItemEnds(u, n, g) \subseteq {n + 1} BY <1>1 DEF Complete
  <1> HIDE DEF n
  <1>4. StartsFrom(u, g, p, Y)
    <2>1. ASSUME NEW i \in p + 1 .. n + 1
          PROVE  i \in Y <=> \E k \in {p} \cup Y : k < i /\ i - 1 \in ItemEnds(u, k, g)
      <3>1. i - 1 \in ItemEnds(u, p, g) <=> i = n BY <1>1, <1>2
      <3>2. i - 1 \notin ItemEnds(u, n, g) BY <1>1, <1>3
      <3>3. p < i BY <1>1
      <3> QED BY <3>1, <3>2, <3>3
    <2>2. Y \subseteq p + 1 .. n + 1 BY <1>1
    <2> HIDE DEF Y
    <2> QED BY <1>1, <2>1, <2>2 DEF StartsFrom
  <1>5. (q = n \/ q = n + 2) /\ q \in p .. n + 2 /\ g \subseteq 1 .. q - 1
    <2>1. q = n \/ q = n + 2 BY <1>1 DEF n
    <2> QED BY <1>1, <2>1
  <1>6. ItemsFrom(u, g, p, q, Y)
    <2>1. p <= q /\ n - 1 \in p .. q - 1 /\ n <= q BY <1>1, <1>5
    <2>2. \E e \in p .. q - 1 : Complete(u, g, p, e) BY <2>1 DEF n
    <2>3. n < q => n + 1 \in n .. q - 1 /\ Complete(u, g, n, n + 1) BY <1>1, <1>5 DEF n
    <2>4. \A k \in {p} \cup Y : k <= q /\ (k < q => \E e \in k .. q - 1 : Complete(u, g, k, e))
      BY <2>1, <2>2, <2>3
    <2>5. q <= n + 1 => q \in {p} \cup Y /\ ItemEnds(u, q, g) = {}
      <3>1. q <= n + 1 => q = n BY <1>1, <1>5
      <3> QED BY <1>1, <3>1 DEF n
    <2>6. q = n + 2 => \E k \in {p} \cup Y : n + 1 \in ItemEnds(u, k, g)
      <3>1. q = n + 2 => Complete(u, g, n, n + 1) BY <1>1 DEF n
      <3> QED BY <3>1 DEF Complete
    <2> HIDE DEF Y
    <2>7. Len(u) + 1 = n + 2 BY <1>1
    <2> QED BY <1>1, <1>5, <2>4, <2>5, <2>6, <2>7 DEF ItemsFrom
  <1>7. X = {k \in {p} \cup Y : k < q} BY <1>1, <1>5
  <1> HIDE DEF X, Y
  <1>8. Gains(s, g, u, g, q, X) BY <1>1, <1>4, <1>6, <1>7, MoreItems DEF n
  <1> QED BY <1>8 DEF X, n

-----------------------------------------------------------------------------
\* One more position after all the others
LEMMA InOrderMore ==
  ASSUME NEW T, NEW n \in Nat, NEW p \in 1 .. n + 1, T \subseteq 1 .. p - 1
  PROVE  /\ InOrder(T, n + 1) = InOrder(T, n)
         /\ InOrder(T \cup {p}, n + 1) = Append(InOrder(T, n), p)
         /\ InOrder(T, n) \in Seq(1 .. n)
  <1> DEFINE q == p - 1  S == T \cup {p}
  <1>1. q \in Nat /\ p = q + 1 /\ q < n + 1 /\ q <= n /\ n + 1 \in Nat /\ q <= n + 1 OBVIOUS
  <1>2. T \cap (q + 1 .. n) = {} /\ T \cap (q + 1 .. n + 1) = {} BY <1>1
  <1>3. q + 1 \in S /\ S \cap (q + 2 .. n + 1) = {} /\ \A i \in 1 .. q : i \in S <=> i \in T
    <2>1. \A i \in T : i \notin q + 2 .. n + 1 BY <1>1
    <2>2. p \notin q + 2 .. n + 1 /\ p \notin 1 .. q BY <1>1
    <2> QED BY <1>1, <2>1, <2>2
  <1>4. InOrder(T, n) \in Seq(1 .. n)
    <2> DEFINE R == T \cap (1 .. n)
    <2>1. InOrder(T, n) \in Seq(R) BY InOrderTyped
    <2>2. R \subseteq 1 .. n OBVIOUS
    <2> HIDE DEF R
    <2> QED BY <2>1, <2>2, SeqMonotonic
  <1> HIDE DEF q, S
  <1>5. InOrder(T, n) = InOrder(T, q) BY <1>1, <1>2, InOrderRest
  <1>6. InOrder(T, n + 1) = InOrder(T, q) BY <1>1, <1>2, InOrderRest
  <1>7. InOrder(S, n + 1) = Append(InOrder(S, q), q + 1) BY <1>1, <1>3, InOrderLast
  <1>8. InOrder(S, q) = InOrder(T, q) BY <1>1, <1>3, InOrderSame
  <1> QED BY <1>1, <1>4, <1>5, <1>6, <1>7, <1>8 DEF S

\* What a stream holds at some positions, and at one more
Agree(s, u, D) == \A x \in D : u[x] = s[x]

LEMMA AtMore ==
  ASSUME NEW s, NEW u, NEW D, NEW q, NEW p, q \in Seq(D), Agree(s, u, D)
  PROVE  At(u, q) = At(s, q) /\ At(u, Append(q, p)) = Append(At(s, q), u[p])
  <1>1. \A k \in DOMAIN q : q[k] \in D OBVIOUS
  <1>2. At(u, q) = At(s, q) BY <1>1 DEF At, Agree
  <1>3. At(u, Append(q, p)) = Append(At(s, q), u[p]) BY <1>1 DEF At, Agree
  <1> QED BY <1>2, <1>3

\* The negotiations at some positions, and at one more
PairAt(s, i) == <<s[i + 1], s[i + 2]>>
PairsAt(s, q) == [k \in DOMAIN q |-> PairAt(s, q[k])]
PairsAgree(s, u, D) == \A x \in D : PairAt(u, x) = PairAt(s, x)

LEMMA PairsMore ==
  ASSUME NEW s, NEW u, NEW D, NEW q, NEW p, q \in Seq(D), PairsAgree(s, u, D)
  PROVE  /\ PairsAt(u, q) = PairsAt(s, q)
         /\ PairsAt(u, Append(q, p)) = Append(PairsAt(s, q), PairAt(u, p))
  <1>1. \A k \in DOMAIN q : q[k] \in D OBVIOUS
  <1>2. PairsAt(u, q) = PairsAt(s, q) BY <1>1 DEF PairsAt, PairsAgree
  <1>3. PairsAt(u, Append(q, p)) = Append(PairsAt(s, q), PairAt(u, p))
    BY <1>1 DEF PairsAt, PairsAgree
  <1> QED BY <1>2, <1>3

\* An item that has arrived reads the same with one byte more.
LEMMA ArrivedSame ==
  ASSUME NEW s, NEW g, NEW b, NEW u, NEW h, More(s, g, b, u, h), NEW p, Items(s, g, p),
         NEW x \in ItemStarts(s, g)
  PROVE  /\ x \in 1 .. p - 1 /\ x \in 1 .. Len(s) /\ u[x] = s[x]
         /\ s[x] = "IAC" => x + 1 \in 1 .. Len(s) /\ u[x + 1] = s[x + 1]
         /\ s[x] = "IAC" /\ s[x + 1] \in Negotiation => x + 2 \in 1 .. Len(s) /\ u[x + 2] = s[x + 2]
  <1> DEFINE n == Len(s)
  <1>1. n \in Nat /\ Len(u) = n + 1 /\ \A k \in 1 .. n : u[k] = s[k] BY MoreFacts
  <1>2. x \in Starts(s, g) /\ x < p /\ x \in 1 .. p - 1 BY <1>1, Arrived
  <1>3. PICK e \in x .. p - 1 : Complete(s, g, x, e) BY <1>2 DEF Items
  <1>4. x \in 1 .. n /\ p \in 1 .. n + 1 BY <1>1, <1>2 DEF Items
  <1>5. s[x] = "IAC" => x + 1 \in 1 .. n BY <1>3, <1>4, CompleteStays
  <1>6. s[x] = "IAC" /\ s[x + 1] \in Negotiation => x + 2 \in 1 .. n
    <2> SUFFICES ASSUME s[x] = "IAC", s[x + 1] \in Negotiation PROVE x + 2 \in 1 .. n OBVIOUS
    <2>1. s[x + 1] # "SB" /\ x # n BY <1>5, <1>1 DEF Negotiation
    <2>2. ItemEnds(s, x, g) = {x + 2} \cap (1 .. n) BY <2>1 DEF ItemEnds
    <2>3. ItemEnds(s, x, g) = {e} BY <1>3 DEF Complete
    <2> QED BY <2>2, <2>3
  <1> QED BY <1>1, <1>2, <1>4, <1>5, <1>6

\* What the stream says grows by what the items in X say.
LEMMA TextGains ==
  ASSUME NEW s, NEW g, NEW b, NEW u, NEW h, More(s, g, b, u, h), NEW p, Items(s, g, p),
         NEW q, NEW X, Gains(s, g, u, h, q, X)
  PROVE  /\ (\A x \in X : u[x] = "IAC" /\ u[x + 1] # "IAC") => TextOf(u, h) = TextOf(s, g)
         /\ (X = {p} /\ (u[p] # "IAC" \/ u[p + 1] = "IAC")) => TextOf(u, h) = Append(TextOf(s, g), u[p])
  <1> DEFINE n == Len(s)  T == TextItems(s, g)  U == TextItems(u, h)
  <1>1. n \in Nat /\ Len(u) = n + 1 /\ (\A k \in 1 .. n : u[k] = s[k]) /\ p \in 1 .. n + 1
    BY MoreFacts DEF Items
  <1>2. T \subseteq 1 .. p - 1
    <2>1. ItemStarts(s, g) \subseteq 1 .. p - 1 BY <1>1, Arrived
    <2> QED BY <2>1 DEF TextItems
  <1>3. U = T \cup {x \in X : u[x] # "IAC" \/ u[x + 1] = "IAC"}
    <2>1. ItemStarts(u, h) = ItemStarts(s, g) \cup X BY DEF Gains
    <2>2. \A x \in ItemStarts(s, g) : (u[x] # "IAC" \/ u[x + 1] = "IAC") <=> (s[x] # "IAC" \/ s[x + 1] = "IAC")
      BY ArrivedSame
    <2> QED BY <2>1, <2>2 DEF TextItems
  <1>4. /\ InOrder(T, n + 1) = InOrder(T, n)
        /\ InOrder(T \cup {p}, n + 1) = Append(InOrder(T, n), p)
        /\ InOrder(T, n) \in Seq(1 .. n)
    <2> HIDE DEF T, n
    <2> QED BY <1>1, <1>2, InOrderMore
  <1> DEFINE D == 1 .. n  o == InOrder(T, n)
  <1>5. TextOf(s, g) = At(s, o) /\ TextOf(u, h) = At(u, InOrder(U, n + 1)) BY <1>1 DEF TextOf
  <1>6. o \in Seq(D) /\ Agree(s, u, D) BY <1>1, <1>4 DEF Agree
  <1> HIDE DEF D, o
  <1>7. At(u, o) = At(s, o) /\ At(u, Append(o, p)) = Append(At(s, o), u[p]) BY <1>6, AtMore
  <1>8. ASSUME \A x \in X : u[x] = "IAC" /\ u[x + 1] # "IAC" PROVE TextOf(u, h) = TextOf(s, g)
    <2>1. U = T
      <3> HIDE DEF U, T
      <3> QED BY <1>3, <1>8
    <2> QED BY <1>4, <1>5, <1>7, <2>1 DEF o
  <1>9. ASSUME X = {p}, u[p] # "IAC" \/ u[p + 1] = "IAC" PROVE TextOf(u, h) = Append(TextOf(s, g), u[p])
    <2>1. U = T \cup {p}
      <3> HIDE DEF U, T
      <3> QED BY <1>3, <1>9
    <2> QED BY <1>4, <1>5, <1>7, <2>1 DEF o
  <1> QED BY <1>8, <1>9

LEMMA NegotiationGains ==
  ASSUME NEW s, NEW g, NEW b, NEW u, NEW h, More(s, g, b, u, h), NEW p, Items(s, g, p),
         NEW q, NEW X, Gains(s, g, u, h, q, X)
  PROVE  /\ (\A x \in X : ~(u[x] = "IAC" /\ u[x + 1] \in Negotiation)) =>
              NegotiationsOf(u, h) = NegotiationsOf(s, g)
         /\ (X = {p} /\ u[p] = "IAC" /\ u[p + 1] \in Negotiation) =>
              NegotiationsOf(u, h) = Append(NegotiationsOf(s, g), <<u[p + 1], u[p + 2]>>)
  <1> DEFINE n == Len(s)  T == NegotiationItems(s, g)  U == NegotiationItems(u, h)
  <1>1. n \in Nat /\ Len(u) = n + 1 /\ (\A k \in 1 .. n : u[k] = s[k]) /\ p \in 1 .. n + 1
    BY MoreFacts DEF Items
  <1>2. T \subseteq 1 .. p - 1
    <2>1. ItemStarts(s, g) \subseteq 1 .. p - 1 BY <1>1, Arrived
    <2> QED BY <2>1 DEF NegotiationItems
  <1>3. U = T \cup {x \in X : u[x] = "IAC" /\ u[x + 1] \in Negotiation}
    <2>1. ItemStarts(u, h) = ItemStarts(s, g) \cup X BY DEF Gains
    <2>2. \A x \in ItemStarts(s, g) :
            (u[x] = "IAC" /\ u[x + 1] \in Negotiation) <=> (s[x] = "IAC" /\ s[x + 1] \in Negotiation)
      BY ArrivedSame
    <2> QED BY <2>1, <2>2 DEF NegotiationItems
  <1>4. /\ InOrder(T, n + 1) = InOrder(T, n)
        /\ InOrder(T \cup {p}, n + 1) = Append(InOrder(T, n), p)
    <2> HIDE DEF T, n
    <2> QED BY <1>1, <1>2, InOrderMore
  <1> DEFINE D == T  o == InOrder(T, n)
  <1>5. NegotiationsOf(s, g) = PairsAt(s, o) /\ NegotiationsOf(u, h) = PairsAt(u, InOrder(U, n + 1))
    BY <1>1 DEF NegotiationsOf, PairsAt, PairAt
  <1>6. o \in Seq(D)
    <2> DEFINE R == T \cap (1 .. n)
    <2>1. o \in Seq(R) BY <1>1, InOrderTyped
    <2>2. R \subseteq D OBVIOUS
    <2> HIDE DEF R, D, o
    <2> QED BY <2>1, <2>2, SeqMonotonic
  <1>7. PairsAgree(s, u, D) BY ArrivedSame DEF NegotiationItems, PairsAgree, PairAt
  <1> HIDE DEF D, o
  <1>8. /\ PairsAt(u, o) = PairsAt(s, o)
        /\ PairsAt(u, Append(o, p)) = Append(PairsAt(s, o), PairAt(u, p))
    BY <1>6, <1>7, PairsMore
  <1>9. ASSUME \A x \in X : ~(u[x] = "IAC" /\ u[x + 1] \in Negotiation)
        PROVE  NegotiationsOf(u, h) = NegotiationsOf(s, g)
    <2>1. U = T
      <3> HIDE DEF U, T
      <3> QED BY <1>3, <1>9
    <2> QED BY <1>4, <1>5, <1>8, <2>1 DEF o
  <1>10. ASSUME X = {p}, u[p] = "IAC", u[p + 1] \in Negotiation
         PROVE  NegotiationsOf(u, h) = Append(NegotiationsOf(s, g), <<u[p + 1], u[p + 2]>>)
    <2>1. U = T \cup {p}
      <3> HIDE DEF U, T
      <3> QED BY <1>3, <1>10
    <2> QED BY <1>4, <1>5, <1>8, <2>1 DEF o, PairAt
  <1> QED BY <1>9, <1>10

-----------------------------------------------------------------------------
\* An IAC that is the last byte but one: what follows tells what it starts.
LEMMA CommandEnds ==
  ASSUME NEW s, NEW g, NEW b, NEW u, More(s, g, b, u, g), Len(s) >= 1, s[Len(s)] = "IAC",
         g \subseteq 1 .. Len(s) - 1
  PROVE  IF b \in {"SB"} \cup Negotiation THEN ItemEnds(u, Len(s), g) = {}
                                          ELSE Complete(u, g, Len(s), Len(u))
  <1> DEFINE n == Len(s)
  <1>1. /\ n \in Nat /\ Len(u) = n + 1 /\ u[n + 1] = b /\ u[n] = "IAC" /\ n \in 1 .. n /\ n # n + 1
    BY MoreFacts
  <1>2. g \subseteq 1 .. n - 1 OBVIOUS
  <1> HIDE DEF n
  <1>3. CASE b = "SB"
    <2>1. ASSUME NEW e PROVE ~MayEnd(u, n, g, e)
      <3>1. ~MayEnd(s, n, g, e)
        <4>1. n + 3 .. n - 1 = {} /\ \A k \in g : ~(k > n) BY <1>1, <1>2
        <4> QED BY <4>1 DEF MayEnd, n
      <3>2. ~(n + 3 <= n) /\ n + 1 \notin g BY <1>1, <1>2
      <3> QED BY <1>1, <3>1, <3>2, MayEndStep DEF n
    <2>2. SubEnds(u, n, g) = {} BY <2>1, SubEndsFirst
    <2> QED BY <1>1, <1>3, <2>2 DEF ItemEnds, n
  <1>4. CASE b \in Negotiation
    <2>1. b # "SB" BY <1>4 DEF Negotiation
    <2>2. {n + 2} \cap (1 .. n + 1) = {} BY <1>1
    <2> QED BY <1>1, <1>4, <2>1, <2>2 DEF ItemEnds, n
  <1>5. CASE b \notin {"SB"} \cup Negotiation
    <2>1. ItemEnds(u, n, g) = {n + 1} BY <1>1, <1>5 DEF ItemEnds
    <2>2. n + 1 \in n .. n + 1 BY <1>1
    <2> QED BY <1>1, <1>5, <2>1, <2>2 DEF Complete, n
  <1> QED BY <1>3, <1>4, <1>5

\* An open subnegotiation: the byte that comes may end it.
LEMMA SubEndsNow ==
  ASSUME NEW s, NEW g, NEW b, NEW u, NEW h, More(s, g, b, u, h), NEW p, Items(s, g, p), p < Len(s),
         s[p] = "IAC", s[p + 1] = "SB"
  PROVE  /\ \A e : MayEnd(u, p, h, e) <=>
              \/ p + 3 <= Len(s) /\ OpensInBody(s, p, Len(s)) /\ b = "SE" /\ e = Len(s) + 1
              \/ p + 3 <= Len(s) /\ OpensInBody(s, p, Len(s)) /\ b \notin {"IAC", "SE"} /\ e = Len(s) - 1
              \/ e = Len(s) + 1 /\ e \in h
         /\ ItemEnds(u, p, h) = SubEnds(u, p, h)
         /\ p + 2 <= Len(s) => (OpensInBody(u, p, Len(u)) <=> b = "IAC" /\ ~OpensInBody(s, p, Len(s)))
         /\ OpensInBody(s, p, Len(s)) => p + 3 <= Len(s)
         /\ u[p] = "IAC" /\ u[p + 1] = "SB" /\ u[Len(u)] = b
  <1> DEFINE n == Len(s)
  <1>1. /\ n \in Nat /\ Len(u) = n + 1 /\ u[n + 1] = b /\ (\A k \in 1 .. n : u[k] = s[k])
        /\ p \in 1 .. n /\ p + 1 \in 1 .. n /\ p # n /\ p # n + 1 /\ p \in Nat
        /\ g \subseteq 1 .. n
    BY MoreFacts DEF Items, More
  <1> HIDE DEF n
  <1>2. SubEnds(s, p, g) = {}
    <2>1. ItemEnds(s, p, g) = {} BY <1>1 DEF Items, n
    <2> QED BY <1>1, <2>1 DEF ItemEnds, n
  <1>3. ASSUME NEW e, MayEnd(s, p, g, e) PROVE FALSE
    <2> DEFINE A == {f \in Nat : MayEnd(s, p, g, f)}
    <2>1. \A f : MayEnd(s, p, g, f) => f \in Nat
      <3>1. \A j \in p + 3 .. n - 1 : j + 1 \in Nat /\ j - 1 \in Nat BY <1>1
      <3>2. \A f \in g : f \in Nat BY <1>1
      <3> QED BY <3>1, <3>2 DEF MayEnd, n
    <2>2. A \subseteq Nat /\ A # {} BY <1>3, <2>1
    <2>3. PICK f \in A : \A m \in A : f <= m
      <3> HIDE DEF A
      <3> QED BY <2>2, NatMin
    <2>4. f \in SubEnds(s, p, g)
      <3>1. \A m : MayEnd(s, p, g, m) => m \in A BY <2>1
      <3> HIDE DEF A
      <3>2. \A m : MayEnd(s, p, g, m) => f <= m BY <2>3, <3>1
      <3>3. MayEnd(s, p, g, f) BY <2>3 DEF A
      <3> QED BY <3>2, <3>3, SubEndsFirst
    <2> QED BY <1>2, <2>4
  <1>4. \A e : MayEnd(u, p, h, e) <=>
              \/ p + 3 <= n /\ OpensInBody(s, p, n) /\ b = "SE" /\ e = n + 1
              \/ p + 3 <= n /\ OpensInBody(s, p, n) /\ b \notin {"IAC", "SE"} /\ e = n - 1
              \/ e = n + 1 /\ e \in h
    <2> TAKE e
    <2>1. MayEnd(u, p, h, e) <=>
              \/ MayEnd(s, p, g, e)
              \/ p + 3 <= n /\ OpensInBody(s, p, n) /\ b = "SE" /\ e = n + 1
              \/ p + 3 <= n /\ OpensInBody(s, p, n) /\ b \notin {"IAC", "SE"} /\ e = n - 1
              \/ e = n + 1 /\ e \in h
      BY <1>1, MayEndStep DEF n
    <2> QED BY <1>3, <2>1
  <1>5. u[p] = "IAC" /\ u[p + 1] = "SB" BY <1>1
  <1>6. ItemEnds(u, p, h) = SubEnds(u, p, h) BY <1>1, <1>5 DEF ItemEnds
  <1>7. p + 2 <= n => (OpensInBody(u, p, n + 1) <=> b = "IAC" /\ ~OpensInBody(s, p, n))
    <2> SUFFICES ASSUME p + 2 <= n PROVE OpensInBody(u, p, n + 1) <=> b = "IAC" /\ ~OpensInBody(s, p, n)
      OBVIOUS
    <2>1. n >= p + 2 /\ n \in 0 .. n BY <1>1
    <2>2. OpensInBody(u, p, n + 1) <=> u[n + 1] = "IAC" /\ ~OpensInBody(u, p, n) BY <1>1, <2>1, OpensNext
    <2>3. OpensInBody(u, p, n) <=> OpensInBody(s, p, n) BY <1>1, <2>1, OpensSame
    <2> QED BY <1>1, <2>2, <2>3
  <1>8. OpensInBody(s, p, n) => p + 3 <= n
    <2>1. \A k \in p + 3 .. n : p + 3 <= n BY <1>1
    <2> QED BY <2>1 DEF OpensInBody
  <1> QED BY <1>1, <1>4, <1>5, <1>6, <1>7, <1>8 DEF n

\* So it stays open, or has ended at e.
LEMMA SubStays ==
  ASSUME NEW u, NEW h, NEW p, ItemEnds(u, p, h) = SubEnds(u, p, h), \A e : ~MayEnd(u, p, h, e)
  PROVE  ItemEnds(u, p, h) = {}
  BY SubEndsFirst

LEMMA SubIsOver ==
  ASSUME NEW u, NEW h, NEW p \in Nat, ItemEnds(u, p, h) = SubEnds(u, p, h), NEW e \in p .. Len(u),
         Len(u) \in Nat, h \subseteq Nat, \A f : MayEnd(u, p, h, f) <=> f = e,
         ~OpensInBody(u, p, Len(u))
  PROVE  Complete(u, h, p, e)
  <1>1. e \in Int /\ MayEnd(u, p, h, e) /\ \A f \in Int : MayEnd(u, p, h, f) => e <= f OBVIOUS
  <1>2. SubEnds(u, p, h) = {e} BY <1>1, SubComplete
  <1> QED BY <1>2 DEF Complete

-----------------------------------------------------------------------------
(***************************************************************************)
(* What the parser's state says of the stream: where it is in the item     *)
(* that starts at p.                                                       *)
(***************************************************************************)
Reads(t, s, g, p) ==
    /\ Items(s, g, p)
    /\ \/ t.state = "DATA" /\ p = Len(s) + 1
       \/ t.state = "IAC" /\ p = Len(s) /\ s[p] = "IAC"
       \/ /\ t.state \in Negotiation \cup {"SB"} /\ p = Len(s) - 1
          /\ s[p] = "IAC" /\ s[p + 1] = t.state
       \/ /\ t.state \in {"SB_DATA", "SB_DATA_IAC"} /\ p + 2 <= Len(s)
          /\ s[p] = "IAC" /\ s[p + 1] = "SB" /\ s[p + 2] = t.telopt
          /\ OpensInBody(s, p, Len(s)) <=> t.state = "SB_DATA_IAC"

\* What the result r of a call for the byte b says of the stream
Means(r, s, g, b, u, h) ==
    /\ \E q : Reads(r.telnet, u, h, q)
    /\ TextOf(u, h) = IF r.data THEN Append(TextOf(s, g), b) ELSE TextOf(s, g)
    /\ NegotiationsOf(u, h) =
         IF r.nego = << >> THEN NegotiationsOf(s, g) ELSE Append(NegotiationsOf(s, g), r.nego)

\* A call that returns nothing: no item in X is a character or a negotiation.
LEMMA SilentMeans ==
  ASSUME NEW s, NEW g, NEW b, NEW u, NEW h, More(s, g, b, u, h), NEW p, Items(s, g, p),
         NEW q, NEW X, Gains(s, g, u, h, q, X),
         \A x \in X : u[x] = "IAC" /\ u[x + 1] \notin {"IAC"} \cup Negotiation,
         NEW r, r.data = FALSE, r.nego = << >>, Reads(r.telnet, u, h, q)
  PROVE  Means(r, s, g, b, u, h)
  <1>1. TextOf(u, h) = TextOf(s, g)
    <2>1. \A x \in X : u[x] = "IAC" /\ u[x + 1] # "IAC" OBVIOUS
    <2> QED BY <2>1, TextGains
  <1>2. NegotiationsOf(u, h) = NegotiationsOf(s, g)
    <2>1. \A x \in X : ~(u[x] = "IAC" /\ u[x + 1] \in Negotiation) OBVIOUS
    <2> QED BY <2>1, NegotiationGains
  <1> QED BY <1>1, <1>2 DEF Means

\* Between two items
LEMMA MeansData ==
  ASSUME NEW t \in Parser, NEW s, NEW g, NEW b, NEW u, More(s, g, b, u, g),
         NEW p, Reads(t, s, g, p), t.state = "DATA"
  PROVE  OnData(t, b).fail = FALSE /\ Means(OnData(t, b), s, g, b, u, g)
  <1> DEFINE r == OnData(t, b)
  <1>1. Items(s, g, p) /\ p = Len(s) + 1 BY DEF Reads, Negotiation
  <1>2. u[p] = b /\ Len(u) = p BY <1>1, MoreFacts
  <1>3. CASE b = "IAC"
    <2>1. r.telnet = InState(t, "IAC") /\ r.telnet.state = "IAC" /\ r.data = FALSE
          /\ r.nego = << >> /\ r.fail = FALSE
      <3>1. r = Quietly(InState(t, "IAC")) BY <1>3 DEF OnData
      <3> QED BY <3>1 DEF Quietly, Result, InState, Parser
    <2>2. Gains(s, g, u, g, p, {}) BY <1>1, <1>3, ItemWhole
    <2>3. Reads(r.telnet, u, g, p) BY <1>2, <1>3, <2>1, <2>2 DEF Gains, Reads
    <2> HIDE DEF r
    <2>4. Means(r, s, g, b, u, g)
      <3> DEFINE X == {}
      <3>1. Gains(s, g, u, g, p, X) /\ \A x \in X : u[x] = "IAC" /\ u[x + 1] \notin {"IAC"} \cup Negotiation
        BY <2>2
      <3> HIDE DEF X
      <3> QED BY <1>1, <2>1, <2>3, <3>1, SilentMeans
    <2> QED BY <2>1, <2>4 DEF r
  <1>4. CASE b # "IAC"
    <2>1. r.telnet = t /\ r.data = TRUE /\ r.nego = << >> /\ r.fail = FALSE
      <3>1. r = Result(t, TRUE, << >>, FALSE) BY <1>4 DEF OnData
      <3> QED BY <3>1 DEF Result
    <2> DEFINE q == Len(u) + 1
    <2>2. Gains(s, g, u, g, q, {p}) BY <1>1, <1>4, ItemWhole
    <2>3. Reads(r.telnet, u, g, q) BY <2>1, <2>2 DEF Gains, Reads
    <2> HIDE DEF q
    <2>4. TextOf(u, g) = Append(TextOf(s, g), b)
      <3> DEFINE X == {p}
      <3>1. X = {p} /\ Gains(s, g, u, g, q, X) BY <2>2
      <3> HIDE DEF X
      <3>2. TextOf(u, g) = Append(TextOf(s, g), u[p]) BY <1>1, <1>2, <1>4, <3>1, TextGains
      <3> QED BY <1>2, <3>2
    <2>5. NegotiationsOf(u, g) = NegotiationsOf(s, g)
      <3> DEFINE X == {p}
      <3>1. Gains(s, g, u, g, q, X) /\ \A x \in X : ~(u[x] = "IAC" /\ u[x + 1] \in Negotiation)
        BY <1>2, <1>4, <2>2
      <3> HIDE DEF X
      <3> QED BY <1>1, <3>1, NegotiationGains
    <2> QED BY <2>1, <2>3, <2>4, <2>5 DEF Means
  <1> QED BY <1>3, <1>4

\* After an IAC between two items
LEMMA MeansIAC ==
  ASSUME NEW t \in Parser, NEW s, NEW g, NEW b, NEW u, More(s, g, b, u, g),
         NEW p, Reads(t, s, g, p), t.state = "IAC"
  PROVE  OnIAC(t, b).fail = FALSE /\ Means(OnIAC(t, b), s, g, b, u, g)
  <1> DEFINE r == OnIAC(t, b)
  <1>1. Items(s, g, p) /\ p = Len(s) /\ s[p] = "IAC" BY DEF Reads, Negotiation
  <1>2. /\ p \in Nat /\ Len(u) = p + 1 /\ u[p] = "IAC" /\ u[p + 1] = b /\ p >= 1 /\ p = Len(u) - 1
        /\ g \subseteq 1 .. p - 1
    BY <1>1, MoreFacts DEF Items
  <1>3. IF b \in {"SB"} \cup Negotiation THEN ItemEnds(u, p, g) = {} ELSE Complete(u, g, p, Len(u))
    <2> DEFINE n == Len(s)
    <2>1. n >= 1 /\ s[n] = "IAC" /\ g \subseteq 1 .. n - 1 /\ p = n BY <1>1, <1>2
    <2>2. IF b \in {"SB"} \cup Negotiation THEN ItemEnds(u, n, g) = {} ELSE Complete(u, g, n, Len(u))
      BY <2>1, CommandEnds
    <2> HIDE DEF n
    <2> QED BY <2>1, <2>2
  <1>4. CASE b \in {"SB"} \cup Negotiation
    <2>1. r.telnet = InState(t, b) /\ r.telnet.state = b /\ r.data = FALSE
          /\ r.nego = << >> /\ r.fail = FALSE
      <3>1. r = Quietly(InState(t, b)) BY <1>4 DEF OnIAC
      <3> QED BY <3>1 DEF Quietly, Result, InState, Parser
    <2>2. p <= Len(s) /\ ItemEnds(u, p, g) = {} BY <1>1, <1>2, <1>3, <1>4
    <2>3. Gains(s, g, u, g, p, {}) BY <1>1, <2>2, ItemOpen
    <2>4. Reads(r.telnet, u, g, p) BY <1>2, <1>4, <2>1, <2>3 DEF Gains, Reads
    <2> HIDE DEF r
    <2>5. Means(r, s, g, b, u, g)
      <3> DEFINE X == {}
      <3>1. Gains(s, g, u, g, p, X) /\ \A x \in X : u[x] = "IAC" /\ u[x + 1] \notin {"IAC"} \cup Negotiation
        BY <2>3
      <3> HIDE DEF X
      <3> QED BY <1>1, <2>1, <2>4, <3>1, SilentMeans
    <2> QED BY <2>1, <2>5 DEF r
  <1>5. CASE b \notin {"SB"} \cup Negotiation
    <2>1. r.telnet = InState(t, "DATA") /\ r.telnet.state = "DATA" /\ r.data = (b = "IAC")
          /\ r.nego = << >> /\ r.fail = FALSE
      <3>1. r = Result(InState(t, "DATA"), b = "IAC", << >>, FALSE) BY <1>5 DEF OnIAC
      <3> QED BY <3>1 DEF Result, InState, Parser
    <2> DEFINE q == Len(u) + 1  X == {p}
    <2>2. Complete(u, g, p, Len(u)) /\ p <= Len(s) BY <1>1, <1>2, <1>3, <1>5
    <2>3. X = {p} /\ Gains(s, g, u, g, q, X) BY <1>1, <2>2, ItemClosed
    <2>4. Reads(r.telnet, u, g, q) BY <2>1, <2>3 DEF Gains, Reads
    <2> HIDE DEF q, X, r
    <2>5. CASE b = "IAC"
      <3>1. TextOf(u, g) = Append(TextOf(s, g), u[p]) BY <1>1, <1>2, <2>3, <2>5, TextGains
      <3>2. NegotiationsOf(u, g) = NegotiationsOf(s, g)
        <4>1. \A x \in X : ~(u[x] = "IAC" /\ u[x + 1] \in Negotiation) BY <1>2, <1>5, <2>3
        <4> QED BY <1>1, <2>3, <4>1, NegotiationGains
      <3> QED BY <1>2, <2>1, <2>4, <2>5, <3>1, <3>2 DEF Means, r
    <2>6. CASE b # "IAC"
      <3>1. \A x \in X : u[x] = "IAC" /\ u[x + 1] \notin {"IAC"} \cup Negotiation
        BY <1>2, <1>5, <2>3, <2>6
      <3>2. r.data = FALSE BY <2>1, <2>6
      <3>3. Means(r, s, g, b, u, g) BY <1>1, <2>1, <2>3, <2>4, <3>1, <3>2, SilentMeans
      <3> QED BY <2>1, <3>3 DEF r
    <2> QED BY <2>5, <2>6
  <1> QED BY <1>4, <1>5

\* The byte that names the option of a negotiation
LEMMA MeansNegotiation ==
  ASSUME NEW t \in Parser, NEW s, NEW g, NEW b, NEW u, More(s, g, b, u, g),
         NEW p, Reads(t, s, g, p), t.state \in Negotiation
  PROVE  OnNegotiation(t, b).fail = FALSE /\ Means(OnNegotiation(t, b), s, g, b, u, g)
  <1> DEFINE r == OnNegotiation(t, b)  q == Len(u) + 1  X == {p}  n == Len(s)
  <1>1. Items(s, g, p) /\ p = n - 1 /\ s[p] = "IAC" /\ s[p + 1] = t.state BY DEF Reads, Negotiation
  <1>2. /\ n \in Nat /\ p \in 1 .. n /\ p + 1 = n /\ p + 2 = Len(u) /\ p <= n /\ p # Len(u)
        /\ u[p] = "IAC" /\ u[p + 1] = t.state /\ u[p + 2] = b
    BY <1>1, MoreFacts DEF Items
  <1>3. Complete(u, g, p, Len(u))
    <2>1. u[p + 1] # "SB" BY <1>2 DEF Negotiation
    <2>2. ItemEnds(u, p, g) = {p + 2} \cap (1 .. Len(u)) BY <1>2, <2>1 DEF ItemEnds
    <2>3. p + 2 \in 1 .. Len(u) /\ Len(u) \in p .. Len(u) BY <1>2
    <2>4. ItemEnds(u, p, g) = {Len(u)} BY <1>2, <2>2, <2>3
    <2> QED BY <2>1, <2>3, <2>4 DEF Complete
  <1>4. X = {p} /\ Gains(s, g, u, g, q, X) BY <1>1, <1>2, <1>3, ItemClosed
  <1>5. /\ r.telnet = InState(t, "DATA") /\ r.telnet.state = "DATA" /\ r.data = FALSE
        /\ r.nego = <<t.state, b>> /\ r.fail = FALSE
    BY DEF OnNegotiation, Result, InState, Parser
  <1>6. Reads(r.telnet, u, g, q) BY <1>4, <1>5 DEF Gains, Reads
  <1> HIDE DEF q, X, r, n
  <1>7. TextOf(u, g) = TextOf(s, g)
    <2>1. \A x \in X : u[x] = "IAC" /\ u[x + 1] # "IAC" BY <1>2, <1>4 DEF Negotiation
    <2> QED BY <1>1, <1>4, <2>1, TextGains
  <1>8. NegotiationsOf(u, g) = Append(NegotiationsOf(s, g), <<u[p + 1], u[p + 2]>>)
    BY <1>1, <1>2, <1>4, NegotiationGains
  <1>9. r.nego # << >> BY <1>5
  <1> QED BY <1>2, <1>5, <1>6, <1>7, <1>8, <1>9 DEF Means, r

\* The byte that names the option of a subnegotiation
LEMMA MeansSB ==
  ASSUME NEW t \in Parser, NEW s, NEW g, NEW b, NEW u, More(s, g, b, u, g),
         NEW p, Reads(t, s, g, p), t.state = "SB"
  PROVE  OnSB(t, b).fail = FALSE /\ Means(OnSB(t, b), s, g, b, u, g)
  <1> DEFINE r == OnSB(t, b)  X == {}  n == Len(s)
  <1>1. Items(s, g, p) /\ p = n - 1 /\ s[p] = "IAC" /\ s[p + 1] = "SB" BY DEF Reads, Negotiation
  <1>2. /\ n \in Nat /\ p \in 1 .. n /\ p + 1 = n /\ p + 2 = Len(u) /\ p < n /\ p <= n /\ p \in Nat
        /\ u[p + 2] = b /\ g \subseteq 1 .. n /\ ~(p + 3 <= n)
    BY <1>1, MoreFacts DEF Items, More
  <1>3. /\ \A e : ~MayEnd(u, p, g, e)
        /\ ItemEnds(u, p, g) = SubEnds(u, p, g) /\ u[p] = "IAC" /\ u[p + 1] = "SB"
    <2>1. n + 1 \notin g BY <1>2
    <2> QED BY <1>1, <1>2, <2>1, SubEndsNow
  <1>4. Gains(s, g, u, g, p, X)
    <2>1. ItemEnds(u, p, g) = {} BY <1>3, SubStays
    <2> QED BY <1>1, <1>2, <2>1, ItemOpen
  <1>5. /\ r.telnet.state = "SB_DATA" /\ r.telnet.telopt = b /\ r.data = FALSE
        /\ r.nego = << >> /\ r.fail = FALSE
    BY DEF OnSB, Quietly, Result, Parser
  <1>6. ~OpensInBody(u, p, Len(u))
    <2>1. p >= 0 /\ p + 2 >= p + 2 /\ p + 2 \in Nat BY <1>2
    <2>2. ~OpensInBody(u, p, p + 2) BY <1>2, <2>1, OpensNext
    <2> QED BY <1>2, <2>2
  <1>7. p + 2 <= Len(u) BY <1>2
  <1>8. Reads(r.telnet, u, g, p) BY <1>2, <1>3, <1>4, <1>5, <1>6, <1>7 DEF Gains, Reads
  <1>9. \A x \in X : u[x] = "IAC" /\ u[x + 1] \notin {"IAC"} \cup Negotiation OBVIOUS
  <1> HIDE DEF X, r
  <1>10. Means(r, s, g, b, u, g) BY <1>1, <1>4, <1>5, <1>8, <1>9, SilentMeans
  <1> QED BY <1>5, <1>10 DEF r

\* The parser's record with another state, and with a byte more in its buffer
LEMMA StateFields ==
  ASSUME NEW t \in Parser, NEW x, NEW y
  PROVE  /\ InState(InState(t, x), y).state = y
         /\ InState(Buffered(t), x).state = x /\ InState(Buffered(t), x).telopt = t.telopt
  <1>1. \A v : [t EXCEPT !.state = v] = [state |-> v, telopt |-> t.telopt, size |-> t.size, pos |-> t.pos]
    BY DEF Parser
  <1>2. InState(InState(t, x), y).state = y
    <2>1. InState(t, x) = [state |-> x, telopt |-> t.telopt, size |-> t.size, pos |-> t.pos]
      BY <1>1 DEF InState
    <2> QED BY <2>1 DEF InState
  <1>3. \E c, d : Buffered(t) = [state |-> t.state, telopt |-> t.telopt, size |-> c, pos |-> d]
    <2> DEFINE d == t.pos + 1
               c == IF t.pos = t.size THEN BufferSizes[SizeIndex(t) + 1] ELSE t.size
    <2>1. Buffered(t) = [t EXCEPT !.pos = d, !.size = c] BY DEF Buffered
    <2> HIDE DEF c, d
    <2>2. [t EXCEPT !.pos = d] = [state |-> t.state, telopt |-> t.telopt, size |-> t.size, pos |-> d]
      BY DEF Parser
    <2>3. Buffered(t) = [state |-> t.state, telopt |-> t.telopt, size |-> c, pos |-> d] BY <2>1, <2>2
    <2> QED BY <2>3
  <1>4. InState(Buffered(t), x).state = x /\ InState(Buffered(t), x).telopt = t.telopt
    BY <1>3 DEF InState
  <1> QED BY <1>2, <1>4

\* A byte in the body of a subnegotiation
LEMMA InBody ==
  ASSUME NEW t, NEW s, NEW g, NEW b, NEW u, NEW h, More(s, g, b, u, h), NEW p, Reads(t, s, g, p),
         t.state \in {"SB_DATA", "SB_DATA_IAC"}
  PROVE  /\ Items(s, g, p) /\ Len(s) \in Nat /\ p \in Nat /\ p \in 1 .. Len(s) /\ p < Len(s)
         /\ p <= Len(s) /\ p + 2 <= Len(s) /\ Len(u) = Len(s) + 1 /\ h \subseteq Nat
         /\ g \subseteq 1 .. Len(s) - 1 /\ Len(s) + 1 \notin g /\ p + 2 <= Len(u)
         /\ u[p] = "IAC" /\ u[p + 1] = "SB" /\ u[p + 2] = t.telopt /\ u[Len(s) + 1] = b
         /\ t.state = "SB_DATA_IAC" => s[Len(s)] = "IAC" /\ u[Len(s)] = "IAC" /\ p + 3 <= Len(s)
         /\ \A e : MayEnd(u, p, h, e) <=>
              \/ t.state = "SB_DATA_IAC" /\ b = "SE" /\ e = Len(s) + 1
              \/ t.state = "SB_DATA_IAC" /\ b \notin {"IAC", "SE"} /\ e = Len(s) - 1
              \/ e = Len(s) + 1 /\ e \in h
         /\ ItemEnds(u, p, h) = SubEnds(u, p, h)
         /\ OpensInBody(u, p, Len(u)) <=> b = "IAC" /\ t.state # "SB_DATA_IAC"
  <1> DEFINE n == Len(s)
  <1>1. /\ Items(s, g, p) /\ p + 2 <= n /\ s[p] = "IAC" /\ s[p + 1] = "SB" /\ s[p + 2] = t.telopt
        /\ OpensInBody(s, p, n) <=> t.state = "SB_DATA_IAC"
    BY DEF Reads, Negotiation
  <1>2. p \in 1 .. n + 1 /\ g \subseteq 1 .. p - 1 BY <1>1 DEF Items
  <1>3. /\ n \in Nat /\ Len(u) = n + 1 /\ u[n + 1] = b /\ (\A k \in 1 .. n : u[k] = s[k])
        /\ h \subseteq 1 .. n + 1
    BY MoreFacts
  <1>4. /\ \A e : MayEnd(u, p, h, e) <=>
              \/ p + 3 <= n /\ OpensInBody(s, p, n) /\ b = "SE" /\ e = n + 1
              \/ p + 3 <= n /\ OpensInBody(s, p, n) /\ b \notin {"IAC", "SE"} /\ e = n - 1
              \/ e = n + 1 /\ e \in h
        /\ ItemEnds(u, p, h) = SubEnds(u, p, h)
        /\ p + 2 <= n => (OpensInBody(u, p, Len(u)) <=> b = "IAC" /\ ~OpensInBody(s, p, n))
        /\ OpensInBody(s, p, n) => p + 3 <= n
        /\ u[p] = "IAC" /\ u[p + 1] = "SB"
    <2>1. p < n BY <1>1, <1>2, <1>3
    <2> QED BY <1>1, <2>1, SubEndsNow
  <1>5. OpensInBody(s, p, n) => s[n] = "IAC" BY DEF OpensInBody
  <1> HIDE DEF n
  <1>6. /\ p \in Nat /\ p \in 1 .. n /\ p < n /\ p <= n /\ p + 2 \in 1 .. n /\ n \in 1 .. n /\ p + 2 <= n + 1
        /\ h \subseteq Nat /\ g \subseteq 1 .. n - 1 /\ n + 1 \notin g
    <2>1. p \in Nat /\ p \in 1 .. n /\ p < n /\ p <= n /\ p + 2 \in 1 .. n /\ n \in 1 .. n /\ p + 2 <= n + 1
      BY <1>1, <1>2, <1>3
    <2>2. 1 .. p - 1 \subseteq 1 .. n - 1 /\ n + 1 \notin 1 .. p - 1 /\ 1 .. n + 1 \subseteq Nat BY <1>3, <2>1
    <2> QED BY <1>2, <1>3, <2>1, <2>2
  <1>7. \A e : MayEnd(u, p, h, e) <=>
              \/ t.state = "SB_DATA_IAC" /\ b = "SE" /\ e = n + 1
              \/ t.state = "SB_DATA_IAC" /\ b \notin {"IAC", "SE"} /\ e = n - 1
              \/ e = n + 1 /\ e \in h
    BY <1>1, <1>4
  <1>8. OpensInBody(u, p, Len(u)) <=> b = "IAC" /\ t.state # "SB_DATA_IAC" BY <1>1, <1>4
  <1> QED BY <1>1, <1>3, <1>4, <1>5, <1>6, <1>7, <1>8 DEF n

\* A subnegotiation that goes on
LEMMA SubGoesOn ==
  ASSUME NEW t, NEW s, NEW g, NEW b, NEW u, More(s, g, b, u, g), NEW p, Reads(t, s, g, p),
         t.state = "SB_DATA" \/ (t.state = "SB_DATA_IAC" /\ b = "IAC"),
         NEW r, r.data = FALSE, r.nego = << >>, r.telnet.telopt = t.telopt,
         r.telnet.state = IF b = "IAC" /\ t.state # "SB_DATA_IAC" THEN "SB_DATA_IAC" ELSE "SB_DATA"
  PROVE  Means(r, s, g, b, u, g)
  <1> DEFINE n == Len(s)  X == {}
  <1>1. t.state \in {"SB_DATA", "SB_DATA_IAC"} OBVIOUS
  <1>2. /\ Items(s, g, p) /\ p <= n /\ p + 2 <= Len(u) /\ n + 1 \notin g
        /\ u[p] = "IAC" /\ u[p + 1] = "SB" /\ u[p + 2] = t.telopt
        /\ \A e : MayEnd(u, p, g, e) <=>
              \/ t.state = "SB_DATA_IAC" /\ b = "SE" /\ e = n + 1
              \/ t.state = "SB_DATA_IAC" /\ b \notin {"IAC", "SE"} /\ e = n - 1
              \/ e = n + 1 /\ e \in g
        /\ ItemEnds(u, p, g) = SubEnds(u, p, g)
        /\ OpensInBody(u, p, Len(u)) <=> b = "IAC" /\ t.state # "SB_DATA_IAC"
    BY <1>1, InBody
  <1>3. \A e : ~MayEnd(u, p, g, e) BY <1>2
  <1>4. ItemEnds(u, p, g) = {} BY <1>2, <1>3, SubStays
  <1>5. Gains(s, g, u, g, p, X) BY <1>2, <1>4, ItemOpen
  <1>6. Reads(r.telnet, u, g, p) BY <1>2, <1>5 DEF Gains, Reads
  <1>7. \A x \in X : u[x] = "IAC" /\ u[x + 1] \notin {"IAC"} \cup Negotiation OBVIOUS
  <1> HIDE DEF X, n
  <1> QED BY <1>2, <1>5, <1>6, <1>7, SilentMeans

\* A subnegotiation that ends with this byte
LEMMA SubEndsHere ==
  ASSUME NEW t, NEW s, NEW g, NEW b, NEW u, NEW h, More(s, g, b, u, h), NEW p, Reads(t, s, g, p),
         \/ t.state = "SB_DATA" /\ b # "IAC" /\ Len(s) + 1 \in h
         \/ t.state = "SB_DATA_IAC" /\ b = "IAC" /\ Len(s) + 1 \in h
         \/ t.state = "SB_DATA_IAC" /\ b = "SE",
         NEW r, r.data = FALSE, r.nego = << >>, r.telnet.state = "DATA"
  PROVE  Means(r, s, g, b, u, h)
  <1> DEFINE n == Len(s)  q == Len(u) + 1  X == {p}
  <1>1. t.state \in {"SB_DATA", "SB_DATA_IAC"} OBVIOUS
  <1>2. /\ Items(s, g, p) /\ p <= n /\ n \in Nat /\ p \in Nat /\ Len(u) = n + 1 /\ h \subseteq Nat
        /\ u[p] = "IAC" /\ u[p + 1] = "SB"
        /\ \A e : MayEnd(u, p, h, e) <=>
              \/ t.state = "SB_DATA_IAC" /\ b = "SE" /\ e = n + 1
              \/ t.state = "SB_DATA_IAC" /\ b \notin {"IAC", "SE"} /\ e = n - 1
              \/ e = n + 1 /\ e \in h
        /\ ItemEnds(u, p, h) = SubEnds(u, p, h)
        /\ OpensInBody(u, p, Len(u)) <=> b = "IAC" /\ t.state # "SB_DATA_IAC"
    BY <1>1, InBody
  <1>3. \A e : MayEnd(u, p, h, e) <=> e = n + 1 BY <1>2
  <1>4. ~OpensInBody(u, p, Len(u)) BY <1>2
  <1> HIDE DEF n
  <1>5. Complete(u, h, p, Len(u))
    <2>1. Len(u) \in Nat /\ Len(u) \in p .. Len(u) BY <1>2
    <2>2. \A f : MayEnd(u, p, h, f) <=> f = Len(u) BY <1>2, <1>3
    <2> DEFINE e == Len(u)
    <2>3. e \in p .. Len(u) /\ \A f : MayEnd(u, p, h, f) <=> f = e BY <2>1, <2>2
    <2> HIDE DEF e
    <2>4. Complete(u, h, p, e) BY <1>2, <1>4, <2>1, <2>3, SubIsOver
    <2> QED BY <2>4 DEF e
  <1>6. Gains(s, g, u, h, q, X) BY <1>2, <1>5, ItemClosed DEF n
  <1>7. Reads(r.telnet, u, h, q) BY <1>6 DEF Gains, Reads
  <1>8. \A x \in X : u[x] = "IAC" /\ u[x + 1] \notin {"IAC"} \cup Negotiation BY <1>2 DEF Negotiation
  <1> HIDE DEF q, X
  <1> QED BY <1>2, <1>6, <1>7, <1>8, SilentMeans

\* A byte of a subnegotiation that is kept, or at which it is given up
LEMMA MeansBuffer ==
  ASSUME NEW t \in Parser, NEW s, NEW g, NEW b, NEW u, NEW h, NEW mem, NEW r, r = BufferByte(t, mem),
         More(s, g, b, u, h), h = IF r.fail THEN g \cup {Len(s) + 1} ELSE g,
         NEW p, Reads(t, s, g, p),
         \/ t.state = "SB_DATA" /\ b # "IAC"
         \/ t.state = "SB_DATA_IAC" /\ b = "IAC"
  PROVE  Means(r, s, g, b, u, h)
  <1>1. CASE BufferFails(t, mem)
    <2>1. r.telnet.state = "DATA" /\ r.data = FALSE /\ r.nego = << >> /\ r.fail = TRUE
      <3>1. r = Result(InState(t, "DATA"), FALSE, << >>, TRUE) BY <1>1 DEF BufferByte
      <3> QED BY <3>1 DEF Result, InState, Parser
    <2>2. Len(s) + 1 \in h BY <2>1
    <2> QED BY <2>1, <2>2, SubEndsHere
  <1>2. CASE ~BufferFails(t, mem)
    <2>1. /\ r.telnet.state = "SB_DATA" /\ r.telnet.telopt = t.telopt /\ r.data = FALSE
          /\ r.nego = << >> /\ r.fail = FALSE
      <3> DEFINE v == InState(Buffered(t), "SB_DATA")
      <3>1. r = Quietly(v) BY <1>2 DEF BufferByte
      <3>2. v.state = "SB_DATA" /\ v.telopt = t.telopt BY StateFields
      <3> HIDE DEF v
      <3> QED BY <3>1, <3>2 DEF Quietly, Result
    <2>2. h = g BY <2>1
    <2>3. More(s, g, b, u, g) BY <2>2
    <2>4. Means(r, s, g, b, u, g) BY <2>1, <2>3, SubGoesOn
    <2> QED BY <2>2, <2>4
  <1> QED BY <1>1, <1>2

\* In the body of a subnegotiation
LEMMA MeansSBData ==
  ASSUME NEW t \in Parser, NEW s, NEW g, NEW b, NEW u, NEW h, NEW mem, NEW r, r = OnSBData(t, b, mem),
         More(s, g, b, u, h), h = IF r.fail THEN g \cup {Len(s) + 1} ELSE g,
         NEW p, Reads(t, s, g, p), t.state = "SB_DATA", t.telopt \notin Option
  PROVE  Means(r, s, g, b, u, h)
  <1>1. CASE b = "IAC"
    <2>1. /\ r.telnet.state = "SB_DATA_IAC" /\ r.telnet.telopt = t.telopt /\ r.data = FALSE
          /\ r.nego = << >> /\ r.fail = FALSE
      <3>1. r = Quietly(InState(t, "SB_DATA_IAC")) BY <1>1 DEF OnSBData
      <3> QED BY <3>1 DEF Quietly, Result, InState, Parser
    <2>2. h = g BY <2>1
    <2>3. More(s, g, b, u, g) BY <2>2
    <2>4. Means(r, s, g, b, u, g) BY <1>1, <2>1, <2>3, SubGoesOn
    <2> QED BY <2>2, <2>4
  <1>2. CASE b # "IAC"
    <2>1. t.telopt # "COMPRESS" BY DEF Option
    <2>2. r = BufferByte(t, mem) BY <1>2, <2>1 DEF OnSBData
    <2> QED BY <1>2, <2>2, MeansBuffer
  <1> QED BY <1>1, <1>2

\* A command in the body of a subnegotiation ends it, and is a command.
LEMMA MeansCut ==
  ASSUME NEW t \in Parser, NEW s, NEW g, NEW b, NEW u, More(s, g, b, u, g), NEW p, Reads(t, s, g, p),
         t.state = "SB_DATA_IAC", b \notin {"IAC", "SE"}
  PROVE  OnIAC(InState(t, "IAC"), b).fail = FALSE /\ Means(OnIAC(InState(t, "IAC"), b), s, g, b, u, g)
  <1> DEFINE n == Len(s)  v == InState(t, "IAC")  r == OnIAC(v, b)
  <1>1. /\ Items(s, g, p) /\ p < n /\ n \in Nat /\ p \in Nat /\ Len(u) = n + 1 /\ p + 3 <= n
        /\ g \subseteq Nat /\ g \subseteq 1 .. n - 1 /\ n + 1 \notin g
        /\ u[p] = "IAC" /\ u[p + 1] = "SB" /\ s[n] = "IAC" /\ u[n] = "IAC" /\ u[n + 1] = b
        /\ \A e : MayEnd(u, p, g, e) <=>
              \/ t.state = "SB_DATA_IAC" /\ b = "SE" /\ e = n + 1
              \/ t.state = "SB_DATA_IAC" /\ b \notin {"IAC", "SE"} /\ e = n - 1
              \/ e = n + 1 /\ e \in g
        /\ ItemEnds(u, p, g) = SubEnds(u, p, g)
        /\ OpensInBody(u, p, Len(u)) <=> b = "IAC" /\ t.state # "SB_DATA_IAC"
    BY InBody
  <1>2. Complete(u, g, p, n - 1)
    <2> DEFINE e == n - 1
    <2>1. e \in p .. Len(u) /\ Len(u) \in Nat BY <1>1
    <2>2. \A f : MayEnd(u, p, g, f) <=> f = e BY <1>1
    <2>3. ~OpensInBody(u, p, Len(u)) BY <1>1
    <2> HIDE DEF e, n
    <2>4. Complete(u, g, p, e) BY <1>1, <2>1, <2>2, <2>3, SubIsOver
    <2> QED BY <2>4 DEF e
  <1>3. IF b \in {"SB"} \cup Negotiation THEN ItemEnds(u, n, g) = {} ELSE Complete(u, g, n, Len(u))
    <2>1. n >= 1 BY <1>1
    <2> QED BY <1>1, <2>1, CommandEnds
  <1>4. \A x \in {p, n} : b \notin Negotiation \/ x = p => u[x] = "IAC" /\ u[x + 1] \notin {"IAC"} \cup Negotiation
    BY <1>1 DEF Negotiation
  <1> HIDE DEF v
  <1>5. CASE b \in {"SB"} \cup Negotiation
    <2>1. r.telnet.state = b /\ r.data = FALSE /\ r.nego = << >> /\ r.fail = FALSE
      <3> DEFINE w == InState(v, b)
      <3>1. r = Quietly(w) BY <1>5 DEF OnIAC
      <3>2. w.state = b BY StateFields DEF v
      <3> HIDE DEF w, r
      <3> QED BY <3>1, <3>2 DEF Quietly, Result
    <2> DEFINE q == n  X == {p} \cup (IF q = n THEN {} ELSE {n})
    <2>2. Gains(s, g, u, g, q, X) BY <1>1, <1>2, <1>3, <1>5, ItemCut
    <2>3. n = Len(u) - 1 BY <1>1
    <2>4. Reads(r.telnet, u, g, q)
      <3>1. Items(u, g, q) /\ q = Len(u) - 1 /\ u[q] = "IAC" /\ u[q + 1] = b BY <1>1, <2>2, <2>3 DEF Gains
      <3> HIDE DEF q, X, r, n
      <3> QED BY <1>5, <2>1, <3>1 DEF Reads
    <2>5. X = {p} OBVIOUS
    <2>6. \A x \in X : u[x] = "IAC" /\ u[x + 1] \notin {"IAC"} \cup Negotiation BY <1>4, <2>5
    <2> HIDE DEF q, X, r
    <2>7. Means(r, s, g, b, u, g) BY <1>1, <2>1, <2>2, <2>4, <2>6, SilentMeans
    <2> QED BY <2>1, <2>7 DEF r, v
  <1>6. CASE b \notin {"SB"} \cup Negotiation
    <2>1. r.telnet.state = "DATA" /\ r.data = FALSE /\ r.nego = << >> /\ r.fail = FALSE
      <3> DEFINE w == InState(v, "DATA")
      <3>1. r = Result(w, b = "IAC", << >>, FALSE) BY <1>6 DEF OnIAC
      <3>2. w.state = "DATA" BY StateFields DEF v
      <3>3. (b = "IAC") = FALSE OBVIOUS
      <3> HIDE DEF w, r
      <3> QED BY <3>1, <3>2, <3>3 DEF Result
    <2> DEFINE q == Len(u) + 1  X == {p} \cup (IF q = n THEN {} ELSE {n})
    <2>2. Gains(s, g, u, g, q, X) BY <1>1, <1>2, <1>3, <1>6, ItemCut
    <2>3. Reads(r.telnet, u, g, q) BY <2>1, <2>2 DEF Gains, Reads
    <2>4. \A x \in X : u[x] = "IAC" /\ u[x + 1] \notin {"IAC"} \cup Negotiation BY <1>4, <1>6
    <2> HIDE DEF q, X, r
    <2>5. Means(r, s, g, b, u, g) BY <1>1, <2>1, <2>2, <2>3, <2>4, SilentMeans
    <2> QED BY <2>1, <2>5 DEF r, v
  <1> QED BY <1>5, <1>6

\* After an IAC in the body: the end, an escaped byte, or a command.
LEMMA MeansSBDataIAC ==
  ASSUME NEW t \in Parser, NEW s, NEW g, NEW b, NEW u, NEW h, NEW mem, NEW r, r = OnSBDataIAC(t, b, mem, 0),
         More(s, g, b, u, h), h = IF r.fail THEN g \cup {Len(s) + 1} ELSE g,
         NEW p, Reads(t, s, g, p), t.state = "SB_DATA_IAC"
  PROVE  Means(r, s, g, b, u, h)
  <1>1. CASE b = "IAC"
    <2>1. r = BufferByte(t, mem) BY <1>1 DEF OnSBDataIAC
    <2> QED BY <1>1, <2>1, MeansBuffer
  <1>2. CASE b = "SE"
    <2>1. r.telnet.state = "DATA" /\ r.data = FALSE /\ r.nego = << >>
      <3>1. r = Quietly(InState(t, "DATA")) BY <1>2 DEF OnSBDataIAC
      <3> QED BY <3>1 DEF Quietly, Result, InState, Parser
    <2> QED BY <1>2, <2>1, SubEndsHere
  <1>3. CASE b \notin {"IAC", "SE"}
    <2> DEFINE v == OnIAC(InState(t, "IAC"), b)
    <2>1. r = v BY <1>3 DEF OnSBDataIAC
    <2>2. More(s, g, b, u, g) BY DEF More
    <2>3. v.fail = FALSE /\ Means(v, s, g, b, u, g) BY <1>3, <2>2, MeansCut
    <2> HIDE DEF v
    <2> QED BY <2>1, <2>3
  <1> QED BY <1>1, <1>2, <1>3

\* A call of telnet_recv: whatever state the parser is in, what it returns is
\* what the byte adds to the stream, and it reads the longer stream.
LEMMA ProcessMeans ==
  ASSUME NEW t \in Parser, NEW s, NEW g, NEW b, NEW u, NEW h, NEW r \in Process(t, b),
         More(s, g, b, u, h), h = IF r.fail THEN g \cup {Len(s) + 1} ELSE g,
         NEW p, Reads(t, s, g, p), ~SpecialOption(s)
  PROVE  Means(r, s, g, b, u, h)
  <1>1. More(s, g, b, u, g) BY DEF More
  <1>2. t.state \in ParserState BY DEF Parser
  <1>3. CASE t.state = "DATA"
    <2> DEFINE v == OnData(t, b)
    <2>1. r = v BY <1>3 DEF Process, Negotiation
    <2>2. v.fail = FALSE /\ Means(v, s, g, b, u, g) BY <1>1, <1>3, MeansData
    <2> HIDE DEF v
    <2> QED BY <2>1, <2>2
  <1>4. CASE t.state = "IAC"
    <2> DEFINE v == OnIAC(t, b)
    <2>1. r = v BY <1>4 DEF Process, Negotiation
    <2>2. v.fail = FALSE /\ Means(v, s, g, b, u, g) BY <1>1, <1>4, MeansIAC
    <2> HIDE DEF v
    <2> QED BY <2>1, <2>2
  <1>5. CASE t.state \in Negotiation
    <2> DEFINE v == OnNegotiation(t, b)
    <2>1. r = v BY <1>5 DEF Process, Negotiation
    <2>2. v.fail = FALSE /\ Means(v, s, g, b, u, g) BY <1>1, <1>5, MeansNegotiation
    <2> HIDE DEF v
    <2> QED BY <2>1, <2>2
  <1>6. CASE t.state = "SB"
    <2> DEFINE v == OnSB(t, b)
    <2>1. r = v BY <1>6 DEF Process, Negotiation
    <2>2. v.fail = FALSE /\ Means(v, s, g, b, u, g) BY <1>1, <1>6, MeansSB
    <2> HIDE DEF v
    <2> QED BY <2>1, <2>2
  <1>7. ASSUME t.state \in {"SB_DATA", "SB_DATA_IAC"} PROVE t.telopt \notin Option
    <2>1. /\ p \in Nat /\ p + 2 <= Len(s) /\ p \in 1 .. Len(s)
          /\ s[p] = "IAC" /\ s[p + 1] = "SB" /\ s[p + 2] = t.telopt
      BY <1>7 DEF Reads, Items, Negotiation, More
    <2> DEFINE i == p + 2
    <2>2. i \in 3 .. Len(s) /\ i - 2 = p /\ i - 1 = p + 1 BY <2>1 DEF More
    <2> HIDE DEF i
    <2> QED BY <2>1, <2>2 DEF SpecialOption, i
  <1>8. CASE t.state = "SB_DATA"
    <2>1. PICK mem \in BOOLEAN : r = OnSBData(t, b, mem) BY <1>8 DEF Process, Negotiation
    <2> QED BY <1>7, <1>8, <2>1, MeansSBData
  <1>9. CASE t.state = "SB_DATA_IAC"
    <2>1. Subnegotiate(t) = {0} BY <1>7, <1>9 DEF Subnegotiate, Option
    <2>2. PICK mem \in BOOLEAN : r = OnSBDataIAC(t, b, mem, 0) BY <1>9, <2>1 DEF Process, Negotiation
    <2> QED BY <1>9, <2>2, MeansSBDataIAC
  <1> QED BY <1>2, <1>3, <1>4, <1>5, <1>6, <1>8, <1>9 DEF ParserState

\* An option that the library treats specially stays in the stream.
LEMMA SpecialStays ==
  ASSUME NEW s \in Seq(Byte), NEW b \in Byte, SpecialOption(s)
  PROVE  SpecialOption(Append(s, b))
  <1>1. PICK i \in 3 .. Len(s) : s[i - 2] = "IAC" /\ s[i - 1] = "SB" /\ s[i] \in Option
    BY DEF SpecialOption
  <1> DEFINE u == Append(s, b)
  <1>2. i \in 3 .. Len(u) /\ u[i - 2] = s[i - 2] /\ u[i - 1] = s[i - 1] /\ u[i] = s[i] OBVIOUS
  <1> HIDE DEF u
  <1>3. SpecialOption(u) BY <1>1, <1>2 DEF SpecialOption
  <1> QED BY <1>3 DEF u

\* The parser before anything has arrived
LEMMA NothingRead ==
  ASSUME NEW t, t.state = "DATA"
  PROVE  /\ Reads(t, << >>, {}, 1)
         /\ TextOf(<< >>, {}) = << >> /\ NegotiationsOf(<< >>, {}) = << >>
  <1> DEFINE s == << >>  g == {}
  <1>1. Len(s) = 0 /\ 0 \in Nat OBVIOUS
  <1> HIDE DEF s
  <1>2. Starts(s, g) = {}
    <2>1. AreStarts(s, g, {}) BY <1>1 DEF AreStarts
    <2> QED BY <1>1, <2>1, StartsUnique
  <1>3. Items(s, g, 1) BY <1>1, <1>2 DEF Items
  <1>4. Reads(t, s, g, 1) BY <1>1, <1>3 DEF Reads
  <1>5. TextItems(s, g) = {} /\ NegotiationItems(s, g) = {}
    BY <1>2 DEF TextItems, NegotiationItems, ItemStarts
  <1>6. InOrder({}, 0) = << >> BY InOrderRecursion
  <1>7. TextOf(s, g) = << >>
    <2>1. TextOf(s, g) = At(s, << >>) BY <1>1, <1>5, <1>6 DEF TextOf
    <2>2. At(s, << >>) = << >> BY DEF At
    <2> QED BY <2>1, <2>2
  <1>8. NegotiationsOf(s, g) = << >>
    <2>1. NegotiationsOf(s, g) = PairsAt(s, InOrder(NegotiationItems(s, g), Len(s)))
      BY DEF NegotiationsOf, PairsAt, PairAt
    <2>2. PairsAt(s, << >>) = << >> BY DEF PairsAt
    <2> QED BY <1>1, <1>5, <1>6, <2>1, <2>2
  <1> QED BY <1>4, <1>7, <1>8 DEF s, g

-----------------------------------------------------------------------------
(***************************************************************************)
(* What was returned of a stream, and the parser that reads it: while a    *)
(* line is read, it reads the stream; between two lines nothing is kept,   *)
(* and before logon runs again it is between two items (the shell's line   *)
(* has left it there).                                                     *)
(***************************************************************************)
DecodedOf(s, g, text, n) ==
    SpecialOption(s) \/ (text = TextOf(s, g) /\ n = NegotiationsOf(s, g))
ReadBy(t, s, g) == SpecialOption(s) \/ \E p : Reads(t, s, g, p)

DecodeInv ==
    /\ DecodedOf(rx, gaveUp, typed, negos)
    /\ pc = "getline" => ReadBy(telnet, rx, gaveUp)
    /\ pc = "run" => rx = << >> /\ gaveUp = {} /\ typed = << >> /\ negos = << >>
    /\ pc \in {"getline", "logged_on"} => next_app = "shell"
    /\ pc \in {"set_error", "run"} /\ next_app # "shell" => telnet.state = "DATA"

\* Nothing has arrived.
LEMMA NothingDecoded ==
  DecodedOf(<< >>, {}, << >>, << >>) /\ \A t : t.state = "DATA" => ReadBy(t, << >>, {})
  <1>1. FreshParser.state = "DATA" BY DEF FreshParser
  <1>2. DecodedOf(<< >>, {}, << >>, << >>) BY <1>1, NothingRead DEF DecodedOf
  <1>3. \A t : t.state = "DATA" => ReadBy(t, << >>, {}) BY NothingRead DEF ReadBy
  <1> QED BY <1>2, <1>3

\* One byte more
LEMMA ByteDecoded ==
  ASSUME NEW t \in Parser, NEW s \in Seq(Byte), NEW g, g \subseteq 1 .. Len(s), NEW b \in Byte,
         NEW text, NEW n, DecodedOf(s, g, text, n), ReadBy(t, s, g), NEW r \in Process(t, b)
  PROVE  LET u == Append(s, b)
             h == IF r.fail THEN g \cup {Len(u)} ELSE g
         IN  /\ DecodedOf(u, h, IF r.data THEN Append(text, b) ELSE text,
                                IF r.nego = << >> THEN n ELSE Append(n, r.nego))
             /\ ReadBy(r.telnet, u, h)
  <1> DEFINE u == Append(s, b)  h == IF r.fail THEN g \cup {Len(u)} ELSE g
  <1>1. CASE SpecialOption(s)
    <2>1. SpecialOption(u) BY <1>1, SpecialStays
    <2> QED BY <2>1 DEF DecodedOf, ReadBy
  <1>2. CASE ~SpecialOption(s)
    <2>1. text = TextOf(s, g) /\ n = NegotiationsOf(s, g) BY <1>2 DEF DecodedOf
    <2>2. PICK p : Reads(t, s, g, p) BY <1>2 DEF ReadBy
    <2>3. Len(u) = Len(s) + 1 OBVIOUS
    <2>4. More(s, g, b, u, h) BY <2>3 DEF More
    <2>5. h = IF r.fail THEN g \cup {Len(s) + 1} ELSE g BY <2>3
    <2> HIDE DEF u, h
    <2>6. Means(r, s, g, b, u, h) BY <1>2, <2>2, <2>4, <2>5, ProcessMeans
    <2>7. /\ DecodedOf(u, h, IF r.data THEN Append(text, b) ELSE text,
                             IF r.nego = << >> THEN n ELSE Append(n, r.nego))
          /\ ReadBy(r.telnet, u, h)
      BY <2>1, <2>6 DEF Means, DecodedOf, ReadBy
    <2> QED BY <2>7 DEF u, h
  <1> QED BY <1>1, <1>2

\* A byte from the client
LEMMA GetByteDecoded ==
  ASSUME IInv, DecodeInv, NEW b \in Byte, GetByte(b)
  PROVE  DecodeInv'
  <1>1. /\ telnet \in Parser /\ rx \in Seq(Byte) /\ gaveUp \subseteq 1 .. Len(rx)
        /\ pc = "getline" /\ next_app = "shell" /\ next_app' = next_app
        /\ DecodedOf(rx, gaveUp, typed, negos) /\ ReadBy(telnet, rx, gaveUp)
    BY DEF IInv, ParserInv, Buffers, DecodeInv, GetByte, String
  <1>2. PICK r \in Process(telnet, b) :
          /\ telnet' = r.telnet
          /\ gaveUp' = IF r.fail THEN gaveUp \cup {Len(rx')} ELSE gaveUp
          /\ typed' = IF r.data THEN Append(typed, b) ELSE typed
          /\ negos' = IF r.nego = << >> THEN negos ELSE Append(negos, r.nego)
          /\ IF r.data /\ ~Ignored(b) THEN Typed(b) \/ EchoFails ELSE ReadOn
    BY DEF GetByte
  <1>3. rx' = Append(rx, b) BY DEF GetByte
  <1>4. DecodedOf(rx', gaveUp', typed', negos') /\ ReadBy(telnet', rx', gaveUp')
    <2> DEFINE u == Append(rx, b)
               h == IF r.fail THEN gaveUp \cup {Len(u)} ELSE gaveUp
               x == IF r.data THEN Append(typed, b) ELSE typed
               n == IF r.nego = << >> THEN negos ELSE Append(negos, r.nego)
    <2>1. DecodedOf(u, h, x, n) /\ ReadBy(r.telnet, u, h) BY <1>1, ByteDecoded
    <2>2. rx' = u /\ gaveUp' = h /\ typed' = x /\ negos' = n /\ telnet' = r.telnet BY <1>2, <1>3
    <2> HIDE DEF u, h, x, n
    <2> QED BY <2>1, <2>2
  <1>5. pc' \in {"getline", "logged_on", "set_error"}
    BY <1>1, <1>2 DEF Typed, EchoFails, ReadOn
  <1> QED BY <1>1, <1>4, <1>5 DEF DecodeInv

\* Every step keeps the relation between the stream and what was returned of it.
LEMMA DecodeStep ==
  ASSUME IInv, DecodeInv, [Next]_vars
  PROVE  DecodeInv'
  <1> USE NothingDecoded
  <1>1. CASE Input
    <2>1. PICK b \in BytesIn(telnet.state) : GetByte(b) BY <1>1 DEF Input
    <2>2. b \in Byte BY DEF BytesIn, Byte, Control, Negotiation, Option
    <2> QED BY <2>1, <2>2, GetByteDecoded
  <1>2. CASE RecvFails BY <1>2 DEF RecvFails, inputVars, DecodeInv
  <1>3. CASE Logon BY <1>3 DEF Logon, ForgetLine, DecodeInv
  <1>4. CASE LoopSetError
    <2>1. telnet.state = "DATA" => telnet'.state = "DATA"
      BY <1>4 DEF LoopSetError, ForgetLine, Forgotten, FreshParser
    <2> QED BY <1>4, <2>1 DEF LoopSetError, ForgetLine, DecodeInv
  <1>5. CASE Shell
    <2>1. telnet'.state = "DATA" BY <1>5 DEF Shell, FreshParser
    <2> QED BY <1>5, <2>1 DEF Shell, DecodeInv
  <1>6. CASE ShellFails BY <1>6 DEF ShellFails, inputVars, DecodeInv
  <1>7. CASE ShellOverrun BY <1>7 DEF ShellOverrun, inputVars, DecodeInv
  <1>8. CASE LogonAgain
    <2>1. /\ pc = "run" /\ next_app = "logon" /\ pc' = "getline" /\ next_app' = "shell"
          /\ telnet' = telnet /\ rx' = rx /\ gaveUp' = gaveUp /\ typed' = typed /\ negos' = negos
      BY <1>8 DEF LogonAgain, Runs, Done, inputVars
    <2>2. telnet'.state = "DATA" /\ rx' = << >> /\ gaveUp' = {} BY <2>1 DEF DecodeInv
    <2>3. ReadBy(telnet', rx', gaveUp') BY <2>2
    <2> QED BY <2>1, <2>3 DEF DecodeInv
  <1>9. CASE SetDump \/ SetShow \/ SetAssign \/ SetInvalid \/ OtherApp
    <2>1. /\ pc' = "set_error" /\ next_app' = "shell"
          /\ rx' = rx /\ gaveUp' = gaveUp /\ typed' = typed /\ negos' = negos
      BY <1>9 DEF SetDump, SetShow, SetAssign, SetInvalid, OtherApp, Runs, Done, inputVars
    <2> QED BY <2>1 DEF DecodeInv
  <1>10. CASE UNCHANGED vars BY <1>10 DEF vars, DecodeInv
  <1> QED BY <1>1, <1>2, <1>3, <1>4, <1>5, <1>6, <1>7, <1>8, <1>9, <1>10 DEF Next, Run

\* Console.Decoded: however the stream is cut into bytes and calls,
\* console_getchar returns the characters of the stream and nothing else, and
\* _negotiate sees every negotiation once and in order: for every stream and
\* all sizes that the parser's buffer grows through.
THEOREM StreamIsDecoded == Spec => []Decoded
  <1>1. Init => DecodeInv BY NothingDecoded DEF Init, DecodeInv, FreshParser
  <1>2. IInv /\ DecodeInv /\ [Next]_vars => DecodeInv' BY DecodeStep
  <1>3. DecodeInv => Decoded BY DEF DecodeInv, DecodedOf, Decoded
  <1> QED BY <1>1, <1>2, <1>3, Invariance, PTL DEF Spec
=============================================================================
