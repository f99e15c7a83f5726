---------------------------- MODULE OrderFacts ----------------------------
(***************************************************************************)
(* What the proofs about loops over tables, lines and streams share: the   *)
(* least member of a set of numbers (a property that fails somewhere first *)
(* fails somewhere: the form of induction these proofs use), functions     *)
(* that are defined by recursion over positions, and the operators of      *)
(* Listing.                                                                *)
(***************************************************************************)
EXTENDS Listing, WellFoundedInduction, TLAPS

\* The least element of T
LEMMA NatMin ==
  ASSUME NEW T, T \subseteq Nat, T # {}
  PROVE  \E x \in T : \A y \in T : x <= y
  <1>1. PICK x \in T : \A y \in T : ~ (<<y, x>> \in OpToRel(<, Nat))
    BY NatLessThanWellFounded, WFMin, Zenon
  <1>2. ASSUME NEW y \in T PROVE x <= y
    <2>1. <<y, x>> \notin OpToRel(<, Nat) BY <1>1
    <2>2. <<y, x>> \notin {ss \in Nat \X Nat : ss[1] < ss[2]} BY <2>1, Zenon DEF OpToRel
    <2>3. x \in Nat /\ y \in Nat OBVIOUS
    <2> QED BY ONLY <2>2, <2>3, SMT
  <1> QED BY <1>2

\* f is defined by recursion over the positions up to n: F gives the value at
\* a position from the one before it.
Recurs(f, F, v, n) == f[0] = v /\ \A i \in 1 .. n : f[i] = F[i][f[i - 1]]

\* There is such a function,
LEMMA Recursion ==
  ASSUME NEW V, NEW v \in V, NEW F \in [Nat -> [V -> V]], NEW n \in Nat
  PROVE  \E f \in [0 .. n -> V] : Recurs(f, F, v, n)
  <1> DEFINE has(m) == \E f \in [0 .. m -> V] : f[0] = v /\ \A i \in 1 .. m : f[i] = F[i][f[i - 1]]
             none == {m \in Nat : ~has(m)}
  <1> SUFFICES ASSUME none # {} PROVE FALSE
    <2>1. n \notin none => has(n) OBVIOUS
    <2> QED BY <2>1 DEF Recurs
  <1>1. PICK m \in none : \A y \in none : m <= y
    <2>1. none \subseteq Nat OBVIOUS
    <2> QED BY <2>1, NatMin
  <1>2. m \in Nat OBVIOUS
  <1>3. CASE m = 0
    <2> DEFINE f == [i \in 0 .. 0 |-> v]
    <2>1. f \in [0 .. 0 -> V] /\ f[0] = v OBVIOUS
    <2>2. \A i \in 1 .. 0 : f[i] = F[i][f[i - 1]] BY 1 .. 0 = {}
    <2> HIDE DEF f
    <2>3. has(0) BY <2>1, <2>2
    <2> QED BY <1>3, <2>3
  <1>4. CASE m # 0
    <2>1. m - 1 \in Nat /\ m - 1 \notin none
      <3>1. m - 1 \in Nat /\ ~(m <= m - 1) BY <1>2, <1>4
      <3> HIDE DEF none
      <3> QED BY <1>1, <3>1
    <2>2. has(m - 1) BY <2>1
    <2>3. PICK f \in [0 .. m - 1 -> V] : f[0] = v /\ \A i \in 1 .. m - 1 : f[i] = F[i][f[i - 1]]
      BY <2>2
    <2> DEFINE last == F[m][f[m - 1]]
               g == [i \in 0 .. m |-> IF i < m THEN f[i] ELSE last]
    <2>4. last \in V
      <3>1. f[m - 1] \in V BY <1>2, <1>4, <2>3
      <3>2. F[m] \in [V -> V] BY <1>2
      <3> QED BY <3>1, <3>2
    <2>5. g[m] = last BY <1>2
    <2>6. \A i \in 0 .. m - 1 : g[i] = f[i] /\ f[i] \in V BY <1>2, <2>3
    <2>7. g \in [0 .. m -> V] BY <1>2, <2>4, <2>6
    <2> HIDE DEF g
    <2>8. ASSUME NEW i \in 1 .. m PROVE g[i] = F[i][g[i - 1]]
      <3>1. i - 1 \in 0 .. m - 1 BY <1>2
      <3>2. g[i - 1] = f[i - 1] BY <2>6, <3>1
      <3>3. CASE i = m BY <2>5, <3>2, <3>3
      <3>4. CASE i # m
        <4>1. i \in 1 .. m - 1 /\ i \in 0 .. m - 1 BY <1>2, <3>4
        <4> QED BY <2>3, <2>6, <3>2, <4>1
      <3> QED BY <3>3, <3>4
    <2>9. g[0] = v BY <1>2, <1>4, <2>3, <2>6
    <2>10. has(m) BY <2>7, <2>8, <2>9
    <2> QED BY <1>1, <2>10
  <1> QED BY <1>3, <1>4

\* and only one.
LEMMA RecursionUnique ==
  ASSUME NEW n \in Nat, NEW k \in 0 .. n, NEW f, NEW g, NEW F, NEW v,
         Recurs(f, F, v, n), Recurs(g, F, v, n)
  PROVE  f[k] = g[k]
  <1> DEFINE bad == {i \in 0 .. n : f[i] # g[i]}
  <1> SUFFICES ASSUME bad # {} PROVE FALSE
    OBVIOUS
  <1>1. PICK m \in bad : \A y \in bad : m <= y
    <2>1. bad \subseteq Nat OBVIOUS
    <2> QED BY <2>1, NatMin
  <1>2. m \in 0 .. n /\ f[m] # g[m] OBVIOUS
  <1>3. m # 0 BY <1>2 DEF Recurs
  <1>4. m \in 1 .. n /\ m - 1 \in 0 .. n /\ ~(m <= m - 1) BY <1>2, <1>3
  <1>5. f[m - 1] = g[m - 1] BY <1>1, <1>4
  <1> QED BY <1>2, <1>4, <1>5 DEF Recurs

-----------------------------------------------------------------------------
\* The recursion of InOrder, as a function
Listed(S) == [i \in Nat |-> [v \in Seq(Nat) |-> IF i \in S THEN Append(v, i) ELSE v]]

\* InOrder is the last value of a recursion.
LEMMA InOrderValue ==
  ASSUME NEW S, NEW n \in Nat
  PROVE  \E f \in [0 .. n -> Seq(Nat)] : Recurs(f, Listed(S), << >>, n) /\ InOrder(S, n) = f[n]
  <1> DEFINE V == Seq(Nat)
             step(f, i) == IF i = 0 THEN << >>
                           ELSE IF i \in S THEN Append(f[i - 1], i) ELSE f[i - 1]
             is(f) == f = [i \in 0 .. n |-> step(f, i)]
             h == CHOOSE f : is(f)
  <1>1. InOrder(S, n) = h[n] BY DEF InOrder
  <1>2. \E f \in [0 .. n -> V] : Recurs(f, Listed(S), << >>, n)
    <2>1. << >> \in V OBVIOUS
    <2>2. ASSUME NEW i \in Nat, NEW v \in V
          PROVE  (IF i \in S THEN Append(v, i) ELSE v) \in V
      OBVIOUS
    <2>3. Listed(S) \in [Nat -> [V -> V]] BY <2>2 DEF Listed
    <2> DEFINE F == Listed(S)  z == << >>
    <2>4. z \in V /\ F \in [Nat -> [V -> V]] BY <2>1, <2>3
    <2> HIDE DEF V, F, z
    <2>5. \E f \in [0 .. n -> V] : Recurs(f, F, z, n) BY <2>4, Recursion
    <2> QED BY <2>5 DEF F, z
  <1>3. ASSUME NEW f \in [0 .. n -> V], NEW i \in 1 .. n
        PROVE  Listed(S)[i][f[i - 1]] = step(f, i)
    <2>1. i - 1 \in 0 .. n /\ i \in Nat /\ i # 0 OBVIOUS
    <2>2. f[i - 1] \in V BY <2>1
    <2> HIDE DEF V
    <2> QED BY <2>1, <2>2 DEF Listed, V
  <1>4. \E f : is(f)
    <2>1. PICK f \in [0 .. n -> V] : f[0] = << >> /\ \A i \in 1 .. n : f[i] = Listed(S)[i][f[i - 1]]
      BY <1>2 DEF Recurs
    <2>2. ASSUME NEW i \in 0 .. n PROVE f[i] = step(f, i)
      <3>1. CASE i = 0 BY <2>1, <3>1
      <3>2. CASE i # 0
        <4>1. i \in 1 .. n BY <3>2
        <4>2. f[i] = Listed(S)[i][f[i - 1]] BY <2>1, <4>1
        <4>3. Listed(S)[i][f[i - 1]] = step(f, i) BY <1>3, <4>1
        <4> QED BY <4>2, <4>3
      <3> QED BY <3>1, <3>2
    <2> HIDE DEF step
    <2>3. is(f) BY <2>1, <2>2
    <2> QED BY <2>3
  <1>5. is(h)
    <2> HIDE DEF is
    <2> QED BY <1>4
  <1> HIDE DEF h, V
  <1>6. \A i \in 0 .. n : h[i] = step(h, i)
    <2> HIDE DEF step
    <2> QED BY <1>5
  <1>7. PICK f \in [0 .. n -> V] : Recurs(f, Listed(S), << >>, n)
    BY <1>2
  <1>8. \A i \in 0 .. n : f[i] = h[i]
    <2> DEFINE bad == {i \in 0 .. n : f[i] # h[i]}
    <2> SUFFICES ASSUME bad # {} PROVE FALSE
      OBVIOUS
    <2>1. PICK m \in bad : \A y \in bad : m <= y
      <3>1. bad \subseteq Nat OBVIOUS
      <3> QED BY <3>1, NatMin
    <2>2. m \in 0 .. n /\ f[m] # h[m] OBVIOUS
    <2>3. m # 0 BY <1>6, <1>7, <2>2 DEF Recurs
    <2>4. m \in 1 .. n /\ m - 1 \in 0 .. n /\ ~(m <= m - 1) BY <2>2, <2>3
    <2>5. f[m - 1] = h[m - 1] BY <2>1, <2>4
    <2>6. f[m] = step(f, m) /\ h[m] = step(h, m) BY <1>3, <1>6, <1>7, <2>4 DEF Recurs
    <2> QED BY <2>2, <2>4, <2>5, <2>6
  <1>9. InOrder(S, n) = f[n] BY <1>1, <1>8
  <1>10. f \in [0 .. n -> Seq(Nat)] BY DEF V
  <1> QED BY <1>7, <1>9, <1>10, Zenon

\* So InOrder goes through the positions one by one.
LEMMA InOrderRecursion ==
  ASSUME NEW S, NEW n \in Nat
  PROVE  /\ InOrder(S, 0) = << >>
         /\ InOrder(S, n) \in Seq(Nat)
         /\ InOrder(S, n + 1) =
              IF n + 1 \in S THEN Append(InOrder(S, n), n + 1) ELSE InOrder(S, n)
  <1> DEFINE F == Listed(S)
  <1>1. PICK f \in [0 .. n -> Seq(Nat)] : Recurs(f, F, << >>, n) /\ InOrder(S, n) = f[n]
    BY InOrderValue, Zenon
  <1>2. PICK g \in [0 .. n + 1 -> Seq(Nat)] : Recurs(g, F, << >>, n + 1) /\ InOrder(S, n + 1) = g[n + 1]
    <2>1. n + 1 \in Nat OBVIOUS
    <2> QED BY <2>1, InOrderValue, Zenon
  <1>3. PICK h \in [0 .. 0 -> Seq(Nat)] : Recurs(h, F, << >>, 0) /\ InOrder(S, 0) = h[0]
    <2>1. 0 \in Nat OBVIOUS
    <2> QED BY <2>1, InOrderValue, Zenon
  <1>4. f[n] = g[n]
    <2> DEFINE z == << >>
    <2>1. Recurs(f, F, z, n) /\ Recurs(g, F, z, n) BY <1>1, <1>2 DEF Recurs
    <2> HIDE DEF F, z
    <2>2. n \in Nat /\ n \in 0 .. n OBVIOUS
    <2>3. ASSUME NEW w, NEW G, Recurs(f, G, w, n), Recurs(g, G, w, n) PROVE f[n] = g[n]
      BY <2>2, <2>3, RecursionUnique
    <2> QED BY <2>1, <2>3
  <1>5. f[n] \in Seq(Nat) /\ n + 1 \in Nat /\ n + 1 \in 1 .. n + 1 /\ (n + 1) - 1 = n OBVIOUS
  <1>6. g[n + 1] = F[n + 1][g[n]]
    <2> HIDE DEF F
    <2> QED BY <1>2, <1>5 DEF Recurs
  <1>7. F[n + 1][g[n]] = IF n + 1 \in S THEN Append(g[n], n + 1) ELSE g[n]
    BY <1>4, <1>5 DEF Listed
  <1> QED BY <1>1, <1>2, <1>3, <1>4, <1>5, <1>6, <1>7 DEF Recurs

\* It lists members of the set.
LEMMA InOrderTyped ==
  ASSUME NEW S, NEW n \in Nat
  PROVE  InOrder(S, n) \in Seq(S \cap (1 .. n))
  <1> DEFINE good(m) == InOrder(S, m) \in Seq(S \cap (1 .. m))
             bad == {m \in Nat : ~good(m)}
  <1> SUFFICES ASSUME bad # {} PROVE FALSE
    <2>1. n \notin bad => good(n) OBVIOUS
    <2> QED BY <2>1
  <1>1. PICK m \in bad : \A y \in bad : m <= y
    <2>1. bad \subseteq Nat OBVIOUS
    <2> QED BY <2>1, NatMin
  <1>2. m \in Nat /\ ~good(m) OBVIOUS
  <1>3. good(0)
    <2>1. << >> \in Seq(S \cap (1 .. 0)) OBVIOUS
    <2> QED BY <2>1, InOrderRecursion
  <1>4. m - 1 \in Nat /\ ~(m <= m - 1)
    <2> HIDE DEF good
    <2>1. m # 0 BY <1>2, <1>3
    <2> QED BY <1>2, <2>1
  <1>5. good(m - 1)
    <2>1. m - 1 \notin bad
      <3> HIDE DEF bad
      <3> QED BY <1>1, <1>4
    <2> QED BY <1>4, <2>1
  <1> DEFINE q == m - 1  A == S \cap (1 .. q)  B == S \cap (1 .. m)
             s == InOrder(S, q)
  <1>6. q \in Nat /\ m = q + 1 BY <1>2, <1>4
  <1>7. A \subseteq B BY <1>6
  <1>8. m \in S => m \in B BY <1>6
  <1>9. s \in Seq(A) BY <1>5
  <1>10. InOrder(S, m) = IF m \in S THEN Append(s, m) ELSE s
    <2> HIDE DEF q
    <2> QED BY <1>6, InOrderRecursion
  <1>11. ~(InOrder(S, m) \in Seq(B)) BY <1>2
  <1> HIDE DEF A, B, s, q
  <1>12. s \in Seq(B) BY <1>7, <1>9
  <1> QED BY <1>8, <1>10, <1>11, <1>12

\* Members after position q are listed after the others: without them, the
\* list up to m is the one up to q,
LEMMA InOrderRest ==
  ASSUME NEW S, NEW q \in Nat, NEW m \in Nat, q <= m, S \cap (q + 1 .. m) = {}
  PROVE  InOrder(S, m) = InOrder(S, q)
  <1> DEFINE bad == {i \in q .. m : InOrder(S, i) # InOrder(S, q)}
  <1> SUFFICES ASSUME bad # {} PROVE FALSE
    <2>1. m \in q .. m OBVIOUS
    <2> QED BY <2>1
  <1>1. PICK i \in bad : \A y \in bad : i <= y
    <2>1. bad \subseteq Nat OBVIOUS
    <2> QED BY <2>1, NatMin
  <1>2. i \in q .. m /\ InOrder(S, i) # InOrder(S, q) OBVIOUS
  <1> HIDE DEF bad
  <1>3. i # q BY <1>2
  <1>4. i - 1 \in q .. m /\ i - 1 \in Nat /\ (i - 1) + 1 = i /\ ~(i <= i - 1) /\ i \in q + 1 .. m
    BY <1>2, <1>3
  <1>5. InOrder(S, i - 1) = InOrder(S, q) BY <1>1, <1>4 DEF bad
  <1>6. i \notin S BY <1>4
  <1> DEFINE j == i - 1
  <1>7. j \in Nat /\ j + 1 = i /\ InOrder(S, j) = InOrder(S, q) BY <1>4, <1>5
  <1> HIDE DEF j
  <1>8. InOrder(S, j + 1) = InOrder(S, j) BY <1>6, <1>7, InOrderRecursion
  <1> QED BY <1>2, <1>7, <1>8

\* and q comes last, if it is one and there are none after it.
LEMMA InOrderLast ==
  ASSUME NEW S, NEW q \in Nat, NEW m \in Nat, q < m, q + 1 \in S, S \cap (q + 2 .. m) = {}
  PROVE  InOrder(S, m) = Append(InOrder(S, q), q + 1)
  <1> DEFINE p == q + 1
  <1>1. p \in Nat /\ p <= m /\ p + 1 .. m = q + 2 .. m OBVIOUS
  <1>2. InOrder(S, p) = Append(InOrder(S, q), q + 1) BY InOrderRecursion
  <1> HIDE DEF p
  <1>3. InOrder(S, m) = InOrder(S, p) BY <1>1, InOrderRest
  <1> QED BY <1>2, <1>3

\* Only the members up to n count.
LEMMA InOrderSame ==
  ASSUME NEW S, NEW R, NEW n \in Nat, \A i \in 1 .. n : i \in S <=> i \in R
  PROVE  InOrder(S, n) = InOrder(R, n)
  <1> DEFINE bad == {i \in 0 .. n : InOrder(S, i) # InOrder(R, i)}
  <1> SUFFICES ASSUME bad # {} PROVE FALSE
    <2>1. n \in 0 .. n OBVIOUS
    <2> QED BY <2>1
  <1>1. PICK i \in bad : \A y \in bad : i <= y
    <2>1. bad \subseteq Nat OBVIOUS
    <2> QED BY <2>1, NatMin
  <1>2. i \in 0 .. n /\ InOrder(S, i) # InOrder(R, i) OBVIOUS
  <1> HIDE DEF bad
  <1>3. i # 0 BY <1>2, InOrderRecursion
  <1>4. i - 1 \in 0 .. n /\ i - 1 \in Nat /\ (i - 1) + 1 = i /\ ~(i <= i - 1) /\ i \in 1 .. n
    BY <1>2, <1>3
  <1>5. InOrder(S, i - 1) = InOrder(R, i - 1) BY <1>1, <1>4 DEF bad
  <1> DEFINE j == i - 1
  <1>6. j \in Nat /\ j + 1 = i /\ InOrder(S, j) = InOrder(R, j) BY <1>4, <1>5
  <1>7. i \in S <=> i \in R BY <1>4
  <1> HIDE DEF j
  <1>8. /\ InOrder(S, j + 1) = IF j + 1 \in S THEN Append(InOrder(S, j), j + 1) ELSE InOrder(S, j)
        /\ InOrder(R, j + 1) = IF j + 1 \in R THEN Append(InOrder(R, j), j + 1) ELSE InOrder(R, j)
    BY <1>6, InOrderRecursion
  <1> QED BY <1>2, <1>6, <1>7, <1>8

\* The last one listed is the greatest of the members.
LEMMA InOrderGreatest ==
  ASSUME NEW S, NEW n \in Nat, NEW s, s = InOrder(S, n), NEW p, p = s[Len(s)], Len(s) > 0
  PROVE  /\ p \in S /\ p \in 1 .. n /\ S \cap (p + 1 .. n) = {}
         /\ s = Append(InOrder(S, p - 1), p)
  <1> DEFINE good(m, q) == /\ q \in S /\ q \in 1 .. m /\ S \cap (q + 1 .. m) = {}
                           /\ InOrder(S, m) = Append(InOrder(S, q - 1), q)
             bad == {m \in Nat : InOrder(S, m) # << >> /\ \A q \in 1 .. m : ~good(m, q)}
  <1>1. bad = {}
    <2> SUFFICES ASSUME bad # {} PROVE FALSE
      OBVIOUS
    <2>1. PICK m \in bad : \A y \in bad : m <= y
      <3>1. bad \subseteq Nat OBVIOUS
      <3> QED BY <3>1, NatMin
    <2>2. m \in Nat /\ InOrder(S, m) # << >> /\ \A q \in 1 .. m : ~good(m, q) OBVIOUS
    <2>3. m # 0 BY <2>2, InOrderRecursion
    <2> DEFINE k == m - 1
    <2>4. k \in Nat /\ m = k + 1 /\ ~(m <= k) BY <2>2, <2>3
    <2> HIDE DEF k
    <2>5. InOrder(S, m) = IF m \in S THEN Append(InOrder(S, k), m) ELSE InOrder(S, k)
      BY <2>4, InOrderRecursion
    <2>6. CASE m \in S
      <3>1. m \in 1 .. m /\ m + 1 .. m = {} /\ m - 1 = k BY <2>4
      <3>2. good(m, m) BY <2>5, <2>6, <3>1
      <3> HIDE DEF good
      <3> QED BY <2>2, <3>1, <3>2
    <2>7. CASE m \notin S
      <3>1. k \notin bad
        <4> HIDE DEF bad
        <4> QED BY <2>1, <2>4
      <3>2. PICK q \in 1 .. k : good(k, q) BY <2>2, <2>4, <2>5, <2>7, <3>1
      <3>3. q \in 1 .. m /\ q + 1 .. m = (q + 1 .. k) \cup {m} BY <2>4
      <3>4. good(m, q) BY <2>5, <2>7, <3>2, <3>3
      <3> HIDE DEF good
      <3> QED BY <2>2, <3>3, <3>4
    <2> QED BY <2>6, <2>7
  <1>2. s # << >> OBVIOUS
  <1>3. PICK q \in 1 .. n : good(n, q)
    <2>1. n \notin bad
      <3> HIDE DEF bad
      <3> QED BY <1>1
    <2> HIDE DEF good
    <2> QED BY <1>2, <2>1
  <1>4. InOrder(S, q - 1) \in Seq(Nat) /\ q \in Nat
    <2> DEFINE k == q - 1
    <2>1. k \in Nat OBVIOUS
    <2> HIDE DEF k
    <2>2. InOrder(S, k) \in Seq(Nat) BY <2>1, InOrderRecursion
    <2> QED BY <2>2 DEF k
  <1>5. s = Append(InOrder(S, q - 1), q) BY <1>3
  <1> DEFINE r == InOrder(S, q - 1)
  <1> HIDE DEF r
  <1>6. p = q
    <2>1. r \in Seq(Nat) /\ s = Append(r, q) BY <1>4, <1>5 DEF r
    <2> QED BY <1>4, <2>1
  <1> QED BY <1>3, <1>5, <1>6

\* Every member is listed.
LEMMA InOrderOnto ==
  ASSUME NEW S, NEW n \in Nat, NEW i \in 1 .. n, i \in S
  PROVE  \E k \in 1 .. Len(InOrder(S, n)) : InOrder(S, n)[k] = i
  <1> DEFINE has(m) == \E k \in 1 .. Len(InOrder(S, m)) : InOrder(S, m)[k] = i
             bad == {m \in i .. n : ~has(m)}
  <1> SUFFICES ASSUME bad # {} PROVE FALSE
    <2>1. n \in i .. n OBVIOUS
    <2>2. n \notin bad => has(n) BY <2>1
    <2> QED BY <2>2
  <1>1. PICK m \in bad : \A y \in bad : m <= y
    <2>1. bad \subseteq Nat OBVIOUS
    <2> QED BY <2>1, NatMin
  <1>2. m \in i .. n /\ ~has(m) OBVIOUS
  <1> DEFINE q == m - 1
  <1>3. q \in Nat /\ m = q + 1 /\ m \in Nat /\ ~(m <= q) BY <1>2
  <1> HIDE DEF q
  <1> DEFINE r == InOrder(S, q)
  <1>4. r \in Seq(Nat) /\ InOrder(S, m) = IF m \in S THEN Append(r, m) ELSE r
    BY <1>3, InOrderRecursion
  <1> HIDE DEF r
  <1>5. CASE m = i
    <2>1. Len(Append(r, m)) \in 1 .. Len(Append(r, m)) /\ Append(r, m)[Len(Append(r, m))] = m
      BY <1>3, <1>4
    <2> QED BY <1>2, <1>4, <1>5, <2>1
  <1>6. CASE m # i
    <2>1. q \in i .. n BY <1>2, <1>3, <1>6
    <2>2. has(q)
      <3>1. q \notin bad
        <4> HIDE DEF bad
        <4> QED BY <1>1, <1>3
      <3> QED BY <2>1, <3>1
    <2>3. PICK k \in 1 .. Len(r) : r[k] = i BY <2>2 DEF r
    <2>4. k \in 1 .. Len(Append(r, m)) /\ Append(r, m)[k] = i BY <1>3, <1>4, <2>3
    <2> QED BY <1>2, <1>4, <2>3, <2>4
  <1> QED BY <1>5, <1>6
=============================================================================
