--------------------------- MODULE ConsoleProofs ---------------------------
(***************************************************************************)
(* Proofs about Console and about the map that its environment variables   *)
(* implement, for all applications, characters, lines and sizes of the     *)
(* fields.  First the list of variables and what console_setenv does to    *)
(* what console_getenv finds, then console_tokenize, then the telnet       *)
(* parser, then the session's steps.                                       *)
(***************************************************************************)
EXTENDS Console, OrderFacts, SequenceTheorems, TLAPS

\* What the provers reason with: sequences of characters, lists of variables
Text == Seq(Char)
List == Seq(Node)

\* strncpy keeps a text and cuts it to the field.
LEMMA FieldText ==
  ASSUME NEW s \in Text, NEW n \in Nat
  PROVE  Field(s, n) \in Text /\ Len(Field(s, n)) <= n /\ (Len(s) <= n => Field(s, n) = s)
         /\ (Len(s) >= n => Len(Field(s, n)) = n)
  BY DEF Field, Text

\* A node's fields.
LEMMA NodeFields ==
  ASSUME NEW list \in List, NEW k \in DOMAIN list
  PROVE  /\ list[k] = [name |-> list[k].name, value |-> list[k].value]
         /\ list[k].name \in Text /\ Len(list[k].name) <= NameLen
         /\ list[k].value \in Text /\ Len(list[k].value) <= ValueLen
  <1>1. list[k] \in Node BY DEF List
  <1> QED BY <1>1 DEF Node, Text

\* strcmp finds a name that fits exactly where it stands; a full field is read
\* as a name that does not fit.
LEMMA NameRead ==
  ASSUME NEW list \in List, NEW k \in DOMAIN list
  PROVE  /\ Len(list[k].name) < NameLen => NameAsRead(list, k) = list[k].name
         /\ Len(list[k].name) >= NameLen => ~(Len(NameAsRead(list, k)) < NameLen)
         /\ Len(NameAsRead(list, k)) < NameLen => NameAsRead(list, k) \in Text
  <1>1. NameLen \in Nat BY SizesAssumption
  <1> DEFINE S == Char \cup {"pointer"}
             nm == list[k].name  v == list[k].value
             tail == IF Len(v) = ValueLen /\ k < Len(list) THEN <<"pointer">> ELSE << >>
  <1>2. nm \in Text /\ v \in Text BY NodeFields
  <1>3. tail \in Seq(S)
    <2>1. <<"pointer">> \in Seq(S) /\ << >> \in Seq(S) OBVIOUS
    <2> QED BY <2>1
  <1>4. NameAsRead(list, k) = IF Len(nm) < NameLen THEN nm ELSE nm \o v \o tail
    BY DEF NameAsRead
  <1> HIDE DEF nm, v, tail
  <1>a. nm \in Seq(S) /\ v \in Seq(S) BY <1>2 DEF Text
  <1> HIDE DEF S
  <1>5. nm \o v \o tail \in Seq(S) /\ Len(nm \o v \o tail) >= Len(nm)
    BY <1>3, <1>a
  <1>6. Len(nm) \in Nat BY <1>2 DEF Text
  <1>7. Len(nm \o v \o tail) \in Nat BY <1>5
  <1>8. /\ Len(nm) < NameLen => NameAsRead(list, k) = nm
        /\ Len(nm) >= NameLen => ~(Len(NameAsRead(list, k)) < NameLen)
        /\ Len(NameAsRead(list, k)) < NameLen => NameAsRead(list, k) \in Text
    BY <1>1, <1>2, <1>4, <1>5, <1>6, <1>7
  <1> QED BY <1>8 DEF nm

\* The nodes of a name that fits.
LEMMA MatchesFit ==
  ASSUME NEW list \in List, NEW n \in Text, Len(n) < NameLen
  PROVE  Matches(list, n) = {k \in DOMAIN list : list[k].name = n}
  <1>1. NameLen \in Nat BY SizesAssumption
  <1>2. Len(n) \in Nat BY DEF Text
  <1>3. ASSUME NEW k \in DOMAIN list PROVE NameAsRead(list, k) = n <=> list[k].name = n
    <2>1. Len(list[k].name) \in Nat BY NodeFields DEF Text
    <2> QED BY <1>1, <1>2, <2>1, NameRead
  <1> QED BY <1>3 DEF Matches

\* The loop over the list stops at the first match.
LEMMA FirstMatchIs ==
  ASSUME NEW list \in List, NEW n, Matches(list, n) # {}
  PROVE  /\ FirstMatch(list, n) \in Matches(list, n) /\ FirstMatch(list, n) \in DOMAIN list
         /\ \A j \in Matches(list, n) : FirstMatch(list, n) <= j
  <1>1. Matches(list, n) \subseteq DOMAIN list BY DEF Matches
  <1>2. DOMAIN list \subseteq Nat BY DEF List
  <1>3. \E k \in Matches(list, n) : \A j \in Matches(list, n) : k <= j
    BY <1>1, <1>2, NatMin
  <1> QED BY <1>1, <1>3 DEF FirstMatch

\* And there is only one first match.
LEMMA FirstMatchUnique ==
  ASSUME NEW list \in List, NEW n, NEW k \in Matches(list, n),
         \A j \in Matches(list, n) : k <= j
  PROVE  FirstMatch(list, n) = k
  <1>1. Matches(list, n) \subseteq DOMAIN list BY DEF Matches
  <1>2. DOMAIN list \subseteq Nat BY DEF List
  <1>3. FirstMatch(list, n) \in Matches(list, n) /\ \A j \in Matches(list, n) : FirstMatch(list, n) <= j
    BY FirstMatchIs
  <1> QED BY <1>1, <1>2, <1>3

\* The value console_getenv finds.
Found(list, n) == list[FirstMatch(list, n)].value

\* The two ways console_setenv changes the list: a value, or a node in front.
Revalued(list, k, v) == [list EXCEPT ![k].value = Field(v, ValueLen)]
Prepended(list, n, v) == <<[name |-> Field(n, NameLen), value |-> Field(v, ValueLen)]>> \o list

\* The list keeps its names when one of its values changes,
LEMMA RevaluedFacts ==
  ASSUME NEW list \in List, NEW k \in DOMAIN list, NEW v \in Text
  PROVE  /\ Revalued(list, k, v) \in List
         /\ Len(Revalued(list, k, v)) = Len(list) /\ DOMAIN Revalued(list, k, v) = DOMAIN list
         /\ \A j \in DOMAIN list :
               /\ Revalued(list, k, v)[j].name = list[j].name
               /\ Revalued(list, k, v)[j].value = IF j = k THEN Field(v, ValueLen) ELSE list[j].value
  <1> DEFINE w == Field(v, ValueLen)
             new == [list EXCEPT ![k].value = w]
  <1>1. w \in Text /\ Len(w) <= ValueLen BY FieldText, SizesAssumption
  <1>2. Revalued(list, k, v) = new BY DEF Revalued
  <1> HIDE DEF w
  <1>3. list[k] \in Node BY DEF List
  <1>4. [list[k] EXCEPT !.value = w] \in Node BY <1>1, <1>3 DEF Node, Text
  <1>5. new = [list EXCEPT ![k] = [list[k] EXCEPT !.value = w]] OBVIOUS
  <1>6. new \in List /\ Len(new) = Len(list) /\ DOMAIN new = DOMAIN list
    BY <1>4, <1>5 DEF List
  <1>7. ASSUME NEW j \in DOMAIN list
        PROVE  new[j].name = list[j].name /\ new[j].value = IF j = k THEN w ELSE list[j].value
    BY <1>3, <1>5 DEF Node, List
  <1> QED BY <1>2, <1>6, <1>7 DEF w

\* and its nodes when one is put in front of them.
LEMMA PrependedFacts ==
  ASSUME NEW list \in List, NEW n \in Text, NEW v \in Text
  PROVE  /\ Prepended(list, n, v) \in List
         /\ Len(Prepended(list, n, v)) = Len(list) + 1
         /\ Prepended(list, n, v)[1].name = Field(n, NameLen)
         /\ Prepended(list, n, v)[1].value = Field(v, ValueLen)
         /\ \A j \in DOMAIN list : Prepended(list, n, v)[j + 1] = list[j]
  <1> DEFINE node == [name |-> Field(n, NameLen), value |-> Field(v, ValueLen)]
  <1>1. node \in Node BY FieldText, SizesAssumption DEF Node, Text
  <1>2. node.name = Field(n, NameLen) /\ node.value = Field(v, ValueLen) OBVIOUS
  <1>3. Prepended(list, n, v) = <<node>> \o list BY DEF Prepended
  <1> HIDE DEF node
  <1>4. /\ <<node>> \o list \in Seq(Node) /\ Len(<<node>> \o list) = Len(list) + 1
        /\ (<<node>> \o list)[1] = node
        /\ \A j \in DOMAIN list : (<<node>> \o list)[j + 1] = list[j]
    BY <1>1 DEF List
  <1> QED BY <1>2, <1>3, <1>4 DEF List

\* What console_setenv does, case by case.
LEMMA SetEnvCases ==
  ASSUME NEW list \in List, NEW n \in Text, NEW v \in Text
  PROVE  \/ /\ Matches(list, n) # {}
            /\ SetEnv(list, n, v).rc = 0
            /\ SetEnv(list, n, v).env = Revalued(list, FirstMatch(list, n), v)
         \/ /\ Matches(list, n) = {} /\ Len(list) < MaxNodes
            /\ SetEnv(list, n, v).rc = 0
            /\ SetEnv(list, n, v).env = Prepended(list, n, v)
         \/ /\ Matches(list, n) = {}
            /\ SetEnv(list, n, v).rc = -1
            /\ SetEnv(list, n, v).env = list
  BY DEF SetEnv, Revalued, Prepended

\* The list stays a list and within the heap.
LEMMA SetEnvTyped ==
  ASSUME NEW list \in List, NEW n \in Text, NEW v \in Text
  PROVE  /\ SetEnv(list, n, v).env \in List /\ SetEnv(list, n, v).rc \in {0, -1}
         /\ Len(list) <= MaxNodes => Len(SetEnv(list, n, v).env) <= MaxNodes
  <1>1. MaxNodes \in Nat /\ Len(list) \in Nat BY SizesAssumption DEF List
  <1>2. CASE Matches(list, n) # {}
    BY <1>2, SetEnvCases, FirstMatchIs, RevaluedFacts
  <1>3. CASE Matches(list, n) = {}
    BY <1>1, <1>3, SetEnvCases, PrependedFacts
  <1> QED BY <1>2, <1>3

\* A value put into a node of another name leaves what a name that fits finds.
LEMMA RevaluedOther ==
  ASSUME NEW list \in List, NEW k \in DOMAIN list, NEW v \in Text,
         NEW m \in Text, Len(m) < NameLen, list[k].name # m
  PROVE  /\ Matches(Revalued(list, k, v), m) = Matches(list, m)
         /\ Matches(list, m) # {} => Found(Revalued(list, k, v), m) = Found(list, m)
  <1> DEFINE new == Revalued(list, k, v)
  <1>1. /\ new \in List /\ DOMAIN new = DOMAIN list
        /\ \A j \in DOMAIN list : /\ new[j].name = list[j].name
                                  /\ j # k => new[j].value = list[j].value
    BY RevaluedFacts
  <1> HIDE DEF new
  <1>2. /\ Matches(list, m) = {j \in DOMAIN list : list[j].name = m}
        /\ Matches(new, m) = {j \in DOMAIN new : new[j].name = m}
    BY <1>1, MatchesFit
  <1>3. Matches(new, m) = Matches(list, m) BY <1>1, <1>2
  <1>4. ASSUME Matches(list, m) # {} PROVE Found(new, m) = Found(list, m)
    <2>1. /\ FirstMatch(list, m) \in Matches(list, m) /\ FirstMatch(list, m) \in DOMAIN list
          /\ \A j \in Matches(list, m) : FirstMatch(list, m) <= j
      BY <1>4, FirstMatchIs
    <2>2. FirstMatch(new, m) = FirstMatch(list, m)
      BY <1>1, <1>3, <2>1, FirstMatchUnique
    <2>3. list[FirstMatch(list, m)].name = m BY <1>2, <2>1
    <2> QED BY <1>1, <2>1, <2>2, <2>3 DEF Found
  <1> QED BY <1>3, <1>4 DEF new

\* A value put into the first node of a name is what that name finds.
LEMMA RevaluedSame ==
  ASSUME NEW list \in List, NEW v \in Text,
         NEW n \in Text, Len(n) < NameLen, Matches(list, n) # {}
  PROVE  /\ Matches(Revalued(list, FirstMatch(list, n), v), n) # {}
         /\ Found(Revalued(list, FirstMatch(list, n), v), n) = Field(v, ValueLen)
  <1> DEFINE k == FirstMatch(list, n)
             new == Revalued(list, k, v)
  <1>0. /\ k \in Matches(list, n) /\ k \in DOMAIN list /\ \A j \in Matches(list, n) : k <= j
    BY FirstMatchIs
  <1>1. /\ new \in List /\ DOMAIN new = DOMAIN list
        /\ \A j \in DOMAIN list : new[j].name = list[j].name
        /\ new[k].value = Field(v, ValueLen)
    BY <1>0, RevaluedFacts
  <1> HIDE DEF new
  <1>2. /\ Matches(list, n) = {j \in DOMAIN list : list[j].name = n}
        /\ Matches(new, n) = {j \in DOMAIN new : new[j].name = n}
    BY <1>1, MatchesFit
  <1>3. Matches(new, n) = Matches(list, n) BY <1>1, <1>2
  <1>4. FirstMatch(new, n) = k BY <1>0, <1>1, <1>3, FirstMatchUnique
  <1> QED BY <1>1, <1>3, <1>4 DEF new, Found

\* A node put in front moves the others by one.
LEMMA PrependedOther ==
  ASSUME NEW list \in List, NEW n \in Text, NEW v \in Text,
         NEW m \in Text, Len(m) < NameLen, m # n
  PROVE  /\ Matches(Prepended(list, n, v), m) # {} <=> Matches(list, m) # {}
         /\ Matches(list, m) # {} => Found(Prepended(list, n, v), m) = Found(list, m)
  <1> DEFINE new == Prepended(list, n, v)
  <1>0. NameLen \in Nat /\ Len(m) \in Nat /\ Len(n) \in Nat BY SizesAssumption DEF Text
  <1>1. /\ new \in List /\ Len(new) = Len(list) + 1
        /\ new[1].name = Field(n, NameLen)
        /\ \A j \in DOMAIN list : new[j + 1] = list[j]
    BY PrependedFacts
  <1>2. new[1].name # m
    <2>1. CASE Len(n) <= NameLen BY <1>0, <1>1, <2>1, FieldText
    <2>2. CASE Len(n) >= NameLen BY <1>0, <1>1, <2>2, FieldText
    <2> QED BY <1>0, <2>1, <2>2
  <1> HIDE DEF new
  <1>3. /\ Matches(list, m) = {j \in DOMAIN list : list[j].name = m}
        /\ Matches(new, m) = {j \in DOMAIN new : new[j].name = m}
    BY <1>1, MatchesFit
  <1>4. DOMAIN list = 1 .. Len(list) /\ Len(list) \in Nat /\ DOMAIN new = 1 .. Len(list) + 1
    BY <1>1 DEF List
  <1>5. \A j \in Matches(list, m) : j \in Nat /\ j + 1 \in Matches(new, m)
    BY <1>1, <1>3, <1>4
  <1>6. \A j \in Matches(new, m) : j \in Nat /\ j - 1 \in Matches(list, m)
    <2> TAKE j \in Matches(new, m)
    <2>1. j \in 1 .. Len(list) + 1 /\ new[j].name = m BY <1>3, <1>4
    <2>2. j # 1 BY <1>2, <2>1
    <2>3. j - 1 \in DOMAIN list BY <1>4, <2>1, <2>2
    <2>4. new[(j - 1) + 1] = list[j - 1] BY <1>1, <2>3
    <2>5. new[j] = list[j - 1] BY <1>4, <2>1, <2>4
    <2> QED BY <1>3, <1>4, <2>1, <2>3, <2>5
  <1>7. ASSUME Matches(list, m) # {} PROVE Found(new, m) = Found(list, m)
    <2> DEFINE k == FirstMatch(list, m)
    <2>1. k \in Matches(list, m) /\ k \in DOMAIN list /\ \A j \in Matches(list, m) : k <= j
      BY <1>7, FirstMatchIs
    <2>2. k \in Nat BY <1>4, <2>1
    <2> HIDE DEF k
    <2>3. k + 1 \in Matches(new, m) BY <1>5, <2>1
    <2>4. \A j \in Matches(new, m) : k + 1 <= j
      <3> TAKE j \in Matches(new, m)
      <3>1. j \in Nat /\ j - 1 \in Matches(list, m) BY <1>6
      <3>2. k <= j - 1 BY <2>1, <3>1
      <3> QED BY <2>2, <3>1, <3>2
    <2>5. FirstMatch(new, m) = k + 1 BY <1>1, <2>3, <2>4, FirstMatchUnique
    <2> QED BY <1>1, <2>1, <2>5 DEF Found, k
  <1>8. Matches(new, m) # {} <=> Matches(list, m) # {} BY <1>5, <1>6
  <1> QED BY <1>7, <1>8 DEF new

\* And is found by its own name.
LEMMA PrependedSame ==
  ASSUME NEW list \in List, NEW v \in Text, NEW n \in Text, Len(n) < NameLen
  PROVE  /\ Matches(Prepended(list, n, v), n) # {}
         /\ Found(Prepended(list, n, v), n) = Field(v, ValueLen)
  <1> DEFINE new == Prepended(list, n, v)
  <1>0. NameLen \in Nat /\ Len(n) \in Nat BY SizesAssumption DEF Text
  <1>1. /\ new \in List /\ Len(new) = Len(list) + 1
        /\ new[1].name = Field(n, NameLen) /\ new[1].value = Field(v, ValueLen)
    BY PrependedFacts
  <1>2. new[1].name = n BY <1>0, <1>1, FieldText
  <1> HIDE DEF new
  <1>3. Matches(new, n) = {j \in DOMAIN new : new[j].name = n} BY <1>1, MatchesFit
  <1>4. Len(list) \in Nat /\ DOMAIN new = 1 .. Len(list) + 1 BY <1>1 DEF List
  <1>5. 1 \in Matches(new, n) /\ \A j \in Matches(new, n) : 1 <= j BY <1>2, <1>3, <1>4
  <1>6. FirstMatch(new, n) = 1 BY <1>1, <1>5, FirstMatchUnique
  <1> QED BY <1>1, <1>5, <1>6 DEF new, Found

\* console_setenv leaves every other name that fits alone,
LEMMA SetEnvOther ==
  ASSUME NEW list \in List, NEW n \in Text, NEW v \in Text,
         NEW m \in Text, Len(m) < NameLen, m # n
  PROVE  /\ Matches(SetEnv(list, n, v).env, m) # {} <=> Matches(list, m) # {}
         /\ Matches(list, m) # {} => Found(SetEnv(list, n, v).env, m) = Found(list, m)
  <1>1. CASE Matches(list, n) # {}
    <2> DEFINE k == FirstMatch(list, n)
    <2>1. k \in Matches(list, n) /\ k \in DOMAIN list BY <1>1, FirstMatchIs
    <2>2. NameAsRead(list, k) = n BY <2>1 DEF Matches
    <2>3. list[k].name # m
      <3>1. NameLen \in Nat BY SizesAssumption
      <3> QED BY <2>1, <2>2, <3>1, NameRead
    <2>4. SetEnv(list, n, v).env = Revalued(list, k, v) BY <1>1, SetEnvCases
    <2> QED BY <2>1, <2>3, <2>4, RevaluedOther
  <1>2. CASE Matches(list, n) = {}
    <2>1. SetEnv(list, n, v).env \in {list, Prepended(list, n, v)} BY <1>2, SetEnvCases
    <2> QED BY <2>1, PrependedOther
  <1> QED BY <1>1, <1>2

\* and the name it was called with finds the value, unless it failed.
LEMMA SetEnvSame ==
  ASSUME NEW list \in List, NEW n \in Text, NEW v \in Text, Len(n) < NameLen
  PROVE  \/ /\ SetEnv(list, n, v).rc = 0
            /\ Matches(SetEnv(list, n, v).env, n) # {}
            /\ Found(SetEnv(list, n, v).env, n) = Field(v, ValueLen)
         \/ /\ SetEnv(list, n, v).rc = -1
            /\ SetEnv(list, n, v).env = list
            /\ Matches(list, n) = {}
  BY SetEnvCases, RevaluedSame, PrependedSame

-----------------------------------------------------------------------------
\* EnvAsMap of any list
MapOf(list) ==
    [n \in {m \in {NameAsRead(list, k) : k \in DOMAIN list} : Len(m) < NameLen} |->
        Found(list, n)]

\* The names of the map are those that fit and are found.
LEMMA MapDomain ==
  ASSUME NEW list \in List
  PROVE  DOMAIN MapOf(list) = {m \in Text : Len(m) < NameLen /\ Matches(list, m) # {}}
  <1>1. ASSUME NEW k \in DOMAIN list, Len(NameAsRead(list, k)) < NameLen
        PROVE  NameAsRead(list, k) \in Text
    BY <1>1, NameRead
  <1> QED BY <1>1 DEF MapOf, Matches

\* Each with the value that is found.
LEMMA MapValue ==
  ASSUME NEW list \in List, NEW m \in DOMAIN MapOf(list)
  PROVE  MapOf(list)[m] = Found(list, m)
  BY DEF MapOf

\* Two lists with the same names and values are the same map.
LEMMA MapEqual ==
  ASSUME NEW l1 \in List, NEW l2 \in List,
         \A m \in Text : Len(m) < NameLen =>
            /\ Matches(l2, m) # {} <=> Matches(l1, m) # {}
            /\ Matches(l1, m) # {} => Found(l2, m) = Found(l1, m)
  PROVE  MapOf(l2) = MapOf(l1)
  <1>1. DOMAIN MapOf(l2) = DOMAIN MapOf(l1) BY MapDomain
  <1>2. ASSUME NEW m \in DOMAIN MapOf(l1) PROVE MapOf(l2)[m] = MapOf(l1)[m]
    BY <1>1, MapDomain, MapValue
  <1>3. /\ MapOf(l1) = [m \in DOMAIN MapOf(l1) |-> MapOf(l1)[m]]
        /\ MapOf(l2) = [m \in DOMAIN MapOf(l2) |-> MapOf(l2)[m]]
    BY DEF MapOf
  <1> QED BY <1>1, <1>2, <1>3

\* console_setenv as an operation of the map.
LEMMA SetEnvMap ==
  ASSUME NEW list \in List, NEW n \in Text, NEW v \in Text
  PROVE  \/ /\ SetEnv(list, n, v).rc = 0
            /\ MapOf(SetEnv(list, n, v).env) =
                 IF Len(n) < NameLen
                   THEN [m \in DOMAIN MapOf(list) \cup {n} |->
                           IF m = n THEN Field(v, ValueLen) ELSE MapOf(list)[m]]
                   ELSE MapOf(list)
         \/ /\ SetEnv(list, n, v).rc # 0
            /\ Len(n) < NameLen => n \notin DOMAIN MapOf(list)
            /\ MapOf(SetEnv(list, n, v).env) = MapOf(list)
  <1> DEFINE new == SetEnv(list, n, v).env
  <1>1. new \in List BY SetEnvTyped
  <1>2. \A m \in Text : Len(m) < NameLen /\ m # n =>
            /\ Matches(new, m) # {} <=> Matches(list, m) # {}
            /\ Matches(list, m) # {} => Found(new, m) = Found(list, m)
    BY SetEnvOther
  <1>3. CASE ~(Len(n) < NameLen)
    <2> HIDE DEF new
    <2>1. MapOf(new) = MapOf(list)
      <3>1. \A m \in Text : Len(m) < NameLen =>
              /\ Matches(new, m) # {} <=> Matches(list, m) # {}
              /\ Matches(list, m) # {} => Found(new, m) = Found(list, m)
        BY <1>2, <1>3
      <3> QED BY <1>1, <3>1, MapEqual
    <2> QED BY <1>3, <2>1 DEF new
  <1>4. CASE Len(n) < NameLen /\ SetEnv(list, n, v).rc = 0
    <2>1. Matches(new, n) # {} /\ Found(new, n) = Field(v, ValueLen)
      BY <1>4, SetEnvSame
    <2> HIDE DEF new
    <2>2. DOMAIN MapOf(new) = DOMAIN MapOf(list) \cup {n}
      BY <1>1, <1>2, <1>4, <2>1, MapDomain
    <2>3. MapOf(new)[n] = Field(v, ValueLen) BY <1>1, <2>1, <2>2, MapValue
    <2>4. ASSUME NEW m \in DOMAIN MapOf(list), m # n PROVE MapOf(new)[m] = MapOf(list)[m]
      <3>1. m \in Text /\ Len(m) < NameLen /\ Matches(list, m) # {} BY MapDomain
      <3>2. Found(new, m) = Found(list, m) BY <1>2, <2>4, <3>1
      <3> QED BY <1>1, <2>2, <3>2, MapValue
    <2>5. MapOf(new) = [m \in DOMAIN MapOf(new) |-> MapOf(new)[m]] BY DEF MapOf
    <2>6. MapOf(new) = [m \in DOMAIN MapOf(list) \cup {n} |->
                           IF m = n THEN Field(v, ValueLen) ELSE MapOf(list)[m]]
      BY <2>2, <2>3, <2>4, <2>5
    <2> QED BY <1>4, <2>6 DEF new
  <1>5. CASE Len(n) < NameLen /\ SetEnv(list, n, v).rc # 0
    <2>1. new = list /\ Matches(list, n) = {} BY <1>5, SetEnvSame
    <2>2. n \notin DOMAIN MapOf(list) BY <2>1, MapDomain
    <2> QED BY <1>5, <2>1, <2>2
  <1> QED BY <1>3, <1>4, <1>5, SetEnvCases

-----------------------------------------------------------------------------
\* What the loop keeps: the starts of arguments and the terminators it has
\* written are positions of the line.
ScanState(l) ==
    [argv : Seq(1 .. Len(l) + 1), start : 1 .. Len(l) + 1, escape : BOOLEAN,
     spaces : BOOLEAN, zeros : SUBSET (1 .. Len(l))]

\* A character more: the arguments found so far stay within the line.
LEMMA ScanTyped ==
  ASSUME NEW l \in Seq(Byte), NEW s \in ScanState(l), NEW i \in 1 .. Len(l)
  PROVE  Scan(l, s, i) \in ScanState(l)
  <1>1. /\ s.argv \in Seq(1 .. Len(l) + 1) /\ s.start \in 1 .. Len(l) + 1
        /\ s.zeros \in SUBSET (1 .. Len(l))
    BY DEF ScanState
  <1>2. i \in 1 .. Len(l) + 1 OBVIOUS
  <1> DEFINE a == Append(s.argv, s.start)
             z == s.zeros \cup {i}
  <1>3. a \in Seq(1 .. Len(l) + 1) BY <1>1
  <1>4. z \in SUBSET (1 .. Len(l)) BY <1>1
  <1>5. Scan(l, s, i) =
          IF s.spaces
            THEN IF l[i] = "SP" THEN [s EXCEPT !.zeros = z]
                 ELSE [s EXCEPT !.argv = a, !.start = i, !.spaces = FALSE]
          ELSE IF l[i] = "CARET" THEN [s EXCEPT !.escape = TRUE]
          ELSE IF s.escape THEN [s EXCEPT !.escape = FALSE]
          ELSE IF l[i] = "SP" THEN [s EXCEPT !.spaces = TRUE, !.zeros = z]
          ELSE s
    BY DEF Scan
  <1> HIDE DEF a, z
  <1>6. /\ [s EXCEPT !.zeros = z] \in ScanState(l)
        /\ [s EXCEPT !.argv = a, !.start = i, !.spaces = FALSE] \in ScanState(l)
        /\ [s EXCEPT !.escape = TRUE] \in ScanState(l)
        /\ [s EXCEPT !.escape = FALSE] \in ScanState(l)
        /\ [s EXCEPT !.spaces = TRUE, !.zeros = z] \in ScanState(l)
    BY <1>2, <1>3, <1>4 DEF ScanState
  <1> QED BY <1>5, <1>6

\* One character, as a function of the position and of what was scanned before
Scanner(l) ==
    [i \in Nat |-> [s \in ScanState(l) |-> IF i \in 1 .. Len(l) THEN Scan(l, s, i) ELSE s]]

\* So the recursion is what it says, and every prefix of the line is scanned to
\* something of that type.
LEMMA ScansRecursion ==
  ASSUME NEW l \in Seq(Byte)
  PROVE  /\ Scans(l)[0] = ScanStart
         /\ \A i \in 1 .. Len(l) : Scans(l)[i] = Scan(l, Scans(l)[i - 1], i)
         /\ \A i \in 0 .. Len(l) : Scans(l)[i] \in ScanState(l)
  <1> DEFINE n == Len(l)  V == ScanState(l)  F == Scanner(l)
             step(f, i) == IF i = 0 THEN ScanStart ELSE Scan(l, f[i - 1], i)
             is(f) == f = [i \in 0 .. n |-> step(f, i)]
             h == Scans(l)
  <1>0. n \in Nat OBVIOUS
  <1>1. h = CHOOSE f : is(f) BY DEF Scans
  <1>2. ScanStart \in V
    <2>1. 1 \in 1 .. n + 1 BY <1>0
    <2>2. << >> \in Seq(1 .. n + 1) /\ {} \in SUBSET (1 .. n) OBVIOUS
    <2> QED BY <2>1, <2>2 DEF ScanStart, ScanState
  <1>3. F \in [Nat -> [V -> V]]
    <2>1. ASSUME NEW i \in Nat, NEW s \in V
          PROVE  (IF i \in 1 .. n THEN Scan(l, s, i) ELSE s) \in V
      BY ScanTyped
    <2> HIDE DEF V, n
    <2> QED BY <2>1 DEF Scanner, V, n
  <1>4. \A i \in 1 .. n, s \in V : F[i][s] = Scan(l, s, i) /\ i \in Nat
    <2> HIDE DEF V
    <2> QED BY DEF Scanner, V
  <1> DEFINE z == ScanStart
  <1>5. \E f \in [0 .. n -> V] : Recurs(f, F, z, n)
    <2>1. z \in V BY <1>2
    <2> HIDE DEF F, V, z, n
    <2> QED BY <1>0, <1>3, <2>1, Recursion
  <1>6. PICK f \in [0 .. n -> V] : Recurs(f, F, z, n) BY <1>5
  <1>7. ASSUME NEW g, is(g), NEW i \in 0 .. n PROVE g[i] = step(g, i)
    <2> HIDE DEF step
    <2> QED BY <1>7
  <1>8. is(f)
    <2>1. ASSUME NEW i \in 0 .. n PROVE f[i] = step(f, i)
      <3>1. CASE i = 0 BY <1>6, <3>1 DEF Recurs
      <3>2. CASE i # 0
        <4>1. i \in 1 .. n /\ i - 1 \in 0 .. n BY <3>2
        <4>2. f[i] = F[i][f[i - 1]] /\ f[i - 1] \in V
          <5> HIDE DEF F, V
          <5> QED BY <1>6, <4>1 DEF Recurs
        <4>3. f[i] = Scan(l, f[i - 1], i) BY <1>4, <4>1, <4>2
        <4> QED BY <3>2, <4>3
      <3> QED BY <3>1, <3>2
    <2> HIDE DEF step, V
    <2> QED BY <2>1
  <1>9. is(h)
    <2> HIDE DEF is, h
    <2> QED BY <1>1, <1>8
  <1> HIDE DEF h
  <1>10. \A i \in 0 .. n : h[i] = step(h, i)
    <2> HIDE DEF is, step
    <2> QED BY <1>7, <1>9
  <1>11. h[0] = ScanStart /\ \A i \in 1 .. n : h[i] = Scan(l, h[i - 1], i) BY <1>0, <1>10
  <1>12. \A i \in 0 .. n : h[i] \in V
    <2> DEFINE bad == {i \in 0 .. n : h[i] \notin V}
    <2> SUFFICES ASSUME bad # {} PROVE FALSE
      OBVIOUS
    <2>1. PICK m \in bad : \A y \in bad : m <= y
      <3>1. bad \subseteq Nat OBVIOUS
      <3> QED BY <3>1, NatMin
    <2>2. m \in 0 .. n /\ h[m] \notin V OBVIOUS
    <2>3. m # 0 BY <1>2, <1>11, <2>2
    <2>4. m \in 1 .. n /\ m - 1 \in 0 .. n /\ ~(m <= m - 1) BY <2>2, <2>3
    <2>5. h[m - 1] \in V BY <2>1, <2>4
    <2>6. h[m] = Scan(l, h[m - 1], m) BY <1>11, <2>4
    <2> QED BY <2>2, <2>4, <2>5, <2>6, ScanTyped
  <1> QED BY <1>11, <1>12 DEF h

\* console_tokenize cuts a line into strings.
LEMMA TokenizeTyped ==
  ASSUME NEW l \in Seq(Byte)
  PROVE  Tokenize(l) \in Seq(Seq(Byte)) /\ Len(Tokenize(l)) > 0
  <1> DEFINE s == Scans(l)[Len(l)]
             starts == (IF s.spaces THEN Append(s.argv, s.start) ELSE s.argv) \o <<s.start>>
             ends(a, e) == /\ e = Len(l) + 1 \/ e \in s.zeros
                           /\ \A j \in a .. e - 1 : j \notin s.zeros
             end(a) == CHOOSE e \in a .. Len(l) + 1 : ends(a, e)
             token(k) == SubSeq(l, starts[k], end(starts[k]) - 1)
  <1>1. Tokenize(l) = [k \in DOMAIN starts |-> token(k)] BY DEF Tokenize
  <1>0. Len(l) \in Nat /\ Len(l) \in 0 .. Len(l) OBVIOUS
  <1>2. s \in ScanState(l) BY <1>0, ScansRecursion
  <1> HIDE DEF s
  <1>3. s.argv \in Seq(1 .. Len(l) + 1) /\ s.start \in 1 .. Len(l) + 1 /\ s.zeros \subseteq 1 .. Len(l)
    BY <1>2 DEF ScanState
  <1>4. starts \in Seq(1 .. Len(l) + 1) /\ Len(starts) > 0
    <2> DEFINE P == 1 .. Len(l) + 1
               before == IF s.spaces THEN Append(s.argv, s.start) ELSE s.argv
    <2> HIDE DEF P
    <2>1. s.argv \in Seq(P) /\ s.start \in P BY <1>3 DEF P
    <2>2. before \in Seq(P) /\ <<s.start>> \in Seq(P) BY <2>1
    <2>3. starts = before \o <<s.start>> OBVIOUS
    <2> HIDE DEF before, starts
    <2>4. starts \in Seq(P) /\ Len(starts) = Len(before) + 1 BY <2>2, <2>3
    <2>5. Len(before) \in Nat BY <2>2
    <2> QED BY <2>4, <2>5 DEF P
  <1> HIDE DEF starts
  <1>5. ASSUME NEW a \in 1 .. Len(l) + 1 PROVE end(a) \in a .. Len(l) + 1
    <2> DEFINE T == {e \in a .. Len(l) + 1 : e = Len(l) + 1 \/ e \in s.zeros}
    <2>1. T \subseteq Nat BY <1>0
    <2>2. Len(l) + 1 \in T BY <1>0
    <2>3. PICK e \in T : \A y \in T : e <= y BY <2>1, <2>2, NatMin
    <2>4. e \in a .. Len(l) + 1 /\ (e = Len(l) + 1 \/ e \in s.zeros) OBVIOUS
    <2>5. ASSUME NEW j \in a .. e - 1 PROVE j \notin s.zeros
      <3>1. j \in a .. Len(l) + 1 /\ ~(e <= j) BY <1>0, <2>4
      <3> QED BY <2>3, <3>1
    <2>6. ends(a, e) BY <2>4, <2>5
    <2> HIDE DEF ends
    <2> QED BY <2>4, <2>6
  <1>6. ASSUME NEW k \in DOMAIN starts PROVE token(k) \in Seq(Byte)
    <2>1. starts[k] \in 1 .. Len(l) + 1 BY <1>4
    <2>2. end(starts[k]) \in starts[k] .. Len(l) + 1 BY <1>5, <2>1
    <2> DEFINE a == starts[k]  e == end(a)
    <2>3. a \in 1 .. Len(l) + 1 /\ e \in a .. Len(l) + 1 BY <2>1, <2>2
    <2>4. token(k) = SubSeq(l, a, e - 1) OBVIOUS
    <2> HIDE DEF a, e
    <2>5. SubSeq(l, a, e - 1) \in Seq(Byte) BY <1>0, <2>3
    <2> QED BY <2>4, <2>5
  <1> HIDE DEF token
  <1>7. DOMAIN starts = 1 .. Len(starts) /\ Len(starts) \in Nat BY <1>4
  <1>8. Tokenize(l) \in [1 .. Len(starts) -> Seq(Byte)] BY <1>1, <1>6, <1>7
  <1> QED BY <1>4, <1>7, <1>8

\* A command line of the shell is a string, and so are its arguments.
LEMMA LinesTyped ==
  ASSUME NEW l \in Lines
  PROVE  l \in Seq(Byte) /\ Tokens[l] \in Seq(Seq(Byte)) /\ Len(Tokens[l]) > 0
         /\ Tokens[l] = Tokenize(l)
  <1>1. PICK n \in 0 .. CommandLen - 1 : l \in [1 .. n -> CommandChars] BY DEF Lines
  <1>2. n \in Nat BY SizesAssumption
  <1>3. l \in [1 .. n -> Byte] BY <1>1, CharsAssumption
  <1>4. l \in Seq(Byte) BY <1>2, <1>3
  <1>5. Tokens[l] = Tokenize(l) BY DEF Tokens
  <1> QED BY <1>4, <1>5, TokenizeTyped

\* The starts of the arguments up to position i of a plain line: 1 counts as
\* one until the first character is seen, and also if that is a separator.
StartsTo(l, i) ==
    IF i = 0 \/ 1 \in Separators(l) THEN <<1>> \o InOrder(Firsts(l), i) ELSE InOrder(Firsts(l), i)

\* What the loop of console_tokenize has done up to position i of a plain line
ScannedTo(l, s, i) ==
    /\ s.zeros = {j \in Separators(l) : j <= i}
    /\ s.spaces <=> i \in Separators(l)
    /\ s.spaces => ~s.escape
    /\ ~s.spaces => (s.escape <=> (i # 0 /\ l[i] = "CARET"))
    /\ Append(s.argv, s.start) = StartsTo(l, i)

\* A start more goes to the end.
LEMMA StartsToStep ==
  ASSUME NEW l \in Seq(Byte), NEW i \in 1 .. Len(l)
  PROVE  /\ StartsTo(l, 0) = <<1>>
         /\ i \in Firsts(l) /\ i # 1 => StartsTo(l, i) = Append(StartsTo(l, i - 1), i)
         /\ i \notin Firsts(l) /\ i # 1 => StartsTo(l, i) = StartsTo(l, i - 1)
         /\ StartsTo(l, 1) = <<1>>
  <1> DEFINE F == Firsts(l)  j == i - 1  A == InOrder(F, j)
  <1>1. j \in Nat /\ j + 1 = i OBVIOUS
  <1>2. InOrder(F, 0) = << >> BY InOrderRecursion
  <1>3. InOrder(F, i) = (IF i \in F THEN Append(A, i) ELSE A) /\ A \in Seq(Nat)
    <2> HIDE DEF j
    <2> QED BY <1>1, InOrderRecursion
  <1>4. InOrder(F, 1) = IF 1 \in F THEN <<1>> ELSE << >>
    <2>1. 0 \in Nat /\ 0 + 1 = 1 OBVIOUS
    <2>2. InOrder(F, 0 + 1) = IF 0 + 1 \in F THEN Append(InOrder(F, 0), 0 + 1) ELSE InOrder(F, 0)
      BY <2>1, InOrderRecursion
    <2>3. Append(<< >>, 1) = <<1>> OBVIOUS
    <2> QED BY <1>2, <2>1, <2>2, <2>3
  <1>5. 1 \in F <=> 1 \notin Separators(l)
    <2>1. 1 \in DOMAIN l OBVIOUS
    <2> QED BY <2>1 DEF Firsts
  <1>6. <<1>> \in Seq(Nat) /\ <<1>> \o << >> = <<1>> OBVIOUS
  <1>7. StartsTo(l, 0) = <<1>> BY <1>2, <1>6 DEF StartsTo
  <1>8. StartsTo(l, 1) = <<1>>
    <2>1. StartsTo(l, 1) = IF 1 \in Separators(l) THEN <<1>> \o InOrder(F, 1) ELSE InOrder(F, 1)
      BY DEF StartsTo
    <2> HIDE DEF F
    <2>2. CASE 1 \in Separators(l)
      <3>1. InOrder(F, 1) = << >> BY <1>4, <1>5, <2>2
      <3> QED BY <1>6, <2>1, <2>2, <3>1
    <2>3. CASE 1 \notin Separators(l)
      BY <1>4, <1>5, <2>1, <2>3
    <2> QED BY <2>2, <2>3
  <1>9. ASSUME i # 1
        PROVE  /\ i \in F => StartsTo(l, i) = Append(StartsTo(l, j), i)
               /\ i \notin F => StartsTo(l, i) = StartsTo(l, j)
    <2>1. j # 0 /\ i # 0 BY <1>9
    <2>2. <<1>> \o Append(A, i) = Append(<<1>> \o A, i)
      <3> DEFINE o == <<1>>
      <3>1. o \in Seq(Nat) /\ A \in Seq(Nat) /\ i \in Nat BY <1>3
      <3> HIDE DEF o, A
      <3>2. o \o A \in Seq(Nat) /\ <<i>> \in Seq(Nat) BY <3>1
      <3>5. Append(A, i) = A \o <<i>> BY <3>1, AppendIsConcat
      <3>3. Append(o \o A, i) = (o \o A) \o <<i>> BY <3>1, <3>2, AppendIsConcat
      <3>4. (o \o A) \o <<i>> = o \o (A \o <<i>>) BY <3>1, <3>2, ConcatAssociative
      <3> QED BY <3>3, <3>4, <3>5 DEF o
    <2> QED BY <1>3, <2>1, <2>2 DEF StartsTo
  <1> QED BY <1>7, <1>8, <1>9

\* One character.
LEMMA ScanPlainStep ==
  ASSUME NEW l \in Seq(Byte), Plain(l), NEW i \in 1 .. Len(l), NEW s \in ScanState(l),
         ScannedTo(l, s, i - 1)
  PROVE  ScannedTo(l, Scan(l, s, i), i)
  <1> DEFINE S == Separators(l)  F == Firsts(l)  a == l[i]  b == l[i - 1]
             X == StartsTo(l, i)  Y == StartsTo(l, i - 1)
             Z == {j \in S : j <= i}  W == {j \in S : j <= i - 1}
             last == Append(s.argv, s.start)
             r == Scan(l, s, i)
  <1> SUFFICES ScannedTo(l, r, i)
    OBVIOUS
  <1>1. /\ i \in DOMAIN l /\ i - 1 \in Nat /\ i # 0
        /\ i # 1 => i - 1 \in DOMAIN l /\ i - 1 # 0
        /\ i = 1 => i - 1 = 0
    OBVIOUS
  <1>2. 0 \notin S BY DEF Separators
  <1>3. i \in S <=> a = "SP" /\ (i = 1 \/ b # "CARET") BY <1>1 DEF Separators
  <1>4. i - 1 \in S => b = "SP" BY DEF Separators
  <1>5. a = "CARET" => i - 1 \notin S BY <1>1 DEF Plain
  <1>6. i \in F <=> i \notin S /\ (i - 1 \in S \/ i = 1) BY <1>1 DEF Firsts
  <1>7. /\ s.zeros = W /\ (s.spaces <=> i - 1 \in S) /\ (s.spaces => ~s.escape)
        /\ ~s.spaces => (s.escape <=> (i # 1 /\ b = "CARET"))
        /\ last = Y
    BY <1>1 DEF ScannedTo
  <1>8. (i \notin S => Z = W) /\ (i \in S => Z = W \cup {i})
    <2>1. \A j \in S : j \in Nat BY DEF Separators
    <2>2. \A j \in S : j <= i <=> j <= i - 1 \/ j = i BY <2>1
    <2> HIDE DEF S
    <2> QED BY <2>2
  <1>9. /\ i \in F /\ i # 1 => X = Append(Y, i)
        /\ i \notin F /\ i # 1 => X = Y
        /\ i = 1 => X = Y
    BY <1>1, StartsToStep
  <1>10. r = IF s.spaces
               THEN IF a = "SP" THEN [s EXCEPT !.zeros = s.zeros \cup {i}]
                    ELSE [s EXCEPT !.argv = last, !.start = i, !.spaces = FALSE]
             ELSE IF a = "CARET" THEN [s EXCEPT !.escape = TRUE]
             ELSE IF s.escape THEN [s EXCEPT !.escape = FALSE]
             ELSE IF a = "SP" THEN [s EXCEPT !.spaces = TRUE, !.zeros = s.zeros \cup {i}]
             ELSE s
    BY DEF Scan, ScanState
  <1>11. ScannedTo(l, r, i) <=>
            /\ r.zeros = Z /\ (r.spaces <=> i \in S) /\ (r.spaces => ~r.escape)
            /\ ~r.spaces => (r.escape <=> (i # 0 /\ a = "CARET"))
            /\ Append(r.argv, r.start) = X
    BY DEF ScannedTo
  <1> HIDE DEF r, S, F, a, b, X, Y, Z, W
  <1>12. CASE s.spaces /\ a = "SP"
    <2>1. /\ r.zeros = s.zeros \cup {i} /\ r.spaces = s.spaces /\ r.escape = s.escape
          /\ r.argv = s.argv /\ r.start = s.start
      BY <1>10, <1>12 DEF ScanState
    <2>2. i \in S /\ i # 1 /\ i \notin F BY <1>1, <1>2, <1>3, <1>4, <1>6, <1>7, <1>12
    <2> QED BY <1>7, <1>8, <1>9, <1>11, <1>12, <2>1, <2>2
  <1>13. CASE s.spaces /\ a # "SP"
    <2>1. /\ r.zeros = s.zeros /\ r.spaces = FALSE /\ r.escape = s.escape
          /\ r.argv = last /\ r.start = i
      BY <1>10, <1>13 DEF ScanState
    <2>2. i \notin S /\ i # 1 /\ i \in F /\ a # "CARET" BY <1>1, <1>2, <1>3, <1>5, <1>6, <1>7, <1>13
    <2> QED BY <1>7, <1>8, <1>9, <1>11, <1>13, <2>1, <2>2
  <1>14. CASE ~s.spaces /\ a = "CARET"
    <2>1. /\ r.zeros = s.zeros /\ r.spaces = s.spaces /\ r.escape = TRUE
          /\ r.argv = s.argv /\ r.start = s.start
      BY <1>10, <1>14 DEF ScanState
    <2>2. i \notin S /\ (i # 1 => i \notin F) BY <1>3, <1>6, <1>7, <1>14
    <2> QED BY <1>1, <1>7, <1>8, <1>9, <1>11, <1>14, <2>1, <2>2
  <1>15. CASE ~s.spaces /\ a # "CARET" /\ s.escape
    <2>1. /\ r.zeros = s.zeros /\ r.spaces = s.spaces /\ r.escape = FALSE
          /\ r.argv = s.argv /\ r.start = s.start
      BY <1>10, <1>15 DEF ScanState
    <2>2. i # 1 /\ i \notin S /\ i \notin F BY <1>3, <1>6, <1>7, <1>15
    <2> QED BY <1>7, <1>8, <1>9, <1>11, <1>15, <2>1, <2>2
  <1>16. CASE ~s.spaces /\ a = "SP" /\ ~s.escape
    <2>1. /\ r.zeros = s.zeros \cup {i} /\ r.spaces = TRUE /\ r.escape = s.escape
          /\ r.argv = s.argv /\ r.start = s.start
      BY <1>10, <1>16 DEF ScanState
    <2>2. i \in S /\ i \notin F BY <1>3, <1>6, <1>7, <1>16
    <2> QED BY <1>7, <1>8, <1>9, <1>11, <1>16, <2>1, <2>2
  <1>17. CASE ~s.spaces /\ a # "SP" /\ a # "CARET" /\ ~s.escape
    <2>1. r = s BY <1>10, <1>17
    <2>2. i \notin S /\ (i # 1 => i \notin F) BY <1>3, <1>6, <1>7, <1>17
    <2> QED BY <1>7, <1>8, <1>9, <1>11, <1>17, <2>1, <2>2
  <1> QED BY <1>12, <1>13, <1>14, <1>15, <1>16, <1>17

\* The whole line.
LEMMA ScansPlain ==
  ASSUME NEW l \in Seq(Byte), Plain(l)
  PROVE  ScannedTo(l, Scans(l)[Len(l)], Len(l))
  <1> DEFINE f == Scans(l)
             bad == {j \in 0 .. Len(l) : ~ScannedTo(l, f[j], j)}
  <1>0. Len(l) \in Nat OBVIOUS
  <1>1. f[0] = ScanStart /\ \A j \in 1 .. Len(l) : f[j] = Scan(l, f[j - 1], j)
    BY ScansRecursion
  <1>2. \A j \in 0 .. Len(l) : f[j] \in ScanState(l) BY ScansRecursion
  <1> HIDE DEF f
  <1>3. ScannedTo(l, f[0], 0)
    <2>1. 0 \notin Separators(l) /\ (\A j \in Separators(l) : j \in Nat /\ j # 0) BY DEF Separators
    <2>2. {j \in Separators(l) : j <= 0} = {} BY <2>1
    <2>3. StartsTo(l, 0) = <<1>>
      <3>1. InOrder(Firsts(l), 0) = << >> BY InOrderRecursion
      <3>2. <<1>> \o << >> = <<1>> OBVIOUS
      <3> QED BY <3>1, <3>2 DEF StartsTo
    <2>4. Append(<< >>, 1) = <<1>> OBVIOUS
    <2> QED BY <1>1, <2>1, <2>2, <2>3, <2>4 DEF ScannedTo, ScanStart
  <1> SUFFICES ASSUME bad # {} PROVE FALSE
    <2>1. Len(l) \notin bad => ScannedTo(l, f[Len(l)], Len(l)) BY <1>0
    <2> QED BY <2>1 DEF f
  <1>4. PICK m \in bad : \A y \in bad : m <= y
    <2>1. bad \subseteq Nat OBVIOUS
    <2> QED BY <2>1, NatMin
  <1>5. m \in 0 .. Len(l) /\ ~ScannedTo(l, f[m], m) OBVIOUS
  <1>6. m # 0 BY <1>3, <1>5
  <1>7. m \in 1 .. Len(l) /\ m - 1 \in 0 .. Len(l) /\ ~(m <= m - 1) BY <1>5, <1>6
  <1>8. ScannedTo(l, f[m - 1], m - 1) BY <1>4, <1>7
  <1>9. f[m] = Scan(l, f[m - 1], m) /\ f[m - 1] \in ScanState(l) BY <1>1, <1>2, <1>7
  <1> QED BY <1>5, <1>7, <1>8, <1>9, ScanPlainStep

\* What Tokenize takes for the end of an argument, on a plain line
EndOf(l, a) == CHOOSE e \in a .. Len(l) + 1 :
                  /\ e = Len(l) + 1 \/ e \in Separators(l)
                  /\ \A j \in a .. e - 1 : j \notin Separators(l)

\* An argument ends before the next separator.
LEMMA EndIsLast ==
  ASSUME NEW l \in Seq(Byte), NEW a \in 1 .. Len(l) + 1
  PROVE  /\ EndOf(l, a) \in a .. Len(l) + 1
         /\ a \in Separators(l) \cup {Len(l) + 1} => EndOf(l, a) = a
         /\ a \in Firsts(l) => LastOf(l, a) = EndOf(l, a) - 1 /\ LastOf(l, a) \in a .. Len(l)
  <1> DEFINE n == Len(l)  S == Separators(l)
             is(e) == (e = n + 1 \/ e \in S) /\ \A j \in a .. e - 1 : j \notin S
             T == {e \in a .. n + 1 : e = n + 1 \/ e \in S}
             last(e) == a .. e \cap S = {} /\ e + 1 \in S \cup {n + 1}
  <1>1. n \in Nat /\ S \subseteq 1 .. n /\ a \in Nat BY DEF Separators
  <1>2. \E e \in a .. n + 1 : is(e)
    <2>1. T \subseteq Nat BY <1>1
    <2>2. n + 1 \in T BY <1>1
    <2>3. PICK e \in T : \A y \in T : e <= y BY <2>1, <2>2, NatMin
    <2>4. e \in a .. n + 1 /\ (e = n + 1 \/ e \in S) OBVIOUS
    <2>5. ASSUME NEW j \in a .. e - 1 PROVE j \notin S
      <3>1. j \in a .. n + 1 /\ ~(e <= j) BY <1>1, <2>4
      <3> QED BY <2>3, <3>1
    <2> QED BY <2>4, <2>5
  <1> DEFINE e == EndOf(l, a)
  <1>3. e \in a .. n + 1 /\ is(e)
    <2>1. e = CHOOSE x \in a .. n + 1 : is(x) BY DEF EndOf
    <2> HIDE DEF is, e
    <2> QED BY <1>2, <2>1
  <1> HIDE DEF e
  <1>4. ASSUME a \in S \cup {n + 1} PROVE e = a
    <2>1. CASE a \in S
      <3>1. ~(a <= e - 1) BY <1>1, <1>3, <2>1
      <3> QED BY <1>1, <1>3, <3>1
    <2>2. CASE a = n + 1 BY <1>1, <1>3, <2>2
    <2> QED BY <1>4, <2>1, <2>2
  <1>5. ASSUME a \in Firsts(l) PROVE LastOf(l, a) = e - 1 /\ LastOf(l, a) \in a .. n
    <2>1. a \in 1 .. n /\ a \notin S BY <1>5 DEF Firsts
    <2>2. e # a BY <1>1, <1>3, <2>1
    <2>3. e - 1 \in a .. n /\ (e - 1) + 1 = e BY <1>1, <1>3, <2>1, <2>2
    <2>4. last(e - 1) BY <1>3, <2>3
    <2>5. ASSUME NEW x \in a .. n, last(x) PROVE x = e - 1
      <3>1. x + 1 \in a .. n + 1 /\ (x + 1 = n + 1 \/ x + 1 \in S) /\ \A j \in a .. x : j \notin S
        BY <1>1, <2>5
      <3>2. CASE x + 1 < e
        <4>1. x + 1 \in a .. e - 1 BY <1>1, <1>3, <3>1, <3>2
        <4>2. x + 1 \notin S /\ x + 1 # n + 1 BY <1>1, <1>3, <3>2, <4>1
        <4> QED BY <3>1, <4>2
      <3>3. CASE x + 1 > e
        <4>1. e \in a .. x /\ e # n + 1 BY <1>1, <1>3, <3>3
        <4> QED BY <1>3, <3>1, <4>1
      <3> QED BY <1>1, <1>3, <3>2, <3>3
    <2>6. LastOf(l, a) = CHOOSE x \in a .. n : last(x) BY DEF LastOf
    <2> HIDE DEF last
    <2> QED BY <2>3, <2>4, <2>5, <2>6
  <1> QED BY <1>3, <1>4, <1>5 DEF e

\* A sequence with an element in front.
LEMMA InFront ==
  ASSUME NEW V, NEW x \in V, NEW t \in Seq(V), NEW r, r = <<x>> \o t
  PROVE  /\ r = [i \in 1 .. 1 + Len(t) |-> r[i]] /\ r[1] = x
         /\ \A i \in 1 .. Len(t) : r[i + 1] = t[i]
  <1> DEFINE o == <<x>>
  <1>0. r = o \o t OBVIOUS
  <1>1. o \in Seq(V) /\ Len(o) = 1 /\ o[1] = x /\ Len(t) \in Nat OBVIOUS
  <1> HIDE DEF o
  <1>2. /\ r \in Seq(V) /\ Len(r) = Len(o) + Len(t)
        /\ \A i \in 1 .. Len(o) + Len(t) : r[i] = IF i <= Len(o) THEN o[i] ELSE t[i - Len(o)]
    <2>1. /\ o \o t \in Seq(V) /\ Len(o \o t) = Len(o) + Len(t)
          /\ \A i \in 1 .. Len(o) + Len(t) : (o \o t)[i] = IF i <= Len(o) THEN o[i] ELSE t[i - Len(o)]
      BY <1>1, ConcatProperties
    <2> QED BY <1>0, <2>1
  <1>3. r = [i \in 1 .. 1 + Len(t) |-> r[i]] BY <1>1, <1>2
  <1>4. r[1] = x BY <1>1, <1>2
  <1>5. ASSUME NEW i \in 1 .. Len(t) PROVE r[i + 1] = t[i]
    <2>1. i + 1 \in 1 .. Len(o) + Len(t) /\ ~(i + 1 <= Len(o)) /\ (i + 1) - Len(o) = i BY <1>1
    <2> QED BY <1>2, <2>1
  <1> QED BY <1>3, <1>4, <1>5

\* console_tokenize cuts a plain line into its arguments.
LEMMA TokenizePlain ==
  ASSUME NEW l \in Seq(Byte), Plain(l)
  PROVE  Tokenize(l) = Arguments(l)
  <1> DEFINE n == Len(l)  S == Separators(l)  F == Firsts(l)
             s == Scans(l)[n]
             starts == (IF s.spaces THEN Append(s.argv, s.start) ELSE s.argv) \o <<s.start>>
             token(a) == SubSeq(l, a, EndOf(l, a) - 1)
             from == InOrder(F, n)
             found == [k \in DOMAIN from |-> SubSeq(l, from[k], LastOf(l, from[k]))]
             empty == l = << >> \/ 1 \in S
  <1>0. n \in Nat /\ n \in 0 .. n /\ (n = 0 <=> l = << >>) OBVIOUS
  <1>1. s \in ScanState(l) BY <1>0, ScansRecursion
  <1>2. ScannedTo(l, s, n) BY ScansPlain
  <1>3. s.zeros = S /\ ~s.spaces /\ Append(s.argv, s.start) = StartsTo(l, n)
    <2>1. S \subseteq 1 .. n BY DEF Separators
    <2>2. {j \in S : j <= n} = S BY <2>1
    <2>3. n \notin S
      <3>1. CASE l = << >> BY <1>0, <2>1, <3>1
      <3>2. CASE l # << >> BY <3>2 DEF Plain
      <3> QED BY <3>1, <3>2
    <2> QED BY <1>2, <2>2, <2>3 DEF ScannedTo
  <1>4. Tokenize(l) = [k \in DOMAIN starts |-> token(starts[k])]
    <2>1. Tokenize(l) =
            [k \in DOMAIN starts |->
                SubSeq(l, starts[k],
                       (CHOOSE e \in starts[k] .. Len(l) + 1 :
                          /\ e = Len(l) + 1 \/ e \in s.zeros
                          /\ \A j \in starts[k] .. e - 1 : j \notin s.zeros) - 1)]
      BY DEF Tokenize
    <2> HIDE DEF s, starts
    <2> QED BY <1>3, <2>1 DEF EndOf
  <1>5. starts = StartsTo(l, n)
    <2>1. s.argv \in Seq(1 .. Len(l) + 1) /\ s.start \in 1 .. Len(l) + 1 BY <1>1 DEF ScanState
    <2>2. starts = s.argv \o <<s.start>> BY <1>3
    <2> HIDE DEF s, starts
    <2>3. Append(s.argv, s.start) = s.argv \o <<s.start>> BY <2>1, AppendIsConcat
    <2> QED BY <1>3, <2>2, <2>3
  <1>6. starts = IF empty THEN <<1>> \o from ELSE from
    BY <1>0, <1>5 DEF StartsTo
  <1>7. from \in Seq(F) /\ F \subseteq 1 .. n
    <2>1. F \subseteq 1 .. n BY DEF Firsts
    <2>2. F \cap (1 .. n) = F BY <2>1
    <2> HIDE DEF F
    <2> QED BY <1>0, <2>1, <2>2, InOrderTyped
  <1>8. ASSUME NEW a \in F PROVE token(a) = SubSeq(l, a, LastOf(l, a))
    <2>1. a \in 1 .. n + 1 BY <1>0, <1>7
    <2>2. LastOf(l, a) = EndOf(l, a) - 1 BY <2>1, EndIsLast
    <2> QED BY <2>2
  <1>9. empty => token(1) = << >>
    <2> SUFFICES ASSUME empty PROVE token(1) = << >> OBVIOUS
    <2>1. 1 \in 1 .. n + 1 /\ 1 \in S \cup {n + 1} BY <1>0
    <2>2. EndOf(l, 1) = 1 BY <2>1, EndIsLast
    <2> QED BY <2>2, SubSeqEmpty
  <1>10. Arguments(l) = IF empty THEN << << >> >> \o found ELSE found BY DEF Arguments
  <1>11. found = [k \in DOMAIN from |-> token(from[k])]
    <2>1. \A k \in DOMAIN from : from[k] \in F
      <3> HIDE DEF from, F
      <3> QED BY <1>7
    <2> HIDE DEF from, F, token
    <2> QED BY <1>8, <2>1
  <1>12. DOMAIN from = 1 .. Len(from) /\ Len(from) \in Nat
    <2> HIDE DEF from, F
    <2> QED BY <1>7
  <1> HIDE DEF starts, from, token, F, S, found
  <1>13. CASE ~empty BY <1>4, <1>6, <1>10, <1>11, <1>13
  <1>14. CASE empty
    <2> DEFINE m == Len(from)
               V == {token(a) : a \in {1} \cup F}
               W == {1} \cup F
               r == <<1>> \o from
               c == token(1)
               q == <<c>> \o found
    <2>1. 1 \in W /\ from \in Seq(W) /\ m \in Nat BY <1>7, <1>12
    <2>2. c \in V /\ \A k \in 1 .. m : token(from[k]) \in V BY <1>7, <1>12
    <2>3. found \in Seq(V) /\ Len(found) = m
      <3> HIDE DEF V
      <3> QED BY <1>11, <1>12, <2>2
    <2> HIDE DEF V, W, c
    <2>a. r = <<1>> \o from /\ q = <<c>> \o found OBVIOUS
    <2> HIDE DEF r, q
    <2>4. /\ r = [i \in 1 .. 1 + m |-> r[i]] /\ r[1] = 1 /\ \A i \in 1 .. m : r[i + 1] = from[i]
      BY <2>1, <2>a, InFront
    <2>5. /\ q = [i \in 1 .. 1 + m |-> q[i]] /\ q[1] = c /\ \A i \in 1 .. m : q[i + 1] = found[i]
      <3>1. /\ q = [i \in 1 .. 1 + Len(found) |-> q[i]] /\ q[1] = c
            /\ \A i \in 1 .. Len(found) : q[i + 1] = found[i]
        BY <2>2, <2>3, <2>a, InFront
      <3> QED BY <2>3, <3>1
    <2>6. starts = r /\ Arguments(l) = q BY <1>6, <1>9, <1>10, <1>14, <2>a DEF c
    <2>7. ASSUME NEW i \in 1 .. 1 + m PROVE token(r[i]) = q[i]
      <3>1. CASE i = 1 BY <2>4, <2>5, <3>1 DEF c
      <3>2. CASE i # 1
        <4> DEFINE k == i - 1
        <4>1. k \in 1 .. m /\ i = k + 1 BY <2>1, <3>2
        <4> HIDE DEF k
        <4>2. r[i] = from[k] /\ q[i] = found[k] BY <2>4, <2>5, <4>1
        <4>3. found[k] = token(from[k]) BY <1>11, <1>12, <4>1
        <4> QED BY <4>2, <4>3
      <3> QED BY <3>1, <3>2
    <2>8. DOMAIN r = 1 .. 1 + m BY <2>4
    <2>9. [i \in 1 .. 1 + m |-> token(r[i])] = [i \in 1 .. 1 + m |-> q[i]] BY <2>7
    <2> QED BY <1>4, <2>5, <2>6, <2>8, <2>9
  <1> QED BY <1>13, <1>14

\* What a terminator ends is a string.
LEMMA CharsTyped ==
  ASSUME NEW s \in Seq(Byte)
  PROVE  Chars(s) \in Seq(Byte)
  <1> DEFINE I == {i \in 1 .. Len(s) : s[i] = "NUL"}
             m == CHOOSE x \in I : \A y \in I : x <= y
  <1>0. Len(s) \in Nat /\ DOMAIN s = 1 .. Len(s) OBVIOUS
  <1>1. CASE I = {}
    <2>1. ~ \E i \in DOMAIN s : s[i] = "NUL" BY <1>0, <1>1
    <2>2. Chars(s) = s BY <2>1, Zenon DEF Chars
    <2> QED BY <2>2
  <1>2. CASE I # {}
    <2>1. \E i \in DOMAIN s : s[i] = "NUL" BY <1>0, <1>2
    <2>2. Chars(s) = SubSeq(s, 1, m - 1) BY <1>2, <2>1 DEF Chars, SelectInSeq, Min
    <2>3. I \subseteq Nat OBVIOUS
    <2>4. \E x \in I : \A y \in I : x <= y BY <1>2, <2>3, NatMin
    <2>5. m \in I BY <2>4
    <2>6. m \in 1 .. Len(s) BY <2>5
    <2> HIDE DEF m
    <2> QED BY <1>0, <2>2, <2>6
  <1> QED BY <1>1, <1>2

-----------------------------------------------------------------------------
\* A parser whose buffer has one of the sizes it grows through, and is filled
\* no further than that.
Buffers == {t \in Parser : /\ \E i \in DOMAIN BufferSizes : BufferSizes[i] = t.size
                           /\ t.pos <= t.size}

\* What one call of telnet_recv may return.
Results == [telnet : Buffers, data : BOOLEAN, nego : {<< >>} \cup (Negotiation \X Byte),
            fail : BOOLEAN]

\* The parser when it starts,
LEMMA FreshTyped ==
  ASSUME NEW t \in Buffers
  PROVE  FreshParser \in Buffers /\ [FreshParser EXCEPT !.size = t.size] \in Buffers
  <1>1. 0 \in Nat /\ "DATA" \in ParserState /\ "none" \in Byte \cup {"none"} BY DEF ParserState
  <1>2. t.size \in Nat BY DEF Buffers, Parser
  <1>3. FreshParser \in Parser BY <1>1 DEF FreshParser, Parser
  <1>4. [FreshParser EXCEPT !.size = t.size] = [state |-> "DATA", telopt |-> "none", size |-> t.size, pos |-> 0]
    BY DEF FreshParser
  <1>5. [FreshParser EXCEPT !.size = t.size] \in Parser BY <1>1, <1>2, <1>4 DEF Parser
  <1>6. 1 \in DOMAIN BufferSizes /\ BufferSizes[1] = 0 BY BufferSizesAssumption
  <1>7. FreshParser.size = 0 /\ FreshParser.pos = 0 BY DEF FreshParser
  <1>8. \E i \in DOMAIN BufferSizes : BufferSizes[i] = t.size BY DEF Buffers
  <1> QED BY <1>2, <1>3, <1>4, <1>5, <1>6, <1>7, <1>8 DEF Buffers

\* in another state,
LEMMA InStateTyped ==
  ASSUME NEW t \in Buffers, NEW s \in ParserState
  PROVE  InState(t, s) \in Buffers /\ InState(t, s).pos = t.pos /\ InState(t, s).size = t.size
         /\ InState(t, s).state = s /\ InState(t, s).telopt = t.telopt
  BY DEF InState, Buffers, Parser

\* what a byte of it results in,
LEMMA ResultTyped ==
  ASSUME NEW t \in Buffers, NEW d \in BOOLEAN, NEW n \in {<< >>} \cup (Negotiation \X Byte),
         NEW f \in BOOLEAN
  PROVE  Result(t, d, n, f) \in Results
  BY DEF Result, Results

\* and a byte that results in nothing else.
LEMMA QuietlyTyped ==
  ASSUME NEW t \in Buffers
  PROVE  Quietly(t) \in Results
  <1>1. << >> \in {<< >>} \cup (Negotiation \X Byte) OBVIOUS
  <1> QED BY <1>1, ResultTyped DEF Quietly

\* _buffer_byte: the buffer grows to its next size when it is full.
LEMMA BufferByteTyped ==
  ASSUME NEW t \in Buffers, NEW mem \in BOOLEAN
  PROVE  BufferByte(t, mem) \in Results
  <1>0. "DATA" \in ParserState /\ "SB_DATA" \in ParserState BY DEF ParserState
  <1>1. CASE BufferFails(t, mem)
    <2>1. InState(t, "DATA") \in Buffers BY <1>0, InStateTyped
    <2>2. << >> \in {<< >>} \cup (Negotiation \X Byte) OBVIOUS
    <2>3. Result(InState(t, "DATA"), FALSE, << >>, TRUE) \in Results
      BY <2>1, <2>2, ResultTyped
    <2> QED BY <1>1, <2>3 DEF BufferByte
  <1>2. CASE ~BufferFails(t, mem)
    <2> DEFINE n == SizeIndex(t)
               size == IF t.pos = t.size THEN BufferSizes[n + 1] ELSE t.size
    <2>1. n \in DOMAIN BufferSizes /\ BufferSizes[n] = t.size BY DEF SizeIndex, Buffers
    <2>2. t.pos \in Nat /\ t.size \in Nat /\ t.pos <= t.size BY DEF Buffers, Parser
    <2>3. t.pos = t.size => n # Len(BufferSizes) BY <1>2 DEF BufferFails
    <2> HIDE DEF n
    <2>4. t.pos = t.size => n + 1 \in DOMAIN BufferSizes /\ BufferSizes[n + 1] > t.size
      BY <2>1, <2>3, BufferSizesAssumption
    <2>5. /\ size \in Nat /\ t.pos + 1 <= size
          /\ \E i \in DOMAIN BufferSizes : BufferSizes[i] = size
      BY <2>1, <2>2, <2>4, BufferSizesAssumption
    <2>6. Buffered(t) = [t EXCEPT !.pos = t.pos + 1, !.size = size]
      BY DEF Buffered, n, Buffers, Parser
    <2> HIDE DEF size
    <2>7. Buffered(t) \in Buffers
      <3> DEFINE p == t.pos + 1
      <3>1. p \in Nat /\ p <= size BY <2>2, <2>5
      <3> HIDE DEF p
      <3>2. t \in Parser BY DEF Buffers
      <3>3. [t EXCEPT !.pos = p, !.size = size] \in Parser BY <2>5, <3>1, <3>2 DEF Parser
      <3>4. /\ [t EXCEPT !.pos = p, !.size = size].pos = p
            /\ [t EXCEPT !.pos = p, !.size = size].size = size
        BY <3>2 DEF Parser
      <3>5. [t EXCEPT !.pos = p, !.size = size] \in Buffers BY <2>5, <3>1, <3>3, <3>4 DEF Buffers
      <3> QED BY <2>6, <3>5 DEF p
    <2>8. InState(Buffered(t), "SB_DATA") \in Buffers BY <1>0, <2>7, InStateTyped
    <2> QED BY <1>2, <2>8, QuietlyTyped DEF BufferByte
  <1> QED BY <1>1, <1>2

\* The byte after IAC chooses the next state.
LEMMA OnIACTyped ==
  ASSUME NEW t \in Buffers, NEW b \in Byte
  PROVE  OnIAC(t, b) \in Results
  <1>1. /\ "DATA" \in ParserState /\ "SB" \in ParserState
        /\ b \in Negotiation => b \in ParserState
    BY DEF ParserState
  <1>2. << >> \in {<< >>} \cup (Negotiation \X Byte) OBVIOUS
  <1>3. Quietly(InState(t, "SB")) \in Results BY <1>1, InStateTyped, QuietlyTyped
  <1>4. b \in Negotiation => Quietly(InState(t, b)) \in Results BY <1>1, InStateTyped, QuietlyTyped
  <1>5. Result(InState(t, "DATA"), b = "IAC", << >>, FALSE) \in Results
    BY <1>1, <1>2, InStateTyped, ResultTyped
  <1> QED BY <1>3, <1>4, <1>5 DEF OnIAC

\* The parser, state by state.
LEMMA ProcessTyped ==
  ASSUME NEW t \in Buffers, NEW b \in Byte, NEW r \in Process(t, b)
  PROVE  r \in Results
  <1>0. << >> \in {<< >>} \cup (Negotiation \X Byte) OBVIOUS
  <1>1. t.state \in ParserState BY DEF Buffers, Parser
  <1>2. /\ "DATA" \in ParserState /\ "IAC" \in ParserState /\ "SB_DATA" \in ParserState
        /\ "SB_DATA_IAC" \in ParserState
    BY DEF ParserState
  <1>3. CASE t.state = "DATA"
    <2>1. OnData(t, b) \in Results
      BY <1>0, <1>2, InStateTyped, QuietlyTyped, ResultTyped DEF OnData
    <2>2. r = OnData(t, b) BY <1>3 DEF Process, Negotiation
    <2> QED BY <2>1, <2>2
  <1>4. CASE t.state = "IAC"
    <2>1. r = OnIAC(t, b) BY <1>4 DEF Process, Negotiation
    <2> QED BY <2>1, OnIACTyped
  <1>5. CASE t.state \in Negotiation
    <2>1. r = OnNegotiation(t, b) BY <1>5 DEF Process, Negotiation
    <2>2. <<t.state, b>> \in {<< >>} \cup (Negotiation \X Byte) BY <1>5
    <2>3. InState(t, "DATA") \in Buffers BY <1>2, InStateTyped
    <2> QED BY <2>1, <2>2, <2>3, ResultTyped DEF OnNegotiation
  <1>6. CASE t.state = "SB"
    <2>1. r = OnSB(t, b) BY <1>6 DEF Process, Negotiation
    <2>2. [t EXCEPT !.telopt = b, !.pos = 0, !.state = "SB_DATA"] \in Buffers
      <3> DEFINE u == [t EXCEPT !.telopt = b, !.pos = 0, !.state = "SB_DATA"]
      <3>1. t \in Parser /\ t.size \in Nat BY DEF Buffers, Parser
      <3>2. u \in Parser BY <1>2, <3>1 DEF Parser
      <3>3. u.pos = 0 /\ u.size = t.size BY <3>1 DEF Parser
      <3> HIDE DEF u
      <3>4. u \in Buffers BY <3>1, <3>2, <3>3 DEF Buffers
      <3> QED BY <3>4 DEF u
    <2> QED BY <2>1, <2>2, QuietlyTyped DEF OnSB
  <1>7. CASE t.state = "SB_DATA"
    <2>1. PICK mem \in BOOLEAN : r = OnSBData(t, b, mem) BY <1>7 DEF Process, Negotiation
    <2>2. Quietly(InState(t, "SB_DATA_IAC")) \in Results BY <1>2, InStateTyped, QuietlyTyped
    <2>3. Result(InState(t, "DATA"), TRUE, << >>, FALSE) \in Results
      BY <1>0, <1>2, InStateTyped, ResultTyped
    <2>4. BufferByte(t, mem) \in Results BY BufferByteTyped
    <2> QED BY <2>1, <2>2, <2>3, <2>4 DEF OnSBData
  <1>8. CASE t.state = "SB_DATA_IAC"
    <2>1. PICK mem \in BOOLEAN, ret \in Subnegotiate(t) : r = OnSBDataIAC(t, b, mem, ret)
      BY <1>8 DEF Process, Negotiation
    <2>2. Quietly(InState(t, "DATA")) \in Results /\ Quietly(InState(t, "IAC")) \in Results
      BY <1>2, InStateTyped, QuietlyTyped
    <2>3. OnIAC(InState(t, "IAC"), b) \in Results BY <1>2, InStateTyped, OnIACTyped
    <2>4. BufferByte(t, mem) \in Results BY BufferByteTyped
    <2> QED BY <2>1, <2>2, <2>3, <2>4 DEF OnSBDataIAC
  <1> QED BY <1>1, <1>3, <1>4, <1>5, <1>6, <1>7, <1>8 DEF ParserState

-----------------------------------------------------------------------------
(***************************************************************************)
(* The invariant.  A character is stored only while the line has room: off *)
(* reaches the end of the buffer only in the step that ends the line.      *)
(***************************************************************************)
ParserInv ==
    /\ telnet \in Buffers /\ rx \in String /\ gaveUp \subseteq 1 .. Len(rx) /\ typed \in String
    /\ negos \in Seq(Negotiation \X Byte)

LineInv ==
    /\ line \in [1 .. UserLen -> Byte] /\ off \in 0 .. UserLen
    /\ pc # "logged_on" => off < UserLen

SessionInv ==
    /\ pc \in Pc /\ next_app \in App /\ argv \in Seq(String) /\ cmdline \in String
    /\ rc \in {0, -1} /\ commands \in 0 .. MaxCommands
    /\ argv # << >> /\ Len(Tokenize(cmdline)) <= MaxArgv => argv = Tokenize(cmdline)

EnvInv == env \in List /\ Len(env) <= MaxNodes

IInv == ParserInv /\ LineInv /\ SessionInv /\ EnvInv /\ LastExitCode

\* A string is a text.
LEMMA StringIsText ==
  ASSUME NEW s \in String
  PROVE  s \in Text
  BY DEF String, Text, Char

\* The names the session sets itself are texts.
LEMMA NamesAreTexts ==
  EnvUser \in Text /\ EnvError \in Text /\ \A r \in {0, -1} : ExitCode[r] \in Text
  BY CharsAssumption DEF Text, Char

\* console_setenv keeps the list and is an operation of the map.
LEMMA CallSetEnvStep ==
  ASSUME EnvInv, NEW n \in Text, NEW v \in Text, CallSetEnv(n, v)
  PROVE  /\ EnvInv'
         /\ call'.rc \in {0, -1}
         /\ EnvMapInstance!Next
  <1>1. env \in List /\ Len(env) <= MaxNodes BY DEF EnvInv
  <1>2. /\ env' = SetEnv(env, n, v).env
        /\ call' = [op |-> "set", name |-> n, value |-> v, rc |-> SetEnv(env, n, v).rc]
    BY DEF CallSetEnv
  <1>3. EnvInv' BY <1>1, <1>2, SetEnvTyped DEF EnvInv
  <1>4. /\ call'.op = "set" /\ call'.name = n /\ call'.value = v
        /\ call'.rc = SetEnv(env, n, v).rc
    BY <1>2
  <1>5. call'.rc \in {0, -1} BY <1>1, <1>4, SetEnvTyped
  <1>6. EnvAsMap = MapOf(env) /\ EnvAsMap' = MapOf(env') BY DEF EnvAsMap, MapOf, Found
  <1>7. \/ /\ call'.rc = 0
           /\ EnvAsMap' =
                IF Len(n) < NameLen
                  THEN [m \in DOMAIN EnvAsMap \cup {n} |->
                          IF m = n THEN Field(v, ValueLen) ELSE EnvAsMap[m]]
                  ELSE EnvAsMap
        \/ /\ call'.rc # 0
           /\ Len(n) < NameLen => n \notin DOMAIN EnvAsMap
           /\ EnvAsMap' = EnvAsMap
    <2> DEFINE r == SetEnv(env, n, v)  m0 == MapOf(env)  m1 == MapOf(r.env)
    <2>1. \/ /\ r.rc = 0
             /\ m1 = IF Len(n) < NameLen
                       THEN [m \in DOMAIN m0 \cup {n} |-> IF m = n THEN Field(v, ValueLen) ELSE m0[m]]
                       ELSE m0
          \/ /\ r.rc # 0
             /\ Len(n) < NameLen => n \notin DOMAIN m0
             /\ m1 = m0
      BY <1>1, SetEnvMap, Zenon
    <2>2. EnvAsMap = m0 /\ EnvAsMap' = m1 /\ call'.rc = r.rc BY <1>2, <1>4, <1>6, Zenon
    <2> HIDE DEF r, m0, m1
    <2> QED BY <2>1, <2>2
  <1> HIDE DEF EnvAsMap
  <1>8. EnvMapInstance!Assigned(call') \/ EnvMapInstance!Refused(call')
    BY <1>4, <1>7 DEF EnvMapInstance!Assigned, EnvMapInstance!Refused, EnvMapInstance!Fits,
                      EnvMapInstance!Kept, Field
  <1> QED BY <1>3, <1>5, <1>8 DEF EnvMapInstance!Next

\* console_getenv looks the name up in the map.
LEMMA CallGetEnvStep ==
  ASSUME EnvInv, NEW n \in Text, CallGetEnv(n)
  PROVE  EnvInv' /\ EnvMapInstance!Next
  <1>1. env \in List BY DEF EnvInv
  <1>2. /\ env' = env
        /\ Matches(env, n) # {} => call' = [op |-> "get", name |-> n, rc |-> 0, value |-> Found(env, n)]
        /\ Matches(env, n) = {} => call' = [op |-> "get", name |-> n, rc |-> -1]
    BY DEF CallGetEnv, Found
  <1>3. EnvInv' BY <1>2 DEF EnvInv
  <1>4. /\ call'.op = "get" /\ call'.name = n
        /\ Matches(env, n) # {} => call'.rc = 0 /\ call'.value = Found(env, n)
        /\ Matches(env, n) = {} => call'.rc # 0
    BY <1>2
  <1>5. EnvAsMap = MapOf(env) /\ EnvAsMap' = MapOf(env') BY DEF EnvAsMap, MapOf, Found
  <1>6. EnvAsMap' = EnvAsMap BY <1>2, <1>5
  <1>7. Len(n) < NameLen => (n \in DOMAIN EnvAsMap <=> Matches(env, n) # {})
    BY <1>1, <1>5, MapDomain
  <1>8. n \in DOMAIN EnvAsMap => EnvAsMap[n] = Found(env, n) BY <1>1, <1>5, MapValue
  <1> HIDE DEF EnvAsMap
  <1>9. EnvMapInstance!LookedUp(call')
    BY <1>4, <1>6, <1>7, <1>8 DEF EnvMapInstance!LookedUp, EnvMapInstance!Fits
  <1> QED BY <1>3, <1>9 DEF EnvMapInstance!Next

\* What the environment promises of a step
EnvStep == [EnvMapInstance!Next]_<<EnvAsMap, call>>

\* A step that leaves the environment and the last call alone is a stutter.
LEMMA EnvStutter ==
  ASSUME UNCHANGED <<env, call>>
  PROVE  EnvStep
  BY DEF EnvStep, EnvAsMap, Matches, FirstMatch, NameAsRead

\* A prompt starts afresh: the parser, the line and what was read are forgotten.
LEMMA ForgetLineStep ==
  ASSUME ParserInv, ForgetLine
  PROVE  ParserInv' /\ LineInv'
  <1>1. FreshParser \in Buffers /\ [FreshParser EXCEPT !.size = telnet.size] \in Buffers
    BY FreshTyped DEF ParserInv
  <1>2. telnet' \in Buffers BY <1>1 DEF ForgetLine, Forgotten, ParserInv
  <1>3. rx' = << >> /\ gaveUp' = {} /\ typed' = << >> /\ negos' = << >> /\ line' = EmptyLine /\ off' = 0
    BY DEF ForgetLine
  <1>4. ParserInv'
    <2>1. << >> \in Seq(Byte) /\ << >> \in Seq(Negotiation \X Byte) /\ {} \subseteq 1 .. Len(<< >>)
      OBVIOUS
    <2> QED BY <1>2, <1>3, <2>1 DEF ParserInv, String
  <1>5. UserLen \in Nat /\ UserLen > 0 BY SizesAssumption
  <1>6. "NUL" \in Byte /\ EmptyLine \in [1 .. UserLen -> Byte] BY DEF EmptyLine, Byte, Control
  <1>7. LineInv' BY <1>3, <1>5, <1>6 DEF LineInv
  <1> QED BY <1>4, <1>7

\* The shell forgets the arguments of its last command, an application keeps
\* those it was started with.
LEMMA ForgetArgumentsStep ==
  ASSUME SessionInv, ForgetArguments
  PROVE  /\ argv' \in Seq(String) /\ cmdline' \in String
         /\ argv' # << >> /\ Len(Tokenize(cmdline')) <= MaxArgv => argv' = Tokenize(cmdline')
  <1>1. CASE next_app = "shell"
    <2>1. argv' = << >> /\ cmdline' = << >> BY <1>1 DEF ForgetArguments
    <2> QED BY <2>1 DEF String
  <1>2. CASE next_app # "shell"
    BY <1>2 DEF ForgetArguments, SessionInv
  <1> QED BY <1>1, <1>2

\* A byte through the parser.
LEMMA GetByteStep ==
  ASSUME IInv, NEW b \in Byte, GetByte(b)
  PROVE  IInv' /\ EnvStep
  <1>1. /\ ParserInv /\ LineInv /\ SessionInv /\ EnvInv
        /\ pc = "getline" /\ rx' = Append(rx, b)
        /\ UNCHANGED <<next_app, argv, cmdline, env, call, commands>>
    BY DEF IInv, GetByte
  <1>2. PICK r \in Process(telnet, b) :
          /\ telnet' = r.telnet
          /\ gaveUp' = IF r.fail THEN gaveUp \cup {Len(rx')} ELSE gaveUp
          /\ typed' = IF r.data THEN Append(typed, b) ELSE typed
          /\ negos' = IF r.nego = << >> THEN negos ELSE Append(negos, r.nego)
          /\ IF r.data /\ ~Ignored(b) THEN Typed(b) \/ EchoFails ELSE ReadOn
    BY DEF GetByte
  <1>3. r \in Results BY <1>1, <1>2, ProcessTyped DEF ParserInv
  <1>4. r.telnet \in Buffers /\ r.nego \in {<< >>} \cup (Negotiation \X Byte) BY <1>3 DEF Results
  <1>5. ParserInv'
    <2>1. rx \in Seq(Byte) /\ typed \in Seq(Byte) /\ gaveUp \subseteq 1 .. Len(rx)
          /\ negos \in Seq(Negotiation \X Byte)
      BY <1>1 DEF ParserInv, String
    <2>2. rx' \in Seq(Byte) /\ Len(rx') = Len(rx) + 1 /\ Len(rx) \in Nat BY <1>1, <2>1
    <2>3. gaveUp' \subseteq 1 .. Len(rx')
      <3> DEFINE n == Len(rx)
      <3>1. n \in Nat /\ Len(rx') = n + 1 /\ gaveUp \subseteq 1 .. n BY <2>1, <2>2
      <3>2. gaveUp' = gaveUp \/ gaveUp' = gaveUp \cup {Len(rx')} BY <1>2
      <3> HIDE DEF n
      <3>3. gaveUp' = gaveUp \/ gaveUp' = gaveUp \cup {n + 1} BY <3>1, <3>2
      <3>4. gaveUp \subseteq 1 .. n + 1 /\ n + 1 \in 1 .. n + 1
        <4>1. 1 .. n \subseteq 1 .. n + 1 /\ n + 1 \in 1 .. n + 1 BY ONLY <3>1
        <4> QED BY <3>1, <4>1
      <3>5. gaveUp' \subseteq 1 .. n + 1
        <4> HIDE <1>1
        <4> QED BY ONLY <3>3, <3>4
      <3> QED BY <3>1, <3>5
    <2>4. typed' \in Seq(Byte) BY <1>2, <2>1
    <2>5. negos' \in Seq(Negotiation \X Byte) BY <1>2, <1>4, <2>1
    <2> QED BY <1>2, <1>4, <2>2, <2>3, <2>4, <2>5 DEF ParserInv, String
  <1>6. LineInv' /\ pc' \in Pc \ {"run"} /\ rc' \in {0, -1}
    <2>0. /\ line \in [1 .. UserLen -> Byte] /\ off \in 0 .. UserLen /\ off < UserLen
          /\ UserLen \in Nat /\ UserLen > 0 /\ rc \in {0, -1}
      BY <1>1, SizesAssumption DEF LineInv, SessionInv
    <2>1. CASE Typed(b) /\ ~Ignored(b)
      <3>1. Stored(b) /\ rc' = rc /\ pc' = IF b = "NL" \/ off' = UserLen THEN "logged_on" ELSE pc
        BY <2>1 DEF Typed
      <3>2. line' \in [1 .. UserLen -> Byte] /\ off' \in 0 .. UserLen
        <4>1. CASE b = "BS"
          <5>1. off # 0 BY <2>1, <4>1 DEF Ignored
          <5>2. off' = off - 1 /\ line' = line BY <3>1, <4>1 DEF Stored
          <5> QED BY <2>0, <5>1, <5>2
        <4>2. CASE b = "CR"
          BY <2>0, <3>1, <4>2 DEF Stored
        <4>3. CASE b \notin {"BS", "CR"}
          <5> DEFINE ch == IF b = "NL" THEN "NUL" ELSE b
          <5>1. ch \in Byte BY DEF Byte, Control
          <5>2. off' = off + 1 /\ line' = [line EXCEPT ![off + 1] = ch] BY <3>1, <4>3 DEF Stored
          <5> HIDE DEF ch
          <5> QED BY <2>0, <5>1, <5>2
        <4> QED BY <4>1, <4>2, <4>3
      <3>3. pc' \in {"logged_on", "getline"} /\ (pc' # "logged_on" => off' # UserLen)
        BY <1>1, <3>1
      <3>4. pc' # "logged_on" => off' < UserLen BY <2>0, <3>2, <3>3
      <3> QED BY <2>0, <3>1, <3>2, <3>3, <3>4 DEF LineInv, Pc
    <2>2. CASE EchoFails
      BY <1>1, <2>0, <2>2 DEF EchoFails, LineInv, Pc
    <2>3. CASE ReadOn
      BY <1>1, <2>0, <2>3 DEF ReadOn, LineInv, Pc
    <2> QED BY <1>2, <2>1, <2>2, <2>3
  <1>7. SessionInv' BY <1>1, <1>6 DEF SessionInv
  <1>8. EnvInv' BY <1>1 DEF EnvInv
  <1>9. LastExitCode' BY <1>6 DEF LastExitCode
  <1>10. EnvStep BY <1>1, EnvStutter
  <1> QED BY <1>5, <1>6, <1>7, <1>8, <1>9, <1>10 DEF IInv

\* A step of the session that neither reads input nor touches the environment.
LEMMA QuietStep ==
  ASSUME IInv, UNCHANGED <<inputVars, env, call>>, SessionInv',
         pc' \notin {"run", "logged_on"}, pc # "logged_on"
  PROVE  IInv' /\ EnvStep
  <1>1. ParserInv /\ LineInv /\ EnvInv BY DEF IInv
  <1>2. UNCHANGED <<telnet, rx, gaveUp, typed, negos, line, off, env, call>> BY DEF inputVars
  <1>3. ParserInv' BY <1>1, <1>2 DEF ParserInv
  <1>4. LineInv' BY <1>1, <1>2 DEF LineInv
  <1>5. EnvInv' BY <1>1, <1>2 DEF EnvInv
  <1>6. LastExitCode' BY DEF LastExitCode
  <1>7. EnvStep BY <1>2, EnvStutter
  <1> QED BY <1>3, <1>4, <1>5, <1>6, <1>7 DEF IInv

\* The logon sets USER to what was typed, which is a step of the map;
LEMMA LogonStep ==
  ASSUME IInv, Logon
  PROVE  IInv' /\ EnvStep
  <1>1. ParserInv /\ LineInv /\ SessionInv /\ EnvInv BY DEF IInv
  <1>2. line \in Seq(Byte) BY <1>1, SizesAssumption DEF LineInv
  <1>3. EnvUser \in Text /\ Chars(line) \in Text
    BY <1>2, CharsTyped, NamesAreTexts, StringIsText DEF String
  <1>4. CallSetEnv(EnvUser, Chars(line)) BY DEF Logon
  <1>5. EnvInv' /\ call'.rc \in {0, -1} /\ EnvStep BY <1>1, <1>3, <1>4, CallSetEnvStep DEF EnvStep
  <1>6. ParserInv' /\ LineInv' BY <1>1, ForgetLineStep DEF Logon
  <1>7. SessionInv' BY <1>1, <1>5 DEF Logon, SessionInv, Pc
  <1>8. LastExitCode' BY DEF Logon, LastExitCode
  <1> QED BY <1>5, <1>6, <1>7, <1>8 DEF IInv

\* ERROR is set to the exit code, or it is not there and there is no memory
\* for it.
LEMMA LoopSetErrorStep ==
  ASSUME IInv, LoopSetError
  PROVE  IInv' /\ EnvStep
  <1>1. ParserInv /\ LineInv /\ SessionInv /\ EnvInv BY DEF IInv
  <1>2. rc \in {0, -1} /\ env \in List BY <1>1 DEF SessionInv, EnvInv
  <1>3. EnvError \in Text /\ ExitCode[rc] \in Text BY <1>2, NamesAreTexts
  <1>4. CallSetEnv(EnvError, ExitCode[rc]) BY DEF LoopSetError
  <1>5. EnvInv' /\ EnvStep BY <1>1, <1>3, <1>4, CallSetEnvStep DEF EnvStep
  <1>6. ParserInv' /\ LineInv' BY <1>1, ForgetLineStep DEF LoopSetError
  <1>7. /\ argv' \in Seq(String) /\ cmdline' \in String
        /\ argv' # << >> /\ Len(Tokenize(cmdline')) <= MaxArgv => argv' = Tokenize(cmdline')
    BY <1>1, ForgetArgumentsStep DEF LoopSetError
  <1>8. SessionInv' BY <1>1, <1>7 DEF LoopSetError, SessionInv, Pc
  <1>9. LastExitCode'
    <2>1. env' = SetEnv(env, EnvError, ExitCode[rc]).env /\ rc' = rc
      BY <1>4 DEF CallSetEnv, LoopSetError
    <2>2. Len(EnvError) < NameLen BY NamesFitAssumption
    <2>3. \/ Found(env', EnvError) = Field(ExitCode[rc], ValueLen)
          \/ Matches(env', EnvError) = {}
      BY <1>2, <1>3, <2>1, <2>2, SetEnvSame
    <2>4. LastExitCode' <=> (pc' = "run" /\ Matches(env', EnvError) # {} =>
              env'[FirstMatch(env', EnvError)].value = Field(ExitCode[rc'], ValueLen))
      BY DEF LastExitCode, Matches, FirstMatch, NameAsRead
    <2> QED BY <2>1, <2>3, <2>4 DEF Found
  <1> QED BY <1>5, <1>6, <1>8, <1>9 DEF IInv

\* The arguments of more than argv has room for are strings all the same.
LEMMA LostTextsTyped == LostTexts \in Seq(String)
  <1>1. MaxArgv + 1 \in Nat BY SizesAssumption
  <1>2. \A k \in 1 .. MaxArgv + 1 : LostTexts[k] \in String BY DEF LostTexts, String
  <1>3. LostTexts \in [1 .. MaxArgv + 1 -> String] BY <1>2 DEF LostTexts
  <1> QED BY <1>1, <1>3

\* the shell cuts the line into arguments and chooses the next application;
LEMMA ShellStep ==
  ASSUME IInv, Shell
  PROVE  IInv' /\ EnvStep
  <1>1. ParserInv /\ LineInv /\ SessionInv /\ EnvInv BY DEF IInv
  <1>2. /\ pc = "run" /\ pc' = "set_error" /\ rc' = 0
        /\ commands < MaxCommands /\ commands' = commands + 1
        /\ telnet' = [FreshParser EXCEPT !.size = telnet.size]
        /\ UNCHANGED <<rx, gaveUp, typed, negos, line, off, env, call>>
    BY DEF Shell
  <1>3. PICK l \in Lines :
           /\ cmdline' = l
           /\ \/ Len(Tokens[l]) <= MaxArgv /\ LookUp(Tokens[l])
              \/ Len(Tokens[l]) > MaxArgv /\ PastArgv
    BY DEF Shell
  <1>4. /\ cmdline' \in String /\ argv' \in Seq(String) /\ next_app' \in App
        /\ argv' # << >> /\ Len(Tokenize(cmdline')) <= MaxArgv => argv' = Tokenize(cmdline')
    <2>1. cmdline' \in String /\ Tokens[l] \in Seq(String) /\ Tokens[l] = Tokenize(cmdline')
      BY <1>3, LinesTyped DEF String
    <2>2. CASE LookUp(Tokens[l])
      <3>1. next_app' \in App BY <2>2, AppsAssumption DEF LookUp, App
      <3> QED BY <2>1, <2>2, <3>1 DEF LookUp
    <2>3. CASE Len(Tokens[l]) > MaxArgv /\ PastArgv
      <3>1. next_app' \in App BY <2>3, AppsAssumption DEF PastArgv, App
      <3>2. ~(Len(Tokenize(cmdline')) <= MaxArgv)
        <4>1. Len(Tokens[l]) \in Nat /\ MaxArgv \in Nat BY <2>1, SizesAssumption
        <4> QED BY <2>1, <2>3, <4>1
      <3> QED BY <2>1, <2>3, <3>1, <3>2, LostTextsTyped DEF PastArgv
    <2> QED BY <1>3, <2>2, <2>3
  <1>5. MaxCommands \in Nat BY SizesAssumption
  <1>6. SessionInv' BY <1>1, <1>2, <1>4, <1>5 DEF SessionInv, Pc
  <1>7. telnet' \in Buffers BY <1>1, <1>2, FreshTyped DEF ParserInv
  <1>8. ParserInv' BY <1>1, <1>2, <1>7 DEF ParserInv
  <1>9. LineInv' BY <1>1, <1>2 DEF LineInv
  <1>10. EnvInv' BY <1>1, <1>2 DEF EnvInv
  <1>11. LastExitCode' BY <1>2 DEF LastExitCode
  <1>12. EnvStep BY <1>2, EnvStutter
  <1> QED BY <1>6, <1>8, <1>9, <1>10, <1>11, <1>12 DEF IInv

\* What an application leaves when it is over.
LEMMA RunsStep ==
  ASSUME IInv, NEW app, Runs(app), Done, pc' \in {"set_error", "getline"}, rc' \in {0, -1}
  PROVE  /\ SessionInv'
         /\ ParserInv' /\ LineInv' /\ LastExitCode'
  <1>1. ParserInv /\ LineInv /\ SessionInv BY DEF IInv
  <1>2. /\ pc = "run" /\ next_app' = "shell" /\ cmdline' = << >> /\ argv' = << >>
        /\ UNCHANGED <<telnet, rx, gaveUp, typed, negos, line, off, commands>>
    BY DEF Runs, Done, inputVars
  <1>3. << >> \in Seq(String) /\ << >> \in String BY DEF String
  <1>4. SessionInv' BY <1>1, <1>2, <1>3 DEF SessionInv, Pc, App
  <1>5. ParserInv' BY <1>1, <1>2 DEF ParserInv
  <1>6. LineInv' BY <1>1, <1>2 DEF LineInv
  <1>7. LastExitCode' BY DEF LastExitCode
  <1> QED BY <1>4, <1>5, <1>6, <1>7

\* the application that runs may show or assign a variable.
LEMMA RunStep ==
  ASSUME IInv, Run
  PROVE  IInv' /\ EnvStep
  <1>1. EnvInv /\ SessionInv BY DEF IInv
  <1>2. argv \in Seq(String) BY <1>1 DEF SessionInv
  <1>3. ASSUME UNCHANGED <<env, call>> PROVE EnvInv' /\ EnvStep
    BY <1>1, <1>3, EnvStutter DEF EnvInv
  <1>4. CASE SetDump
    BY <1>3, <1>4, RunsStep DEF SetDump, IInv
  <1>5. CASE SetShow
    <2>1. argv[2] \in Text BY <1>2, <1>5, StringIsText DEF SetShow
    <2>2. EnvInv' /\ EnvStep BY <1>1, <1>5, <2>1, CallGetEnvStep DEF SetShow, EnvStep
    <2> QED BY <1>5, <2>2, RunsStep DEF SetShow, IInv
  <1>6. CASE SetAssign
    <2>1. argv[2] \in Text /\ argv[3] \in Text BY <1>2, <1>6, StringIsText DEF SetAssign
    <2>2. EnvInv' /\ EnvStep BY <1>1, <1>6, <2>1, CallSetEnvStep DEF SetAssign, EnvStep
    <2> QED BY <1>6, <2>2, RunsStep DEF SetAssign, IInv
  <1>7. CASE SetInvalid
    BY <1>3, <1>7, RunsStep DEF SetInvalid, IInv
  <1>8. CASE OtherApp
    BY <1>3, <1>8, RunsStep DEF OtherApp, IInv
  <1>9. CASE LogonAgain
    <2>1. rc' \in {0, -1} BY <1>1, <1>9 DEF LogonAgain, SessionInv
    <2> QED BY <1>3, <1>9, <2>1, RunsStep DEF LogonAgain, IInv
  <1> QED BY <1>4, <1>5, <1>6, <1>7, <1>8, <1>9 DEF Run

\* A session starts with an empty environment, and so does the map.
LEMMA InitInv ==
  ASSUME Init
  PROVE  IInv /\ EnvMapInstance!Init
  <1>1. UserLen \in Nat /\ UserLen > 0 /\ MaxNodes \in Nat /\ MaxCommands \in Nat BY SizesAssumption
  <1>2. FreshParser \in Buffers
    <2>1. \E t : t \in Buffers
      <3>1. 0 \in Nat /\ "DATA" \in ParserState /\ "none" \in Byte \cup {"none"} BY DEF ParserState
      <3>2. FreshParser \in Parser /\ FreshParser.size = 0 /\ FreshParser.pos = 0
        BY <3>1 DEF FreshParser, Parser
      <3>3. 1 \in DOMAIN BufferSizes /\ BufferSizes[1] = 0 BY BufferSizesAssumption
      <3> QED BY <3>2, <3>3 DEF Buffers
    <2> QED BY <2>1, FreshTyped
  <1>3. ParserInv
    <2>1. << >> \in Seq(Byte) /\ << >> \in Seq(Negotiation \X Byte) /\ {} \subseteq 1 .. Len(<< >>)
      OBVIOUS
    <2> QED BY <1>2, <2>1 DEF Init, ParserInv, String
  <1>4. LineInv
    <2>1. "NUL" \in Byte /\ EmptyLine \in [1 .. UserLen -> Byte] BY DEF EmptyLine, Byte, Control
    <2> QED BY <1>1, <2>1 DEF Init, LineInv
  <1>5. SessionInv
    <2>1. << >> \in Seq(String) /\ << >> \in String BY DEF String
    <2> QED BY <1>1, <2>1 DEF Init, SessionInv, Pc, App
  <1>6. env = << >> /\ << >> \in Seq(Node) /\ Len(<< >>) = 0 BY DEF Init
  <1>7. EnvInv BY <1>1, <1>6 DEF EnvInv, List
  <1>8. LastExitCode BY DEF Init, LastExitCode
  <1>9. EnvMapInstance!Init
    <2>1. {NameAsRead(env, k) : k \in DOMAIN env} = {} BY <1>6
    <2>2. EnvAsMap = [n \in {} |-> env[FirstMatch(env, n)].value] BY <2>1 DEF EnvAsMap
    <2>3. EnvAsMap = << >> BY <2>2
    <2>4. call = [op |-> "none"] BY DEF Init
    <2> QED BY <2>3, <2>4 DEF EnvMapInstance!Init
  <1> QED BY <1>3, <1>4, <1>5, <1>7, <1>8, <1>9 DEF IInv

\* Every step keeps the invariant and is a step of the map, or a stutter.
LEMMA NextStep ==
  ASSUME IInv, [Next]_vars
  PROVE  IInv' /\ EnvStep
  <1>0. SessionInv BY DEF IInv
  <1>1. CASE Input
    <2>1. PICK b \in BytesIn(telnet.state) : GetByte(b) BY <1>1 DEF Input
    <2>2. b \in Byte BY DEF BytesIn, Byte, Control, Negotiation, Option
    <2> QED BY <2>1, <2>2, GetByteStep
  <1>2. CASE RecvFails
    <2>1. SessionInv' BY <1>0, <1>2 DEF RecvFails, SessionInv, Pc
    <2> QED BY <1>2, <2>1, QuietStep DEF RecvFails
  <1>3. CASE Logon
    BY <1>3, LogonStep
  <1>4. CASE LoopSetError
    BY <1>4, LoopSetErrorStep
  <1>5. CASE Shell
    BY <1>5, ShellStep
  <1>6. CASE ShellFails
    <2>1. SessionInv' BY <1>0, <1>6 DEF ShellFails, SessionInv, Pc
    <2> QED BY <1>6, <2>1, QuietStep DEF ShellFails
  <1>7. CASE ShellOverrun
    <2>1. SessionInv' BY <1>0, <1>7 DEF ShellOverrun, SessionInv, Pc
    <2> QED BY <1>7, <2>1, QuietStep DEF ShellOverrun
  <1>8. CASE Run
    BY <1>8, RunStep
  <1>9. CASE UNCHANGED vars
    <2>1. UNCHANGED <<telnet, rx, gaveUp, typed, negos, line, off, pc, next_app, argv, cmdline,
                      rc, env, call, commands>>
      BY <1>9 DEF vars
    <2>2. EnvStep BY <2>1, EnvStutter
    <2>3. LastExitCode'
      BY <2>1 DEF IInv, LastExitCode, Matches, FirstMatch, NameAsRead
    <2> QED BY <2>1, <2>2, <2>3 DEF IInv, ParserInv, LineInv, SessionInv, EnvInv
  <1> QED BY <1>1, <1>2, <1>3, <1>4, <1>5, <1>6, <1>7, <1>8, <1>9 DEF Next

\* The invariant holds.
THEOREM Invariance == Spec => []IInv
  <1>1. Init => IInv BY InitInv
  <1>2. IInv /\ [Next]_vars => IInv' BY NextStep
  <1> QED BY <1>1, <1>2, PTL DEF Spec

\* Whatever bytes, failures and commands come, the line never outgrows the
\* buffer of console_getline, a subnegotiation that of the parser, a name or a
\* value its field, and the list the heap; every argument of a command is a
\* string.
THEOREM ConsoleTypeCorrect == Spec => []TypeOK
  <1>1. IInv => TypeOK
    BY DEF IInv, ParserInv, LineInv, SessionInv, EnvInv, TypeOK, Buffers, List
  <1> QED BY <1>1, Invariance, PTL

\* Whatever line the user types and whatever commands ran before: the command
\* gets the arguments of its line, if that is a plain one and has no more of
\* them than argv has room for.
THEOREM CommandIsTokenized == Spec => []Tokenized
  <1>1. IInv => Tokenized
    <2> SUFFICES ASSUME IInv, argv # << >>, Plain(cmdline), Len(Arguments(cmdline)) <= MaxArgv
                 PROVE  argv = Arguments(cmdline)
      BY DEF Tokenized
    <2>1. cmdline \in Seq(Byte) BY DEF IInv, SessionInv, String
    <2>2. Tokenize(cmdline) = Arguments(cmdline) BY <2>1, TokenizePlain
    <2> QED BY <2>2 DEF IInv, SessionInv
  <1> QED BY <1>1, Invariance, PTL

\* Between two applications ERROR tells how the last one ended, whatever the
\* user assigned to it.
THEOREM ErrorIsLastExitCode == Spec => []LastExitCode
  <1>1. IInv => LastExitCode BY DEF IInv
  <1> QED BY <1>1, Invariance, PTL

\* console_setenv and console_getenv implement a map on their list of nodes:
\* an assignment changes one name and fails only for a new one, a lookup
\* returns what was assigned last, and names that fill their field, which are
\* read on into the value and the next pointer, never touch the others.  This
\* is said of sessions in which no line's pointers reach context->env, which
\* takes 60 arguments (ShellOverrun).
THEOREM EnvironmentIsMap == Spec => EnvIsMap
  <1>1. Init => EnvMapInstance!Init BY InitInv
  <1>2. IInv /\ [Next]_vars => [EnvMapInstance!Next]_<<EnvAsMap, call>>
    BY NextStep DEF EnvStep
  <1>3. Spec => EnvMapInstance!Init /\ [][EnvMapInstance!Next]_<<EnvAsMap, call>>
    BY <1>1, <1>2, Invariance, PTL DEF Spec
  <1> QED BY <1>3 DEF EnvIsMap, EnvMapInstance!Spec, EnvMapInstance!vars
=============================================================================
