-------------------------- MODULE TcpServerProofs --------------------------
(***************************************************************************)
(* Proofs about TcpServer, for any pool of netconns and any max_conns.     *)
(***************************************************************************)
EXTENDS TcpServer, FiniteSetTheorems, OrderFacts, TLAPS

ConnAction(c) == Connect(c) \/ PeerFin(c) \/ PeerReset(c)

\* Next with its disjuncts named: every case distinction below follows it.
LEMMA NextCases ==
    ASSUME Next
    PROVE  \/ Server \/ ConnectAborted
           \/ \E c \in Conn : ConnAction(c) \/ Thread(c)
  BY DEF Next, ConnAction

IInv == TypeOK /\ NetbufInv /\ CounterInv

-----------------------------------------------------------------------------
\* Sets of netconns are finite: what adding or removing one does to their number.
LEMMA CardFacts ==
    ASSUME NEW S \in SUBSET Conn
    PROVE  /\ IsFiniteSet(S) /\ Cardinality(S) \in Nat
           /\ \A c \in S : Cardinality(S \ {c}) = Cardinality(S) - 1 /\ Cardinality(S) > 0
           /\ \A c \in Conn \ S : Cardinality(S \cup {c}) = Cardinality(S) + 1
           /\ S = {} => Cardinality(S) = 0
  <1>1. IsFiniteSet(S)
    BY ConnAssumption, FS_Subset
  <1>2. Cardinality(S) \in Nat
    BY <1>1, FS_CardinalityType
  <1>3. ASSUME NEW c \in S
        PROVE  Cardinality(S \ {c}) = Cardinality(S) - 1 /\ Cardinality(S) > 0
    <2>1. Cardinality(S \ {c}) = Cardinality(S) - 1
      BY <1>1, FS_RemoveElement
    <2>2. Cardinality(S \ {c}) \in Nat
      BY <1>1, FS_Subset, FS_CardinalityType
    <2> QED  BY <1>2, <2>1, <2>2
  <1>4. ASSUME NEW c \in Conn \ S
        PROVE  Cardinality(S \cup {c}) = Cardinality(S) + 1
    BY <1>1, FS_AddElement
  <1>5. Cardinality({}) = 0
    BY FS_EmptySet
  <1> QED  BY <1>1, <1>2, <1>3, <1>4, <1>5

\* A thread step between two places of a live thread leaves Live alone.
LEMMA GotoLive ==
    ASSUME NEW c \in Conn, TypeOK, NEW from \in ThreadPc \ {"none"},
           NEW to \in ThreadPc \ {"none"}, Goto(c, from, to)
    PROVE  Live' = Live
  BY DEF Goto, TypeOK, Live

-----------------------------------------------------------------------------
\* Type correctness: the steps of the server.
LEMMA ServerTypes ==
    ASSUME IInv, Server
    PROVE  TypeOK'
  <1> USE ConnAssumption, MboxSizeAssumption
          DEF IInv, TypeOK, serverVars, consoleVars, appVars, ServerPc
  <1>1. CASE Accept
    BY <1>1 DEF Accept
  <1>2. CASE CheckFull
    BY <1>2 DEF CheckFull
  <1>3. CASE Refuse
    BY <1>3 DEF Refuse, NetconnState, HasPcb
  <1>4. CASE RefuseDelete
    BY <1>4 DEF RefuseDelete, NetconnState, HasPcb
  <1>5. CASE ConsoleInit
    BY <1>5 DEF ConsoleInit
  <1>6. CASE IncLoad
    BY <1>6 DEF IncLoad
  <1>7. CASE IncStore
    BY <1>7 DEF IncStore
  <1>8. CASE ThreadCreate
    BY <1>8 DEF ThreadCreate, ThreadPc, ReadyPc
  <1> QED  BY <1>1, <1>2, <1>3, <1>4, <1>5, <1>6, <1>7, <1>8 DEF Server

\* The steps of lwIP and of the clients.
LEMMA LwipTypes ==
    ASSUME IInv, ConnectAborted \/ \E c \in Conn : ConnAction(c)
    PROVE  TypeOK'
  <1> USE ConnAssumption, MboxSizeAssumption
          DEF IInv, TypeOK, serverVars, consoleVars, appVars, NetconnState
  <1>1. CASE ConnectAborted
    BY <1>1 DEF ConnectAborted
  <1>2. ASSUME NEW c \in Conn, Connect(c) PROVE TypeOK'
    BY <1>2 DEF Connect
  <1>3. ASSUME NEW c \in Conn, PeerFin(c) PROVE TypeOK'
    BY <1>3 DEF PeerFin
  <1>4. ASSUME NEW c \in Conn, PeerReset(c) PROVE TypeOK'
    BY <1>4 DEF PeerReset
  <1> QED  BY <1>1, <1>2, <1>3, <1>4 DEF ConnAction

\* Type correctness: the steps of a ConnectionThread.  --conns stays a
\* natural number because of CounterInv.
LEMMA ThreadTypes ==
    ASSUME IInv, NEW c \in Conn, Thread(c)
    PROVE  TypeOK'
  <1> USE ConnAssumption DEF IInv, TypeOK, serverVars, consoleVars, appVars,
          Goto, ThreadPc, ReadyPc
  <1>1. CASE ThreadStart(c)
    BY <1>1 DEF ThreadStart, Command
  <1>2. CASE SessionEnds(c)
    BY <1>2 DEF SessionEnds
  <1>3. CASE NextApp(c)
    BY <1>3 DEF NextApp, Command
  <1>4. CASE RunPrompt(c)
    BY <1>4 DEF RunPrompt
  <1>5. CASE RunPrint(c)
    BY <1>5 DEF RunPrint
  <1>6. CASE RunExit(c)
    BY <1>6 DEF RunExit
  <1>7. CASE RunReset(c)
    BY <1>7, NumNetbufsAssumption, MboxSizeAssumption
       DEF RunReset, NetconnState, ServerPc, Command
  <1>8. CASE PromptWritten(c)
    BY <1>8 DEF PromptWritten
  <1>9. CASE OutputWritten(c)
    BY <1>9 DEF OutputWritten
  <1>10. CASE Purge(c)
    BY <1>10 DEF Purge
  <1>11. CASE RecvAlloc(c)
    <2>1. CASE netbufs > 0
      <3>1. /\ netbufs' = netbufs - 1 /\ buf' = [buf EXCEPT ![c] = TRUE]
            /\ Goto(c, "recv_alloc", "recv")
        BY <1>11, <2>1, Zenon DEF RecvAlloc
      <3>2. UNCHANGED <<netconn, acceptmbox, conns, spc, newconn, sreg, treg,
                        app, nextApp, exiting>>
        BY <1>11, <3>1 DEF RecvAlloc
      <3>3. netbufs' \in Nat /\ buf' \in [Conn -> BOOLEAN]
        BY <2>1, <3>1
      <3> QED  BY <3>1, <3>2, <3>3
    <2>2. CASE ~(netbufs > 0)
      BY <1>11, <2>2 DEF RecvAlloc
    <2> QED  BY <2>1, <2>2
  <1>12. CASE Receive(c)
    BY <1>12 DEF Receive
  <1>13. CASE RecvFails(c)
    BY <1>13 DEF RecvFails, NetconnState
  <1>14. CASE EchoFails(c)
    BY <1>14 DEF EchoFails
  <1>15. CASE LineRead(c)
    BY <1>15 DEF LineRead, Command
  <1>16. CASE ConsoleFree(c)
    BY <1>16 DEF ConsoleFree
  <1>17. CASE CloseDone(c)
    BY <1>17 DEF CloseDone, NetconnState, HasPcb
  <1>18. CASE DeleteDone(c)
    BY <1>18 DEF DeleteDone, Command, NetconnState
  <1>19. CASE DecLoad(c)
    BY <1>19 DEF DecLoad
  <1>20. CASE DecStore(c)
    <2>1. treg[c] \in Nat /\ treg[c] > 0
      <3>1. tpc[c] = "dec_store"
        BY <1>20 DEF DecStore
      <3>2. Live \in SUBSET Conn /\ c \in Live
        BY <3>1 DEF Live
      <3>3. Cardinality(Live) \in Nat /\ Cardinality(Live) > 0
        BY <3>2, CardFacts
      <3> QED  BY <3>1, <3>3 DEF CounterInv, Needed
    <2> QED  BY <1>20, <2>1 DEF DecStore
  <1> QED
    BY <1>1, <1>2, <1>3, <1>4, <1>5, <1>6, <1>7, <1>8, <1>9, <1>10, <1>11, <1>12, <1>13, <1>14, <1>15, <1>16, <1>17, <1>18, <1>19, <1>20
       DEF Thread

-----------------------------------------------------------------------------
\* The netbuf pool.
LEMMA NetbufFrame ==
    ASSUME NetbufInv, UNCHANGED <<buf, netbufs>>,
           \A c \in Conn : tpc'[c] = "recv" => tpc[c] = "recv"
    PROVE  NetbufInv'
  BY DEF NetbufInv, Held

\* Every netbuf that is taken is held by a session between recv and delete.
LEMMA NetbufStep ==
    ASSUME IInv, Next
    PROVE  NetbufInv'
  <1>0. /\ TypeOK /\ NetbufInv /\ Held \in SUBSET Conn
        /\ Cardinality(Held) \in Nat /\ netbufs \in Nat /\ NumNetbufs \in Nat
    BY CardFacts, NumNetbufsAssumption DEF IInv, TypeOK, Held
  <1>1. CASE Server \/ ConnectAborted \/ \E c \in Conn : ConnAction(c)
    <2>1. UNCHANGED <<buf, netbufs>>
      BY <1>1 DEF ConnectAborted, ConnAction, Connect, PeerFin, PeerReset,
         consoleVars, Server, Accept, CheckFull, Refuse, RefuseDelete,
         ConsoleInit, IncLoad, IncStore, ThreadCreate
    <2>2. tpc' = tpc \/ tpc' = [tpc EXCEPT ![newconn] = "start"]
      BY <1>1 DEF ConnectAborted, ConnAction, Connect, PeerFin, PeerReset,
         Server, Accept, CheckFull, Refuse, RefuseDelete,
         ConsoleInit, IncLoad, IncStore, ThreadCreate
    <2>3. \A c \in Conn : tpc'[c] = "recv" => tpc[c] = "recv"
      BY <1>0, <2>2 DEF TypeOK
    <2> QED  BY <1>0, <2>1, <2>3, NetbufFrame
  <1>2. ASSUME NEW c \in Conn, Thread(c)
        PROVE  NetbufInv'
    <2>1. CASE \/ ThreadStart(c) \/ SessionEnds(c) \/ NextApp(c)
               \/ RunPrompt(c) \/ RunPrint(c) \/ RunExit(c)
               \/ PromptWritten(c) \/ OutputWritten(c) \/ Receive(c)
               \/ EchoFails(c) \/ LineRead(c) \/ ConsoleFree(c)
               \/ CloseDone(c) \/ DecLoad(c) \/ DecStore(c)
      <3>1. UNCHANGED <<buf, netbufs>>
        BY <2>1 DEF ThreadStart, SessionEnds, NextApp, RunPrompt, RunPrint,
           RunExit, PromptWritten, OutputWritten, Receive, EchoFails, LineRead,
           ConsoleFree, CloseDone, DecLoad, DecStore, consoleVars
      <3>2. \E from \in ThreadPc, to \in ThreadPc \ {"recv"} : Goto(c, from, to)
        BY <2>1 DEF ThreadStart, SessionEnds, NextApp, RunPrompt, RunPrint,
           RunExit, PromptWritten, OutputWritten, Receive, EchoFails, LineRead,
           ConsoleFree, CloseDone, DecLoad, DecStore, ThreadPc, ReadyPc
      <3>3. \A d \in Conn : tpc'[d] = "recv" => tpc[d] = "recv"
        BY <1>0, <3>2 DEF Goto, TypeOK
      <3> QED  BY <1>0, <3>1, <3>3, NetbufFrame
    <2>2. CASE RunReset(c)
      <3>1. Held' = {}
        BY <2>2 DEF RunReset, Held
      <3> QED  BY <1>0, <2>2, <3>1, FS_EmptySet DEF RunReset, NetbufInv
    <2>3. CASE Purge(c) \/ RecvFails(c)
      <3>1. Held' = Held \ {c} /\ (netbufs' = netbufs \/ (c \in Held /\ netbufs' = netbufs + 1))
        BY <1>0, <2>3 DEF Purge, RecvFails, Goto, Held, TypeOK, NetbufInv
      <3>2. \A d \in Conn : tpc'[d] = "recv" => d # c /\ tpc[d] = "recv"
        BY <1>0, <2>3 DEF Purge, RecvFails, Goto, TypeOK
      <3>3. \A d \in Conn : tpc'[d] = "recv" => buf'[d]
        BY <1>0, <2>3, <3>2 DEF Purge, RecvFails, TypeOK, NetbufInv
      <3>4. netbufs' + Cardinality(Held') <= NumNetbufs
        <4>1. CASE c \in Held
          BY <1>0, <3>1, <4>1, CardFacts DEF NetbufInv
        <4>2. CASE c \notin Held
          <5>1. Held' = Held /\ netbufs' = netbufs
            BY <3>1, <4>2
          <5> QED  BY <1>0, <5>1 DEF NetbufInv
        <4> QED  BY <4>1, <4>2
      <3> QED  BY <3>3, <3>4 DEF NetbufInv
    <2>4. CASE RecvAlloc(c)
      <3>1. CASE netbufs > 0
        <4>1. netbufs' = netbufs - 1 /\ Held' = Held \cup {c}
          BY <1>0, <2>4, <3>1 DEF RecvAlloc, Held, TypeOK
        <4>2. Cardinality(Held') \in Nat /\ Cardinality(Held') <= Cardinality(Held) + 1
          <5>1. CASE c \in Held
            <6>1. Held' = Held
              BY <4>1, <5>1
            <6> QED  BY <1>0, <6>1
          <5>2. CASE c \notin Held
            BY <1>0, <4>1, <5>2, CardFacts
          <5> QED  BY <5>1, <5>2
        <4>3. \A d \in Conn : tpc'[d] = "recv" => buf'[d]
          BY <1>0, <2>4, <3>1 DEF RecvAlloc, Goto, TypeOK, NetbufInv
        <4> QED  BY <1>0, <4>1, <4>2, <4>3 DEF NetbufInv
      <3>2. CASE ~(netbufs > 0)
        <4>1. \A d \in Conn : tpc'[d] = "recv" => tpc[d] = "recv"
          BY <1>0, <2>4, <3>2 DEF RecvAlloc, Goto, TypeOK
        <4> QED  BY <1>0, <2>4, <3>2, <4>1, NetbufFrame DEF RecvAlloc
      <3> QED  BY <3>1, <3>2
    <2>5. CASE DeleteDone(c)
      <3>1. Held' = Held \ {c} /\ netbufs' = netbufs
        BY <1>0, <2>5 DEF DeleteDone, Held, TypeOK
      <3>2. Cardinality(Held') \in Nat /\ Cardinality(Held') <= Cardinality(Held)
        <4>1. CASE c \in Held
          BY <1>0, <3>1, <4>1, CardFacts
        <4>2. CASE c \notin Held
          <5>1. Held' = Held
            BY <3>1, <4>2
          <5> QED  BY <1>0, <5>1
        <4> QED  BY <4>1, <4>2
      <3>3. \A d \in Conn : tpc'[d] = "recv" => d # c /\ tpc[d] = "recv"
        BY <1>0, <2>5 DEF DeleteDone, Goto, TypeOK
      <3>4. \A d \in Conn : tpc'[d] = "recv" => buf'[d]
        BY <1>0, <2>5, <3>3 DEF DeleteDone, TypeOK, NetbufInv
      <3> QED  BY <1>0, <3>1, <3>2, <3>4 DEF NetbufInv
    <2> QED  BY <1>2, <2>1, <2>2, <2>3, <2>4, <2>5 DEF Thread
  <1> QED  BY <1>1, <1>2, NextCases

-----------------------------------------------------------------------------
(***************************************************************************)
(* The counter.  A step that touches none of conns, the registers and spc, *)
(* adds no thread and starts no store keeps CounterInv.                    *)
(***************************************************************************)
LEMMA CounterFrame ==
    ASSUME TypeOK, CounterInv, UNCHANGED <<conns, treg, spc, sreg>>, Live' = Live,
           \A c \in Conn : tpc'[c] = "dec_store" => tpc[c] = "dec_store"
    PROVE  CounterInv'
  BY DEF CounterInv, Needed

\* The server counts a session before it creates its thread,
LEMMA CounterServer ==
    ASSUME IInv, Server
    PROVE  CounterInv'
  <1>0. /\ TypeOK /\ CounterInv /\ MaxConns \in Nat
        /\ Live \in SUBSET Conn /\ Cardinality(Live) \in Nat
        /\ conns \in Nat /\ sreg \in Nat
    BY CardFacts, MaxConnsAssumption DEF IInv, TypeOK, Live
  <1>1. \A c \in Conn : tpc[c] # "dec_store"
    BY DEF Server, Accept, CheckFull, Refuse, RefuseDelete, ConsoleInit,
       IncLoad, IncStore, ThreadCreate, ServerMayRun, ReadyPc
  <1>2. CASE Accept \/ Refuse \/ RefuseDelete \/ ConsoleInit \/ CheckFull
    <2>1. UNCHANGED <<conns, tpc, treg, sreg>>
      BY <1>2 DEF Accept, Refuse, RefuseDelete, ConsoleInit, CheckFull
    <2>2. Live' = Live
      BY <2>1 DEF Live
    <2>3. /\ spc # "thread_create" /\ spc' \notin {"thread_create", "inc_store"}
          /\ spc' \in {"console_init", "inc_load"} =>
                (spc = "check" /\ conns # MaxConns) \/ spc = "console_init"
      BY <1>2, <1>0 DEF Accept, Refuse, RefuseDelete, ConsoleInit, CheckFull, TypeOK
    <2> QED  BY <1>0, <1>1, <2>1, <2>2, <2>3 DEF CounterInv, Needed
  <1>3. CASE IncLoad
    <2>1. Live' = Live
      BY <1>3 DEF IncLoad, Live
    <2> QED  BY <1>0, <1>1, <1>3, <2>1 DEF IncLoad, CounterInv, Needed
  <1>4. CASE IncStore
    <2>1. Live' = Live
      BY <1>4 DEF IncStore, Live
    <2> QED  BY <1>0, <1>1, <1>4, <2>1 DEF IncStore, CounterInv, Needed
  <1>5. CASE ThreadCreate
    <2>1. /\ UNCHANGED <<conns, sreg>> /\ spc = "thread_create" /\ spc' = "accept"
          /\ tpc' = tpc \/ tpc' = [tpc EXCEPT ![newconn] = "start"]
          /\ newconn \in Conn
      BY <1>0, <1>5 DEF ThreadCreate, TypeOK
    <2>2. \A c \in Conn : tpc'[c] # "dec_store"
      BY <1>0, <1>1, <2>1 DEF TypeOK
    <2>3. Live' = Live \/ (newconn \notin Live /\ Live' = Live \cup {newconn})
      BY <1>0, <2>1 DEF Live, TypeOK
    <2>4. Cardinality(Live') \in Nat /\ Cardinality(Live') <= Cardinality(Live) + 1
      <3>1. CASE Live' = Live
        BY <1>0, <3>1
      <3>2. CASE newconn \notin Live /\ Live' = Live \cup {newconn}
        BY <1>0, <2>1, <3>2, CardFacts
      <3> QED  BY <2>3, <3>1, <3>2
    <2> QED  BY <1>0, <2>1, <2>2, <2>4 DEF CounterInv, Needed
  <1> QED  BY <1>2, <1>3, <1>4, <1>5 DEF Server

\* and the session's thread counts itself out.
LEMMA CounterThread ==
    ASSUME IInv, NEW c \in Conn, Thread(c)
    PROVE  CounterInv'
  <1>0. /\ TypeOK /\ CounterInv /\ MaxConns \in Nat
        /\ Live \in SUBSET Conn /\ Cardinality(Live) \in Nat
        /\ conns \in Nat /\ sreg \in Nat /\ treg[c] \in Nat
    BY CardFacts, MaxConnsAssumption DEF IInv, TypeOK, Live
  <1>1. CASE \/ ThreadStart(c) \/ SessionEnds(c) \/ NextApp(c)
             \/ RunPrompt(c) \/ RunPrint(c) \/ RunExit(c)
             \/ PromptWritten(c) \/ OutputWritten(c) \/ Purge(c) \/ RecvAlloc(c)
             \/ Receive(c) \/ RecvFails(c) \/ EchoFails(c) \/ LineRead(c)
             \/ ConsoleFree(c) \/ CloseDone(c) \/ DeleteDone(c)
    <2>1. \E from, to \in ThreadPc \ {"none", "dec_store"} : Goto(c, from, to)
      BY <1>1 DEF ThreadStart, SessionEnds, NextApp, RunPrompt, RunPrint,
         RunExit, PromptWritten, OutputWritten, Purge, RecvAlloc, Receive,
         RecvFails, EchoFails, LineRead, ConsoleFree, CloseDone, DeleteDone,
         ThreadPc, ReadyPc
    <2>2. UNCHANGED <<conns, treg>>
      BY <1>1 DEF ThreadStart, SessionEnds, NextApp, RunPrompt, RunPrint,
         RunExit, PromptWritten, OutputWritten, Purge, RecvAlloc, Receive,
         RecvFails, EchoFails, LineRead, ConsoleFree, CloseDone, DeleteDone
    <2>3. Live' = Live
      BY <1>0, <2>1, GotoLive
    <2>4. /\ UNCHANGED <<spc, sreg>>
          /\ \A d \in Conn : tpc'[d] = "dec_store" => tpc[d] = "dec_store"
      BY <1>0, <2>1 DEF Goto, serverVars, TypeOK
    <2> QED  BY <1>0, <2>2, <2>3, <2>4, CounterFrame
  <1>2. CASE RunReset(c)
    <2>1. Live' = {}
      BY <1>2 DEF RunReset, Live
    <2> QED  BY <1>0, <1>2, <2>1, FS_EmptySet DEF RunReset, CounterInv, Needed
  <1>3. CASE DecLoad(c)
    <2>1. Live' = Live
      BY <1>0, <1>3, GotoLive DEF DecLoad, ThreadPc, ReadyPc
    <2>2. \A d \in Conn : tpc'[d] = "dec_store" =>
             (d = c /\ treg'[d] = conns) \/ (tpc[d] = "dec_store" /\ treg'[d] = treg[d])
      BY <1>0, <1>3 DEF DecLoad, Goto, TypeOK
    <2>3. UNCHANGED <<conns, spc, sreg>>
      BY <1>3 DEF DecLoad, Goto, serverVars
    <2> QED  BY <1>0, <2>1, <2>2, <2>3 DEF CounterInv, Needed
  <1>4. CASE DecStore(c)
    <2>1. c \in Live /\ Live' = Live \ {c}
      BY <1>0, <1>4 DEF DecStore, Goto, Live, TypeOK
    <2>2. Cardinality(Live') = Cardinality(Live) - 1 /\ Cardinality(Live) > 0
      BY <1>0, <2>1, CardFacts
    <2>3. \A d \in Conn : tpc'[d] = "dec_store" =>
             d # c /\ tpc[d] = "dec_store" /\ treg'[d] = treg[d] /\ treg[d] \in Nat
      BY <1>0, <1>4 DEF DecStore, Goto, TypeOK
    <2>4. /\ UNCHANGED <<spc, sreg>> /\ conns' = treg[c] - 1
          /\ Needed <= treg[c] /\ treg[c] <= MaxConns
      BY <1>0, <1>4 DEF DecStore, Goto, serverVars, CounterInv
    <2>5. Needed' = Needed - 1 /\ Needed \in Nat
      BY <1>0, <2>2, <2>4 DEF Needed
    <2> QED  BY <1>0, <2>3, <2>4, <2>5 DEF CounterInv
  <1> QED  BY <1>1, <1>2, <1>3, <1>4 DEF Thread

-----------------------------------------------------------------------------
\* The server starts with nothing counted and nothing held.
LEMMA InitIInv ==
    ASSUME Init
    PROVE  IInv
  <1> USE ConnAssumption, MaxConnsAssumption, MboxSizeAssumption, NumNetbufsAssumption
  <1>1. TypeOK
    BY DEF Init, TypeOK, NetconnState, ServerPc, ThreadPc, ReadyPc, Command
  <1>2. Live = {} /\ Held = {} /\ Cardinality({}) = 0
    BY FS_EmptySet DEF Init, Live, Held
  <1>3. NetbufInv
    BY <1>2 DEF Init, NetbufInv
  <1>4. CounterInv
    BY <1>2 DEF Init, CounterInv, Needed
  <1> QED  BY <1>1, <1>3, <1>4 DEF IInv

\* One step of anyone keeps types, netbufs and counter.
LEMMA StepIInv ==
    ASSUME IInv, [Next]_vars
    PROVE  IInv'
  <1>1. CASE Next
    <2>1. TypeOK'
      BY <1>1, NextCases, ServerTypes, LwipTypes, ThreadTypes
    <2>2. NetbufInv'
      BY <1>1, NetbufStep
    <2>3. CounterInv'
      <3>1. CASE Server
        BY <3>1, CounterServer
      <3>2. CASE ConnectAborted \/ \E c \in Conn : ConnAction(c)
        <4>1. UNCHANGED <<conns, treg, spc, sreg, tpc>>
          BY <3>2 DEF ConnectAborted, ConnAction, Connect, PeerFin, PeerReset, serverVars
        <4>2. Live' = Live
          BY <4>1 DEF Live
        <4> QED  BY <4>1, <4>2, CounterFrame DEF IInv
      <3>3. CASE \E c \in Conn : Thread(c)
        BY <3>3, CounterThread
      <3> QED  BY <1>1, <3>1, <3>2, <3>3, NextCases
    <2> QED  BY <2>1, <2>2, <2>3 DEF IInv
  <1>2. CASE UNCHANGED vars
    BY <1>2 DEF vars, IInv, TypeOK, NetbufInv, CounterInv, Needed, Live, Held
  <1> QED  BY <1>1, <1>2

\* The inductive invariant.
THEOREM IInvariance == Spec => []IInv
  BY InitIInv, StepIInv, PTL DEF Spec

\* Type correctness of the server and its sessions.
THEOREM TypeCorrect == Spec => []TypeOK
  <1>1. IInv => TypeOK
    BY DEF IInv
  <1> QED  BY <1>1, IInvariance, PTL

\* No netbuf is given back to the pool twice (console.c:110).
THEOREM NetbufPoolSafe == Spec => []NetbufInv
  <1>1. IInv => NetbufInv
    BY DEF IInv
  <1> QED  BY <1>1, IInvariance, PTL

\* Updates of conns may be lost (TcpServer.c:214, 272), but only decrements:
\* the counter, and whatever is about to be stored in it, never falls below
\* the number of places taken.
THEOREM CounterNeverTooLow == Spec => []CounterInv
  <1>1. IInv => CounterInv
    BY DEF IInv
  <1> QED  BY <1>1, IInvariance, PTL

\* Never more than max_conns sessions (TcpServer.c:202), however ++conns and
\* --conns are interleaved and whichever allocations fail.
THEOREM Admission == Spec => []AdmissionBound
  <1>1. IInv => AdmissionBound
    <2> SUFFICES ASSUME IInv PROVE AdmissionBound
      OBVIOUS
    <2>1. /\ Cardinality(Live) \in Nat /\ conns \in Nat /\ MaxConns \in Nat
          /\ Cardinality(Live) <= Needed /\ Needed \in Nat
      BY CardFacts, MaxConnsAssumption DEF IInv, TypeOK, Live, Needed
    <2> QED  BY <2>1 DEF IInv, CounterInv, AdmissionBound
  <1> QED  BY <1>1, IInvariance, PTL

\* The assertions of TcpServer.c:201 and 273 never fail.
THEOREM CounterAssertions == Spec => []CounterInRange
  <1>1. IInv => CounterInRange
    <2> SUFFICES ASSUME IInv PROVE CounterInRange
      OBVIOUS
    <2>1. conns <= MaxConns
      BY DEF IInv, CounterInv
    <2>2. ASSUME NEW c \in Conn, tpc[c] = "dec_store"
          PROVE  treg[c] > 0
      <3>1. Live \in SUBSET Conn /\ c \in Live
        BY <2>2 DEF Live
      <3>2. Cardinality(Live) \in Nat /\ Cardinality(Live) > 0
        BY <3>1, CardFacts
      <3>3. treg[c] \in Nat /\ Needed <= treg[c]
        BY <2>2 DEF IInv, TypeOK, CounterInv
      <3> QED  BY <3>2, <3>3 DEF Needed
    <2> QED  BY <2>1, <2>2 DEF CounterInRange
  <1> QED  BY <1>1, IInvariance, PTL

-----------------------------------------------------------------------------
(***************************************************************************)
(* Ownership of the netconns.                                              *)
(***************************************************************************)
InUse == {c \in Conn : netconn[c] # "free"}
Owned == Queued \cup HeldByServer \cup HeldByThread

\* No netconn is in the accept mailbox twice.
QueuedOnce ==
    \A i, j \in DOMAIN acceptmbox :
        acceptmbox[i] = acceptmbox[j] /\ acceptmbox[i] \in Conn => i = j

\* SoleOwner in these words.
OwnerInv ==
    /\ Queued \cap HeldByServer = {} /\ Queued \cap HeldByThread = {}
    /\ HeldByServer \cap HeldByThread = {}
    /\ QueuedOnce
    /\ Owned \subseteq InUse /\ (~MallocMayFail => InUse \subseteq Owned)

\* SoleOwner in the words of the proof
LEMMA SoleOwnerParts == (SoleOwner <=> OwnerInv) /\ (SoleOwner' <=> OwnerInv')
  <1>1. SoleOwner <=> OwnerInv
    BY DEF SoleOwner, OwnerInv, QueuedOnce, Owned, InUse
  <1>2. SoleOwner' <=> OwnerInv'
    BY DEF SoleOwner, OwnerInv, QueuedOnce, Owned, InUse
  <1> QED  BY <1>1, <1>2

\* accept_function posts at the end of the mailbox.
LEMMA PostFacts ==
    ASSUME TypeOK, NEW x \in Conn \cup {Aborted}, x \notin Queued, QueuedOnce,
           acceptmbox' = Append(acceptmbox, x)
    PROVE  Queued' = Queued \cup (Conn \cap {x}) /\ QueuedOnce'
  <1> DEFINE n == Len(acceptmbox)
  <1>1. /\ acceptmbox \in Seq(Conn \cup {Aborted}) /\ n \in Nat /\ DOMAIN acceptmbox = 1 .. n
    BY DEF TypeOK
  <1>2. /\ DOMAIN acceptmbox' = 1 .. n + 1
        /\ \A i \in 1 .. n : acceptmbox'[i] = acceptmbox[i]
        /\ acceptmbox'[n + 1] = x
    BY <1>1
  <1> HIDE DEF n
  <1>3. \A i \in 1 .. n + 1 : i \in 1 .. n \/ i = n + 1
    BY <1>1
  <1>4. 1 .. n \subseteq 1 .. n + 1 /\ n + 1 \in 1 .. n + 1
    BY <1>1
  <1>5. Queued' = Queued \cup (Conn \cap {x})
    BY <1>1, <1>2, <1>3, <1>4 DEF Queued
  <1>6. \A i \in 1 .. n : acceptmbox[i] # x \/ x = Aborted
    BY <1>1 DEF Queued
  <1>7. QueuedOnce'
    BY <1>1, <1>2, <1>3, <1>6, ConnAssumption DEF QueuedOnce
  <1> QED  BY <1>5, <1>7

\* netconn_accept takes the first.
LEMMA TakeFacts ==
    ASSUME TypeOK, QueuedOnce, acceptmbox # << >>, acceptmbox' = Tail(acceptmbox)
    PROVE  /\ Queued' = Queued \ {Head(acceptmbox)} /\ QueuedOnce'
           /\ Head(acceptmbox) \in Conn \cup {Aborted}
           /\ Head(acceptmbox) \in Conn => Head(acceptmbox) \in Queued
  <1> DEFINE n == Len(acceptmbox)
  <1>1. /\ acceptmbox \in Seq(Conn \cup {Aborted}) /\ n \in Nat /\ n > 0
        /\ DOMAIN acceptmbox = 1 .. n /\ Head(acceptmbox) = acceptmbox[1]
    BY DEF TypeOK
  <1>2. /\ DOMAIN acceptmbox' = 1 .. n - 1
        /\ \A i \in 1 .. n - 1 : acceptmbox'[i] = acceptmbox[i + 1]
    BY <1>1
  <1> HIDE DEF n
  <1>3. /\ 1 \in 1 .. n
        /\ \A i \in 1 .. n : i = 1 \/ (i - 1 \in 1 .. n - 1 /\ (i - 1) + 1 = i)
        /\ \A i \in 1 .. n - 1 : i + 1 \in 1 .. n /\ i + 1 # 1
        /\ \A i, j \in 1 .. n - 1 : i + 1 = j + 1 => i = j
    BY <1>1
  <1>4. acceptmbox[1] \in Conn \cup {Aborted}
    BY <1>1, <1>3
  <1>5. Queued' \subseteq Queued \ {acceptmbox[1]}
    BY <1>1, <1>2, <1>3 DEF Queued, QueuedOnce
  <1>6. Queued \ {acceptmbox[1]} \subseteq Queued'
    <2> SUFFICES ASSUME NEW c \in Conn, NEW i \in 1 .. n, acceptmbox[i] = c, c # acceptmbox[1]
                 PROVE  c \in Queued'
      BY <1>1 DEF Queued
    <2>1. i - 1 \in 1 .. n - 1 /\ (i - 1) + 1 = i
      BY <1>3
    <2>2. acceptmbox'[i - 1] = c
      BY <1>2, <2>1
    <2> QED  BY <1>2, <2>1, <2>2 DEF Queued
  <1>7. QueuedOnce'
    <2> SUFFICES ASSUME NEW i \in 1 .. n - 1, NEW j \in 1 .. n - 1,
                        acceptmbox'[i] = acceptmbox'[j], acceptmbox'[i] \in Conn
                 PROVE  i = j
      BY <1>2 DEF QueuedOnce
    <2>1. acceptmbox[i + 1] = acceptmbox[j + 1] /\ acceptmbox[i + 1] \in Conn
      BY <1>2
    <2>2. i + 1 = j + 1
      BY <1>1, <1>3, <2>1 DEF QueuedOnce
    <2> QED  BY <1>3, <2>2
  <1> QED  BY <1>1, <1>3, <1>4, <1>5, <1>6, <1>7 DEF Queued

\* A step that moves no netconn from one owner to another, nor out of or
\* into the pool.
LEMMA OwnerFrame ==
    ASSUME OwnerInv, UNCHANGED <<acceptmbox, newconn>>,
           HeldByThread' = HeldByThread, InUse' = InUse
    PROVE  OwnerInv'
  <1>1. Queued' = Queued /\ HeldByServer' = HeldByServer /\ QueuedOnce'
    BY DEF Queued, HeldByServer, QueuedOnce, OwnerInv
  <1> QED  BY <1>1 DEF OwnerInv, Owned

\* The server: it takes a netconn from the mailbox, and gives it to a thread
\* or back to the pool; without memory it forgets it.
LEMMA OwnerServer ==
    ASSUME TypeOK, OwnerInv, Server
    PROVE  OwnerInv'
  <1>1. CASE Accept
    <2>1. /\ acceptmbox # << >> /\ acceptmbox' = Tail(acceptmbox) /\ newconn = NoConn
          /\ UNCHANGED <<netconn, tpc>>
      BY <1>1 DEF Accept, TypeOK
    <2>2. /\ Queued' = Queued \ {Head(acceptmbox)} /\ QueuedOnce'
          /\ Head(acceptmbox) \in Conn \cup {Aborted}
          /\ Head(acceptmbox) \in Conn => Head(acceptmbox) \in Queued
      BY <2>1, TakeFacts DEF OwnerInv
    <2>3. InUse' = InUse /\ HeldByThread' = HeldByThread /\ HeldByServer = {}
      BY <2>1, ConnAssumption DEF InUse, HeldByThread, Live, HeldByServer
    <2>4. CASE Head(acceptmbox) = Aborted
      <3>1. newconn' = newconn
        BY <1>1, <2>4 DEF Accept
      <3>2. HeldByServer' = {} /\ Queued' = Queued
        BY <2>1, <2>2, <2>4, <3>1, ConnAssumption DEF HeldByServer, Queued
      <3> QED  BY <2>2, <2>3, <3>2 DEF OwnerInv, Owned
    <2>5. CASE Head(acceptmbox) # Aborted
      <3>1. HeldByServer' = {Head(acceptmbox)} /\ Head(acceptmbox) \in Queued
        BY <1>1, <2>2, <2>5 DEF Accept, HeldByServer
      <3> QED  BY <2>2, <2>3, <3>1 DEF OwnerInv, Owned
    <2> QED  BY <2>4, <2>5
  <1>2. CASE CheckFull \/ IncLoad \/ IncStore
    <2>1. UNCHANGED <<acceptmbox, newconn, netconn, tpc>>
      BY <1>2 DEF CheckFull, IncLoad, IncStore
    <2>2. InUse' = InUse /\ HeldByThread' = HeldByThread
      BY <2>1 DEF InUse, HeldByThread, Live
    <2> QED  BY <2>1, <2>2, OwnerFrame
  <1>3. CASE Refuse
    <2>1. /\ UNCHANGED <<acceptmbox, newconn, tpc>> /\ newconn \in Conn
          /\ netconn' = [netconn EXCEPT ![newconn] = IF HasPcb(newconn) THEN "closed" ELSE @]
      BY <1>3 DEF Refuse, TypeOK
    <2>2. InUse' = InUse
      BY <2>1 DEF InUse, HasPcb, TypeOK
    <2>3. HeldByThread' = HeldByThread
      BY <2>1 DEF HeldByThread, Live
    <2> QED  BY <2>1, <2>2, <2>3, OwnerFrame
  <1>4. CASE RefuseDelete
    <2>1. /\ UNCHANGED <<acceptmbox, tpc>> /\ newconn \in Conn /\ newconn' = NoConn
          /\ netconn' = [netconn EXCEPT ![newconn] = "free"]
      BY <1>4 DEF RefuseDelete, TypeOK
    <2>2. InUse' = InUse \ {newconn}
      BY <2>1 DEF InUse, TypeOK
    <2>3. /\ HeldByThread' = HeldByThread /\ Queued' = Queued
          /\ HeldByServer = {newconn} /\ HeldByServer' = {}
      BY <2>1, ConnAssumption DEF HeldByThread, Live, Queued, HeldByServer
    <2>4. QueuedOnce'
      BY <2>1 DEF OwnerInv, QueuedOnce
    <2> QED  BY <2>2, <2>3, <2>4 DEF OwnerInv, Owned
  <1>5. CASE ConsoleInit
    <2>1. /\ UNCHANGED <<acceptmbox, tpc, netconn>>
          /\ newconn' = newconn \/ (MallocMayFail /\ newconn' = NoConn)
      BY <1>5 DEF ConsoleInit
    <2>2. /\ InUse' = InUse /\ HeldByThread' = HeldByThread /\ Queued' = Queued
          /\ HeldByServer' = HeldByServer \/ (MallocMayFail /\ HeldByServer' = {})
      BY <2>1, ConnAssumption DEF InUse, HeldByThread, Live, Queued, HeldByServer
    <2>3. QueuedOnce'
      BY <2>1 DEF OwnerInv, QueuedOnce
    <2> QED  BY <2>2, <2>3 DEF OwnerInv, Owned
  <1>6. CASE ThreadCreate
    <2>1. /\ UNCHANGED <<acceptmbox, netconn>> /\ newconn \in Conn /\ newconn' = NoConn
          /\ tpc' = [tpc EXCEPT ![newconn] = "start"] \/ (MallocMayFail /\ tpc' = tpc)
      BY <1>6 DEF ThreadCreate, TypeOK
    <2>2. /\ InUse' = InUse /\ Queued' = Queued
          /\ HeldByServer = {newconn} /\ HeldByServer' = {}
      BY <2>1, ConnAssumption DEF InUse, Queued, HeldByServer
    <2>3. HeldByThread' = HeldByThread \cup {newconn} \/ (MallocMayFail /\ HeldByThread' = HeldByThread)
      BY <2>1 DEF HeldByThread, Live, TypeOK
    <2>4. QueuedOnce'
      BY <2>1 DEF OwnerInv, QueuedOnce
    <2> QED  BY <2>2, <2>3, <2>4 DEF OwnerInv, Owned
  <1> QED  BY <1>1, <1>2, <1>3, <1>4, <1>5, <1>6 DEF Server

\* lwIP: a new connection takes a free netconn, which nobody owns.
LEMMA OwnerLwip ==
    ASSUME TypeOK, OwnerInv, ConnectAborted \/ \E c \in Conn : ConnAction(c)
    PROVE  OwnerInv'
  <1>1. CASE ConnectAborted
    <2>1. /\ acceptmbox' = Append(acceptmbox, Aborted) /\ UNCHANGED <<netconn, newconn, tpc>>
      BY <1>1 DEF ConnectAborted, serverVars
    <2>2. Aborted \notin Queued
      BY ConnAssumption DEF Queued
    <2>3. Queued' = Queued /\ QueuedOnce'
      BY <2>1, <2>2, PostFacts, ConnAssumption DEF OwnerInv
    <2>4. InUse' = InUse /\ HeldByThread' = HeldByThread /\ HeldByServer' = HeldByServer
      BY <2>1 DEF InUse, HeldByThread, Live, HeldByServer
    <2> QED  BY <2>3, <2>4 DEF OwnerInv, Owned
  <1>2. ASSUME NEW c \in Conn, Connect(c)
        PROVE  OwnerInv'
    <2>1. /\ acceptmbox' = Append(acceptmbox, c) /\ UNCHANGED <<newconn, tpc>>
          /\ netconn' = [netconn EXCEPT ![c] = "up"] /\ netconn[c] = "free"
      BY <1>2 DEF Connect, serverVars
    <2>2. c \notin InUse /\ InUse' = InUse \cup {c}
      BY <2>1 DEF InUse, TypeOK
    <2>3. c \notin Owned
      BY <2>2 DEF OwnerInv
    <2>4. Queued' = Queued \cup {c} /\ QueuedOnce'
      BY <2>1, <2>3, PostFacts DEF OwnerInv, Owned
    <2>5. HeldByThread' = HeldByThread /\ HeldByServer' = HeldByServer
      BY <2>1 DEF HeldByThread, Live, HeldByServer
    <2> QED  BY <2>2, <2>3, <2>4, <2>5 DEF OwnerInv, Owned
  <1>3. ASSUME NEW c \in Conn, PeerFin(c) \/ PeerReset(c)
        PROVE  OwnerInv'
    <2>1. UNCHANGED <<acceptmbox, newconn, tpc>>
      BY <1>3 DEF PeerFin, PeerReset, serverVars
    <2>2. InUse' = InUse
      BY <1>3 DEF PeerFin, PeerReset, HasPcb, InUse, TypeOK
    <2>3. HeldByThread' = HeldByThread
      BY <2>1 DEF HeldByThread, Live
    <2> QED  BY <2>1, <2>2, <2>3, OwnerFrame
  <1> QED  BY <1>1, <1>2, <1>3 DEF ConnAction

\* A thread works on its own netconn until netconn_delete.
LEMMA OwnerThread ==
    ASSUME TypeOK, OwnerInv, NEW c \in Conn, Thread(c)
    PROVE  OwnerInv'
  <1> DEFINE Gone == {"none", "dec_load", "dec_store"}
  <1>1. CASE \/ ThreadStart(c) \/ SessionEnds(c) \/ NextApp(c)
             \/ RunPrompt(c) \/ RunPrint(c) \/ RunExit(c)
             \/ PromptWritten(c) \/ OutputWritten(c) \/ Purge(c) \/ RecvAlloc(c)
             \/ Receive(c) \/ RecvFails(c) \/ EchoFails(c) \/ LineRead(c)
             \/ ConsoleFree(c) \/ CloseDone(c)
    <2>1. \E from, to \in ThreadPc \ Gone : Goto(c, from, to)
      BY <1>1 DEF ThreadStart, SessionEnds, NextApp, RunPrompt, RunPrint,
         RunExit, PromptWritten, OutputWritten, Purge, RecvAlloc, Receive,
         RecvFails, EchoFails, LineRead, ConsoleFree, CloseDone,
         ThreadPc, ReadyPc
    <2>2. \/ netconn' = netconn
          \/ netconn' = [netconn EXCEPT ![c] = IF @ = "fin" THEN "clsd" ELSE @]
          \/ netconn' = [netconn EXCEPT ![c] = IF HasPcb(c) THEN "closed" ELSE @]
      BY <1>1 DEF ThreadStart, SessionEnds, NextApp, RunPrompt, RunPrint,
         RunExit, PromptWritten, OutputWritten, Purge, RecvAlloc, Receive,
         RecvFails, EchoFails, LineRead, ConsoleFree, CloseDone
    <2>3. InUse' = InUse
      BY <2>2 DEF InUse, HasPcb, TypeOK
    <2>4. UNCHANGED <<acceptmbox, newconn>> /\ HeldByThread' = HeldByThread
      BY <2>1 DEF Goto, serverVars, HeldByThread, Live, TypeOK
    <2> QED  BY <2>3, <2>4, OwnerFrame
  <1>2. CASE RunReset(c)
    <2>1. /\ acceptmbox' = << >> /\ newconn' = NoConn
          /\ netconn' = [d \in Conn |-> "free"] /\ tpc' = [d \in Conn |-> "none"]
      BY <1>2 DEF RunReset
    <2>2. /\ Queued' = {} /\ HeldByServer' = {} /\ HeldByThread' = {} /\ InUse' = {}
          /\ QueuedOnce'
      BY <2>1, ConnAssumption DEF Queued, HeldByServer, HeldByThread, Live, InUse, QueuedOnce
    <2> QED  BY <2>2 DEF OwnerInv, Owned
  <1>3. CASE DeleteDone(c)
    <2>1. /\ Goto(c, "deleting", "dec_load") /\ netconn' = [netconn EXCEPT ![c] = "free"]
      BY <1>3 DEF DeleteDone
    <2>2. /\ UNCHANGED <<acceptmbox, newconn>> /\ c \in HeldByThread
          /\ HeldByThread' = HeldByThread \ {c}
      BY <2>1 DEF Goto, serverVars, HeldByThread, Live, TypeOK
    <2>3. InUse' = InUse \ {c}
      BY <2>1 DEF InUse, TypeOK
    <2>4. Queued' = Queued /\ HeldByServer' = HeldByServer /\ QueuedOnce'
      BY <2>2 DEF Queued, HeldByServer, QueuedOnce, OwnerInv
    <2> QED  BY <2>2, <2>3, <2>4 DEF OwnerInv, Owned
  <1>4. CASE DecLoad(c) \/ DecStore(c)
    <2>1. \E from, to \in Gone : Goto(c, from, to)
      BY <1>4 DEF DecLoad, DecStore
    <2>2. UNCHANGED <<acceptmbox, newconn>> /\ HeldByThread' = HeldByThread
      BY <2>1 DEF Goto, serverVars, HeldByThread, Live, TypeOK
    <2>3. InUse' = InUse
      BY <1>4 DEF DecLoad, DecStore, InUse
    <2> QED  BY <2>2, <2>3, OwnerFrame
  <1> QED  BY <1>1, <1>2, <1>3, <1>4 DEF Thread

\* No netconn has two owners, and none is used after netconn_delete has given
\* it back (console.c:63, TcpServer.c:206): not by the next connection that
\* takes it from the pool, nor by the thread that is still counting itself
\* out.  If no allocation fails none is lost either.
THEOREM NetconnHasOneOwner == Spec => []SoleOwner
  <1>1. Init => OwnerInv
    <2> SUFFICES ASSUME Init PROVE OwnerInv
      OBVIOUS
    <2>1. /\ Queued = {} /\ HeldByServer = {} /\ HeldByThread = {} /\ InUse = {} /\ QueuedOnce
      BY ConnAssumption DEF Init, Queued, HeldByServer, HeldByThread, Live, InUse, QueuedOnce
    <2> QED  BY <2>1 DEF OwnerInv, Owned
  <1>2. TypeOK /\ OwnerInv /\ [Next]_vars => OwnerInv'
    <2> SUFFICES ASSUME TypeOK, OwnerInv, [Next]_vars PROVE OwnerInv'
      OBVIOUS
    <2>1. CASE Next
      BY <2>1, NextCases, OwnerServer, OwnerLwip, OwnerThread
    <2>2. CASE UNCHANGED vars
      BY <2>2, OwnerFrame DEF vars, HeldByThread, Live, InUse
    <2> QED  BY <2>1, <2>2
  <1>3. OwnerInv => SoleOwner
    BY SoleOwnerParts
  <1> QED  BY <1>1, <1>2, <1>3, TypeCorrect, PTL DEF Spec

-----------------------------------------------------------------------------
(***************************************************************************)
(* The places: conns and the loaded copies of it, of which the least says  *)
(* how many places can be taken at most.                                   *)
(***************************************************************************)

\* All of them are numbers that have room for the places taken; so has the least.
CountsOK ==
    /\ Needed \in Nat /\ MaxConns \in Nat
    /\ Counts \subseteq Nat
    /\ Min(Counts) \in Counts /\ \A n \in Counts : Min(Counts) <= n
    /\ Needed <= Min(Counts) /\ Min(Counts) <= MaxConns

LEMMA LeastCount == IInv => CountsOK
  <1> SUFFICES ASSUME IInv PROVE CountsOK
    OBVIOUS
  <1>1. TypeOK /\ CounterInv /\ Live \in SUBSET Conn BY DEF IInv, Live
  <1>2. Needed \in Nat /\ MaxConns \in Nat BY <1>1, CardFacts, MaxConnsAssumption DEF Needed
  <1>3. /\ Counts \subseteq Nat /\ conns \in Counts /\ conns <= MaxConns
        /\ \A n \in Counts : Needed <= n
    BY <1>1, <1>2 DEF TypeOK, CounterInv, Counts
  <1>4. \E x \in Counts : \A y \in Counts : x <= y BY <1>3, NatMin
  <1>5. Min(Counts) \in Counts /\ \A n \in Counts : Min(Counts) <= n BY <1>4, Zenon DEF Min
  <1>6. Min(Counts) \in Nat /\ conns \in Nat /\ Min(Counts) <= conns BY <1>3, <1>5
  <1>7. Needed <= Min(Counts) /\ Min(Counts) <= MaxConns BY <1>2, <1>3, <1>5, <1>6
  <1> QED BY <1>2, <1>3, <1>5, <1>7 DEF CountsOK

\* A step that changes neither the counts nor the places taken is none of Places.
LEMMA PlacesStutter ==
    ASSUME Counts' = Counts, Needed' = Needed
    PROVE  UNCHANGED PlacesInstance!vars
  BY DEF PlacesInstance!vars

\* A step that lowers no count by more than it lowers the places taken loses
\* no fewer places than were lost before.
LEMMA PlacesLost ==
    ASSUME CountsOK, CountsOK',
           \A n \in Counts' : Min(Counts) + Needed' <= n + Needed
    PROVE  PlacesInstance!LosesSome
  <1>1. Min(Counts) \in Nat /\ Needed \in Nat /\ Needed <= Min(Counts) BY DEF CountsOK
  <1>2. /\ Min(Counts)' \in Nat /\ Needed' \in Nat /\ MaxConns \in Nat
        /\ Needed' <= Min(Counts)' /\ Min(Counts)' <= MaxConns
        /\ Min(Counts) + Needed' <= Min(Counts)' + Needed
    BY DEF CountsOK
  <1>3. Min(Counts)' - Needed' \in (Min(Counts) - Needed) .. (MaxConns - Needed')
    BY <1>1, <1>2
  <1> QED BY <1>3 DEF PlacesInstance!LosesSome

\* The server takes a place by its store, when the register still has room;
\* a thread that it cannot create leaves its place lost.
LEMMA PlacesServer ==
    ASSUME IInv, CountsOK, CountsOK', Server
    PROVE  [PlacesInstance!Next]_(PlacesInstance!vars)
  <1>0. /\ TypeOK /\ CounterInv /\ Live \in SUBSET Conn /\ Cardinality(Live) \in Nat
        /\ conns \in Nat /\ sreg \in Nat /\ MaxConns \in Nat
    BY CardFacts, MaxConnsAssumption DEF IInv, TypeOK, Live
  <1>1. \A c \in Conn : tpc[c] # "dec_store"
    BY DEF Server, Accept, CheckFull, Refuse, RefuseDelete, ConsoleInit,
       IncLoad, IncStore, ThreadCreate, ServerMayRun, ReadyPc
  <1>2. CASE Accept \/ Refuse \/ RefuseDelete \/ ConsoleInit \/ CheckFull \/ IncLoad
    <2>1. UNCHANGED <<conns, tpc, treg>>
      BY <1>2 DEF Accept, Refuse, RefuseDelete, ConsoleInit, CheckFull, IncLoad
    <2>2. /\ spc # "thread_create" /\ spc' # "thread_create" /\ spc # "inc_store"
          /\ spc' = "inc_store" => sreg' = conns
      BY <1>2, <1>0 DEF Accept, Refuse, RefuseDelete, ConsoleInit, CheckFull, IncLoad, TypeOK
    <2>3. Live' = Live /\ Needed' = Needed BY <2>1, <2>2 DEF Live, Needed
    <2>4. Counts' = Counts BY <2>1, <2>2 DEF Counts
    <2> QED BY <2>3, <2>4, PlacesStutter
  <1>3. CASE IncStore
    <2>1. /\ spc = "inc_store" /\ spc' = "thread_create" /\ conns' = sreg + 1
          /\ UNCHANGED <<tpc, treg>>
      BY <1>3 DEF IncStore
    <2>2. Live' = Live BY <2>1 DEF Live
    <2>3. Needed' = Needed + 1 /\ Needed \in Nat BY <1>0, <2>1, <2>2 DEF Needed
    <2>4. sreg \in Counts /\ sreg < MaxConns BY <1>0, <2>1 DEF Counts, CounterInv
    <2>5. Counts' = {sreg + 1} BY <1>1, <2>1 DEF Counts
    <2>6. Min(Counts) \in Nat /\ Min(Counts) <= sreg BY <2>4 DEF CountsOK
    <2>7. PlacesInstance!LosesSome
      <3>1. \A n \in Counts' : Min(Counts) + Needed' <= n + Needed BY <1>0, <2>3, <2>5, <2>6
      <3> QED BY <3>1, PlacesLost
    <2>8. Needed + (Min(Counts) - Needed) < MaxConns BY <1>0, <2>3, <2>4, <2>6
    <2> QED BY <2>3, <2>7, <2>8 DEF PlacesInstance!Next, PlacesInstance!Admit
  <1>4. CASE ThreadCreate
    <2>1. /\ UNCHANGED <<conns, treg, sreg>> /\ spc = "thread_create" /\ spc' = "accept"
          /\ tpc' = tpc \/ tpc' = [tpc EXCEPT ![newconn] = "start"]
          /\ newconn \in Conn
      BY <1>0, <1>4 DEF ThreadCreate, TypeOK
    <2>2. \A c \in Conn : tpc'[c] # "dec_store" BY <1>0, <1>1, <2>1 DEF TypeOK
    <2>3. Counts' = Counts BY <1>1, <2>1, <2>2 DEF Counts
    <2>4. Live' = Live \/ (newconn \notin Live /\ Live' = Live \cup {newconn})
      BY <1>0, <2>1 DEF Live, TypeOK
    <2>5. CASE newconn \notin Live /\ Live' = Live \cup {newconn}
      <3>1. Cardinality(Live') = Cardinality(Live) + 1 BY <1>0, <2>1, <2>5, CardFacts
      <3>2. Needed' = Needed BY <1>0, <2>1, <3>1 DEF Needed
      <3> QED BY <2>3, <3>2, PlacesStutter
    <2>6. CASE Live' = Live
      <3>1. Needed' = Needed - 1 /\ Needed \in Nat /\ Needed > 0 BY <1>0, <2>1, <2>6 DEF Needed
      <3>2. \A n \in Counts' : Min(Counts) + Needed' <= n + Needed
        <4>1. \A n \in Counts' : n \in Nat /\ Min(Counts) \in Nat /\ Min(Counts) <= n
          BY <2>3 DEF CountsOK
        <4> QED BY <3>1, <4>1
      <3>3. PlacesInstance!LosesSome BY <3>2, PlacesLost
      <3> QED BY <3>1, <3>3 DEF PlacesInstance!Next, PlacesInstance!Leave
    <2> QED BY <2>4, <2>5, <2>6
  <1> QED BY <1>2, <1>3, <1>4 DEF Server

\* A session gives its place back by its store; whatever the store overwrites
\* was at least the least count.
LEMMA PlacesThread ==
    ASSUME IInv, CountsOK, CountsOK', NEW c \in Conn, Thread(c)
    PROVE  [PlacesInstance!Next]_(PlacesInstance!vars)
  <1>0. /\ TypeOK /\ CounterInv /\ Live \in SUBSET Conn /\ Cardinality(Live) \in Nat
        /\ conns \in Nat /\ sreg \in Nat /\ treg[c] \in Nat
    BY CardFacts DEF IInv, TypeOK, Live
  <1>1. CASE \/ ThreadStart(c) \/ SessionEnds(c) \/ NextApp(c)
             \/ RunPrompt(c) \/ RunPrint(c) \/ RunExit(c)
             \/ PromptWritten(c) \/ OutputWritten(c) \/ Purge(c) \/ RecvAlloc(c)
             \/ Receive(c) \/ RecvFails(c) \/ EchoFails(c) \/ LineRead(c)
             \/ ConsoleFree(c) \/ CloseDone(c) \/ DeleteDone(c)
    <2>1. \E from, to \in ThreadPc \ {"none", "dec_store"} : Goto(c, from, to)
      BY <1>1 DEF ThreadStart, SessionEnds, NextApp, RunPrompt, RunPrint,
         RunExit, PromptWritten, OutputWritten, Purge, RecvAlloc, Receive,
         RecvFails, EchoFails, LineRead, ConsoleFree, CloseDone, DeleteDone,
         ThreadPc, ReadyPc
    <2>2. UNCHANGED <<conns, treg>>
      BY <1>1 DEF ThreadStart, SessionEnds, NextApp, RunPrompt, RunPrint,
         RunExit, PromptWritten, OutputWritten, Purge, RecvAlloc, Receive,
         RecvFails, EchoFails, LineRead, ConsoleFree, CloseDone, DeleteDone
    <2>3. Live' = Live BY <1>0, <2>1, GotoLive
    <2>4. /\ UNCHANGED <<spc, sreg>>
          /\ \A d \in Conn : tpc'[d] = "dec_store" <=> tpc[d] = "dec_store"
      BY <1>0, <2>1 DEF Goto, serverVars, TypeOK
    <2>5. Needed' = Needed /\ Counts' = Counts BY <2>2, <2>3, <2>4 DEF Needed, Counts
    <2> QED BY <2>5, PlacesStutter
  <1>2. CASE RunReset(c)
    <2>1. Live' = {} /\ conns' = 0 /\ spc' = "accept" /\ \A d \in Conn : tpc'[d] = "none"
      BY <1>2 DEF RunReset, Live
    <2>2. Needed' = 0 BY <2>1, FS_EmptySet DEF Needed
    <2>3. Counts' = {0} BY <2>1 DEF Counts
    <2>4. Min(Counts)' = 0 BY <2>3 DEF CountsOK
    <2> QED BY <2>2, <2>4 DEF PlacesInstance!Next, PlacesInstance!Reset
  <1>3. CASE DecLoad(c)
    <2>1. Live' = Live BY <1>0, <1>3, GotoLive DEF DecLoad, ThreadPc, ReadyPc
    <2>2. /\ UNCHANGED <<conns, spc, sreg>>
          /\ tpc[c] = "dec_load" /\ tpc'[c] = "dec_store" /\ treg'[c] = conns
          /\ \A d \in Conn \ {c} : tpc'[d] = tpc[d] /\ treg'[d] = treg[d]
      BY <1>0, <1>3 DEF DecLoad, Goto, serverVars, TypeOK
    <2>3. Needed' = Needed BY <2>1, <2>2 DEF Needed
    <2>4. Counts' = Counts BY <2>2 DEF Counts
    <2> QED BY <2>3, <2>4, PlacesStutter
  <1>4. CASE DecStore(c)
    <2>1. c \in Live /\ Live' = Live \ {c}
      BY <1>0, <1>4 DEF DecStore, Goto, Live, TypeOK
    <2>2. Cardinality(Live') = Cardinality(Live) - 1 /\ Cardinality(Live) > 0
      BY <1>0, <2>1, CardFacts
    <2>3. /\ UNCHANGED <<spc, sreg>> /\ conns' = treg[c] - 1
          /\ tpc[c] = "dec_store" /\ tpc'[c] = "none"
          /\ \A d \in Conn \ {c} : tpc'[d] = tpc[d] /\ treg'[d] = treg[d]
      BY <1>0, <1>4 DEF DecStore, Goto, serverVars, TypeOK
    <2>4. Needed' = Needed - 1 /\ Needed \in Nat /\ Needed > 0
      BY <1>0, <2>2, <2>3 DEF Needed
    <2>5. treg[c] \in Counts BY <2>3 DEF Counts
    <2>6. \A n \in Counts' : n = treg[c] - 1 \/ n \in Counts BY <2>3 DEF Counts
    <2>7. \A n \in Counts' : Min(Counts) + Needed' <= n + Needed
      <3>1. Min(Counts) \in Nat /\ \A n \in Counts : n \in Nat /\ Min(Counts) <= n
        BY DEF CountsOK
      <3> QED BY <1>0, <2>4, <2>5, <2>6, <3>1
    <2>8. PlacesInstance!LosesSome BY <2>7, PlacesLost
    <2> QED BY <2>4, <2>8 DEF PlacesInstance!Next, PlacesInstance!Leave
  <1> QED BY <1>1, <1>2, <1>3, <1>4 DEF Thread

\* The counter implements Places: with --conns and ++conns overwriting each
\* other (TcpServer.c:214, 272) and allocations failing, the places taken and
\* lost are never more than max_conns, and no interleaving brings a lost place
\* back.
THEOREM PlacesImplemented == Spec => LostPlacesStayLost
  <1>1. Init => PlacesInstance!Init
    <2> SUFFICES ASSUME Init PROVE PlacesInstance!Init
      OBVIOUS
    <2>1. Needed = 0 /\ Counts = {0}
      <3>1. conns = 0 /\ spc = "accept" /\ \A c \in Conn : tpc[c] = "none" BY DEF Init
      <3>2. Live = {} BY <3>1 DEF Live
      <3>3. Needed = 0 BY <3>1, <3>2, FS_EmptySet DEF Needed
      <3>4. {d \in Conn : tpc[d] = "dec_store"} = {} /\ {n \in {sreg} : spc = "inc_store"} = {} BY <3>1
      <3>5. Counts = {0} BY <3>1, <3>4 DEF Counts
      <3> QED BY <3>3, <3>5
    <2>2. Min(Counts) = 0 BY <2>1, InitIInv, LeastCount DEF CountsOK
    <2> QED BY <2>1, <2>2 DEF PlacesInstance!Init
  <1>2. CountsOK /\ CountsOK' /\ IInv /\ [Next]_vars => [PlacesInstance!Next]_(PlacesInstance!vars)
    <2> SUFFICES ASSUME CountsOK, CountsOK', IInv, [Next]_vars
                 PROVE  [PlacesInstance!Next]_(PlacesInstance!vars)
      OBVIOUS
    <2>1. CASE Server
      BY <2>1, PlacesServer
    <2>2. CASE \E c \in Conn : Thread(c)
      BY <2>2, PlacesThread
    <2>3. CASE UNCHANGED vars \/ ConnectAborted \/ \E c \in Conn : ConnAction(c)
      <3>1. UNCHANGED <<conns, treg, spc, sreg, tpc>>
        BY <2>3 DEF vars, ConnectAborted, ConnAction, Connect, PeerFin, PeerReset, serverVars
      <3>2. Needed' = Needed /\ Counts' = Counts BY <3>1 DEF Needed, Live, Counts
      <3> QED BY <3>2, PlacesStutter
    <2> QED BY <2>1, <2>2, <2>3, NextCases
  <1>3. Spec => PlacesInstance!Init /\ [][PlacesInstance!Next]_(PlacesInstance!vars)
    BY <1>1, <1>2, IInvariance, LeastCount, PTL DEF Spec
  <1> QED BY <1>3 DEF LostPlacesStayLost, PlacesInstance!Spec
=============================================================================
