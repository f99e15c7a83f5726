----------------------------- MODULE TcpServer -----------------------------
(***************************************************************************)
(* The connection life cycle of TcpShell/TcpServer.c.                      *)
(*                                                                         *)
(* One ServerThread (osPriorityNormal) takes netconns from the accept      *)
(* mailbox, compares the shared counter `conns' with max_conns and either  *)
(* refuses the connection or starts a ConnectionThread (osPriorityHigh)    *)
(* for it.  A ConnectionThread runs the logon application and then shell   *)
(* commands until the session exits or the netconn reports a fatal error,  *)
(* frees its console and decrements `conns'.                               *)
(*                                                                         *)
(* `conns' is a volatile unsigned int: ++conns and --conns are each a load *)
(* and a store.  The scheduler is preemptive on one core, with time slices *)
(* among equal priorities.  So a ConnectionThread can run between the      *)
(* server's load and store, two ConnectionThreads can interleave theirs,   *)
(* but the server never runs while a ConnectionThread is ready to run.     *)
(*                                                                         *)
(* The lwIP side (netconn pool, accept mailbox, FIN, reset) is taken from  *)
(* LwIP/src/api.  A netconn is a member of the pool Conn (MEMP_NUM_NETCONN *)
(* less the listening one); what travels on the connection is abstracted   *)
(* to whether a whole line arrives.                                        *)
(***************************************************************************)
EXTENDS Naturals, Sequences, FiniteSets, FiniteSetsExt

CONSTANTS
    Conn,           \* the pool of netconns for accepted connections
    MaxConns,       \* max_conns (MAX_CONNECTIONS)
    MboxSize,       \* DEFAULT_ACCEPTMBOX_SIZE
    NumNetbufs,     \* MEMP_NUM_NETBUF
    MallocMayFail,  \* whether pvPortMalloc may return NULL
    NoConn,         \* a null netconn pointer
    Aborted         \* &netconn_aborted, posted instead of a netconn

ASSUME ConnAssumption == IsFiniteSet(Conn) /\ NoConn \notin Conn /\ Aborted \notin Conn
ASSUME MaxConnsAssumption == MaxConns \in Nat \ {0}
ASSUME MboxSizeAssumption == MboxSize \in Nat \ {0}
ASSUME NumNetbufsAssumption == NumNetbufs \in Nat
ASSUME MallocAssumption == MallocMayFail \in BOOLEAN

VARIABLES
    netconn,     \* state of every netconn of the pool
    acceptmbox,  \* conn->acceptmbox of the listening netconn
    netbufs,     \* how many netbufs the pool MEMP_NETBUF has left
    conns,       \* the shared connection counter
    spc,         \* where ServerThread is
    newconn,     \* its local newconn
    sreg,        \* the register that holds conns during its ++conns
    tpc,         \* where the ConnectionThread of a netconn is
    treg,        \* the register that holds conns during its --conns
    app,         \* the application it runs
    nextApp,     \* context->next_app
    exiting,     \* context->exiting
    buf          \* whether it holds a netbuf (context->buf, or inside netconn_recv)

serverVars == <<spc, newconn, sreg>>
appVars == <<app, nextApp, exiting>>
consoleVars == <<appVars, buf, netbufs>>
vars == <<netconn, acceptmbox, netbufs, conns, spc, newconn, sreg, tpc, treg,
          app, nextApp, exiting, buf>>

(***************************************************************************)
(* netconn states: free in the pool; up; fin (a FIN is queued behind any   *)
(* data); clsd (the FIN was read, recvmbox is gone, last_err is still      *)
(* ERR_OK); err (reset or aborted: pcb is NULL and last_err is fatal);     *)
(* closed (by us: pcb is NULL, last_err is ERR_OK).                        *)
(***************************************************************************)
NetconnState == {"free", "up", "fin", "clsd", "err", "closed"}

HasPcb(c) == netconn[c] \in {"up", "fin", "clsd"}

\* app_list, with the commands that only print collected in "print"
Command == {"logon", "shell", "exit", "reset", "print"}

ServerPc == {"accept", "check", "refuse", "delete", "console_init",
             "inc_load", "inc_store", "thread_create"}

\* A thread at one of these is ready.  At the others it waits for lwIP
\* (at "getchar", for the echo of the last character to be written).
ReadyPc == {"start", "test", "run", "recv_alloc", "free", "dec_load", "dec_store"}
ThreadPc == ReadyPc \cup {"none", "prompt", "getchar", "recv", "output",
                          "closing", "deleting"}

Init ==
    /\ netconn = [c \in Conn |-> "free"]
    /\ acceptmbox = << >>
    /\ netbufs = NumNetbufs
    /\ conns = 0
    /\ spc = "accept" /\ newconn = NoConn /\ sreg = 0
    /\ tpc = [c \in Conn |-> "none"]
    /\ treg = [c \in Conn |-> 0]
    /\ app = [c \in Conn |-> "none"]
    /\ nextApp = [c \in Conn |-> "none"]
    /\ exiting = [c \in Conn |-> FALSE]
    /\ buf = [c \in Conn |-> FALSE]

-----------------------------------------------------------------------------
(***************************************************************************)
(* lwIP and the peer.                                                      *)
(***************************************************************************)

\* accept_function: a client connects and its netconn is posted.
Connect(c) ==
    /\ netconn[c] = "free"
    /\ Len(acceptmbox) < MboxSize
    /\ netconn' = [netconn EXCEPT ![c] = "up"]
    /\ acceptmbox' = Append(acceptmbox, c)
    /\ UNCHANGED <<conns, serverVars, tpc, treg, consoleVars>>

\* accept_function: there is no pcb or no netconn left (or no memory for the
\* netconn's mailbox), and the error is passed to netconn_accept.
ConnectAborted ==
    /\ Len(acceptmbox) < MboxSize
    /\ acceptmbox' = Append(acceptmbox, Aborted)
    /\ UNCHANGED <<netconn, conns, serverVars, tpc, treg, consoleVars>>

\* recv_tcp with a NULL pbuf: the peer closed its sending direction.
PeerFin(c) ==
    /\ netconn[c] = "up"
    /\ netconn' = [netconn EXCEPT ![c] = "fin"]
    /\ UNCHANGED <<acceptmbox, conns, serverVars, tpc, treg, consoleVars>>

\* err_tcp: a reset, or the stack gave up on the connection.  During
\* netconn_close the error is swallowed and last_err stays ERR_OK.
PeerReset(c) ==
    /\ HasPcb(c)
    /\ netconn' = [netconn EXCEPT ![c] = IF tpc[c] = "closing" THEN "closed" ELSE "err"]
    /\ UNCHANGED <<acceptmbox, conns, serverVars, tpc, treg, consoleVars>>

-----------------------------------------------------------------------------
(***************************************************************************)
(* ServerThread.  Its priority is below the ConnectionThreads'.            *)
(***************************************************************************)
\* mutant: the sessions do not have priority over the server
ServerMayRunAnytime == TRUE

ServerMayRun == \A c \in Conn : tpc[c] \notin ReadyPc

\* mutant: the result of netconn_accept is not looked at
AcceptUnchecked ==
    /\ spc = "accept" /\ ServerMayRun
    /\ acceptmbox # << >>
    /\ acceptmbox' = Tail(acceptmbox)
    /\ spc' = "check" /\ newconn' = Head(acceptmbox)
    /\ UNCHANGED <<netconn, conns, sreg, tpc, treg, consoleVars>>

\* mutant: an error of netconn_accept ends the loop
AcceptGivesUp ==
    /\ spc = "accept" /\ ServerMayRun
    /\ acceptmbox # << >>
    /\ acceptmbox' = Tail(acceptmbox)
    /\ IF Head(acceptmbox) = Aborted
         THEN spc' = "stopped" /\ UNCHANGED newconn
         ELSE spc' = "check" /\ newconn' = Head(acceptmbox)
    /\ UNCHANGED <<netconn, conns, sreg, tpc, treg, consoleVars>>

\* netconn_accept returns; an error is only reported (led_error).
Accept ==
    /\ spc = "accept" /\ ServerMayRun
    /\ acceptmbox # << >>
    /\ acceptmbox' = Tail(acceptmbox)
    /\ IF Head(acceptmbox) = Aborted
         THEN UNCHANGED <<spc, newconn>>
         ELSE spc' = "check" /\ newconn' = Head(acceptmbox)
    /\ UNCHANGED <<netconn, conns, sreg, tpc, treg, consoleVars>>

\* mutant: one too many is let in
CheckFullLate ==
    /\ spc = "check" /\ ServerMayRun
    /\ spc' = IF conns > MaxConns THEN "refuse" ELSE "console_init"
    /\ UNCHANGED <<netconn, acceptmbox, conns, newconn, sreg, tpc, treg, consoleVars>>

\* The full check of TcpServer.c:202.
CheckFull ==
    /\ spc = "check" /\ ServerMayRun
    /\ spc' = IF conns = MaxConns THEN "refuse" ELSE "console_init"
    /\ UNCHANGED <<netconn, acceptmbox, conns, newconn, sreg, tpc, treg, consoleVars>>

\* mutant: netconn_delete comes first
RefuseDeletesFirst ==
    /\ spc = "refuse" /\ ServerMayRun
    /\ spc' = "delete"
    /\ netconn' = [netconn EXCEPT ![newconn] = "free"]
    /\ UNCHANGED <<acceptmbox, conns, newconn, sreg, tpc, treg, consoleVars>>

\* netconn_close(newconn)
Refuse ==
    /\ spc = "refuse" /\ ServerMayRun
    /\ spc' = "delete"
    /\ netconn' = [netconn EXCEPT ![newconn] = IF HasPcb(newconn) THEN "closed" ELSE @]
    /\ UNCHANGED <<acceptmbox, conns, newconn, sreg, tpc, treg, consoleVars>>

\* mutant: netconn_delete is forgotten
RefuseNoDelete ==
    /\ spc = "delete" /\ ServerMayRun
    /\ spc' = "accept" /\ newconn' = NoConn
    /\ UNCHANGED <<netconn, acceptmbox, conns, sreg, tpc, treg, consoleVars>>

\* netconn_delete(newconn)
RefuseDelete ==
    /\ spc = "delete" /\ ServerMayRun
    /\ spc' = "accept" /\ newconn' = NoConn
    /\ netconn' = [netconn EXCEPT ![newconn] = "free"]
    /\ UNCHANGED <<acceptmbox, conns, sreg, tpc, treg, consoleVars>>

\* mutant: ++conns is skipped
ConsoleInitUncounted ==
    /\ spc = "console_init" /\ ServerMayRun
    /\ spc' = "thread_create"
    /\ UNCHANGED <<netconn, acceptmbox, conns, newconn, sreg, tpc, treg, consoleVars>>

\* mutant: without memory a place is given back that was not taken
ConsoleInitGivesBack ==
    /\ spc = "console_init" /\ ServerMayRun
    /\ \/ spc' = "inc_load" /\ UNCHANGED <<newconn, conns>>
       \/ MallocMayFail /\ spc' = "accept" /\ newconn' = NoConn /\ conns' = conns - 1
    /\ UNCHANGED <<netconn, acceptmbox, sreg, tpc, treg, consoleVars>>

\* console_init; when it returns NULL the server goes on to the next accept.
ConsoleInit ==
    /\ spc = "console_init" /\ ServerMayRun
    /\ \/ spc' = "inc_load" /\ UNCHANGED newconn
       \/ MallocMayFail /\ spc' = "accept" /\ newconn' = NoConn
    /\ UNCHANGED <<netconn, acceptmbox, conns, sreg, tpc, treg, consoleVars>>

IncLoad ==
    /\ spc = "inc_load" /\ ServerMayRun
    /\ spc' = "inc_store" /\ sreg' = conns
    /\ UNCHANGED <<netconn, acceptmbox, conns, newconn, tpc, treg, consoleVars>>

IncStore ==
    /\ spc = "inc_store" /\ ServerMayRun
    /\ spc' = "thread_create" /\ conns' = sreg + 1 /\ sreg' = 0
    /\ UNCHANGED <<netconn, acceptmbox, newconn, tpc, treg, consoleVars>>

\* osThreadCreate; its result is not looked at.
ThreadCreate ==
    /\ spc = "thread_create" /\ ServerMayRun
    /\ spc' = "accept" /\ newconn' = NoConn
    /\ \/ tpc' = [tpc EXCEPT ![newconn] = "start"]
       \/ MallocMayFail /\ UNCHANGED tpc
    /\ UNCHANGED <<netconn, acceptmbox, conns, sreg, treg, consoleVars>>

Server == Accept \/ CheckFull \/ Refuse \/ RefuseDelete \/ ConsoleInit
          \/ IncLoad \/ IncStore \/ ThreadCreate

-----------------------------------------------------------------------------
(***************************************************************************)
(* ConnectionThread.                                                       *)
(***************************************************************************)
Goto(c, from, to) ==
    /\ tpc[c] = from
    /\ tpc' = [tpc EXCEPT ![c] = to]
    /\ UNCHANGED <<acceptmbox, serverVars>>

\* telnet_init on the zeroed console
ThreadStart(c) ==
    /\ \/ Goto(c, "start", "test")
       \/ MallocMayFail /\ Goto(c, "start", "free")
    /\ nextApp' = [nextApp EXCEPT ![c] = "logon"]
    /\ UNCHANGED <<netconn, netbufs, conns, treg, app, exiting, buf>>

\* the loop condition: !exiting && !ERR_IS_FATAL(netconn_err(conn))
SessionEnds(c) ==
    /\ exiting[c] \/ netconn[c] = "err"
    /\ Goto(c, "test", "free")
    /\ UNCHANGED <<netconn, conns, treg, consoleVars>>

\* mutant: the loop does not look at netconn_err
NextAppRegardless(c) ==
    /\ ~exiting[c]
    /\ Goto(c, "test", "run")
    /\ app' = [app EXCEPT ![c] = IF nextApp[c] = "none" THEN "shell" ELSE nextApp[c]]
    /\ nextApp' = [nextApp EXCEPT ![c] = "none"]
    /\ UNCHANGED <<netconn, netbufs, conns, treg, exiting, buf>>

NextApp(c) ==
    /\ ~exiting[c] /\ netconn[c] # "err"
    /\ Goto(c, "test", "run")
    /\ app' = [app EXCEPT ![c] = IF nextApp[c] = "none" THEN "shell" ELSE nextApp[c]]
    /\ nextApp' = [nextApp EXCEPT ![c] = "none"]
    /\ UNCHANGED <<netconn, netbufs, conns, treg, exiting, buf>>

\* LogonAppRun and ShellAppRun write a prompt; the printing commands write.
RunPrompt(c) ==
    /\ app[c] \in {"logon", "shell"}
    /\ Goto(c, "run", "prompt")
    /\ UNCHANGED <<netconn, conns, treg, consoleVars>>

RunPrint(c) ==
    /\ app[c] = "print"
    /\ Goto(c, "run", "output")
    /\ UNCHANGED <<netconn, conns, treg, consoleVars>>

\* ExitAppRun
RunExit(c) ==
    /\ app[c] = "exit"
    /\ Goto(c, "run", "test")
    /\ exiting' = [exiting EXCEPT ![c] = TRUE]
    /\ UNCHANGED <<netconn, netbufs, conns, treg, app, nextApp, buf>>

\* ResetAppRun: NVIC_SystemReset restarts everything.
RunReset(c) ==
    /\ tpc[c] = "run" /\ app[c] = "reset"
    /\ netconn' = [d \in Conn |-> "free"]
    /\ acceptmbox' = << >>
    /\ netbufs' = NumNetbufs
    /\ conns' = 0
    /\ spc' = "accept" /\ newconn' = NoConn /\ sreg' = 0
    /\ tpc' = [d \in Conn |-> "none"]
    /\ treg' = [d \in Conn |-> 0]
    /\ app' = [d \in Conn |-> "none"]
    /\ nextApp' = [d \in Conn |-> "none"]
    /\ exiting' = [d \in Conn |-> FALSE]
    /\ buf' = [d \in Conn |-> FALSE]

\* The tcpip thread has taken what was written, or refused it.
PromptWritten(c) ==
    /\ Goto(c, "prompt", "getchar")
    /\ UNCHANGED <<netconn, conns, treg, consoleVars>>

OutputWritten(c) ==
    /\ Goto(c, "output", "test")
    /\ UNCHANGED <<netconn, conns, treg, consoleVars>>

\* mutant: context->buf keeps pointing to the deleted netbuf
PurgeKeepsPointer(c) ==
    /\ Goto(c, "getchar", "recv_alloc")
    /\ netbufs' = IF buf[c] THEN netbufs + 1 ELSE netbufs
    /\ UNCHANGED <<netconn, conns, treg, appVars, buf>>

\* console_getchar: nothing (more) in buf, so delete it and read more.
Purge(c) ==
    /\ Goto(c, "getchar", "recv_alloc")
    /\ netbufs' = IF buf[c] THEN netbufs + 1 ELSE netbufs
    /\ buf' = [buf EXCEPT ![c] = FALSE]
    /\ UNCHANGED <<netconn, conns, treg, appVars>>

\* netconn_recv: takes a netbuf before it waits, ERR_MEM when there is none.
RecvAlloc(c) ==
    /\ IF netbufs > 0
         THEN /\ Goto(c, "recv_alloc", "recv")
              /\ netbufs' = netbufs - 1
              /\ buf' = [buf EXCEPT ![c] = TRUE]
         ELSE /\ Goto(c, "recv_alloc", "output")
              /\ UNCHANGED <<netbufs, buf>>
    /\ UNCHANGED <<netconn, conns, treg, appVars>>

Receive(c) ==
    /\ netconn[c] \in {"up", "fin"}
    /\ Goto(c, "recv", "getchar")
    /\ UNCHANGED <<netconn, conns, treg, consoleVars>>

\* netconn_recv fails: on the FIN it shuts the reading side down and says
\* ERR_CLSD, which is not fatal and not stored in last_err.
RecvFails(c) ==
    /\ netconn[c] \in {"fin", "clsd", "err"}
    /\ Goto(c, "recv", "output")
    /\ netconn' = [netconn EXCEPT ![c] = IF @ = "fin" THEN "clsd" ELSE @]
    /\ netbufs' = netbufs + 1
    /\ buf' = [buf EXCEPT ![c] = FALSE]
    /\ UNCHANGED <<conns, treg, appVars>>

\* console_getline: writing the echo fails.
EchoFails(c) ==
    /\ buf[c] /\ netconn[c] = "err"
    /\ Goto(c, "getchar", "output")
    /\ UNCHANGED <<netconn, conns, treg, consoleVars>>

\* console_getline returns a line; the shell looks it up in app_list.
LineRead(c) ==
    /\ buf[c]
    /\ Goto(c, "getchar", "output")
    /\ IF app[c] = "shell"
         THEN \E cmd \in Command \cup {"none"} : nextApp' = [nextApp EXCEPT ![c] = cmd]
         ELSE UNCHANGED nextApp
    /\ UNCHANGED <<netconn, netbufs, conns, treg, app, exiting, buf>>

\* console_free: close only what is still open.
ConsoleFree(c) ==
    /\ Goto(c, "free", IF netconn[c] = "err" THEN "deleting" ELSE "closing")
    /\ UNCHANGED <<netconn, conns, treg, consoleVars>>

CloseDone(c) ==
    /\ Goto(c, "closing", "deleting")
    /\ netconn' = [netconn EXCEPT ![c] = IF HasPcb(c) THEN "closed" ELSE @]
    /\ UNCHANGED <<conns, treg, consoleVars>>

\* netconn_delete, then netbuf_free, which frees the netbuf's data but does
\* not put the netbuf back into its pool.  The console is gone after this.
DeleteDone(c) ==
    /\ Goto(c, "deleting", "dec_load")
    /\ netconn' = [netconn EXCEPT ![c] = "free"]
    /\ buf' = [buf EXCEPT ![c] = FALSE]
    /\ app' = [app EXCEPT ![c] = "none"]
    /\ nextApp' = [nextApp EXCEPT ![c] = "none"]
    /\ exiting' = [exiting EXCEPT ![c] = FALSE]
    /\ UNCHANGED <<netbufs, conns, treg>>

\* --conns
DecLoad(c) ==
    /\ Goto(c, "dec_load", "dec_store")
    /\ treg' = [treg EXCEPT ![c] = conns]
    /\ UNCHANGED <<netconn, conns, consoleVars>>

DecStore(c) ==
    /\ Goto(c, "dec_store", "none")
    /\ conns' = treg[c] - 1
    /\ treg' = [treg EXCEPT ![c] = 0]
    /\ UNCHANGED <<netconn, consoleVars>>

Thread(c) ==
    \/ ThreadStart(c) \/ SessionEnds(c) \/ NextApp(c)
    \/ RunPrompt(c) \/ RunPrint(c) \/ RunExit(c) \/ RunReset(c)
    \/ PromptWritten(c) \/ OutputWritten(c)
    \/ Purge(c) \/ RecvAlloc(c) \/ Receive(c) \/ RecvFails(c)
    \/ EchoFails(c) \/ LineRead(c)
    \/ ConsoleFree(c) \/ CloseDone(c) \/ DeleteDone(c)
    \/ DecLoad(c) \/ DecStore(c)

Next ==
    \/ Server
    \/ ConnectAborted
    \/ \E c \in Conn : Connect(c) \/ PeerFin(c) \/ PeerReset(c) \/ Thread(c)

Spec == Init /\ [][Next]_vars

(***************************************************************************)
(* Fairness.  A ready thread runs; lwIP answers every call on a netconn    *)
(* whose connection has failed, and finishes every close and delete (it    *)
(* has a close timeout).  Nothing is assumed of a peer that is still       *)
(* there: it may stop reading, send nothing, or never connect.  The server *)
(* is served whenever it gets the CPU often enough.                        *)
(***************************************************************************)
ThreadRuns(c) ==
    (tpc[c] \in ReadyPc \cup {"closing", "deleting"} \/ netconn[c] = "err") /\ Thread(c)

Fairness == SF_vars(Server) /\ \A c \in Conn : WF_vars(ThreadRuns(c))

FairSpec == Spec /\ Fairness

-----------------------------------------------------------------------------
(***************************************************************************)
(* Properties.                                                             *)
(***************************************************************************)
TypeOK ==
    /\ netconn \in [Conn -> NetconnState]
    /\ acceptmbox \in Seq(Conn \cup {Aborted}) /\ Len(acceptmbox) <= MboxSize
    /\ netbufs \in Nat
    /\ conns \in Nat /\ sreg \in Nat /\ treg \in [Conn -> Nat]
    /\ spc \in ServerPc
    /\ newconn \in Conn \cup {NoConn} /\ (newconn = NoConn <=> spc = "accept")
    /\ tpc \in [Conn -> ThreadPc]
    /\ app \in [Conn -> Command \cup {"none"}]
    /\ nextApp \in [Conn -> Command \cup {"none"}]
    /\ exiting \in [Conn -> BOOLEAN]
    /\ buf \in [Conn -> BOOLEAN]

\* Netbufs that a session holds
Held == {c \in Conn : buf[c]}

\* No netbuf is given back twice (console.c:110, and the error paths of
\* netconn_recv): the free ones and the held ones are never more than the
\* pool.  (The converse fails: console_free loses them.)
NetbufInv ==
    /\ netbufs + Cardinality(Held) <= NumNetbufs
    /\ \A c \in Conn : tpc[c] = "recv" => buf[c]

\* ConnectionThreads that exist
Live == {c \in Conn : tpc[c] # "none"}

\* Never more than max_conns ConnectionThreads exist (TcpServer.c:202), in
\* spite of ++conns and --conns not being atomic and of failed allocations.
AdmissionBound == Cardinality(Live) <= MaxConns

\* The assertions of TcpServer.c:201 and 273: the counter stays between 0
\* and max_conns (it is unsigned, so below 0 means a decrement of 0).
CounterInRange ==
    /\ conns <= MaxConns
    /\ \A c \in Conn : tpc[c] = "dec_store" => treg[c] > 0

\* The places taken: the live threads and the one about to be created
Needed == Cardinality(Live) + (IF spc = "thread_create" THEN 1 ELSE 0)

\* Lost updates only ever leave the counter too high: neither conns nor a
\* register that is about to be stored into it (TcpServer.c:214, 272) falls
\* below the places taken.  This is what makes AdmissionBound inductive.
CounterInv ==
    /\ Needed <= conns /\ conns <= MaxConns
    /\ \A c \in Conn :
          tpc[c] = "dec_store" => Needed <= treg[c] /\ treg[c] <= MaxConns
    /\ spc \in {"console_init", "inc_load"} => conns < MaxConns
    /\ spc = "inc_store" => Needed <= sreg /\ sreg < MaxConns

\* conns, and what threads in the middle of ++conns or --conns have loaded
Counts == {conns} \cup {treg[c] : c \in {d \in Conn : tpc[d] = "dec_store"}}
                  \cup {n \in {sreg} : spc = "inc_store"}

\* A place is lost for good when the least of them is too high.
PlacesInstance == INSTANCE Places WITH sessions <- Needed, lost <- Min(Counts) - Needed

\* Whatever the updates of conns overwrite (TcpServer.c:214, 272) and whatever
\* allocation fails, the places taken and the places lost are never more than
\* max_conns, and no overwriting gives a lost place back: that takes a reset.
LostPlacesStayLost == PlacesInstance!Spec

Queued == {c \in Conn : \E i \in DOMAIN acceptmbox : acceptmbox[i] = c}
HeldByServer == Conn \cap {newconn}
HeldByThread == {c \in Live : tpc[c] \notin {"dec_load", "dec_store"}}

\* A netconn that is in use has exactly one owner: the accept mailbox, the
\* server or one thread.  None is used after netconn_delete gave it back
\* (console.c:63, TcpServer.c:206), and, as long as allocations succeed,
\* none is lost.
SoleOwner ==
    /\ Queued \cap HeldByServer = {} /\ Queued \cap HeldByThread = {}
    /\ HeldByServer \cap HeldByThread = {}
    /\ \A i, j \in DOMAIN acceptmbox :
          acceptmbox[i] = acceptmbox[j] /\ acceptmbox[i] \in Conn => i = j
    /\ LET owned == Queued \cup HeldByServer \cup HeldByThread
           inUse == {c \in Conn : netconn[c] # "free"}
       IN  owned \subseteq inUse /\ (~MallocMayFail => inUse \subseteq owned)

\* lwipopts.h:73, "Make sure we have enough netconn and netbuff applications
\* for our user count": a session that wants to read finds a netbuf.
EnoughNetbufs == \A c \in Conn : tpc[c] = "recv_alloc" => netbufs > 0

\* TcpServer.c:204, "delete connection... we're full": a connection is
\* refused only while max_conns sessions exist.
RefusedOnlyWhenFull ==
    [][spc = "check" /\ spc' = "refuse" => Cardinality(Live) = MaxConns]_vars

\* A session whose connection failed ends: its thread leaves the loop, frees
\* the console and gives its place back (TcpServer.c:249, 271, 272), wherever
\* the failure met it and even when no netbuf is left.
FailedSessionEnds ==
    \A c \in Conn : tpc[c] # "none" /\ netconn[c] = "err" ~> tpc[c] = "none"

\* As long as the sessions leave it the CPU again and again, the server
\* takes every queued connection (TcpServer.c:195-225): no error of
\* netconn_accept, refusal or failed allocation stops the accept loop.
QueuedIsTaken ==
    []<>ServerMayRun => \A c \in Conn : c \in Queued ~> c \notin Queued
=============================================================================
