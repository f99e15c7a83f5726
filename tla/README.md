# FreeRTOSTcpShell: TLA+ models and proofs

FreeRTOSTcpShell is a telnet shell for an STM32F746 board: FreeRTOS, lwIP with
its netconn API, libtelnet, a dozen commands, a small OLED display and some
LEDs. The program's own code is under `src/TcpShell`; `src/LwIP` is vendored.
This directory models the parts in which several threads, the network and the
hardware meet, checks them with TLC on small instances and proves the most
important invariants with TLAPS for instances of every size.

## 1. Inventory

| part | state | operations | talks to |
|---|---|---|---|
| **Connection server** (`TcpServer.c` `ServerThread`, priority Normal) | `conns`, `max_conns`, local `newconn` | accept, refuse when full, start a session | accept mailbox of lwIP; counter shared with the sessions |
| **Session** (`ConnectionThread`, `console.c`, priority High) | console: `conn`, `buf`, `exiting`, `next_app`, `telnet`, `env` | run logon, then shell or the command the shell chose, until exit or a fatal error; free the console | netconn API; counter; libtelnet; display (`message`) |
| **lwIP netconn API** (`api_lib.c`, `api_msg.c`) | netconn pool, mailboxes, netbuf pool, `last_err` | accept, receive, write, close, delete; FIN and reset from the peer | tcpip thread (priority High) |
| **Telnet options** (`libtelnet.c`, RFC 1143) | table `q` of (option, us, him) | `telnet_negotiate` from the console, `_negotiate` for what arrives | the client, over the session's connection |
| **Telnet parser** (`libtelnet.c` `_process`) | `state`, subnegotiation buffer | one byte per call from `console_getchar` | console through `my_event_handler` |
| **Console input, tokenizer, environment** (`console.c`) | line, `argv`, list of variables | getline, tokenize, getenv, setenv, unsetenv | the applications |
| **Ethernet receive** (`ethernetif.c`, task priority Realtime) | descriptor ring, DMA state, semaphore, pbuf pool | interrupt callback, `low_level_input`, `ethernetif_input` | mailbox of the tcpip thread |
| **Ethernet transmit** (`low_level_output`) | descriptors | copy and hand to the DMA | tcpip thread |
| **Display and LEDs** (`led_display.c`) | queue of one message, cursor, `ipAddr`, `BlinkCode` | clear, set address, set message, error code | start-up, DHCP thread, sessions, any thread that fails |
| **DHCP supervision** (`DHCP_thread`, priority BelowNormal) | `DHCP_state` | start, wait, time out to a static address | lwIP's DHCP client, display |
| **DHCP client and AutoIP** (lwIP `dhcp.c`, `autoip.c`) | `struct dhcp`, transaction id, the interface's address | discover, select, check, bind, renew, rebind, release, stop; probe and bind a link-local address | supervisor, which calls it from its own thread; timers and servers in the tcpip thread |
| **Start-up, board support** (`main.c`, `rtosmain.c`, MSP, IT) | registers | initialisation, idle hook, beep | - |

What is hard, and what correctness means there:

* **Shared counter.** `++conns` and `--conns` are not atomic and run in threads
  of different priority. Never more than `max_conns` sessions may exist, and the
  assertions about the counter must hold.
* **Ownership.** A netconn moves from the accept mailbox to the server to a
  thread and back to the pool while the peer may reset it at any time. It must
  have one owner, and must not be used after it was given back.
* **Pools.** netbufs and pbufs are taken and given back on many error paths:
  none twice, none lost.
* **Ending.** A failed connection has to end its session wherever the session is.
* **Negotiation.** Both ends ask at any time, nobody waits: they must agree in
  the end, and stop.
* **Reception.** A stopped DMA must be noticed by the only task that resumes it.
* **Input.** The telnet parser sees one byte per call and must not let the cut
  between calls show; line editor, tokenizer and environment work in fixed
  buffers, and fill them.
* **Address.** The supervisor calls the DHCP client without a lock while the tcpip
  thread works on the same structure; answers are lost, late, doubled or wrong. The
  interface must get an address in the end, keep the right one, and not lose the
  fallback to something late.
* **Display.** Every call waits without a limit for a queue of one message, and a
  call is several messages: calls must return, and what is shown must be right
  at least when calls do not overlap.

`PROJECT.json` lists these hazards at their lines, with the properties that
watch them, and the hazards that are not covered yet.

## 2. Modules

| module | models |
|---|---|
| `TcpServer` | server thread, session threads, lwIP's side of the connections |
| `MCTcpServer` | symmetry of the netconns for TLC |
| `Places` | abstract specification of the counter: places are taken, given back and lost |
| `TcpServerProofs` | proofs about `TcpServer`, and that it implements `Places` |
| `TelnetOptions` | the RFC 1143 table, the console's requests, a client |
| `MCTelnetOptions` | the order of the two console options |
| `TelnetOptionsProofs` | proofs about `TelnetOptions` |
| `EthernetRx` | DMA, callback, receive task, tcpip mailbox, pbuf pool |
| `EthernetRxProofs` | proofs about `EthernetRx` |
| `Listing` | a set of positions in order, and what a sequence holds there: the form of the references over streams and lines |
| `TelnetParser` | `_process` of libtelnet for one byte, and a reference reading of a whole stream |
| `EnvMap` | abstract specification of the environment: a map |
| `Console` | line input, tokenizer, environment, the loop of applications; extends `TelnetParser`, implements `EnvMap` |
| `MCConsole` | a small alphabet, buffers and commands for `Console` |
| `ConsoleProofs` | proofs about `Console`: types, tokenizer, exit code, and that it implements `EnvMap` |
| `ConsoleInputProofs` | proofs about `Console`: the line that was edited and the stream that was decoded |
| `OrderFacts` | lemmas that several proofs share: least members, functions defined by recursion over positions, `Listing` |
| `Dhcp` | DHCP supervisor, DHCP client, AutoIP |
| `MCDhcp` | leases for `Dhcp` |
| `DhcpProofs` | proofs about `Dhcp` |
| `Display` | display calls, queue, display thread |
| `Network` | composition of `Display` and `Dhcp` with start-up and the `message` command |
| `MCNetwork` | texts and a small screen for `Network` |
| `NetworkProofs` | lemmas about `Display` (an undisturbed call, step by step) and proofs about `Network`, from the invariants of `Display` and `Dhcp` |

Definitions marked `mutant` describe a mistake that could have been made in the
code. No specification uses them; they show that each property is able to fail.

### TcpServer

* `netconn[c]` is what the API can tell of a netconn: in the pool, up, FIN
  queued, FIN read (`ERR_CLSD`, fatal in `err.h` but not kept in `last_err`), failed (`pcb` is NULL and `last_err`
  fatal) or closed by us. `acceptmbox` may hold `Aborted` (`&netconn_aborted`),
  which lwIP posts instead of a netconn when it lacks a pcb, a netconn or memory.
* `spc`/`tpc[c]` are program counters. A step ends where another thread may
  see or change shared state: before and after the load of `conns`, and at each
  call into lwIP. Everything between is one action.
* Scheduling. One core; sessions (High) preempt the server (Normal). Hence
  `ServerMayRun`: the server steps only while no session is ready. A session
  is ready at the program counters of `ReadyPc`; at the others it waits for
  lwIP. Sessions interleave freely with each other (time slices).
* `RecvAlloc` takes a netbuf before it waits, as `netconn_recv` does, and
  `DeleteDone` loses the one that the console still holds, as `console_free` does.
* `RunReset` is the `reset` command: everything starts again.
* What is typed is abstracted to "a line arrives, and the shell finds any command
  or none". The commands that only print are one command.
* A connection that was reset in the mailbox makes `ConnectionThread` read and
  write through a null `pcb` (lines 235, 244). On this MCU address 0 is memory,
  so the thread goes on, and so does the model; what is overwritten there is
  not modelled.
* `MallocMayFail` lets `console_init`, `osThreadCreate` and `telnet_init` fail.

### TelnetOptions

* `q` is the array of slots, which grows by four for an option that has none.
  The `memcpy` of `_set_rfc1143` carries `q_size` bytes of two-byte slots over, that
  is, half of them (`Copied`); each slot of the other half may then be any of
  `Heap` (`Grown`), and both lookups find it before the new one. So the second
  option already has two arbitrary slots in front of its own. `Heap` is a set of
  slots with any option and any state; `"junk"` is a state that no `case` names. The
  zeroed slots read as option 0 (BINARY), which is no option of the model.
* `harmed` is history: the options whose slot a growing table did not copy or
  that found a leftover one. `Intact` are the others, and ECHO, which is negotiated first and keeps slot 0.
* `OnWill`, `OnWont`, `OnDo`, `OnDont` and `AskWill`, `AskWont` are the `switch`
  statements of `_negotiate` and `telnet_negotiate` as functions from the state
  to the next state and the command sent.
* The server only handles commands inside `console_getchar`, that is, between
  `console_setflags` and `console_unsetflags`.
* The client is external: it answers by the rules of RFC 1143, may refuse, and
  starts a bounded number of requests of its own.
* Left out: `DO` and `DONT` requests of the server (the shell makes none), proxy
  mode, a failed allocation of the table, a failed write.

### EthernetRx

* `tx` tells that the tcpip thread is inside `HAL_ETH_TransmitFrame`. The task may preempt it
  there, and then `HAL_ETH_GetReceivedFrame_IT` returns `HAL_BUSY`, which ends its
  loop like an empty ring (`HalBusy`); `lockedOut` remembers it until the next look. The HAL's source is not
  in the repository: whether its lock is held there depends on its version.
* Frames and pbufs are counted. A frame fits one descriptor and one pbuf
  (`ETH_RX_BUF_SIZE` and `PBUF_POOL_BUFSIZE` both hold a full frame).
* `FrameTaken` is `low_level_input` followed by `tcpip_inpkt`; `FrameDropped`
  the path on which `pbuf_alloc` fails; `RingOverrun` the receive-buffer-unavailable
  condition; `kept` the pbufs that lwIP has queued for somebody.
* The DMA and its interrupt may act between any two steps of the task.

### TelnetParser and Console

* `Process(t, b)` is the set of results one call of `telnet_recv` with the byte `b`
  may have: the parser after it, whether `my_event_handler` saw data, and the
  negotiation passed to `_negotiate`. Choices are a failed allocation in
  `_buffer_byte` and what `_environ_telnet` answers. The state for line ends
  (`TELNET_STATE_EOL`) needs a flag that the shell does not set.
* Two oddities of one byte per call are kept: the marker of MCCP version 1 sets
  `start` one past the end, so that the byte is reported as data (`OnSBData`), and
  an ENVIRON subnegotiation ended by a command swallows that command
  (`OnSBDataIAC`). `Decoded` excludes streams with these options and nothing else.
* `TextOf` and `NegotiationsOf` read the stream as a whole: they say at which positions
  an item (a character, a command, a subnegotiation) starts and where it ends, and list what is
  there (`Listing`); they keep no state of a parser. The references of the line editor and the
  tokenizer (`Remaining`, `Arguments`) have the same form.
* `GetByte` is one round of the loops of `console_getchar` and `console_getline`:
  parse, echo, store. `'\b'` on an empty line is ignored, `'\r'` is not stored, a
  newline or a full buffer ends the line.
* A command line is taken in one step; the same code reads it. `Scan` is the
  tokenizer's double loop as one pass over the line, a character at a time, and `Scans(l)[i]`
  what it knows after `i` characters. It keeps the code's quirks: the first
  character of an argument after spaces is not examined (a `^` there does not
  escape), spaces at the end repeat the last argument, and `^` stays in the
  argument.
* The loop is bounded by the size of `command_line` (200) and not by that of `argv` (nine).
  The pointers from the tenth argument on are stored over the line, so after `PastArgv`
  nothing is known of the texts, `argc` is greater than the array, and any command or none is found;
  `argv` of one more than `MaxArgv` stands for any such number. The 60th pointer is stored
  into `context->env`.
* A line that fills the shell's buffer has no terminator, and what is read after it depends on
  the stack. There, and where a line's pointers reach `context->env`, the model stops
  (`ShellOverrun`).
* `env` is the list of nodes; `NameAsRead` is what `strcmp` sees of a name that
  fills its field. `EnvAsMap` is the refinement mapping: the names that fit,
  each with the value of its first node.
* `rx`, `typed`, `negos`, `gaveUp`, `cmdline` and `call` record the past for the
  properties; they are dropped when a line has been used.

### Dhcp

* A handler of the client is an operator from a *world* (the client's record, the
  interface's address, the transaction counter, the messages sent) to a world,
  composed as the functions of `dhcp.c` call each other; `ok` is whether
  `dhcp_create_msg` found memory.
* The tcpip thread has a higher priority than the supervisor, so each handler is
  one action, while the supervisor's calls are cut where a handler may come
  between: `StartSends`/`StartReturns` (the answer to the DISCOVER may arrive before
  the try is counted), `StopAutoip`/`StopSetsOff`/`StopFreesPcb`/`SetsStatic`.
* `asked` holds every message ever sent, and a server may answer any of them at any
  time, again and again: this covers loss, delay, duplication, reordering and
  several servers. `MaxReplies` bounds the answers.
* `RecvOfferNoServer` is an offer without a server identifier. `dhcp_recv` has stopped
  the request timer by then, and `dhcp_handle_offer` returns: the client waits in
  SELECTING without a timer (`Stranded`), for ever if nobody answers that DISCOVER properly. `anonymous` remembers
  the transactions in which it happened.
* Leases are counted in ticks of `dhcp_coarse_tmr`; `LeaseTick` is one tick with its
  three timers in the code's order. A period of 0 stands for the infinite one, which
  sets no timer: those of a former lease run on. The request timer may expire whenever it runs.
* `LinkLocal`: the static fallback address 169.254.x.y counts as link-local for
  `autoip_stop`.
* `SupervisorPolls` is the one assumption about time: the supervisor polls every
  250 ms, and after `MAX_DHCP_TRIES` = 4 tries the request timer takes 16 s, so that it
  does not expire twice before the supervisor has looked. With it AutoIP, which starts at the ninth try, comes into
  play only after an address had been assigned once.
* Without memory `dhcp_start` leaves a client in state OFF or none at all; in the
  latter case the supervisor reads through a null pointer, and either outcome of
  its test is possible.

### Display and Network

* A call is the list of steps still to do: messages to send (each waits for room),
  and the copies from and to `ipAddr`. Steps of different callers interleave freely.
* The screen has cells; `Cleared` leaves the last row, since the loop of `Clear`
  writes one row less than there are. A long message reaches that row, so `Shows` asks for all of
  the text there, but allows the tail of an older one behind it.
* `mixed` records whether calls have overlapped since a clear that began alone: then
  anything may be on the screen, as the code has no lock.
* `Network` adds `TcpThread` (shows "loading" before it starts lwIP), ties the
  supervisor's `toShow` to a call of `led_display_set_ip`, and lets sessions show
  messages.

## 3. Runs

| run | shows |
|---|---|
| `server_safety` | With 3 netconns, 2 places, 2 netbufs, a mailbox of 2 and failing allocations: `AdmissionBound`, `CounterInRange`, `CounterInv`, `NetbufInv`, `SoleOwner`, and `LostPlacesStayLost`, the refinement of `Places` (1.3 million states up to symmetry). |
| `server_live` | Under fairness, with 2 netconns, 1 place and 1 netbuf: `FailedSessionEnds`, `QueuedIsTaken`; and since allocations succeed here, `SoleOwner` includes that no netconn is lost. |
| `server_refusal` | **Violated**: `RefusedOnlyWhenFull`. The server loads `conns`, a session ends and stores its decrement, the server stores the old value plus one. From then on a place is missing: after `max_conns` such events nobody gets in until a reset. |
| `server_netbufs` | **Violated**: `EnoughNetbufs`. `console_free` calls `netbuf_free` where `netbuf_delete` is needed; with `MEMP_NUM_NETBUF` = 20 the 20th such session leaves none. |
| `telnet_options` | ECHO and SGA switched on and off twice without waiting, two requests of the client about a third option, TTYPE; it may refuse ECHO, so that `LastRequestWins` is about SGA: `Agreement`, `LastRequestWins`, `Settles` (636 thousand states). |
| `telnet_second_option` | **Violated**: `RFC1143`, the same agreement for every option, with the shell's own two options and a client that asks for nothing: a leftover slot hides that of SGA. |
| `ethernet_rx` | Ring of 4 (the real size), pool of 6, mailbox of 2: `PbufsAccounted`, `OverrunIsNoticed`, `ReceptionResumes`. The last two name the busy HAL as the one exception: after it a stopped DMA stays stopped. |
| `ethernet_rx_stall` | **Violated**: `ProcessedWhenReady`. A failed `pbuf_alloc` ends the loop like an empty ring does; frames stay until the next interrupt. |
| `console` | All streams of up to 7 bytes for logon, all command lines of up to 6 characters over {letter, space, `^`}, 2 commands, 3 variables: `Decoded`, `LineEdited`, `Tokenized`, `LastExitCode`, and `EnvIsMap`, the refinement of `EnvMap` (1.3 million states). |
| `dhcp` | 2 addresses, 3 leases (one infinite), 5 answers: `LeasedAddress`, `PcbOutlives`, `AutoipYields`, `NoWedge`, `StaticIsFinal`, `AddressSettles` (475 thousand states). `NoWedge` and `AddressSettles` name the client that is `Stranded` as the one exception. |
| `dhcp_expiry` | **Violated**: `ExpiredAddressRemoved`. Bound, renewing unanswered, rebinding unanswered, expiry: `dhcp_release` does not count an address in REBINDING as supplied and returns before it removes it. |
| `network` | Start-up, supervisor and one session with 2 messages on a display of 3 rows of 2: `ShownWhenAlone`, `FallbackShown`, `CallsReturn` (539 thousand states). |

**Bounds.** The server's race needs one session that ends and one that starts;
the admission bound needs two sessions that end at the same time and a third
client that meets a full server: 3 netconns and 2 places give all of these, and
a netconn is used again after it was deleted, so the number of sessions over
time is not bounded at all. Fewer netbufs than the pool really has make its
exhaustion reachable. `SoleOwner` counts lost netconns only where allocations
succeed, so that `server_safety`, where they may fail, says nothing of the netconn that
`ServerThread` drops when one does; `server_live` checks that none is lost otherwise. In
`telnet_options` two rounds are enough for a request to be queued behind an unanswered
one, to be answered and to be queued again. The table grows twice, to three options. `MCHeap` has the two kinds of
leftover slots that matter, one of no option and one of SGA in a state that the code never stores. So SGA is
found intact in some behaviours until the third option comes and is `harmed` in others, from the start or
then; ECHO is always found. In `ethernet_rx` the pool can be drained (6 < 4 + 2 + what
lwIP keeps), and the ring and the mailbox fill up.
In `console` seven bytes hold a subnegotiation with an escaped IAC, one
that outgrows its buffer (sizes 0, 1, 2), and a full line with corrections; six
characters hold up to 4 arguments, more than the array, which has room for 3. Names and
values have fields of 2 characters, so names that do not fit occur. In `dhcp` one
lease is long enough for renewal, rebinding and expiry in a row, another expires
at once and a third never; five answers allow a bind (offer, acknowledgement), a second
exchange and a NAK or conflict. `AddressSettles` needs that bound: NAKs and ARP conflicts restart the count of
tries, and servers that go on with them keep the supervisor waiting for as long as they like. `MaxDhcpTries`, `SelectTries` and `CoopTries` keep the order
of the real values (4, 5, 9). In `network` three callers, each with a call of up to six
steps, meet in every order.

**Fairness.** `TcpServer`: weak fairness of every session where it is ready or
where lwIP is bound to answer (its connection failed; it closes, for which lwIP
has a time-out; it deletes). A session that runs `message` needs a display whose
queue is served. Nothing is assumed of a client that is still connected.
Strong fairness of the server: it has the lowest priority of the three, and
whenever it is the one to run it executes; `QueuedIsTaken` is conditional on
the sessions leaving it the CPU again and again, since a session in a tight loop
(a client that half-closed, an empty netbuf pool) may starve it. `TelnetOptions`:
the session goes on to the next prompt and reads, the client reads; lines and
requests need not come. `EthernetRx`: the task (Realtime) and the tcpip thread run;
the network, those who hold pbufs and a transmission owe nothing.

`Dhcp`: the supervisor polls, `led_display_set_ip` returns, both timers of the tcpip
thread run; servers owe nothing. `Network`: the display's thread takes messages and
a caller in a call goes on; that the display's thread may fail at any time is part of
the model, and `CallsReturn` says so.

`CHECK_DEADLOCK FALSE` is set where the system may really stop: a negotiation
whose bounds are used up, a session that has read all its commands (`console`), an
interface with its fallback address (`dhcp`, `network`).

## 4. Proofs

All theorems hold for every value of the constants allowed by the named
assumptions (finite set of netconns; sizes are naturals; `max_conns`, mailbox and
ring not zero; for `Dhcp` the order of the three counts of tries, and leases of
natural numbers of ticks; for `Console` fields and buffers with room for something, `user` and
`error` shorter than a name's field, and texts made of known characters, `OtherChars` being those of
names and exit codes that nobody types; for `Network` a screen of two rows at least, addresses
that fit on the top row and are no shorter than "loading", messages that fit on the rows `Clear` blanks,
and threads that differ). The theorems about `TelnetOptions` that say what is agreed have the
hypothesis `WantsNothing`, which is explained there. None of them uses fairness.

**`TcpServerProofs`**: `TypeCorrect`, `Admission` (`AdmissionBound`),
`CounterAssertions` (`CounterInRange`), `CounterNeverTooLow` (`CounterInv`),
`NetbufPoolSafe` (`NetbufInv`), `NetconnHasOneOwner` (`SoleOwner`), `PlacesImplemented` (`LostPlacesStayLost`,
the refinement of `Places`). The
inductive invariant is `IInv == TypeOK /\ NetbufInv /\ CounterInv`. `AdmissionBound`
alone is not inductive: nothing in it ties the number of threads to `conns` or
to the registers that are about to be stored. `CounterInv` does: `conns` and every
register a session will decrement and store are at least the number of places
taken (`Needed`), and so is the server's register. The argument is that an update may
be lost, but only in one direction. A session's late store can undo another
session's decrement, never an increment, because the server does not run
between the two halves of a session's decrement (`ServerMayRun`; a session at
`dec_store` is ready); a late store of the server undoes decrements. So the counter
drifts upwards only: the bound is safe and places are lost, which is exactly
what `server_refusal` shows. The mutant of `AdmissionBound` drops the priority,
and the bound breaks. `CounterServer` and `CounterThread` prove the step action
by action; `CardFacts` gives what is needed of cardinalities.
`SoleOwner` is inductive beside `IInv` once it says that the mailbox holds no netconn twice
(`OwnerInv`): every step hands a netconn on or gives it back, and a netconn out of the pool
has no owner yet, because all that are owned are in use.
`LostPlacesStayLost` says what the drift amounts to. A place is not lost when `conns` is too high: a
session in the middle of `--conns` may still store an older, lower value. It is lost when
`conns` and all the loaded copies of it (`Counts`) are too high, so `lost` is the least of them less the places
taken. Each store then is a step of `Places`, since it lowers no count by more than it lowers the
places taken (`PlacesLost`), and only `reset` brings a lost place back, as `server_refusal` says. With `conns` itself
in the place of the least count this would be false for four sessions or more, which a run with two places cannot
show.

**`EthernetRxProofs`**: `TypeCorrect`, `PbufsSafe` (`PbufsAccounted`), `OverrunNoticed`
(`OverrunIsNoticed`). `OverrunIsNoticed` needs `FullIsNoticed` (a full ring has its
wake-up pending or the task at work), since the overrun comes after the frame
that filled the ring. Both except `lockedOut`: with a busy HAL they are false of the code.

**`DhcpProofs`**: `DhcpTypeCorrect`, `PcbOutlivesClient` (`PcbOutlives`),
`ClientNeverWedged` (`NoWedge`), `AutoipYieldsToLease` (`AutoipYields`), `AddressIsLeased`
(`LeasedAddress`), `StaticStays` (the action property `StaticIsFinal`). Each handler of
`dhcp.c` has a lemma about what it makes of any world (`SelectFacts`, `BindFacts`, ...);
`Sound` is what the invariant needs of the result, and `HandlerKeeps` that it is
enough. Besides the types the inductive invariant `IInv` has three parts.
* `ClientInv`: a client that waits has its timer, or has taken an offer that named no server in this
  transaction (`Stranded`), unless `dhcp_start` is still to set it. While `dhcp_stop` is about to free the pcb the client is already OFF, and no
  handler wakes one that is, or `StopFreesPcb` would take the pcb from a client that
  may send. A lease bound while `dhcp_start` has not returned has no tries:
  `StartReturns` then counts the first, and does not reach the number at which
  AutoIP starts.
* `SupervisorInv`: what `dhcp_stop` has undone at each of its steps. AutoIP is off once
  `autoip_stop` has returned: a client that is still running may time out in between, but does not start
  AutoIP again (`SupervisorPolls`, the one use of that assumption). With the client OFF and AutoIP off, nothing in the tcpip thread touches the
  address, so the static one stays.
* `LeaseOK`: `LeasedAddress` alone is not inductive. A client in CHECKING is about to bind what a
  server granted; and the timers of an earlier lease run on in a client that waits for a new one,
  and may take it to RENEWING, so that there a NAK must have left no address but AutoIP's.

**`TelnetOptionsProofs`**: `TelnetTypeCorrect`, `BothEndsAgree` (`Agreement`), `ConsoleHasLastWord`
(`LastRequestWins`), for any set of options, any leftover slots and any number of requests. `WantsNothing` is
`HimDo = {}`: the server asks for none of the client's options, as in `my_telopts`. What the heap held can make the
entry of any option but the first arbitrary, so the two theorems are about `Intact` options only. For these the table
is as good as one that is copied whole (`TableInv`): a slot in the copied half comes along, and one in the other half is
`harmed`; ECHO, once written, is in slot 0, which every growth copies and every lookup sees first.
What the channels hold is not bounded: both ends ask without waiting.
But of one option a channel never holds more than one command to switch it on and one to switch it
off, so that it reads as one of five words (`Reads`). `Exchange` lists the 33 combinations of
the server's state, the client's state and the two words that occur: RFC 1143's rules are closed
under it, and with both channels empty it leaves only states in which the two ends agree. Lemmas
about sequences say what `Append` and `Tail` do to a word, those about `Exchange` what each entry of
the `switch` statements does to a combination. For `LastRequestWins` the option is one about which the
client has no wishes; then only the ten combinations `Quiet` occur, and the server's state says what the
console wants last (`WishInv`). `OfferInv` is about the client's own offers: all are refused, so that
`him` stays NO.

**`ConsoleProofs`**: `ConsoleTypeCorrect` (`TypeOK`), `ErrorIsLastExitCode` (`LastExitCode`),
`EnvironmentIsMap` (`EnvIsMap`, the refinement of `EnvMap`). `TypeOK` holds the bounds of every
buffer that the code keeps within bounds: line, subnegotiation, name and value fields, heap. (`argv` is not one of
them: a line with more arguments overruns it.) It needs the tokenizer to stay
within its line: `ScansRecursion` shows that the recursion has a result (there is no least
position without one, by `NatMin`) and that every state of it keeps to the line. The refinement rests on what `console_setenv` does to a list that may hold names cut to
their field, whose terminator is missing: `SetEnvMap`. A name that fits is found where its first
node is, a full field is read as a name that does not fit (`NameRead`), a new node at the head moves the
matches of every other name by one (`PrependedOther`) and becomes the first of its own
(`PrependedSame`). The applications' own calls map to steps of `EnvMap` or to stutters, also when
the heap is full or a name is cut. `LastExitCode` is part of the inductive invariant: the loop stores the code
after the application, and `error` fits its field, so that no cut name hides it.

`Tokenized` (`CommandIsTokenized`) compares the loop of the tokenizer with the arguments of the whole line, for a line
of any length whose arguments fit `argv`. `EnvIsMap` holds with more arguments too, as the environment is out of the
pointers' reach until the 60th.
`ScannedTo` is the loop's invariant on a plain line: the zeros are the separators so far, `spaces` and
`escape` tell what the last character was, and the starts collected are those of the arguments so far
(`StartsTo`, where position 1 counts until the line shows that it is none). `ScanPlainStep` keeps it;
a line is plain when no argument but the first starts with `^`, which is what the character that the loop never
examines needs. Behind a separator an argument ends before the next one (`EndIsLast`).

**`ConsoleInputProofs`**: `LineIsEdited` (`LineEdited`), `StreamIsDecoded` (`Decoded`), each by an invariant of
its own on top of `IInv`.
* `EditInv`: while a line is read, the buffer holds the characters that are not taken back, and of the
  brackets that they open as many are open from each of them on as the line is long from there (`Edited`). So the next
  `'\b'` closes the last one and no other, which the reference, a matching of brackets over all that was
  typed, does not say of itself. The lemmas go by character: one that prints, one that is not stored, `'\b'` with
  something to take back and without. A line that ends by `'\n'` is cut there (`LineEnds`), one that fills the
  buffer has no terminator and is the characters kept all the same (`LineFull`).
* `DecodeInv`: while a line is read, the parser's state is what the stream says (`Reads`): all items before a
  position p have arrived, and the state tells how much of the one at p there is; in the body of a
  subnegotiation, `SB_DATA_IAC` says that its last IAC is not an escaped one. `ItemStarts` as it is defined
  would let a later byte change where earlier items start; `Items` says that an item that has arrived stays as it is,
  because the first place where a subnegotiation may end is there for good (`CompleteStays`). One byte more
  then leaves the items as they are, completes the one at p, or completes it and another: a command
  that cuts a subnegotiation short is one itself (`ItemOpen`, `ItemWhole`, `ItemClosed`, `ItemCut`). There is a lemma for each
  state of the parser; `ProcessMeans` puts them together. The parser must also be between two items when
  `logon` runs again as a command: it is, since the shell's line was read to its end.

**`NetworkProofs`**: `NetworkTypeCorrect` (`TypeOK`), `AddressAndMessageShown`
(`ShownWhenAlone`), `FallbackIsShown` (`FallbackShown`), for any number of sessions and any size of
screen and texts. The inductive invariant is `NetworkInv`. Calls that overlap need only the types
(`DisplayStepTyped`); the rest is about those that do not.
* `AloneInv`: at most one caller is in a call, and what is left of it agrees with the queue, the
  cursor and the screen (`Lone`). Its four cases are no call (`Settled`: the display's thread has at most
  the last text to print), and what is left of `led_display_set_ip`, of the end of
  `led_display_set_message`, and of `led_display_clear` before either. One lemma for each kind of step
  says that it keeps `Lone`: `LoneSends`, `LoneCopies`, `LoneKeeps`, and `LoneDrawn` for the display's thread.
  `PrintsFacts` is what printing a text leaves on the rows. `PrintedFacts` needs that the text ends before the
  screen does, where it would go on at the top: `FitInv`. On the last row only the text itself is claimed.
* `KeptInv`: a call of `led_display_set_ip` does not blank the row, so a shorter address would leave the end
  of a longer one. It never comes to that, because the supervisor shows one address only, the last thing it does,
  and nobody else's call keeps one but `TcpThread`'s, which keeps "loading". So before that call the kept
  text is empty or "loading", and afterwards it stays what the supervisor gave. That is also the heart of
  `FallbackIsShown`; that the interface still has this address is `SupervisorInv` of `DhcpProofs`,
  whose invariant is used as it is (`NextKeeps`).
* `BootInv`: until `TcpThread` has started the others, nothing happens beside its own call.

**Only model-checked**: the liveness properties (`FailedSessionEnds`, `QueuedIsTaken`,
`Settles`, `ReceptionResumes`, `AddressSettles`, `CallsReturn`): fairness and ENABLED are out of
the prover's reach. All other properties of the passing runs are theorems.

## 5. Not modelled

* The LEDs (`led_error`, `led_thinking_*`): outputs nothing reads. `led_error` is
  called by several threads without a lock, so of two errors either may be
  shown.
* Ethernet transmission: `low_level_output` copies into the descriptors and gives
  up when one is taken. `EthernetRx` has only the time it spends in the HAL. `sys_arch.c`: mailboxes and semaphores are used as bounded
  queues.
* `console_unsetenv`: no caller passes a null value, so it is never reached. (It
  frees the first node and then keeps pointing to it.)
* What `_subnegotiate` parses: its events are ignored by the shell.
* Start-up code, MSP, interrupt vectors, idle hook, beep: register accesses.
* Of the DHCP client: rebooting, inform, `dhcp_network_changed` (never called here) and
  the parsing of options. The second thread in `dhcp_start` also shares `p_out` with
  the tcpip thread: if the answer is handled before `dhcp_delete_msg`, the assertion of
  `dhcp_create_msg` about it fails. In this port an assertion of lwIP never stops anything (`arch/cc.h:79` asserts
  the message, a string), and the pbuf that is lost then is not counted.
* lwIP's core, its other applications, PPP, IPv6, the socket layer, its ports and its
  unit tests: more than 100 000 vendored lines, most of which are not even built
  into the shell. Only what the netconn API, the mailbox and the DHCP client do
  for the shell is used, so the map covers the shell itself and a small share of
  the repository.
* What the commands print.

## 6. Plan

1. *Done*: all modules of section 2, with proofs about `TcpServer`, `TelnetOptions`, `EthernetRx`,
   `Console`, `Dhcp`, `Display` and `Network`.
2. *Done*: every invariant and every action property of a passing run is a theorem.
3. Open: `EthernetRx` with frames that have identities and a ring with indices, and the bounded lossy queue that it
   would implement (with counts alone such a queue says little beyond what is proved); the hazards listed
   without a property.
