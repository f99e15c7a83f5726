----------------------------- MODULE EthernetRx -----------------------------
(***************************************************************************)
(* The receive path of TcpShell/ethernetif.c: the DMA puts frames into a   *)
(* ring of descriptors and raises an interrupt, whose callback releases a  *)
(* binary semaphore; the EthIf task (osPriorityRealtime) waits for it,     *)
(* takes frames from the ring, copies each into a pbuf of the pool and     *)
(* posts it to the mailbox of the tcpip thread.                            *)
(*                                                                         *)
(* A frame fits one descriptor and one pbuf (ETH_RX_BUF_SIZE and           *)
(* PBUF_POOL_BUFSIZE both hold a full Ethernet frame).  Pbufs that lwIP    *)
(* has taken from its mailbox and not freed yet (queued for a session that *)
(* does not read, out of sequence) are counted in kept.                    *)
(*                                                                         *)
(* The HAL is external.  Its functions take turns by a lock that does not  *)
(* wait: HAL_ETH_GetReceivedFrame_IT returns HAL_BUSY when the task has    *)
(* preempted the tcpip thread inside HAL_ETH_TransmitFrame.                *)
(***************************************************************************)
EXTENDS Naturals

CONSTANTS
    RxBufNb,   \* ETH_RXBUFNB, descriptors of the ring
    PoolSize,  \* PBUF_POOL_SIZE
    MboxSize   \* TCPIP_MBOX_SIZE

ASSUME RxBufNbAssumption == RxBufNb \in Nat \ {0}
ASSUME PoolSizeAssumption == PoolSize \in Nat
ASSUME MboxSizeAssumption == MboxSize \in Nat

VARIABLES
    ring,       \* frames in the ring, not yet taken
    suspended,  \* ETH_DMASR_RBUS: the DMA found no descriptor and stopped
    sem,        \* s_xSemaphore
    pc,         \* where the EthIf task is
    pool,       \* pbufs left in the pool
    mbox,       \* pbufs in the tcpip mailbox
    kept,       \* pbufs lwIP keeps
    tx,         \* whether the tcpip thread is inside HAL_ETH_TransmitFrame
    lockedOut   \* history: the last look into the ring found the HAL busy

vars == <<ring, suspended, sem, pc, pool, mbox, kept, tx, lockedOut>>

Init ==
    /\ ring = 0 /\ suspended = FALSE
    /\ sem = 1
    /\ pc = "wait"
    /\ pool = PoolSize /\ mbox = 0 /\ kept = 0
    /\ tx = FALSE /\ lockedOut = FALSE

-----------------------------------------------------------------------------
\* mutant: only the first frame of a burst raises the semaphore
FrameArrivesSilently ==
    /\ ~suspended /\ ring < RxBufNb
    /\ ring' = ring + 1 /\ sem' = (IF ring = 0 THEN 1 ELSE sem)
    /\ UNCHANGED <<suspended, pc, pool, mbox, kept, tx, lockedOut>>

\* The DMA writes a frame into a descriptor it owns; the interrupt calls
\* HAL_ETH_RxCpltCallback, whose release of a full semaphore has no effect.
FrameArrives ==
    /\ ~suspended /\ ring < RxBufNb
    /\ ring' = ring + 1 /\ sem' = 1
    /\ UNCHANGED <<suspended, pc, pool, mbox, kept, tx, lockedOut>>

\* No descriptor is left: the frame is lost and reception stops.
RingOverrun ==
    /\ ~suspended /\ ring = RxBufNb
    /\ suspended' = TRUE
    /\ UNCHANGED <<ring, sem, pc, pool, mbox, kept, tx, lockedOut>>

-----------------------------------------------------------------------------
(***************************************************************************)
(* ethernetif_input                                                        *)
(***************************************************************************)
Wait ==
    /\ pc = "wait" /\ sem = 1
    /\ sem' = 0 /\ pc' = "input"
    /\ UNCHANGED <<ring, suspended, pool, mbox, kept, tx, lockedOut>>

\* mutant: the mailbox takes one pbuf more than it has room for
FrameTakenOverfull ==
    /\ pc = "input" /\ ~tx /\ ring > 0 /\ pool > 0
    /\ ring' = ring - 1 /\ suspended' = FALSE /\ lockedOut' = FALSE
    /\ pool' = pool - 1
    /\ IF mbox <= MboxSize THEN mbox' = mbox + 1 /\ UNCHANGED pc
                           ELSE pc' = "free" /\ UNCHANGED mbox
    /\ UNCHANGED <<sem, kept, tx>>

\* low_level_input takes a frame, gives its descriptor back and resumes the
\* DMA; netif->input posts the pbuf if the mailbox has room.
FrameTaken ==
    /\ pc = "input" /\ ~tx /\ ring > 0 /\ pool > 0
    /\ ring' = ring - 1 /\ suspended' = FALSE /\ lockedOut' = FALSE
    /\ pool' = pool - 1
    /\ IF mbox < MboxSize THEN mbox' = mbox + 1 /\ UNCHANGED pc
                          ELSE pc' = "free" /\ UNCHANGED mbox
    /\ UNCHANGED <<sem, kept, tx>>

\* mutant: a pbuf that could not be posted is forgotten
InputFailedForgets ==
    /\ pc = "free"
    /\ pc' = "input"
    /\ UNCHANGED <<ring, suspended, sem, pool, mbox, kept, tx, lockedOut>>

\* netif->input failed: pbuf_free
InputFailed ==
    /\ pc = "free"
    /\ pc' = "input" /\ pool' = pool + 1
    /\ UNCHANGED <<ring, suspended, sem, mbox, kept, tx, lockedOut>>

\* mutant: without a pbuf the descriptor is not given back
FrameDroppedKeepsDescriptor ==
    /\ pc = "input" /\ ~tx /\ ring > 0 /\ pool = 0
    /\ pc' = "wait" /\ lockedOut' = FALSE
    /\ UNCHANGED <<ring, suspended, sem, pool, mbox, kept, tx>>

\* pbuf_alloc fails: the frame is dropped, its descriptor given back, and
\* low_level_input returns NULL, which also ends the loop.
FrameDropped ==
    /\ pc = "input" /\ ~tx /\ ring > 0 /\ pool = 0
    /\ ring' = ring - 1 /\ suspended' = FALSE /\ lockedOut' = FALSE
    /\ pc' = "wait"
    /\ UNCHANGED <<sem, pool, mbox, kept, tx>>

\* HAL_ETH_GetReceivedFrame_IT finds no frame.
RingEmpty ==
    /\ pc = "input" /\ ~tx /\ ring = 0
    /\ pc' = "wait" /\ lockedOut' = FALSE
    /\ UNCHANGED <<ring, suspended, sem, pool, mbox, kept, tx>>

\* It does not even look: any result but HAL_OK ends the loop, whatever is in
\* the ring.
HalBusy ==
    /\ pc = "input" /\ tx
    /\ pc' = "wait" /\ lockedOut' = TRUE
    /\ UNCHANGED <<ring, suspended, sem, pool, mbox, kept, tx>>

-----------------------------------------------------------------------------
\* The tcpip thread handles a packet: it frees the pbuf or keeps it.
TcpipTakes ==
    /\ mbox > 0 /\ mbox' = mbox - 1
    /\ \/ pool' = pool + 1 /\ UNCHANGED kept
       \/ kept' = kept + 1 /\ UNCHANGED pool
    /\ UNCHANGED <<ring, suspended, sem, pc, tx, lockedOut>>

\* What was kept is freed (a session reads it, a connection ends).
LwipFrees ==
    /\ kept > 0 /\ kept' = kept - 1 /\ pool' = pool + 1
    /\ UNCHANGED <<ring, suspended, sem, pc, mbox, tx, lockedOut>>

\* low_level_output, in the tcpip thread: while the task is at work or woken
\* the thread neither enters nor leaves HAL_ETH_TransmitFrame.
TransmitEnters ==
    /\ pc = "wait" /\ sem = 0 /\ ~tx
    /\ tx' = TRUE
    /\ UNCHANGED <<ring, suspended, sem, pc, pool, mbox, kept, lockedOut>>

TransmitLeaves ==
    /\ pc = "wait" /\ sem = 0 /\ tx
    /\ tx' = FALSE
    /\ UNCHANGED <<ring, suspended, sem, pc, pool, mbox, kept, lockedOut>>

Task == Wait \/ FrameTaken \/ InputFailed \/ FrameDropped \/ RingEmpty \/ HalBusy

Next ==
    \/ FrameArrives \/ RingOverrun
    \/ Wait \/ FrameTaken \/ InputFailed \/ FrameDropped \/ RingEmpty \/ HalBusy
    \/ TcpipTakes \/ LwipFrees \/ TransmitEnters \/ TransmitLeaves

\* The task has the highest priority of all; the tcpip thread runs.  Nothing
\* is assumed of the network or of those who keep pbufs.
Spec == Init /\ [][Next]_vars /\ WF_vars(Task) /\ WF_vars(TcpipTakes)

-----------------------------------------------------------------------------
TypeOK ==
    /\ ring \in 0 .. RxBufNb /\ suspended \in BOOLEAN
    /\ sem \in {0, 1} /\ pc \in {"wait", "input", "free"}
    /\ pool \in Nat /\ mbox \in 0 .. MboxSize /\ kept \in Nat
    /\ tx \in BOOLEAN /\ lockedOut \in BOOLEAN

\* Every pbuf is in the pool, in the mailbox, kept by lwIP or in the hands of
\* the task: none is lost or freed twice when posting fails
\* (ethernetif.c:410-413).
PbufsAccounted == pool + mbox + kept + (IF pc = "free" THEN 1 ELSE 0) = PoolSize

\* The DMA stands still unnoticed in one case only: when it found the ring
\* full, the task, who alone resumes it (ethernetif.c:377-383), is at work or
\* has its wake-up pending, unless its last look into the ring met a busy HAL
\* (ethernetif.c:316).  Neither a burst of interrupts, nor a full mailbox, nor
\* an empty pool brings that about.
OverrunIsNoticed ==
    suspended => ring = RxBufNb /\ (sem = 1 \/ pc # "wait" \/ lockedOut)

\* Reception that stopped is resumed, even when no pbuf is left, unless the
\* task has looked while the HAL was busy and waits again.
ReceptionResumes == suspended ~> ~suspended \/ (lockedOut /\ pc = "wait" /\ sem = 0)

\* ethernetif.c:388, "it is processed when a packet is ready to be read from
\* the interface": the task does not wait while a frame is in the ring.  (Not
\* counting the frames it could not look at for a busy HAL.)
ProcessedWhenReady == ring > 0 /\ pc = "wait" /\ ~lockedOut => sem = 1
=============================================================================
