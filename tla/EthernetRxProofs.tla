-------------------------- MODULE EthernetRxProofs --------------------------
(***************************************************************************)
(* Proofs about EthernetRx for every ring, pool and mailbox size.          *)
(***************************************************************************)
EXTENDS EthernetRx, TLAPS

\* A ring that is full has been announced: its last frame raised the
\* semaphore, and the task does not return to its wait without taking one,
\* unless the HAL is busy.
FullIsNoticed == ring = RxBufNb => sem = 1 \/ pc # "wait" \/ lockedOut

IInv == TypeOK /\ PbufsAccounted /\ OverrunIsNoticed /\ FullIsNoticed

\* The semaphore is created available and the task finds every pbuf in the pool.
LEMMA InitIInv == Init => IInv
  <1> SUFFICES ASSUME Init PROVE IInv
      OBVIOUS
  <1> USE RxBufNbAssumption, PoolSizeAssumption, MboxSizeAssumption DEF Init
  <1>1. suspended \in BOOLEAN /\ tx \in BOOLEAN /\ lockedOut \in BOOLEAN BY Zenon
  <1>2. TypeOK BY <1>1 DEF TypeOK
  <1>3. PbufsAccounted BY DEF PbufsAccounted
  <1>4. OverrunIsNoticed /\ FullIsNoticed BY DEF OverrunIsNoticed, FullIsNoticed
  <1> QED BY <1>2, <1>3, <1>4 DEF IInv

\* Every step keeps the types: no counter leaves its range.
LEMMA StepTypes == TypeOK /\ [Next]_vars => TypeOK'
  <1> SUFFICES ASSUME TypeOK, [Next]_vars PROVE TypeOK'
      OBVIOUS
  <1> USE RxBufNbAssumption, MboxSizeAssumption
  <1>1. CASE FrameArrives BY <1>1 DEF FrameArrives, TypeOK
  <1>2. CASE RingOverrun BY <1>2 DEF RingOverrun, TypeOK
  <1>3. CASE Wait BY <1>3 DEF Wait, TypeOK
  <1>4. CASE FrameTaken
    <2>1. suspended' \in BOOLEAN /\ lockedOut' \in BOOLEAN BY <1>4, Zenon DEF FrameTaken
    <2> QED BY <1>4, <2>1 DEF FrameTaken, TypeOK
  <1>5. CASE InputFailed BY <1>5 DEF InputFailed, TypeOK
  <1>6. CASE FrameDropped
    <2>1. suspended' \in BOOLEAN /\ lockedOut' \in BOOLEAN BY <1>6, Zenon DEF FrameDropped
    <2> QED BY <1>6, <2>1 DEF FrameDropped, TypeOK
  <1>7. CASE RingEmpty BY <1>7 DEF RingEmpty, TypeOK
  <1>8. CASE TcpipTakes BY <1>8 DEF TcpipTakes, TypeOK
  <1>9. CASE LwipFrees BY <1>9 DEF LwipFrees, TypeOK
  <1>10. CASE HalBusy BY <1>10 DEF HalBusy, TypeOK
  <1>11. CASE TransmitEnters BY <1>11 DEF TransmitEnters, TypeOK
  <1>12. CASE TransmitLeaves BY <1>12 DEF TransmitLeaves, TypeOK
  <1>13. CASE UNCHANGED vars BY <1>13 DEF vars, TypeOK
  <1> QED BY <1>1, <1>2, <1>3, <1>4, <1>5, <1>6, <1>7, <1>8, <1>9, <1>10, <1>11, <1>12, <1>13 DEF Next

\* Every step only moves a pbuf from one place to another.
LEMMA StepPbufs == TypeOK /\ PbufsAccounted /\ [Next]_vars => PbufsAccounted'
  <1> SUFFICES ASSUME TypeOK, PbufsAccounted, [Next]_vars PROVE PbufsAccounted'
      OBVIOUS
  <1> USE PoolSizeAssumption, MboxSizeAssumption DEF TypeOK, PbufsAccounted
  <1>1. CASE FrameArrives BY <1>1 DEF FrameArrives
  <1>2. CASE RingOverrun BY <1>2 DEF RingOverrun
  <1>3. CASE Wait BY <1>3 DEF Wait
  <1>4. CASE FrameTaken
    <2>1. CASE mbox < MboxSize BY <1>4, <2>1 DEF FrameTaken
    <2>2. CASE ~(mbox < MboxSize) BY <1>4, <2>2 DEF FrameTaken
    <2> QED BY <2>1, <2>2
  <1>5. CASE InputFailed BY <1>5 DEF InputFailed
  <1>6. CASE FrameDropped BY <1>6 DEF FrameDropped
  <1>7. CASE RingEmpty BY <1>7 DEF RingEmpty
  <1>8. CASE TcpipTakes BY <1>8 DEF TcpipTakes
  <1>9. CASE LwipFrees BY <1>9 DEF LwipFrees
  <1>10. CASE HalBusy BY <1>10 DEF HalBusy
  <1>11. CASE TransmitEnters BY <1>11 DEF TransmitEnters
  <1>12. CASE TransmitLeaves BY <1>12 DEF TransmitLeaves
  <1>13. CASE UNCHANGED vars BY <1>13 DEF vars
  <1> QED BY <1>1, <1>2, <1>3, <1>4, <1>5, <1>6, <1>7, <1>8, <1>9, <1>10, <1>11, <1>12, <1>13 DEF Next

\* A full ring stays announced, and the DMA stops only at a full ring.
LEMMA StepNoticed ==
  TypeOK /\ OverrunIsNoticed /\ FullIsNoticed /\ [Next]_vars
    => OverrunIsNoticed' /\ FullIsNoticed'
  <1> SUFFICES ASSUME TypeOK, OverrunIsNoticed, FullIsNoticed, [Next]_vars
               PROVE  OverrunIsNoticed' /\ FullIsNoticed'
      OBVIOUS
  <1> USE RxBufNbAssumption DEF TypeOK, OverrunIsNoticed, FullIsNoticed
  <1>1. CASE FrameArrives BY <1>1 DEF FrameArrives
  <1>2. CASE RingOverrun BY <1>2 DEF RingOverrun
  <1>3. CASE Wait BY <1>3 DEF Wait
  <1>4. CASE FrameTaken BY <1>4 DEF FrameTaken
  <1>5. CASE InputFailed BY <1>5 DEF InputFailed
  <1>6. CASE FrameDropped BY <1>6 DEF FrameDropped
  <1>7. CASE RingEmpty BY <1>7 DEF RingEmpty
  <1>8. CASE TcpipTakes BY <1>8 DEF TcpipTakes
  <1>9. CASE LwipFrees BY <1>9 DEF LwipFrees
  <1>10. CASE HalBusy BY <1>10 DEF HalBusy
  <1>11. CASE TransmitEnters BY <1>11 DEF TransmitEnters
  <1>12. CASE TransmitLeaves BY <1>12 DEF TransmitLeaves
  <1>13. CASE UNCHANGED vars BY <1>13 DEF vars
  <1> QED BY <1>1, <1>2, <1>3, <1>4, <1>5, <1>6, <1>7, <1>8, <1>9, <1>10, <1>11, <1>12, <1>13 DEF Next

\* The inductive invariant of the receive path.
THEOREM IInvariance == Spec => []IInv
  <1>1. IInv /\ [Next]_vars => IInv'
    BY StepTypes, StepPbufs, StepNoticed DEF IInv
  <1> QED BY InitIInv, <1>1, PTL DEF Spec

\* ethernetif.c:304-418: ring, mailbox and semaphore never leave their ranges,
\* however the DMA, the task and the tcpip thread interleave.
THEOREM TypeCorrect == Spec => []TypeOK
  BY IInvariance, PTL DEF IInv

\* ethernetif.c:410-413: no pbuf is lost or freed twice on the receive path,
\* whatever fails and in whatever order the tasks run.
THEOREM PbufsSafe == Spec => []PbufsAccounted
  BY IInvariance, PTL DEF IInv

\* ethernetif.c:316, 377-383: a DMA that stopped at a full ring is left to
\* itself only when the task's last look into the ring met a busy HAL; otherwise
\* the task, who resumes it, is at work or about to be woken.
THEOREM OverrunNoticed == Spec => []OverrunIsNoticed
  BY IInvariance, PTL DEF IInv
=============================================================================
