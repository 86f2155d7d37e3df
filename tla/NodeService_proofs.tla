------------------------- MODULE NodeService_proofs -------------------------
(***************************************************************************)
(* Proofs about NodeService, for every gap, every set of stop-network      *)
(* transactions, every bound on heights and restarts.                      *)
(*                                                                         *)
(* OneBlockPerPause is not inductive: that no second block follows the     *)
(* first needs that the generator is idle after it, and that it leaves     *)
(* idle only when the pause is over and the count is back at zero          *)
(* (LateBlock).  LockHeld is what mutual exclusion by DBLock means here.   *)
(***************************************************************************)
EXTENDS NodeService, TLAPS

\* The initial states satisfy the invariant.
LEMMA InitIInv == Init => IInv
BY ServiceAssumption
   DEF Init, IInv, TypeOK, LockHeld, LateBlock, OneBlockPerPause, Start, IsNodePaused,
       NoPause, UpdatingBlockchain, StopingNetwork, None, Pauses

\* Every step of the generator preserves it.
LEMMA GeneratorStep == IInv /\ BlockGenerator => IInv'
<1> SUFFICES ASSUME IInv, BlockGenerator PROVE IInv'
  OBVIOUS
<1> USE ServiceAssumption
    DEF IInv, TypeOK, LockHeld, LateBlock, OneBlockPerPause, IsNodePaused, up, NoPause,
        UpdatingBlockchain, StopingNetwork, None, Pauses, DBLock, DBUnlock, chain, process
<1>1. CASE StartGenerator
  BY <1>1 DEF StartGenerator
<1>2. CASE LockGenerator
  BY <1>2 DEF LockGenerator
<1>3. CASE InsertBlock
  BY <1>3 DEF InsertBlock
<1>4. CASE GiveUp
  BY <1>4 DEF GiveUp
<1>5. CASE PauseNodeActivity
  BY <1>5 DEF PauseNodeActivity
<1>6. CASE \E t \in StopTxs : MarkTransactionBad(t)
  BY <1>6 DEF MarkTransactionBad
<1> QED
  BY <1>1, <1>2, <1>3, <1>4, <1>5, <1>6 DEF BlockGenerator

\* Every step of blocksCollection and of the other updates preserves it.
LEMMA UpdateStep == IInv /\ (BlocksCollection \/ QueueParserBlocks) => IInv'
<1> SUFFICES ASSUME IInv, BlocksCollection \/ QueueParserBlocks PROVE IInv'
  OBVIOUS
<1> USE ServiceAssumption
    DEF IInv, TypeOK, LockHeld, LateBlock, OneBlockPerPause, IsNodePaused, up, NoPause,
        UpdatingBlockchain, StopingNetwork, None, Pauses, DBLock, DBUnlock, chain, process
<1>1. ASSUME height' \in Heights PROVE height' \in 1..MaxHeight
  BY <1>1 DEF Heights
<1>2. CASE LookForMaxBlock
  BY <1>2 DEF LookForMaxBlock
<1>3. CASE LockCollector
  BY <1>3 DEF LockCollector
<1>4. CASE UpdateChain
  BY <1>1, <1>4 DEF UpdateChain
<1>5. CASE NodeDoneUpdatingBlockchain
  BY <1>5 DEF NodeDoneUpdatingBlockchain
<1>6. CASE QueueParserBlocks
  BY <1>1, <1>6 DEF QueueParserBlocks
<1> QED
  BY <1>2, <1>3, <1>4, <1>5, <1>6 DEF BlocksCollection

\* Every step of the relevance goroutine preserves it.
LEMMA RelevanceStep == IInv /\ (Check \/ UpdatingEndWhilePaused \/ RelevanceFails) => IInv'
<1> SUFFICES ASSUME IInv, Check \/ UpdatingEndWhilePaused \/ RelevanceFails PROVE IInv'
  OBVIOUS
<1> USE ServiceAssumption
    DEF IInv, TypeOK, LockHeld, LateBlock, OneBlockPerPause, IsNodePaused, up, NoPause,
        UpdatingBlockchain, StopingNetwork, None, Pauses, DBUnlock, chain, process
<1> DEFINE Places == {"start", "info", "hosts", "pause", "resume", "wait", "ended"}
           Goroutine == [at : Places, cur : 0..MaxHeight]
<1>1. ASSUME NEW place \in Places
      PROVE  [relevance EXCEPT !.at = place] \in Goroutine
  OBVIOUS
<1>2. ASSUME NEW relevant \in BOOLEAN, Decide(relevant) PROVE relevance' \in Goroutine
  BY <1>1, <1>2 DEF Decide
<1>3. Start \in Goroutine
  BY DEF Start
<1>4. CASE ReadInfoBlock
  BY <1>4 DEF ReadInfoBlock
<1>5. CASE GetStopNetwork
  BY ZenonT(30), <1>1, <1>2, <1>5 DEF GetStopNetwork
<1>6. CASE HostWithMaxBlock
  BY <1>2, <1>6 DEF HostWithMaxBlock, Relevant
<1>7. CASE PauseForUpdate
  BY <1>1, <1>7 DEF PauseForUpdate
<1>8. CASE ResumeNodeActivity
  BY <1>1, <1>8 DEF ResumeNodeActivity
<1>9. CASE CheckingInterval
  BY <1>3, <1>9 DEF CheckingInterval
<1>10. CASE UpdatingEndWhilePaused
  BY <1>3, <1>10 DEF UpdatingEndWhilePaused
<1>11. CASE RelevanceFails
  BY <1>1, <1>11 DEF RelevanceFails
<1> QED
  BY <1>4, <1>5, <1>6, <1>7, <1>8, <1>9, <1>10, <1>11 DEF Check

\* The end of the process, its restart, stop-network requests and hosts preserve it.
LEMMA OutsideStep ==
    IInv /\ (QueueParserTx \/ (\E t \in StopTxs : ProcessStopNetwork(t))
               \/ Crash \/ Restart \/ Hosts) => IInv'
<1> SUFFICES ASSUME IInv,
                    QueueParserTx \/ (\E t \in StopTxs : ProcessStopNetwork(t))
                      \/ Crash \/ Restart \/ Hosts
             PROVE  IInv'
  OBVIOUS
<1> USE ServiceAssumption
    DEF IInv, TypeOK, LockHeld, LateBlock, OneBlockPerPause, IsNodePaused, up, NoPause,
        UpdatingBlockchain, StopingNetwork, None, Pauses, chain, process
<1>1. ASSUME EndOfProcess PROVE IInv'
  BY <1>1 DEF EndOfProcess, StartProcess, Start
<1>2. CASE QueueParserTx \/ Crash
  BY <1>1, <1>2 DEF QueueParserTx, Crash
<1>3. CASE \E t \in StopTxs : ProcessStopNetwork(t)
  BY <1>3 DEF ProcessStopNetwork
<1>4. CASE Restart
  BY <1>4 DEF Restart
<1>5. CASE Hosts
  BY <1>5 DEF Hosts
<1> QED
  BY <1>2, <1>3, <1>4, <1>5

\* The invariant is inductive: types, mutual exclusion by DBLock, and that the block
\* generated during a pause is the last until the pause is over.
THEOREM Invariant == Spec => []IInv
<1>1. IInv /\ [Next]_vars => IInv'
  <2> SUFFICES ASSUME IInv, [Next]_vars PROVE IInv'
    OBVIOUS
  <2>1. CASE Next
    BY <2>1, GeneratorStep, UpdateStep, RelevanceStep, OutsideStep DEF Next
  <2>2. CASE UNCHANGED vars
    BY <2>2 DEF vars, chain, process, IInv, TypeOK, LockHeld, LateBlock, OneBlockPerPause,
                IsNodePaused
  <2> QED
    BY <2>1, <2>2
<1> QED
  BY InitIInv, <1>1, PTL DEF Spec

\* A node generates at most one block during a pause, whenever the pause is set: the
\* generator looks at it only before it takes DBLock.
THEOREM PauseLetsOneBlockPass == Spec => []OneBlockPerPause
<1>1. IInv => OneBlockPerPause
  BY DEF IInv
<1> QED
  BY <1>1, Invariant, PTL
=============================================================================
