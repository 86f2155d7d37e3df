----------------------------- MODULE MCNodeChain -----------------------------
(***************************************************************************)
(* Small instances of NodeChain for TLC: up to four transactions that all *)
(* write the contract row k1, one of them twice.                           *)
(***************************************************************************)
EXTENDS NodeChain

CONSTANTS t1, t2, t3, t4, k1, k2

TwoInOrder == <<t1, t2>>
ThreeInOrder == <<t1, t2, t3>>
FourInOrder == <<t1, t2, t3, t4>>
MCWrites == [t \in Tx |-> IF t = t1 THEN <<k1, k1>> ELSE <<k1, k2>>]
AlwaysFrom == [t \in Tx |-> 0]
AlwaysUntil == [t \in Tx |-> MaxSlot]
\* t2 may only be in blocks of the first two slots.
T2Expires == [t \in Tx |-> IF t = t2 THEN 2 ELSE MaxSlot]
=============================================================================
