-------------------------- MODULE BlockTime_proofs --------------------------
(***************************************************************************)
(* Proofs about BlockTime, for every set of durations of a second or more, *)
(* every number of nodes and every length of the run.                      *)
(*                                                                         *)
(* The arithmetic is one argument.  A second u after the first block is in *)
(* slot q if and only if q * duration < 1000 * u <= (q + 1) * duration     *)
(* (lemma SlotOfSecond), and the two ends of a range are whole seconds     *)
(* that bound the same multiples of 1000 (lemma RangeOfSlot).              *)
(***************************************************************************)
EXTENDS BlockTime, TLAPS

-----------------------------------------------------------------------------
(* Division.                                                                 *)

\* The quotient and its two bounds.
LEMMA DivBounds ==
    ASSUME NEW a \in Int, NEW d \in Nat \ {0}
    PROVE  /\ a \div d \in Int
           /\ d * (a \div d) <= a
           /\ a < d * (a \div d) + d
BY SMT

\* The bounds determine the quotient.
LEMMA DivUnique ==
    ASSUME NEW a \in Int, NEW d \in Nat \ {0}, NEW q \in Int,
           d * q <= a, a < d * q + d
    PROVE  a \div d = q
BY SMT

-----------------------------------------------------------------------------
(* Slots and ranges.                                                         *)

LEMMA DurationPos == ASSUME TypeOK PROVE duration \in Nat /\ duration >= 1000
BY TimeAssumption DEF TypeOK

\* The slot of a second after the first block.
LEMMA SlotOfSecond ==
    ASSUME TypeOK, NEW u \in Nat \ {0}, NEW q \in Int
    PROVE  /\ queue(u) \in Int
           /\ queue(u) = q <=> duration * q < 1000 * u /\ 1000 * u <= duration * q + duration
<1>1. duration \in Nat \ {0}
  BY DurationPos
<1>2. queue(u) = (1000 * u - 1) \div duration
  BY DEF queue
<1> DEFINE a == 1000 * u - 1
<1>3. a \in Int
  OBVIOUS
<1>4. /\ queue(u) \in Int
      /\ duration * queue(u) <= a
      /\ a < duration * queue(u) + duration
  BY <1>1, <1>2, <1>3, DivBounds
<1>5. ASSUME queue(u) = q
      PROVE  duration * q < 1000 * u /\ 1000 * u <= duration * q + duration
  <2>1. duration * q <= a /\ a < duration * q + duration
    BY <1>4, <1>5
  <2>2. duration * q \in Int
    BY <1>1
  <2> QED
    BY <2>1, <2>2, <1>1
<1>6. ASSUME duration * q < 1000 * u, 1000 * u <= duration * q + duration
      PROVE  queue(u) = q
  <2>1. duration * q \in Int
    BY <1>1
  <2>2. duration * q <= a /\ a < duration * q + duration
    BY <1>1, <1>6, <2>1
  <2> QED
    BY <1>1, <1>2, <1>3, <2>2, DivUnique
<1> QED
  BY <1>4, <1>5, <1>6

\* The seconds between the ends of the range of a second are those of its slot.
LEMMA RangeOfSlot ==
    ASSUME TypeOK, NEW t \in Nat, NEW u \in Nat \ {0}, queue(t) \in Int
    PROVE  Unix(RangeByTime(t).start) <= u /\ u <= Unix(RangeByTime(t).end)
             <=> queue(u) = queue(t)
<1> DEFINE from == duration * queue(t)
<1>1. duration \in Nat /\ from \in Int
  BY DurationPos
<1>2. queue(t) * duration = from
  BY <1>1
<1>3. /\ RangeByTime(t).start = from + 1000
      /\ RangeByTime(t).end = from + 1000 + (duration - 1000)
  BY <1>2 DEF RangeByTime
<1> HIDE DEF from
<1>4. Unix(RangeByTime(t).start) <= u <=> from < 1000 * u
  BY <1>1, <1>3, SMT DEF Unix
<1>5. u <= Unix(RangeByTime(t).end) <=> 1000 * u <= from + duration
  BY <1>1, <1>3, SMT DEF Unix
<1>6. queue(u) = queue(t) <=> from < 1000 * u /\ 1000 * u <= from + duration
  BY SlotOfSecond DEF from
<1> QED
  BY <1>4, <1>5, <1>6

\* Every second has a slot.
LEMMA SlotExists == ASSUME TypeOK, NEW t \in Nat PROVE queue(t) \in Int
<1>1. CASE t = 0
  BY <1>1 DEF queue
<1>2. CASE t # 0
  BY <1>2, SlotOfSecond
<1> QED
  BY <1>1, <1>2

-----------------------------------------------------------------------------
(* The theorems.                                                             *)

\* Every state has the types TypeOK gives it: no block is stamped with a time to come.
THEOREM TypeCorrect == Spec => []TypeOK
<1>1. Init => TypeOK
  BY TimeAssumption DEF Init, TypeOK
<1>2. TypeOK /\ [Next]_vars => TypeOK'
  <2> SUFFICES ASSUME TypeOK, [Next]_vars PROVE TypeOK'
    OBVIOUS
  <2> USE TimeAssumption DEF TypeOK
  <2>1. CASE Tick
    BY <2>1 DEF Tick
  <2>2. ASSUME NEW pos \in Positions, Generate(pos) PROVE TypeOK'
    BY <2>2 DEF Generate
  <2>3. CASE ChangeDuration
    BY <2>3 DEF ChangeDuration
  <2>4. CASE UNCHANGED vars
    BY <2>4 DEF vars
  <2> QED
    BY <2>1, <2>2, <2>3, <2>4 DEF Next
<1> QED
  BY <1>1, <1>2, PTL DEF Spec

\* The range of RangeByTime is the slot: the query of BlockForTimeExists over a range of
\* seconds finds the blocks of the slot and no other, for every duration of a second or more.
THEOREM RangesAreSlots == Spec => []RangeIsSlot
<1>1. TypeOK => RangeIsSlot
  <2> SUFFICES ASSUME TypeOK, NEW t \in 1..clock, NEW u \in 1..clock
               PROVE  Unix(RangeByTime(t).start) <= u /\ u <= Unix(RangeByTime(t).end)
                        <=> queue(u) = queue(t)
    BY DEF RangeIsSlot
  <2>1. t \in Nat /\ u \in Nat \ {0}
    BY DEF TypeOK
  <2> QED
    BY <2>1, SlotExists, RangeOfSlot
<1> QED
  BY <1>1, TypeCorrect, PTL

\* The deadline of BlockGenerator, the end of the range, is in the slot it generates for.
THEOREM DeadlinesInSlot == Spec => []DeadlineInSlot
<1>1. TypeOK => DeadlineInSlot
  <2> SUFFICES ASSUME TypeOK PROVE DeadlineInSlot
    OBVIOUS
  <2>1. clock \in Nat
    BY DEF TypeOK
  <2>2. queue(clock) \in Int /\ duration \in Nat /\ duration >= 1000
    BY <2>1, SlotExists, DurationPos
  <2>3. queue(clock) \in Nat
    <3>1. CASE clock = 0
      BY <3>1 DEF queue
    <3>2. CASE clock # 0
      <4>1. /\ 0 <= 1000 * clock - 1
            /\ queue(clock) = (1000 * clock - 1) \div duration
        BY <2>1, <3>2 DEF queue
      <4>2. 1000 * clock - 1 < duration * queue(clock) + duration
        BY <2>1, <2>2, <4>1, DivBounds
      <4> QED
        BY <2>1, <2>2, <4>1, <4>2, SMT
    <3> QED
      BY <3>1, <3>2
  <2> DEFINE from == queue(clock) * duration
             e == Unix(RangeByTime(clock).end)
  <2>4. from \in Nat
    BY <2>2, <2>3
  <2>5. RangeByTime(clock).end = from + duration
    BY <2>2, <2>4 DEF RangeByTime
  <2> HIDE DEF from
  <2>6. e \in Nat \ {0} /\ from < 1000 * e /\ 1000 * e <= from + duration
    BY <2>2, <2>4, <2>5, SMT DEF Unix
  <2>7. duration * queue(clock) = from
    BY <2>2 DEF from
  <2> QED
    BY <2>2, <2>6, <2>7, SlotOfSecond DEF DeadlineInSlot
<1> QED
  BY <1>1, TypeCorrect, PTL

\* No node generates twice in a slot after the second of the first block, also when the
\* system parameters have changed the slots of the blocks it generated before.
THEOREM OneBlockInEachSlot == Spec => OneBlockInSlot
<1> DEFINE A == \A b \in blocks, c \in blocks' \ blocks :
                  b.pos = c.pos /\ b.time > 0 => queue(b.time) # queue(c.time)
<1>1. TypeOK /\ [Next]_vars => [A]_vars
  <2> SUFFICES ASSUME TypeOK, Next PROVE A
    OBVIOUS
  <2>1. CASE Tick
    BY <2>1 DEF Tick
  <2>2. ASSUME NEW pos \in Positions, Generate(pos) PROVE A
    <3> SUFFICES ASSUME NEW b \in blocks, NEW c \in blocks' \ blocks,
                        b.pos = c.pos, b.time > 0, queue(b.time) = queue(c.time)
                 PROVE  FALSE
      OBVIOUS
    <3>1. c.time = clock /\ c.pos = pos
      BY <2>2 DEF Generate
    <3>2. b.time \in Nat \ {0} /\ clock \in Nat
      BY DEF TypeOK
    <3>3. queue(clock) \in Int
      BY <3>2, SlotExists
    <3>4. /\ Unix(RangeByTime(clock).start) <= b.time
          /\ b.time <= Unix(RangeByTime(clock).end)
      BY <3>1, <3>2, <3>3, RangeOfSlot
    <3>5. BlockForTimeExists(clock, pos)
      BY <3>1, <3>4 DEF BlockForTimeExists, GetNodeBlocksAtTime
    <3> QED
      BY <2>2, <3>5 DEF Generate
  <2>3. CASE ChangeDuration
    BY <2>3 DEF ChangeDuration
  <2> QED
    BY <2>1, <2>2, <2>3 DEF Next
<1> QED
  BY <1>1, TypeCorrect, PTL DEF Spec, OneBlockInSlot
=============================================================================
