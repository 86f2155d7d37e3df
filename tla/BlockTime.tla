----------------------------- MODULE BlockTime -----------------------------
(***************************************************************************)
(* Whose turn it is to generate a block (packages/protocols).  Time since  *)
(* the first block is cut into slots of one duration and the slots are     *)
(* given to the node positions in turn.  Clocks and the times of blocks    *)
(* are whole seconds, the duration is not: it is max_block_generation_time *)
(* in milliseconds plus gap_between_blocks in seconds, and a block that    *)
(* changes one of these system parameters changes the slots of the blocks  *)
(* before it.                                                              *)
(*                                                                         *)
(* Module NodeChain counts time in slots and says that a position has a    *)
(* block in the slot; the code asks whether one has a time in a range of   *)
(* seconds.  RangeIsSlot is why that is the same.                          *)
(***************************************************************************)
EXTENDS Integers

CONSTANTS
    Durations,    \* the durations the system parameters may have, in milliseconds
    NumberNodes,  \* honor nodes
    MaxTime       \* bound on the clock, in seconds

ASSUME TimeAssumption ==
    /\ Durations \subseteq Nat \ 0..999
    /\ NumberNodes \in Nat \ {0}
    /\ MaxTime \in Nat

VARIABLES
    clock,    \* seconds since the first block
    duration, \* of a slot, in milliseconds
    blocks    \* the blocks of block_chain but the first: [time, pos]

vars == <<clock, duration, blocks>>

Positions == 0..NumberNodes-1

\* queue: the slot of a second.  A slot ends with its last instant, so that the instant
\* between two slots belongs to the first; the instant of the first block to slot 0.
queue(t) == IF t = 0 THEN 0 ELSE (1000 * t - 1) \div duration

nodePosition(t) == queue(t) % NumberNodes

TimeToGenerate(t, pos) == nodePosition(t) = pos

Unix(ms) == ms \div 1000

\* Mutant: the range begins with the slot.
RangeFromStart(t) ==
    LET start == queue(t) * duration
    IN  [start |-> start, end |-> start + duration]

\* RangeByTime, in milliseconds since the first block.
RangeByTime(t) ==
    LET start == queue(t) * duration + 1000
    IN  [start |-> start, end |-> start + (duration - 1000)]

\* Mutant: the first second of the range is left out.
GetNodeBlocksAfter(from, to, pos) ==
    {b \in blocks : b.pos = pos /\ Unix(from) < b.time /\ b.time <= Unix(to)}

GetNodeBlocksAtTime(from, to, pos) ==
    {b \in blocks : b.pos = pos /\ Unix(from) <= b.time /\ b.time <= Unix(to)}

BlockForTimeExists(t, pos) ==
    GetNodeBlocksAtTime(RangeByTime(t).start, RangeByTime(t).end, pos) # {}

Init ==
    /\ clock = 0
    /\ duration \in Durations
    /\ blocks = {}

Tick ==
    /\ clock < MaxTime
    /\ clock' = clock + 1
    /\ UNCHANGED <<duration, blocks>>

\* Mutant: the block is stamped with the end of the range.
GenerateStampedLate(pos) ==
    /\ ~ BlockForTimeExists(clock, pos)
    /\ TimeToGenerate(clock, pos)
    /\ blocks' = blocks \cup {[time |-> Unix(RangeByTime(clock).end), pos |-> pos]}
    /\ UNCHANGED <<clock, duration>>

\* The node at pos generates: the guards of BlockGenerator.
Generate(pos) ==
    /\ ~ BlockForTimeExists(clock, pos)
    /\ TimeToGenerate(clock, pos)
    /\ blocks' = blocks \cup {[time |-> clock, pos |-> pos]}
    /\ UNCHANGED <<clock, duration>>

\* A block changes the system parameters.
ChangeDuration ==
    /\ duration' \in Durations \ {duration}
    /\ UNCHANGED <<clock, blocks>>

Next == Tick \/ (\E pos \in Positions : Generate(pos)) \/ ChangeDuration

Spec == Init /\ [][Next]_vars

-----------------------------------------------------------------------------
TypeOK ==
    /\ clock \in 0..MaxTime
    /\ duration \in Durations
    /\ blocks \subseteq [time : 0..clock, pos : Positions]

\* The range that RangeByTime gives for a second holds the seconds of its slot and no
\* other, whether or not a slot is a whole number of seconds.  The second of the first
\* block is in no range.
RangeIsSlot ==
    \A t, u \in 1..clock :
        Unix(RangeByTime(t).start) <= u /\ u <= Unix(RangeByTime(t).end) <=> queue(u) = queue(t)

\* The generator stops adding transactions at the end of the range: the node it must not
\* run into has its turn only after that second.
DeadlineInSlot == queue(Unix(RangeByTime(clock).end)) = queue(clock)

\* No node generates twice in one of its slots, as the slots are when it generates, after
\* the second of the first block.
OneBlockInSlot ==
    [][ \A b \in blocks, c \in blocks' \ blocks :
          b.pos = c.pos /\ b.time > 0 => queue(b.time) # queue(c.time) ]_vars
=============================================================================
