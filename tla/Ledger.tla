------------------------------- MODULE Ledger -------------------------------
(***************************************************************************)
(* What a node's database promises its users: a ledger that begins with    *)
(* the first block, and contract data that is the result of its blocks.    *)
(* The ledger changes by blocks joining its end together with their        *)
(* effects, and by its last block leaving together with its effects.       *)
(***************************************************************************)
EXTENDS Integers, Sequences

CONSTANTS
    First,      \* the first block
    Linked(_,_),\* the second block was made over the first
    TxsIn(_),   \* the transactions of a block
    Slot(_),    \* who generated a block, and when
    DataOf(_)   \* the contract data a ledger results in

VARIABLES ledger, data

Init ==
    /\ ledger = <<First>>
    /\ data = DataOf(ledger)

Wellformed(l) ==
    /\ \A i \in 2..Len(l) : Linked(l[i-1], l[i])
    /\ \A i, j \in 2..Len(l) : i # j => /\ TxsIn(l[i]) \cap TxsIn(l[j]) = {}
                                        /\ Slot(l[i]) # Slot(l[j])

\* One or more blocks join.
Join ==
    /\ Len(ledger') > Len(ledger)
    /\ SubSeq(ledger', 1, Len(ledger)) = ledger
    /\ Wellformed(ledger')
    /\ data' = DataOf(ledger')

\* The last block leaves; the first stays for ever.
Leave ==
    /\ Len(ledger) > 1
    /\ ledger' = SubSeq(ledger, 1, Len(ledger) - 1)
    /\ data' = DataOf(ledger')

Spec == Init /\ [][Join \/ Leave]_<<ledger, data>>
=============================================================================
