------------------------------- MODULE TxPool -------------------------------
(***************************************************************************)
(* The way of a transaction through one node: the API or a host stores it  *)
(* in queue_tx, the queue parser moves it to the pool (transactions), the  *)
(* generator collects a block from the pool and plays it, a goroutine of   *)
(* the generator marks what it refused, and transactions_status tells the  *)
(* client what became of it (packages/api/send_tx.go, model/send_tx.go,    *)
(* transaction/process.go, transaction/db.go, daemons/block_generator.go,  *)
(* block/limits.go, network/tcpserver/disseminator.go, type3.go).          *)
(***************************************************************************)
EXTENDS FiniteSets, Selection, SequencesExt, TLC

CONSTANTS
    Users,      \* contracts signed by users, sent to the API or by a host
    Reports,    \* contracts a node puts in its own pool (NewBadBlock)
    Stops,      \* stop-network transactions
    Delayed,    \* the contract of a delayed call, made for block DelayBlock
    Faulty,     \* those a check of their own may refuse, at any stage
    Foreign,    \* those other nodes put in their blocks
    Arrival,    \* the order of expedite and time
    Key,        \* the key that signed a transaction
    MaxTxCount, \* max_tx_block
    MaxUserTx,  \* max_tx_block_per_user
    DelayBlock, \* the block delayed contracts are due in
    MaxBlocks,  \* bound: blocks of the chain
    MaxFaults   \* bound: crashes, rollbacks, offers, resends, stops

Txs == Users \cup Reports \cup Stops \cup Delayed

ASSUME PoolAssumption ==
    /\ MaxTxCount \in Nat \ {0}
    /\ MaxUserTx \in Nat \ {0}
    /\ Faulty \subseteq Users
    /\ Foreign \subseteq Txs \ Stops
    /\ Stops \cap (Users \cup Reports \cup Delayed) = {}
    /\ Users \cap (Reports \cup Delayed) = {}
    /\ IsFiniteSet(Delayed)
    /\ Arrival \in Seq(Txs)
    /\ DOMAIN Key = Txs

VARIABLES
    status,     \* transactions_status: hash -> block and error
    queue,      \* queue_tx: hash -> who brought it, "client" or "gate"
    pool,       \* transactions: hash -> "verified" or "unverified"
    chain,      \* the transactions of each block (log_transactions)
    msgs,       \* updBlockMsg: whose message waits for the next batch update
    sending,    \* requests between the two writes of SendTx
    asking,     \* gate requests by the table they look up next
    parser,     \* the batch whose pool rows were written, its queue rows not
    gen,        \* the list of the generator that has the lock and plays next
    marking,    \* the item in the hand of the goroutine that marks bad ones
    paused,     \* the node is paused, by a stop-network transaction or for one
    faults,     \* what was counted against MaxFaults
    excused,    \* history: brought by a host, cut by a crash, rolled back
    failed      \* history: a block failed on a transaction of the chain

rows   == <<status, queue, pool>>
web    == <<sending, asking>>
hist   == <<excused, failed>>
vars   == <<rows, chain, msgs, web, parser, gen, marking, paused, faults, hist>>

None == <<>>
Log == UNION Range(chain)
Locked == parser # None \/ gen # None        \* DBLock is held

With(f, S, v)  == [x \in DOMAIN f \cup S |-> IF x \in S THEN v ELSE f[x]]
Adding(f, S, v) == [x \in DOMAIN f \cup S |-> IF x \in DOMAIN f THEN f[x] ELSE v]
Without(f, S)  == [x \in DOMAIN f \ S |-> f[x]]

Pending == [block |-> 0, error |-> "no"]

(***************************************************************************)
(* Rows change hands.                                                      *)
(***************************************************************************)

\* Mutant: the error of a row that left the queue is lost.
SetErrorsOfQueue(S) ==
    [t \in DOMAIN status |->
        IF t \in S \cap DOMAIN queue
        THEN [status[t] EXCEPT !.error = "yes"] ELSE status[t]]

\* MarkTransactionBad, one database transaction of its own: the error is kept
\* from the status when a host brought the row of the queue; the row of the
\* queue goes, and the row of the pool, whatever it holds.
SetErrors(S) ==
    [t \in DOMAIN status |->
        IF t \in S /\ (t \in DOMAIN queue => queue[t] = "client")
        THEN [status[t] EXCEPT !.error = "yes"] ELSE status[t]]

MarkTransactionsBad(S) ==
    /\ status' = SetErrors(S)
    /\ queue' = Without(queue, S)
    /\ pool' = Without(pool, S)

\* UpdateBlockMsgBatches writes every message that waits with the number of
\* the block that comes to it.
BlockMsgs(st, S, n) ==
    [t \in DOMAIN st |-> IF t \in S THEN [block |-> n, error |-> "no"] ELSE st[t]]

(***************************************************************************)
(* The API: SendTx writes two rows one after the other, SendTxBatches both *)
(* at once and nothing where a row is.                                     *)
(***************************************************************************)
SendTx(t) ==
    /\ t \notin DOMAIN status
    /\ status' = With(status, {t}, Pending)
    /\ sending' = sending \cup {t}
    /\ UNCHANGED <<queue, pool, chain, msgs, asking, parser, gen, marking,
                   paused, faults, hist>>

SendTxQueue(t) ==
    /\ t \in sending
    /\ sending' = sending \ {t}
    /\ queue' = Adding(queue, {t}, "client")
    /\ UNCHANGED <<status, pool, chain, msgs, asking, parser, gen, marking,
                   paused, faults, hist>>

SendTxBatches(S) ==
    /\ status' = Adding(status, S, Pending)
    /\ queue' = Adding(queue, S, "client")
    /\ LET again == IF S \cap DOMAIN status = {} THEN 0 ELSE 1 IN
        /\ faults + again <= MaxFaults
        /\ faults' = faults + again
    /\ UNCHANGED <<pool, chain, msgs, web, parser, gen, marking, paused, hist>>

(***************************************************************************)
(* A host: the log, the pool and the queue are asked one after the other,  *)
(* then the transaction is sent and saved.  A paused node does not begin   *)
(* this (tcpserver.go:33), but ends what it has begun.                     *)
(***************************************************************************)
Known(t) ==
    CASE asking[t] = "log"   -> t \in Log
      [] asking[t] = "pool"  -> t \in DOMAIN pool
      [] asking[t] = "queue" -> t \in DOMAIN queue
      [] asking[t] = "save"  -> FALSE

After == [log |-> "pool", pool |-> "queue", queue |-> "save"]

Type1(t) ==
    /\ ~paused
    /\ t \notin DOMAIN asking
    /\ faults < MaxFaults
    /\ faults' = faults + 1
    /\ asking' = With(asking, {t}, "log")
    /\ UNCHANGED <<rows, chain, msgs, sending, parser, gen, marking, paused,
                   hist>>

GetUnknownTransactions(t) ==
    /\ t \in DOMAIN asking
    /\ asking[t] # "save"
    /\ asking' = IF Known(t) THEN Without(asking, {t})
                             ELSE With(asking, {t}, After[asking[t]])
    /\ UNCHANGED <<rows, chain, msgs, sending, parser, gen, marking,
                   paused, faults, hist>>

SaveNewTransactions(t) ==
    /\ t \in DOMAIN asking
    /\ asking[t] = "save"
    /\ asking' = Without(asking, {t})
    /\ queue' = Adding(queue, {t}, "gate")
    /\ excused' = excused \cup {t}
    /\ UNCHANGED <<status, pool, chain, msgs, sending, parser, gen,
                   marking, paused, faults, failed>>

(***************************************************************************)
(* Rows a node puts in the pool itself, neither queued nor verified.       *)
(***************************************************************************)
CreateTransaction(t) ==
    /\ t \notin DOMAIN pool
    /\ t \notin Log
    /\ faults < MaxFaults
    /\ faults' = faults + 1
    /\ pool' = With(pool, {t}, "unverified")
    /\ UNCHANGED <<status, queue, chain, msgs, web, parser, gen, marking,
                   paused, hist>>

(***************************************************************************)
(* The queue parser takes DBLock, reads a batch of the queue and of what   *)
(* is unverified in the pool, and stops at the first row it refuses.       *)
(***************************************************************************)
First(s, n) == SubSeq(s, 1, IF Len(s) < n THEN Len(s) ELSE n)

Batch ==
    LET S == DOMAIN queue \cup {t \in DOMAIN pool : pool[t] = "unverified"}
    IN  First(Only(Arrival, S), MaxTxCount)

\* What ends a batch: a transaction whose time is refused, or one that stops
\* the network, which has no contract to read the expedite from.
StopBefore(t) ==
    \E i, j \in DOMAIN Batch : i < j /\ Batch[i] \in Stops /\ Batch[j] = t

ProcessQueueTransactionBatches ==
    /\ ~Locked
    /\ parser' = Batch
    /\ parser' # None
    /\ Range(parser') \cap Stops = {}
    /\ pool' = Adding(pool, Range(parser'), "verified")
    /\ UNCHANGED <<status, queue, chain, msgs, web, gen, marking, paused,
                   faults, hist>>

DeleteQueueTxs ==
    /\ parser # None
    /\ queue' = Without(queue, Range(parser))
    /\ parser' = None
    /\ UNCHANGED <<status, pool, chain, msgs, web, gen, marking, paused,
                   faults, hist>>

RefuseBatch(t) ==
    /\ ~Locked
    /\ t \in Range(Batch) \cap Faulty
    /\ ~StopBefore(t)
    /\ MarkTransactionsBad({t})
    /\ UNCHANGED <<chain, msgs, web, parser, gen, marking, paused, faults, hist>>

\* The process ends: what was in its memory is lost, the rows stay.
LoseMemory ==
    /\ msgs' = {}
    /\ sending' = {}
    /\ asking' = None
    /\ parser' = None
    /\ gen' = None
    /\ marking' = {}
    /\ paused' = FALSE
    /\ excused' = excused \cup sending
    /\ UNCHANGED <<rows, chain, failed>>

Panic ==
    /\ ~Locked
    /\ Range(Batch) \cap Stops # {}
    /\ faults < MaxFaults
    /\ faults' = faults + 1
    /\ LoseMemory

Crash ==
    /\ faults < MaxFaults
    /\ faults' = faults + 1
    /\ LoseMemory

(***************************************************************************)
(* The generator takes DBLock, collects a list and plays it.               *)
(***************************************************************************)
Rate(t) == IF t \in Stops THEN 6 ELSE IF t \in Reports THEN 1 ELSE 2

\* high_rate, expedite DESC, time ASC: the highest rate comes last.
ExpediteOrder ==
    LET OfRate(n) == Only(Arrival, {t \in Txs : Rate(t) = n})
    IN  OfRate(1) \o OfRate(2) \o OfRate(6)

GetAllUnusedTransactions ==
    First(Only(ExpediteOrder, DOMAIN pool), MaxTxCount)

RunForDelayBlockID ==
    IF Len(chain) + 1 = DelayBlock THEN SetToSeq(Delayed) ELSE <<>>

\* The limits in their order: the size of the transaction, the key's share,
\* the number in the block, which is compared one early.
LimitError(c, t) == t \in c.refused
LimitSkipLate(c, t) == c.used[Key[t]] > MaxUserTx       \* mutant
LimitSkip(c, t) == c.used[Key[t]] + 1 > MaxUserTx /\ c.used[Key[t]] > 0
LimitStop(c, t) == c.count + 2 > MaxTxCount

Seen(c, t) == [c EXCEPT !.first = FALSE]
Counted(c, t) == [Seen(c, t) EXCEPT !.used[Key[t]] = @ + 1, !.count = @ + 1]

\* One turn of the loop.  The break after a stop-network transaction and the
\* one after ErrLimitStop leave the select, not the loop.
CollectOne(c, t) ==
    IF t \in Stops THEN [Seen(c, t) EXCEPT !.list = <<t>>]
    ELSE IF LimitError(c, t) THEN [Seen(c, t) EXCEPT !.bad = Append(@, t)]
    ELSE IF LimitSkip(c, t) THEN Seen(c, t)
    ELSE IF LimitStop(c, t)
         THEN IF c.first THEN [Counted(c, t) EXCEPT !.bad = Append(@, t)]
                         ELSE Counted(c, t)
    ELSE [Counted(c, t) EXCEPT !.list = Append(@, t)]

\* What the loop may come to, by which of those that may be are refused.
ProcessTransactions(refusable) ==
    LET todo == RunForDelayBlockID \o GetAllUnusedTransactions
        begin == {[refused |-> R, list |-> <<>>, bad |-> <<>>, count |-> 0, first |-> TRUE,
                   used |-> [k \in Range(Key) |-> 0]] : R \in SUBSET refusable}
        collected[n \in 0..Len(todo)] ==
          IF n = 0 THEN begin ELSE {CollectOne(c, todo[n]) : c \in collected[n-1]}
    IN  collected[Len(todo)]

\* Mutant: the list is collected without DBLock.
BlockGeneratorUnlocked ==
    /\ gen = None
    /\ ~paused
    /\ Len(chain) < MaxBlocks
    /\ \E c \in ProcessTransactions({}) :
        /\ c.list # None
        /\ gen' = c.list
    /\ UNCHANGED <<rows, marking, chain, msgs, web, parser, paused, faults, hist>>

\* The channel of bad transactions has no buffer: when the collection ends
\* all but the last one are marked, and the last is in the goroutine's hand.
BlockGenerator ==
    /\ ~Locked
    /\ ~paused
    /\ Len(chain) < MaxBlocks
    /\ UNCHANGED <<chain, msgs, web, parser, paused, faults, hist>>
    /\ \E c \in ProcessTransactions(Faulty \cap DOMAIN pool) :
        /\ c.list # None \/ c.bad # None
        /\ gen' = c.list
        /\ marking' = IF c.bad = None THEN marking ELSE marking \cup {Last(c.bad)}
        /\ MarkTransactionsBad(IF c.bad = None THEN {} ELSE Range(Front(c.bad)))

ProcessBadTx(t) ==
    /\ t \in marking
    /\ marking' = marking \ {t}
    /\ MarkTransactionsBad({t})
    /\ UNCHANGED <<chain, msgs, web, parser, gen, paused, faults, hist>>

\* What fails while the block is played is marked bad at once and left out.
Played(fails) == Only(gen, Txs \ fails)

\* Mutant: what failed stays where it was.
PlayNothingUnmarked ==
    /\ gen # None
    /\ Range(gen) \subseteq Faulty
    /\ gen' = None
    /\ UNCHANGED <<rows, chain, msgs, web, parser, marking, paused, faults, hist>>

\* With nothing left there is no block, but the messages that waited are
\* written with its number.
PlayNothing ==
    /\ gen # None
    /\ Range(gen) \subseteq Faulty
    /\ status' = BlockMsgs(SetErrors(Range(gen)), msgs, Len(chain) + 1)
    /\ queue' = Without(queue, Range(gen))
    /\ pool' = Without(pool, Range(gen))
    /\ msgs' = {}
    /\ gen' = None
    /\ UNCHANGED <<chain, web, parser, marking, paused, faults, hist>>

\* A stop-network transaction pauses the node and ends the block, which is
\* rolled back with the messages that waited for it; being the first, it is
\* marked bad.
PlayStop ==
    /\ gen # None
    /\ Range(gen) \cap Stops # {}
    /\ MarkTransactionsBad({Head(gen)})
    /\ paused' = TRUE
    /\ msgs' = {}
    /\ gen' = None
    /\ UNCHANGED <<chain, web, parser, marking, faults, hist>>

\* The relevance check pauses the node while a stop-network transaction waits
\* in the pool, and resumes it when there is none, whatever paused it.
StopWaits == DOMAIN pool \cap Stops # {}

CheckNodeRelevance ==
    /\ paused # StopWaits
    /\ paused' = StopWaits
    /\ UNCHANGED <<rows, chain, msgs, web, parser, gen, marking, faults, hist>>

\* The rows of log_transactions cannot be written twice: the block fails as a
\* whole, its messages stay, and so do its rows in the pool.
PlayAgain(fails) ==
    /\ gen # None
    /\ Range(gen) \cap Stops = {}
    /\ Range(Played(fails)) \cap Log # {}
    /\ MarkTransactionsBad(Range(gen) \cap fails)
    /\ msgs' = msgs \cup Range(Played(fails))
    /\ failed' = TRUE
    /\ gen' = None
    /\ UNCHANGED <<chain, web, parser, marking, paused, faults, excused>>

PlayBlock(fails) ==
    /\ gen # None
    /\ Range(gen) \cap Stops = {}
    /\ Played(fails) # None
    /\ Range(Played(fails)) \cap Log = {}
    /\ status' = BlockMsgs(SetErrors(Range(gen) \cap fails),
                           msgs \cup Range(Played(fails)), Len(chain) + 1)
    /\ queue' = Without(queue, Range(gen) \cap fails)
    /\ pool' = Without(pool, Range(gen))
    /\ chain' = Append(chain, Range(Played(fails)))
    /\ msgs' = {}
    /\ gen' = None
    /\ UNCHANGED <<web, parser, marking, paused, faults, hist>>

(***************************************************************************)
(* Blocks of other nodes, and the rollback of the last block: an update of *)
(* the chain does not ask for the pause.                                   *)
(***************************************************************************)
ReceiveBlock(S) ==
    /\ ~Locked
    /\ Len(chain) < MaxBlocks
    /\ S \cap Log = {}
    /\ status' = BlockMsgs(status, msgs \cup S, Len(chain) + 1)
    /\ pool' = Without(pool, S)
    /\ chain' = Append(chain, S)
    /\ msgs' = {}
    /\ UNCHANGED <<queue, web, parser, gen, marking, paused, faults, hist>>

\* A block that fails on its transaction t is rolled back, with the messages
\* that waited for it; that t is marked bad stays.
ReceiveBadBlock(t) ==
    /\ ~Locked
    /\ t \notin Log
    /\ MarkTransactionsBad({t})
    /\ msgs' = {}
    /\ UNCHANGED <<chain, web, parser, gen, marking, paused, faults, hist>>

\* Mutant: the status of a transaction keeps the number of its block.
RollbackBlockKeepsStatus ==
    /\ ~Locked
    /\ chain # None
    /\ faults < MaxFaults
    /\ faults' = faults + 1
    /\ queue' = Without(queue, Last(chain))
    /\ excused' = excused \cup Last(chain)
    /\ chain' = Front(chain)
    /\ UNCHANGED <<status, pool, msgs, web, parser, gen, marking, paused, failed>>

RollbackBlock ==
    /\ ~Locked
    /\ chain # None
    /\ faults < MaxFaults
    /\ faults' = faults + 1
    /\ LET S == Last(chain) IN
        /\ status' = [t \in DOMAIN status |->
              IF t \in S THEN [status[t] EXCEPT !.block = 0] ELSE status[t]]
        /\ queue' = Without(queue, S)
        /\ pool' = [t \in DOMAIN pool |->
              IF t \in S THEN "unverified" ELSE pool[t]]
        /\ excused' = excused \cup S
    /\ chain' = Front(chain)
    /\ UNCHANGED <<msgs, web, parser, gen, marking, paused, failed>>

-----------------------------------------------------------------------------
Init ==
    /\ status = None /\ queue = None /\ pool = None /\ chain = <<>>
    /\ msgs = {} /\ sending = {} /\ asking = None
    /\ parser = None /\ gen = None /\ marking = {}
    /\ paused = FALSE /\ faults = 0
    /\ excused = {} /\ failed = FALSE

Parse == ProcessQueueTransactionBatches \/ \E t \in Faulty : RefuseBatch(t)
Play ==
    \/ PlayNothing
    \/ PlayStop
    \/ \E fails \in SUBSET Faulty : PlayAgain(fails) \/ PlayBlock(fails)

Next ==
    \/ \E t \in Users : SendTx(t) \/ SendTxQueue(t)
    \/ \E S \in SUBSET Users \ {{}} : SendTxBatches(S)
    \/ \E t \in Users :
          Type1(t) \/ GetUnknownTransactions(t) \/ SaveNewTransactions(t)
    \/ \E t \in Reports \cup Stops : CreateTransaction(t)
    \/ Parse
    \/ DeleteQueueTxs
    \/ Panic
    \/ Crash
    \/ BlockGenerator
    \/ Play
    \/ CheckNodeRelevance
    \/ \E t \in Users : ProcessBadTx(t)
    \/ \E S \in SUBSET Foreign \ {{}} : ReceiveBlock(S)
    \/ \E t \in Faulty : ReceiveBadBlock(t)
    \/ RollbackBlock

\* The daemons and the relevance check run for ever, the mutex of DBLock is
\* fair to who waits for it, and the goroutine of the bad transactions is
\* scheduled.
Fairness ==
    /\ SF_vars(Parse)
    /\ SF_vars(BlockGenerator)
    /\ WF_vars(DeleteQueueTxs)
    /\ WF_vars(Play)
    /\ WF_vars(CheckNodeRelevance)
    /\ WF_vars(\E t \in Users : ProcessBadTx(t))

Spec == Init /\ [][Next]_vars /\ Fairness

-----------------------------------------------------------------------------
TypeOK ==
    /\ DOMAIN status \subseteq Users
    /\ \A t \in DOMAIN status :
          status[t] \in [block : Nat, error : {"no", "yes"}]
    /\ DOMAIN queue \subseteq Users /\ Range(queue) \subseteq {"client", "gate"}
    /\ DOMAIN pool \subseteq Users \cup Reports \cup Stops
    /\ Range(pool) \subseteq {"verified", "unverified"}
    /\ chain \in Seq(SUBSET Txs)
    /\ gen \in Seq(Txs) /\ parser \in Seq(Txs)
    /\ ~(gen # None /\ parser # None)

\* A transaction whose client reads "no answer yet" waits in the queue or in
\* the pool, whatever was written one by one, refused or cut in between: only
\* a crash inside SendTx, a rollback of its block, or a copy a host brought
\* (whose failure is not told) leaves a client without an answer for ever
\* (model/send_tx.go:40, transaction/db.go:86).
Answerless(t) == t \in DOMAIN status /\ status[t] = Pending

Waits ==
    \A t \in Users :
        Answerless(t) /\ t \notin sending \cup excused
            => t \in DOMAIN queue \cup DOMAIN pool

\* A client that is told a block number finds its transaction in that block,
\* also after rollbacks, crashes and failed blocks, as long as no block failed
\* on a transaction of the chain: then the messages of a failed block wait
\* for the next one (model/transaction_status.go:54).
StatusTrue ==
    ~failed => \A t \in DOMAIN status :
        LET n == status[t].block IN n # 0 => n <= Len(chain) /\ t \in chain[n]

\* A stop-network transaction is played alone: what was collected before it
\* is left for later and nothing is collected after it, although the break
\* that should end the collection does not (block_generator.go:207).
StopAlone == Range(gen) \cap Stops # {} => Len(gen) = 1

\* What is collected passes the limits a host checks when it plays the block
\* and keeps a stop-network transaction alone, although the collection goes on
\* after ErrLimitStop (block_generator.go:228, limits.go:112).
OfKey(s, k) == {i \in DOMAIN s : Key[s[i]] = k}

CollectFits ==
    /\ StopAlone
    /\ Len(gen) <= MaxTxCount
    /\ \A k \in Range(Key) : Cardinality(OfKey(gen, k)) <= MaxUserTx

\* Every client the API told of no error is told a block or an error in the
\* end, also after a stop-network transaction has paused the node and its row
\* is gone (node_relevance.go:60), unless, for ever, such a row is in the pool,
\* which pauses the node before its generator removes it, or a transaction of
\* the chain is, on which every block of this node fails
\* (block_generator.go:157).
Stuck == DOMAIN pool \cap Log # {}
Excused(t) ==
    t \in sending \cup excused \/ StopWaits \/ Stuck \/ Len(chain) = MaxBlocks

Answered ==
    \A t \in Users : Answerless(t) ~> ~Answerless(t) \/ Excused(t)
=============================================================================
