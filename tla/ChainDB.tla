------------------------------ MODULE ChainDB ------------------------------
(***************************************************************************)
(* The database of one node and the procedures that change it inside one   *)
(* database transaction: playing a block (packages/block), inserting it,   *)
(* rolling the last block back (packages/rollback), marking a transaction  *)
(* bad (packages/transaction).  Every procedure is an operator from a      *)
(* database to a database; a step of module NodeChain commits the result.  *)
(*                                                                         *)
(* A database d is a record of the tables the procedures touch:            *)
(*   chain     block_chain: block id -> row [blk, rb]                      *)
(*   info      info_block, its single row: [id, hash, rb]                  *)
(*   log       log_transactions: transaction -> block id, 0 for no row     *)
(*   status    transactions_status.block_id of each transaction            *)
(*   pool      transactions: the hashes with a row (used is never set)     *)
(*   verified  the rows of pool whose verified column is 1                 *)
(*   queue     queue_tx                                                    *)
(*   undo      rollback_tx in id order: the row's index is its id          *)
(*   data      the contract tables: key -> value                           *)
(*                                                                         *)
(* A block is a record [id, time, pos, txs, prev, prevRb]: the header      *)
(* fields, the transactions, and the hash and rollbacks hash of the        *)
(* predecessor that its generator signed.  Time is counted in generation   *)
(* slots (module BlockTime).                                               *)
(***************************************************************************)
EXTENDS Selection, SequencesExt

CONSTANTS
    Tx,          \* transactions, identified by their hash
    Key,         \* rows of the contract tables
    Writes,      \* Tx -> Seq(Key): the rows a transaction's contract writes, in order
    Rejected,    \* the transactions whose contract fails whenever it is called
    TxFrom,      \* Tx -> the first slot a transaction may be in a block of
    TxUntil      \* Tx -> the last one

ASSUME TxAssumption ==
    /\ Rejected \subseteq Tx
    /\ Writes \in [Tx -> Seq(Key)]
    /\ TxFrom \in [Tx -> Int]
    /\ TxUntil \in [Tx -> Int]

-----------------------------------------------------------------------------
(* Hashes: one-element sequences of what is hashed; the empty sequence is    *)
(* the empty byte slice, which is the hash of nothing.                       *)

NoHash == <<>>
HashOf(x) == <<x>>

Genesis == [id |-> 1, time |-> 0, pos |-> 0, txs |-> <<>>, prev |-> NoHash, prevRb |-> NoHash]

\* The database once the first block is installed.
GenesisDB ==
    [chain    |-> [i \in {1} |-> [blk |-> Genesis, rb |-> HashOf(<<>>)]],
     info     |-> [id |-> 1, hash |-> HashOf(Genesis), rb |-> HashOf(<<>>)],
     log      |-> [t \in Tx |-> 0],
     status   |-> [t \in Tx |-> 0],
     pool     |-> {}, verified |-> {}, queue |-> {},
     undo     |-> <<>>,
     data     |-> [k \in Key |-> <<>>]]

-----------------------------------------------------------------------------
(* Checking a block against the committed database.                          *)

\* GetMaxBlock: the last row of block_chain.
MaxBlockID(d) == CHOOSE i \in DOMAIN d.chain : \A j \in DOMAIN d.chain : j <= i

\* Mutant: the table is not looked at.
NoBlockForTimeExists(d, slot, pos) == FALSE

\* A block of that node position exists in the slot.
BlockForTimeExists(d, slot, pos) ==
    \E i \in DOMAIN d.chain : i > 1 /\ d.chain[i].blk.pos = pos /\ d.chain[i].blk.time = slot

CheckTime(t, slot) == TxFrom[t] <= slot /\ slot <= TxUntil[t]

\* The header the next block is checked against and is signed over.
HeaderOf(row) == [id |-> row.blk.id, hash |-> HashOf(row.blk), rb |-> row.rb]

\* The signature covers the predecessor's hash and its rollbacks hash.
SignOK(blk, prev) == blk.prev = prev.hash /\ blk.prevRb = prev.rb

\* Mutant: the signature is not verified.
CheckUnsigned(d, blk, prev, now) ==
    IF \/ blk.time > now
       \/ BlockForTimeExists(d, blk.time, blk.pos)
       \/ \E i \in DOMAIN blk.txs : ~ CheckTime(blk.txs[i], blk.time)
    THEN "error" ELSE "ok"

\* Mutant: the times of the transactions are not compared.
CheckTimeless(d, blk, prev, now) ==
    IF blk.time > now \/ BlockForTimeExists(d, blk.time, blk.pos) THEN "error"
    ELSE IF SignOK(blk, prev) THEN "ok"
    ELSE IF blk.prevRb # prev.rb THEN "rollback hash" ELSE "error"

\* The outcome of Block.Check: "ok", "rollback hash" (ErrIncorrectRollbackHash) or "error".
Check(d, blk, prev, now) ==
    IF \/ blk.time > now
       \/ BlockForTimeExists(d, blk.time, blk.pos)
       \/ \E i, j \in DOMAIN blk.txs : i # j /\ blk.txs[i] = blk.txs[j]
       \/ \E i \in DOMAIN blk.txs : ~ CheckTime(blk.txs[i], blk.time)
    THEN "error"
    ELSE IF SignOK(blk, prev) THEN "ok"
    ELSE IF blk.prevRb # prev.rb THEN "rollback hash" ELSE "error"

-----------------------------------------------------------------------------
(* Executing the transactions of a list of consecutive blocks.               *)

\* The j-th write of t's contract and the rollback_tx row with the value it overwrites.
Write(s, id, t, j) ==
    LET k == Writes[t][j]
    IN  [data |-> [s.data EXCEPT ![k] = <<t, j>>],
         undo |-> Append(s.undo, [id |-> Len(s.undo) + 1, block |-> id,
                                  tx |-> t, key |-> k, old |-> s.data[k]])]

\* Transaction t in the block with this id.
ExecuteTx(s, id, t) ==
    LET after[j \in 0..Len(Writes[t])] == IF j = 0 THEN s ELSE Write(after[j-1], id, t, j)
    IN  after[Len(Writes[t])]

ExecuteBlock(s, blk) ==
    LET after[i \in 0..Len(blk.txs)] ==
          IF i = 0 THEN s ELSE ExecuteTx(after[i-1], blk.id, blk.txs[i])
    IN  after[Len(blk.txs)]

Execute(d, blocks) ==
    LET after[i \in 0..Len(blocks)] ==
          IF i = 0 THEN [data |-> d.data, undo |-> d.undo] ELSE ExecuteBlock(after[i-1], blocks[i])
    IN  after[Len(blocks)]

\* GetRollbacksHash: the hash of the rollback_tx rows of the block.
RollbacksHash(undo, id) == HashOf(SelectSeq(undo, LAMBDA r : r.block = id))

\* Mutant: log_transactions has no primary key.
LoggedNowhere(d) == {}

LoggedIn(d) == {t \in Tx : d.log[t] # 0}
TxsOf(blocks) == UNION {ToSet(blocks[i].txs) : i \in DOMAIN blocks}

\* What Play does with the transactions of blk when logged have log_transactions
\* rows: done are played in that order, bad are marked bad, dup says that AfterPlayTxs fails on
\* the primary key of log_transactions.  A generating node skips a transaction
\* that fails and stops at a limit after cut of them; another stops at a failure.
Play(logged, blk, gen, cut) ==
    LET firstBad == CHOOSE i \in 1..Len(blk.txs) + 1 :
                      /\ i <= Len(blk.txs) => blk.txs[i] \in Rejected
                      /\ \A j \in 1..i-1 : blk.txs[j] \notin Rejected
        seen == SubSeq(blk.txs, 1, IF gen \/ firstBad > Len(blk.txs) THEN cut ELSE firstBad)
        played == {t \in Tx \ Rejected : t \in ToSet(seen)}
    IN  [done |-> Only(seen, Tx \ Rejected),
         played |-> played,
         bad  |-> ToSet(seen) \cap Rejected,
         dup  |-> played \cap logged # {},
         fails |-> \/ played \cap logged # {}
                   \/ gen /\ cut = 0
                   \/ ~ gen /\ firstBad <= Len(blk.txs)]

\* AfterPlayTxs of each block: the played transactions leave the pool and enter the
\* log, their rollback rows are stored, and the status of every transaction in
\* msgs, the process-wide list updBlockMsg, gets the id of the block.
AfterPlayTxs(d, msgs, blocks) ==
    LET s == Execute(d, blocks)
        blockOf(t) == CHOOSE n \in {blocks[i].id : i \in DOMAIN blocks} :
                        \E i \in DOMAIN blocks : blocks[i].id = n /\ t \in ToSet(blocks[i].txs)
    IN  [d EXCEPT !.pool = @ \ TxsOf(blocks),
                  !.verified = @ \ TxsOf(blocks),
                  !.log = [t \in Tx |-> IF t \in TxsOf(blocks) THEN blockOf(t) ELSE @[t]],
                  !.status = [t \in Tx |-> IF t \in TxsOf(blocks) THEN blockOf(t)
                                           ELSE IF t \in msgs THEN blocks[1].id ELSE @[t]],
                  !.undo = s.undo,
                  !.data = s.data]

\* Mutant: the rollbacks hash of info_block stays that of the block before.
UpdBlockInfoStale(d, blocks) ==
    LET blk == blocks[Len(blocks)]
    IN  [d EXCEPT !.info = [id |-> blk.id, hash |-> HashOf(blk), rb |-> @.rb]]

\* UpdBlockInfo for the last of the blocks, with the rollbacks hash that
\* InsertIntoBlockchain stores in the row.
UpdBlockInfo(d, blocks) ==
    LET blk == blocks[Len(blocks)]
    IN  [d EXCEPT !.info = [id |-> blk.id, hash |-> HashOf(blk), rb |-> RollbacksHash(d.undo, blk.id)]]

\* InsertIntoBlockchain of each block replaces the row with its id.
InsertIntoBlockchain(d, blocks) ==
    LET new == {blocks[i].id : i \in DOMAIN blocks}
        block(n) == blocks[CHOOSE i \in DOMAIN blocks : blocks[i].id = n]
    IN  [d EXCEPT !.chain = [n \in DOMAIN @ \cup new |->
                               IF n \in new THEN [blk |-> block(n), rb |-> RollbacksHash(d.undo, n)]
                                            ELSE @[n]]]

\* What a committed database transaction with these blocks does.
Extend(d, msgs, blocks) ==
    LET after == AfterPlayTxs(d, msgs, blocks)
    IN  InsertIntoBlockchain(UpdBlockInfo(after, blocks), blocks)

\* MarkTransactionBad, on a connection of its own: it outlives the block.
MarkTransactionsBad(d, bad) ==
    [d EXCEPT !.pool = @ \ bad, !.verified = @ \ bad, !.queue = @ \ bad]

-----------------------------------------------------------------------------
(* PlaySafe and processBlocks: the result says whether the blocks are in the *)
(* chain, and has the new database and the new updBlockMsg.                  *)

PlaySafe(d, msgs, blk, gen, cut) ==
    LET p == Play(LoggedIn(d), blk, gen, cut)
        new == IF gen THEN [blk EXCEPT !.txs = p.done] ELSE blk
        ok == /\ ~ p.fails
              /\ gen => p.done # <<>>
              /\ ~ BlockForTimeExists(d, blk.time, blk.pos)
        bad == p.bad \cup {t \in ToSet(blk.txs) : gen /\ p.fails /\ p.done = <<>> /\ t = blk.txs[1]}
    IN  [ok   |-> ok,
         db   |-> MarkTransactionsBad(IF ok THEN Extend(d, msgs, <<new>>) ELSE d, bad),
         msgs |-> IF p.dup THEN msgs \cup p.played ELSE {}]

\* blocks are in chain order.  From the second on, a block's PrevHeader is copied from
\* the header of the block before, whose RollbacksHash nothing has set.
ProcessBlocks(d, msgs, blocks, now) ==
    LET prev(i) == IF i = 1 THEN HeaderOf(d.chain[blocks[1].id - 1])
                   ELSE [id |-> blocks[i-1].id, hash |-> HashOf(blocks[i-1]), rb |-> NoHash]
        checked(i) == Check(d, blocks[i], prev(i), now) = "ok"
        play(i) == Play(LoggedIn(d) \cup TxsOf(SubSeq(blocks, 1, i-1)), blocks[i], FALSE, Len(blocks[i].txs))
        passes(i) == checked(i) /\ ~ play(i).fails
        stop == CHOOSE i \in 1..Len(blocks) + 1 :
                  /\ i <= Len(blocks) => ~ passes(i)
                  /\ \A j \in 1..i-1 : passes(j)
        left == IF stop = 1 THEN msgs ELSE {}
    IN  IF blocks = <<>> THEN [ok |-> TRUE, db |-> d, msgs |-> msgs]
        ELSE IF \A i \in DOMAIN blocks : passes(i)
             THEN [ok |-> TRUE, db |-> Extend(d, msgs, blocks), msgs |-> {}]
        ELSE IF ~ checked(stop) THEN [ok |-> FALSE, db |-> d, msgs |-> left]
        ELSE [ok |-> FALSE, db |-> MarkTransactionsBad(d, play(stop).bad),
              msgs |-> IF play(stop).dup THEN left \cup play(stop).played ELSE {}]

-----------------------------------------------------------------------------
(* RollbackBlock: the last block leaves the chain.                           *)

UndoRow(data, r) == [data EXCEPT ![r.key] = r.old]

\* Mutant: the rows of a transaction in the order they were written.
rollbackTransactionInOrder(s, t) ==
    LET data[k \in 0..Len(s.undo)] ==
          IF k = 0 THEN s.data
          ELSE IF s.undo[k].tx = t THEN UndoRow(data[k-1], s.undo[k]) ELSE data[k-1]
    IN  [data |-> data[Len(s.undo)],
         undo |-> Only(s.undo, {r \in ToSet(s.undo) : r.tx # t})]

\* The rows that rollback_tx has of t, ORDER BY id DESC, are undone and deleted.
rollbackTransaction(s, t) ==
    LET n == Len(s.undo)
        data[k \in 0..n] ==
          IF k = 0 THEN s.data
          ELSE LET r == s.undo[n+1-k]
               IN  IF r.tx = t THEN UndoRow(data[k-1], r) ELSE data[k-1]
    IN  [data |-> data[n],
         undo |-> Only(s.undo, {r \in ToSet(s.undo) : r.tx # t})]

\* The transactions of a block, the last first.
rollbackBlock(s, txs) ==
    LET after[k \in 0..Len(txs)] ==
          IF k = 0 THEN s ELSE rollbackTransaction(after[k-1], txs[Len(txs)+1-k])
    IN  after[Len(txs)]

\* The pool keeps no row of a played transaction, so MarkTransactionUnusedAndUnverified
\* changes only the row of a transaction that came back since.
RollbackBlock(d) ==
    LET id == MaxBlockID(d)
        txs == d.chain[id].blk.txs
        gone == ToSet(txs)
        prev == HeaderOf(d.chain[id - 1])
        s == rollbackBlock([data |-> d.data, undo |-> d.undo], txs)
    IN  [d EXCEPT !.verified = @ \ gone,
                  !.log = [t \in Tx |-> IF t \in gone THEN 0 ELSE @[t]],
                  !.status = [t \in Tx |-> IF t \in gone THEN 0 ELSE @[t]],
                  !.queue = @ \ gone,
                  !.data = s.data,
                  !.undo = s.undo,
                  !.chain = [i \in DOMAIN @ \ {id} |-> @[i]],
                  !.info = prev]
=============================================================================
