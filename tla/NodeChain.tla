------------------------------ MODULE NodeChain ------------------------------
(***************************************************************************)
(* The blockchain of one honor node: the daemons that hold DBLock          *)
(* (BlockGenerator, BlocksCollection, QueueParserBlocks, QueueParserTx),   *)
(* the download and replacement of blocks they share (UpdateChain,         *)
(* ReplaceBlocksFromHost), the TCP handler that stores announced blocks    *)
(* and transactions without the lock (Type1), and crashes.                 *)
(*                                                                         *)
(* The other honor nodes are hosts: each holds a chain it built with the   *)
(* same code, generates in its own slots, and may move to a longer chain.  *)
(* A step of the node is one committed database transaction or one answer  *)
(* of a host; whatever a daemon keeps between them is in sync and coll.    *)
(***************************************************************************)
EXTENDS ChainDB, FiniteSets

CONSTANTS
    Daemons,          \* the daemons this node has started
    Hosts,            \* the node positions of the other honor nodes
    NodeCount,        \* honor nodes; this node has position 0
    RbBlocks1,        \* system parameter rb_blocks_1: longest replacement
    BlocksPerRequest, \* blocks in one answer of a host
    MaxTxCount,       \* system parameter max_tx_block
    TxOrder,          \* the transactions by expedite DESC, time ASC; none has a high_rate
    Skew,             \* slots the clock of a host may be ahead of ours
    MaxSlot,          \* bound on time
    MaxCrashes        \* bound on crashes

Self == 0
None == "none"

ASSUME NodeAssumption ==
    /\ Daemons \subseteq {"BlockGenerator", "BlocksCollection", "QueueParserBlocks", "QueueParserTx"}
    /\ Hosts \subseteq 1..NodeCount-1
    /\ NodeCount \in Nat \ {0} /\ RbBlocks1 \in Nat /\ BlocksPerRequest \in Nat \ {0}
    /\ MaxTxCount \in Nat \ {0, 1} /\ Skew \in Nat /\ MaxSlot \in Nat \ {0} /\ MaxCrashes \in Nat
    /\ TxOrder \in Seq(Tx)

VARIABLES
    db,       \* this node's database (module ChainDB)
    msgs,     \* updBlockMsg of package model: lost in a crash
    holder,   \* the daemon that holds DBLock
    coll,     \* BlocksCollection before the lock: the host and height it read
    sync,     \* the locals of UpdateChain and ReplaceBlocksFromHost
    blocksQ,  \* queue_blocks: rows [id, host]
    wanted,   \* transactions Type1 found unknown and has asked the sender for
    remote,   \* the databases of the hosts
    now,      \* the current slot
    crashes   \* crashes so far

vars == <<db, msgs, holder, coll, sync, blocksQ, wanted, remote, now, crashes>>

Idle == [at |-> "idle", host |-> Self, next |-> 0, max |-> 0, raw |-> <<>>,
         from |-> 0, count |-> 0, blocks |-> <<>>]
NotLooking == [found |-> FALSE, host |-> Self, max |-> 0]

Height(d) == MaxBlockID(d)

Init ==
    /\ db = GenesisDB
    /\ msgs = {}
    /\ holder = None
    /\ coll = NotLooking
    /\ sync = Idle
    /\ blocksQ = {}
    /\ wanted = {}
    /\ remote = [h \in Hosts |-> GenesisDB]
    /\ now = 1
    /\ crashes = 0

-----------------------------------------------------------------------------
(* Block generation.                                                         *)

TimeToGenerate(slot, pos) == slot % NodeCount = pos

\* The block a node with database d signs at a slot over its info_block.
NewBlock(d, slot, pos, txs) ==
    [id |-> d.info.id + 1, time |-> slot, pos |-> pos, txs |-> txs,
     prev |-> d.info.hash, prevRb |-> d.info.rb]

Before(t, u) == \E i, j \in DOMAIN TxOrder : i < j /\ TxOrder[i] = t /\ TxOrder[j] = u

\* At most max_tx_block of the transactions waiting, by priority.
Batch(waiting) == {t \in waiting : Cardinality({u \in waiting : Before(u, t)}) < MaxTxCount}

\* GetAllUnusedTransactions.
UnusedTransactions(d) == Only(TxOrder, Batch(d.pool))

\* processTransactions: its limit on the transactions of a block drops the last of
\* max_tx_block.
ProcessTransactions(d) ==
    LET trs == UnusedTransactions(d)
    IN  SubSeq(trs, 1, IF Len(trs) < MaxTxCount THEN Len(trs) ELSE MaxTxCount - 1)

\* BlockGenerator, under DBLock: InsertBlockWOForks checks the block it has just
\* marshalled and plays it; the time limit may stop the play after any number of
\* transactions.
BlockGenerator ==
    /\ "BlockGenerator" \in Daemons
    /\ holder = None
    /\ ~ BlockForTimeExists(db, now, Self)
    /\ TimeToGenerate(now, Self)
    /\ LET txs == ProcessTransactions(db)
           blk == NewBlock(db, now, Self, txs)
       IN  /\ txs # <<>>
           /\ Check(db, blk, HeaderOf(db.chain[blk.id - 1]), now) = "ok"
           /\ \E cut \in 0..Len(txs) :
                LET r == PlaySafe(db, msgs, blk, TRUE, cut)
                IN  /\ db' = r.db
                    /\ msgs' = r.msgs
    /\ UNCHANGED <<holder, coll, sync, blocksQ, wanted, remote, now, crashes>>

-----------------------------------------------------------------------------
(* Transactions and blocks announced by other nodes (Type1, without DBLock). *)

\* getUnknownTransactions: the answer asks for a transaction that is in no table.
AskTransaction(t) ==
    /\ db.log[t] = 0 /\ t \notin db.pool /\ t \notin db.queue
    /\ t \notin wanted
    /\ wanted' = wanted \cup {t}
    /\ UNCHANGED <<db, msgs, holder, coll, sync, blocksQ, remote, now, crashes>>

\* saveNewTransactions: the bodies arrive; the tables are not looked at again.
SaveTransaction(t) ==
    /\ t \in wanted
    /\ wanted' = wanted \ {t}
    /\ db' = [db EXCEPT !.queue = @ \cup {t}]
    /\ UNCHANGED <<msgs, holder, coll, sync, blocksQ, remote, now, crashes>>

\* processBlock: host h announces its last block.
AnnounceBlock(h) ==
    LET row == [id |-> Height(remote[h]), host |-> h]
    IN  /\ "QueueParserBlocks" \in Daemons
        /\ row \notin blocksQ
        /\ row.id > 1 /\ row.id >= db.info.id
        /\ blocksQ' = blocksQ \cup {row}
        /\ UNCHANGED <<db, msgs, holder, coll, sync, wanted, remote, now, crashes>>

\* QueueParserTx: the first transaction of the batch that is out of its time is marked
\* bad and the batch is abandoned; otherwise all of it is verified and leaves the queue.
QueueParserTx ==
    LET batch == Batch(db.queue \cup (db.pool \ db.verified))
        late == {t \in batch : ~ CheckTime(t, now)}
    IN  /\ "QueueParserTx" \in Daemons
        /\ holder = None
        /\ batch # {}
        /\ IF late # {}
           THEN \E t \in late : /\ \A u \in late : ~ Before(u, t)
                               /\ db' = MarkTransactionsBad(db, {t})
           ELSE db' = [db EXCEPT !.pool = @ \cup batch,
                                 !.verified = @ \cup (batch \ db.pool),
                                 !.queue = @ \ batch]
        /\ UNCHANGED <<msgs, holder, coll, sync, blocksQ, wanted, remote, now, crashes>>

-----------------------------------------------------------------------------
(* Downloading blocks.                                                       *)

\* Mutant: the download starts one block too high.
StartUpdateTooHigh(daemon, host, max) ==
    /\ holder' = daemon
    /\ sync' = [Idle EXCEPT !.at = "fetch", !.host = host, !.next = db.info.id + 2, !.max = max]

StartUpdate(daemon, host, max) ==
    /\ holder' = daemon
    /\ sync' = [Idle EXCEPT !.at = "fetch", !.host = host, !.next = db.info.id + 1, !.max = max]

\* Mutant: a return that skips DBUnlock.
EndUpdateLocked ==
    /\ holder' = holder
    /\ sync' = Idle

\* UpdateChain returns and the daemon unlocks.
EndUpdate ==
    /\ holder' = None
    /\ sync' = Idle

\* blocksCollection up to DBLock: the best of the hosts that answer is ahead of us.
LookForMaxBlock ==
    /\ "BlocksCollection" \in Daemons
    /\ ~ coll.found /\ holder # "BlocksCollection"
    /\ \E answering \in SUBSET Hosts, h \in Hosts :
         /\ h \in answering
         /\ \A g \in answering : Height(remote[g]) <= Height(remote[h])
         /\ db.info.id < Height(remote[h])
         /\ coll' = [found |-> TRUE, host |-> h, max |-> Height(remote[h])]
    /\ UNCHANGED <<db, msgs, holder, sync, blocksQ, wanted, remote, now, crashes>>

BlocksCollection ==
    /\ coll.found
    /\ holder = None
    /\ coll' = NotLooking
    /\ StartUpdate("BlocksCollection", coll.host, coll.max)
    /\ UNCHANGED <<db, msgs, blocksQ, wanted, remote, now, crashes>>

QueueParserBlocks ==
    /\ "QueueParserBlocks" \in Daemons
    /\ holder = None
    /\ \E q \in blocksQ :
         IF q.id > db.info.id + RbBlocks1 \/ q.id <= db.info.id
         THEN /\ blocksQ' = {r \in blocksQ : r.id > q.id}
              /\ UNCHANGED <<holder, sync>>
         ELSE /\ StartUpdate("QueueParserBlocks", q.host, q.id)
              /\ UNCHANGED blocksQ
    /\ UNCHANGED <<db, msgs, coll, wanted, remote, now, crashes>>

\* The blocks a host sends from an id on: upwards, or downwards for a replacement.
BlocksUp(d, id) ==
    LET n == Height(d) - id + 1
    IN  [i \in 1..(IF n < BlocksPerRequest THEN n ELSE BlocksPerRequest) |-> d.chain[id + i - 1].blk]

BlocksDown(d, id) ==
    LET top == IF id < Height(d) THEN id ELSE Height(d)
    IN  [i \in 1..(IF top < BlocksPerRequest THEN top ELSE BlocksPerRequest) |-> d.chain[top - i + 1].blk]

\* The next request.  The connection may break: what has arrived is used.
FetchBlocks ==
    /\ sync.at = "fetch"
    /\ LET sent == BlocksUp(remote[sync.host], sync.next)
       IN  \/ /\ sync.next <= sync.max
              /\ sent # <<>>
              /\ \E n \in 0..Len(sent) :
                   sync' = [sync EXCEPT !.at = IF n = 0 THEN "fetch" ELSE "play",
                                        !.raw = SubSeq(sent, 1, n),
                                        !.next = @ + BlocksPerRequest]
              /\ UNCHANGED holder
           \/ EndUpdate   \* up to max, or the host does not answer or has no such block
    /\ UNCHANGED <<db, msgs, coll, blocksQ, wanted, remote, now, crashes>>

\* playRawBlock: a block that passes Check is played; for one that does not, the
\* blocks before it are replaced.  A block over a known one that is not the last would be
\* skipped; none arrives, for next is always beyond the chain.
PlayRawBlock ==
    /\ sync.at = "play"
    /\ LET blk == Head(sync.raw)
           known == blk.id - 1 \in DOMAIN db.chain
           outcome == Check(db, blk, HeaderOf(db.chain[blk.id - 1]), now)
           r == PlaySafe(db, msgs, blk, FALSE, Len(blk.txs))
           rest == [sync EXCEPT !.raw = Tail(@), !.at = IF Len(sync.raw) = 1 THEN "fetch" ELSE "play"]
       IN  \/ /\ ~ known
              /\ EndUpdate
              /\ UNCHANGED <<db, msgs>>
           \/ /\ known /\ db.info.id = blk.id - 1 /\ outcome = "ok"
              /\ db' = r.db
              /\ msgs' = r.msgs
              /\ IF r.ok THEN sync' = rest /\ UNCHANGED holder ELSE EndUpdate
           \/ /\ known /\ db.info.id = blk.id - 1 /\ outcome # "ok"
              /\ sync' = [sync EXCEPT !.at = "getblocks", !.from = blk.id - 1,
                                      !.count = IF outcome = "rollback hash" THEN 2 ELSE 1]
              /\ UNCHANGED <<db, msgs, holder>>
    /\ UNCHANGED <<coll, blocksQ, wanted, remote, now, crashes>>

-----------------------------------------------------------------------------
(* ReplaceBlocksFromHost.                                                    *)

\* Mutant: rb_blocks_1 does not limit a replacement.
KeptAll(sent) == sent

\* getBlocks keeps the blocks down to the first whose signature fits our row of its
\* predecessor, once it has count of them; at most rb_blocks_1.
Kept(sent) ==
    LET fits(i) == /\ sent[i].id > 1
                   /\ SignOK(sent[i], HeaderOf(db.chain[sent[i].id - 1]))
                   /\ i >= sync.count
        most == IF Len(sent) < RbBlocks1 THEN Len(sent) ELSE RbBlocks1
        last == CHOOSE i \in 0..most : /\ i < most => i > 0 /\ fits(i)
                                       /\ \A j \in 1..i-1 : ~ fits(j)
    IN  SubSeq(sent, 1, last)

\* getBlocks, and the statement that marks the pool unverified.
GetBlocks ==
    /\ sync.at = "getblocks"
    /\ LET sent == BlocksDown(remote[sync.host], sync.from)
       IN  \/ /\ sent[1].id = sync.from
              /\ \E n \in 0..Len(sent) :
                   LET kept == IF sync.from < 2 THEN <<>> ELSE Kept(SubSeq(sent, 1, n))
                   IN  sync' = [sync EXCEPT !.at = "rollback",
                                            !.from = IF kept = <<>> THEN @ ELSE kept[Len(kept)].id,
                                            !.blocks = Reverse(kept)]
              /\ db' = [db EXCEPT !.verified = {}]
              /\ UNCHANGED holder
           \/ /\ EndUpdate   \* no answer, or the host no longer has block from
              /\ UNCHANGED db
    /\ UNCHANGED <<msgs, coll, blocksQ, wanted, remote, now, crashes>>

\* One of our blocks leaves, in a database transaction of its own; the first block
\* cannot, because it has no predecessor to make the last block.
RollbackOurBlock ==
    /\ sync.at = "rollback"
    /\ Height(db) >= sync.from
    /\ IF Height(db) = 1
       THEN EndUpdate /\ UNCHANGED db
       ELSE db' = RollbackBlock(db) /\ UNCHANGED <<holder, sync>>
    /\ UNCHANGED <<msgs, coll, blocksQ, wanted, remote, now, crashes>>

\* processBlocks; UpdateChain returns the error of the block that started it.
PlayNewBlocks ==
    /\ sync.at = "rollback"
    /\ Height(db) < sync.from
    /\ LET r == ProcessBlocks(db, msgs, sync.blocks, now)
       IN  /\ db' = r.db
           /\ msgs' = r.msgs
    /\ EndUpdate
    /\ UNCHANGED <<coll, blocksQ, wanted, remote, now, crashes>>

-----------------------------------------------------------------------------
(* Crashes, time and the hosts.                                              *)

\* The process dies, or a daemon panics, which ends it too; it starts again at once.
Crash ==
    /\ crashes < MaxCrashes
    /\ crashes' = crashes + 1
    /\ msgs' = {}
    /\ holder' = None
    /\ coll' = NotLooking
    /\ sync' = Idle
    /\ wanted' = {}
    /\ UNCHANGED <<db, blocksQ, remote, now>>

Tick ==
    /\ now < MaxSlot
    /\ now' = now + 1
    /\ UNCHANGED <<db, msgs, holder, coll, sync, blocksQ, wanted, remote, crashes>>

\* Host h generates a block of transactions its chain does not have.
RemoteGenerates(h) ==
    LET d == remote[h]
    IN  /\ \E slot \in now..now + Skew, t \in Tx \ (LoggedIn(d) \cup Rejected) :
             /\ slot <= MaxSlot
             /\ TimeToGenerate(slot, h)
             /\ CheckTime(t, slot)
             /\ ~ BlockForTimeExists(d, slot, h)
             /\ remote' = [remote EXCEPT
                  ![h] = PlaySafe(d, {}, NewBlock(d, slot, h, <<t>>), FALSE, 1).db]
        /\ UNCHANGED <<db, msgs, holder, coll, sync, blocksQ, wanted, now, crashes>>

\* Host h moves to the longer chain of another node.
RemoteFollows(h) ==
    /\ \E d \in {db} \cup {remote[g] : g \in Hosts} :
         /\ Height(d) > Height(remote[h])
         /\ remote' = [remote EXCEPT ![h] = [GenesisDB EXCEPT !.chain = d.chain, !.info = d.info,
                         !.log = d.log, !.undo = d.undo, !.data = d.data]]
    /\ UNCHANGED <<db, msgs, holder, coll, sync, blocksQ, wanted, now, crashes>>

Sync == FetchBlocks \/ PlayRawBlock \/ GetBlocks \/ RollbackOurBlock \/ PlayNewBlocks

Environment ==
    \/ \E t \in Tx : AskTransaction(t) \/ SaveTransaction(t)
    \/ \E h \in Hosts : AnnounceBlock(h) \/ RemoteGenerates(h) \/ RemoteFollows(h)
    \/ Tick
    \/ Crash

Next ==
    \/ BlockGenerator \/ QueueParserTx \/ LookForMaxBlock \/ BlocksCollection \/ QueueParserBlocks
    \/ Sync
    \/ Environment

Spec == Init /\ [][Next]_vars

\* The daemon BlocksCollection is one goroutine that is run again and again and the lock
\* is handed on, so whenever it can take a step it takes one in the end.  A host may fail
\* to answer in full, but not every time it is asked.
FetchAnswered ==
    /\ FetchBlocks
    /\ sync'.at = "play" /\ sync'.raw = BlocksUp(remote[sync.host], sync.next)
GetBlocksAnswered ==
    /\ GetBlocks
    /\ sync'.at = "rollback"
    /\ sync'.blocks = Reverse(IF sync.from < 2 THEN <<>>
                               ELSE Kept(BlocksDown(remote[sync.host], sync.from)))

Fairness ==
    /\ WF_vars(LookForMaxBlock \/ BlocksCollection \/ Sync)
    /\ SF_vars(FetchAnswered)
    /\ SF_vars(GetBlocksAnswered)

FairSpec == Spec /\ Fairness

-----------------------------------------------------------------------------
(* Properties.                                                               *)

\* The tables of a database whose rows are plain values.
Tables(d) ==
    /\ DOMAIN d = {"chain", "info", "log", "status", "pool", "verified", "queue", "undo", "data"}
    /\ d.pool \subseteq Tx /\ d.verified \subseteq d.pool /\ d.queue \subseteq Tx
    /\ d.log \in [Tx -> Nat] /\ d.status \in [Tx -> Nat]

\* Every variable keeps its type; in particular the lock is held exactly while an update
\* of the chain is in progress.
TypeOK ==
    /\ Tables(db)
    /\ msgs \subseteq Tx /\ wanted \subseteq Tx
    /\ holder \in Daemons \cup {None}
    /\ holder = None <=> sync.at = "idle"
    /\ sync.at \in {"idle", "fetch", "play", "getblocks", "rollback"}
    /\ sync.at # "idle" => sync.host \in Hosts
    /\ coll.found \in BOOLEAN
    /\ coll.found => coll.host \in Hosts /\ "BlocksCollection" \in Daemons
    /\ \A q \in blocksQ : q.host \in Hosts /\ q.id \in Nat
    /\ now \in 1..MaxSlot /\ crashes \in 0..MaxCrashes

\* info_block is the header of the last row of block_chain and the ids have no gap, in
\* every committed state: also between the steps of a replacement, and after a crash.
InfoIsLastBlock ==
    /\ DOMAIN db.chain = 1..db.info.id
    /\ db.info = HeaderOf(db.chain[db.info.id])

\* Every block of block_chain was signed over the row before it, its rollbacks hash included.
ChainLinked ==
    \A i \in DOMAIN db.chain \ {1} :
        db.chain[i].blk.id = i /\ SignOK(db.chain[i].blk, HeaderOf(db.chain[i-1]))

\* log_transactions lists the transactions of the chain with their blocks, so that
\* no transaction is in two blocks: whatever the pool, a replacement or a transaction
\* that arrives a second time makes of it.
LogIsChain ==
    \A t \in Tx :
        /\ \A i \in DOMAIN db.chain : t \in ToSet(db.chain[i].blk.txs) <=> db.log[t] = i
        /\ db.log[t] \in DOMAIN db.chain \cup {0}

\* No transaction was executed in a slot outside its time.
TxInTime ==
    \A i \in DOMAIN db.chain : \A t \in ToSet(db.chain[i].blk.txs) : CheckTime(t, db.chain[i].blk.time)

\* A node position has at most one block in a slot of the chain.
OneBlockForTime ==
    \A i, j \in DOMAIN db.chain \ {1} :
        /\ db.chain[i].blk.time = db.chain[j].blk.time
        /\ db.chain[i].blk.pos = db.chain[j].blk.pos
        => i = j

\* A replacement takes at most rb_blocks_1 of our blocks off the chain; one if
\* the host sent none to replace it with.
ReplacementBounded ==
    sync.at = "rollback" =>
        db.info.id >= Head(sync.raw).id - 1 - (IF sync.blocks = <<>> THEN 1 ELSE RbBlocks1)

\* A replacement that got blocks from the host down to our common ancestor leaves them
\* in the chain ("Number (replaceCount) of blocks starting from blockID will be re-played").
ForkedBlocksReplayed ==
    [][ PlayNewBlocks /\ sync.blocks # <<>>
          /\ SignOK(sync.blocks[1], HeaderOf(db.chain[sync.blocks[1].id - 1]))
        => db'.info.hash = HashOf(sync.blocks[Len(sync.blocks)]) ]_vars

\* Once no transaction waits for this node's generator, the node reaches the height of
\* every host for good, whatever forks, failed replacements and crashes were on the way.
CatchesUp ==
    <>[](db.pool = {}) => <>[](\A h \in Hosts : Height(db) >= Height(remote[h]))

\* The inductive invariant behind TypeOK, InfoIsLastBlock, ChainLinked, LogIsChain, TxInTime,
\* OneBlockForTime and ReplacementBounded (module NodeChain_proofs).  It is about the databases of all
\* nodes, for the blocks of a host become ours, and about the blocks that are on their way
\* between two of them.
ChainOK(d) ==
    /\ d.info.id \in Nat \ {0}
    /\ DOMAIN d.chain = 1..d.info.id
    /\ d.info = HeaderOf(d.chain[d.info.id])
    /\ \A i \in DOMAIN d.chain : d.chain[i].blk.id = i /\ d.chain[i].rb # NoHash
    /\ \A i \in DOMAIN d.chain \ {1} : SignOK(d.chain[i].blk, HeaderOf(d.chain[i-1]))
    /\ \A i, j \in DOMAIN d.chain \ {1} :
         /\ d.chain[i].blk.time = d.chain[j].blk.time
         /\ d.chain[i].blk.pos = d.chain[j].blk.pos
         => i = j

\* The same for LogIsChain and TxInTime.
LogOK(d) ==
    /\ \A i \in DOMAIN d.chain : d.chain[i].blk.txs \in Seq(Tx)
    /\ \A i \in DOMAIN d.chain : \A t \in ToSet(d.chain[i].blk.txs) :
         CheckTime(t, d.chain[i].blk.time)
    /\ \A t \in Tx : \A i \in DOMAIN d.chain :
         t \in ToSet(d.chain[i].blk.txs) <=> d.log[t] = i
    /\ \A t \in Tx : d.log[t] \in DOMAIN d.chain \cup {0}

\* Received blocks: a sequence, each signed over some rollbacks hash.
Received(blocks) ==
    /\ blocks \in Seq(ToSet(blocks))
    /\ \A i \in DOMAIN blocks : blocks[i].txs \in Seq(Tx)
    /\ \A i \in DOMAIN blocks : blocks[i].id \in Nat /\ (blocks[i].id > 1 => blocks[i].prevRb # NoHash)

SyncOK ==
    /\ DOMAIN sync = {"at", "host", "next", "max", "raw", "from", "count", "blocks"}
    /\ sync.at \in {"fetch", "play"} => sync.next \in Nat \ {0, 1}
    /\ sync.at = "play" => /\ Received(sync.raw) /\ sync.raw # <<>>
                           /\ \A i \in DOMAIN sync.raw : sync.raw[i].id > 1
    /\ sync.at = "getblocks" => sync.from = db.info.id /\ Head(sync.raw).id = sync.from + 1
    /\ sync.at = "rollback" =>
         /\ sync.from \in Nat \ {0} /\ db.info.id >= sync.from - 1
         /\ Received(sync.blocks)
         /\ \A i \in DOMAIN sync.blocks : sync.blocks[i].id = sync.from + i - 1
         /\ Head(sync.raw).id \in Int
         /\ Head(sync.raw).id <= sync.from + (IF sync.blocks = <<>> THEN 1 ELSE RbBlocks1)

IInv ==
    /\ TypeOK
    /\ ChainOK(db) /\ LogOK(db)
    /\ DOMAIN remote = Hosts
    /\ \A h \in Hosts : Tables(remote[h]) /\ ChainOK(remote[h]) /\ LogOK(remote[h])
    /\ SyncOK

\* The database refines the ledger: its committed states.  The contract tables and
\* rollback_tx are what playing the blocks of the chain on the first block gives, however
\* many blocks were played and rolled back on the way.
DataAndUndo(s) == [data |-> s.data, undo |-> s.undo]
L == INSTANCE Ledger WITH
        First <- Genesis,
        Linked <- LAMBDA b, c : c.prev = HashOf(b) /\ c.id = b.id + 1,
        TxsIn <- LAMBDA b : ToSet(b.txs),
        Slot <- LAMBDA b : <<b.time, b.pos>>,
        DataOf <- LAMBDA l : DataAndUndo(Execute(GenesisDB, Tail(l))),
        ledger <- [i \in 1..db.info.id |-> db.chain[i].blk],
        data <- DataAndUndo(db)
RefinesLedger == L!Spec
=============================================================================
