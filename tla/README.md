# go-ibax in TLA+

This directory models the block chain of go-ibax (`src/packages`, Go), the way of a
transaction through a node, the playing of contracts and the off-chain data exchange (VDE)
in TLA+, model-checks them with TLC and proves main invariants with TLAPS.  It is meant
to be kept beside the code: every definition that stands for code is mapped to
its lines in `PROJECT.json`.

## The system

A network of *honor nodes* keeps one chain of blocks in each node's SQL database.
The honor nodes generate blocks in turn: time since the first block is cut into
slots, and each slot belongs to one node position.  There is no vote.  A node that
sees a higher chain downloads the blocks it lacks; where they do not fit on its
own last block it rolls a few of its blocks back and plays the other node's.
Contracts write rows of the contract tables; each write leaves the value it
overwrote in `rollback_tx`, and the hash of these rows (the *rollbacks hash*) is part
of what the next block is signed over.

Everything runs as goroutines of one process.  A mode of the node
(`modes/daemons.go`) is a list of daemons; `daemonLoop` (`daemons/common.go:104`) runs
each in a goroutine of its own, again and again on a timer.  Daemons that change the
chain hold the process-wide mutex DBLock (`daemons/locking.go`); the TCP handlers do not.

The source tree has gaps: in a number of files some lines are missing (for instance
the head of `readPreviousBlockFromBlockchainTable` in `block/block.go`, of
`GetRollbacksHash` in `block/db.go`, the middle of `RollbackBlock`, part of
`BlockForTimeExists` in `protocols/generation-queue.go`, and the read of the queued
block in `queue_parser_blocks.go`, the move of the mark at the end of `vde_dest_hash_fromchain.go`,
which is taken to be that of `vde_dest_task_fromchain.go:278`; `IsNodePaused`, `NodePauseType`, `PauseNodeActivity` and
`ErrNetworkStopping` are used and defined nowhere; `BCDaemonLoader.Load` lacks the start of the
daemons, of the TCP server and of the relevance service, which `SNDaemonLoader.Load` still has,
`modes/mode_fabrics.go:162`).  There the models follow the lines that are left and the
callers.

### Components

| component | state | operations | interacts with | what makes it correct |
|---|---|---|---|---|
| chain database (`block`, `rollback`, `model`, `transaction/db.go`) | block_chain, info_block, log_transactions, transactions, queue_tx, transactions_status, rollback_tx, contract tables, updBlockMsg | Check, Play, PlaySafe, InsertIntoBlockchain, processBlocks, RollbackBlock, MarkTransactionBad | every daemon, by calls | the chain is linked and complete, info_block is its last block, the log lists its transactions once, the data is its replay |
| chain daemons (`daemons`) | DBLock, locals of UpdateChain and ReplaceBlocksFromHost, queue_blocks | BlockGenerator, BlocksCollection, QueueParserBlocks, QueueParserTx | tcpclient and tcpserver of other nodes | updates exclude each other, replacements are bounded, the node catches up |
| generation queue (`protocols`) | none but system parameters and block_chain | queue, TimeToGenerate, RangeByTime, BlockForTimeExists | generator, Check | one node per slot, one block per node and slot |
| node pause and relevance (`service/node_paused.go`, `node_relevance.go`, `node_actualization.go`) | the pause flag and its type, an unbuffered channel | Set, Unset, checkNodeRelevance, NodeDoneUpdatingBlockchain | BlocksCollection under DBLock, generator, stop-network transactions | a pause ends when its reason does, nobody waits for ever |
| transaction admission (`model/send_tx.go`, `daemons/block_generator_tx.go`, `transaction`) | queue_tx, transactions, transactions_status, transaction cache | SendTx, CreateTransaction, verification, delayed contracts | API, Type1, generator | every accepted transaction is played or reported bad |
| block limits (`block/limits.go`) | counters of one block | six limiters in the modes letPreprocess, letGenBlock, letParsing | Play, processTransactions | what a generator packs, a parser accepts |
| bans (`service/node_ban.go`, `block/ban.go`) | local ban list, per-key counters | localBan, FilterBannedHosts, newBadBlock | downloads, Play | a ban ends, and honest nodes are not banned |
| confirmations (`daemons/confirmations.go`, Type4) | the table confirmations | confirmationsBlocks, IsReachable | hosts | counts are of different hosts; the daemon returns |
| disseminator (`daemons/disseminator.go`, Type1) | the sent column | sendTransactions, sendBlockWithTxHashes | hosts | an announced transaction reaches the honor nodes |
| block stream (`tcpclient/blocks_collection.go`, pools) | pooled buffers, channels | GetBlocksBodies | UpdateChain, getBlocks | a buffer has one user, order is kept |
| stop network (`transaction/custom/stop_network.go`) | the pause flag | the stop transaction | relevance, generator | a stopped network stays stopped |
| contracts (`smart`, `script`) | contract VM objects and their savepoint | CallContract, Savepoint/Rollback/ReleaseSmartVMObjects | Play | deterministic, bounded cost, VM objects follow the chain |
| system parameters (`conf/syspar`) | cache of system_parameters and honor nodes | SysUpdate and getters | all | the cache follows the chain |
| scheduler, notificator, obsmanager | tasks, queues, child processes | update, send, start, stop | timers | no task lost or doubled |
| VDE and sub-node daemons (about 40 files) | rows of task and data tables with a state column | poll, send, set the next state | hosts, the API of a chain | a datum moves through its states once |
| API, storage, template, script text, crypto, converter, migrations, support | | | | not about concurrency; see `PROJECT.json` for each |

### What is hard here

The full list, with its lines, is `hazards` in `PROJECT.json`.  The ones the present
models are built around:

* a replacement of blocks is many database transactions: rollbacks commit one by one,
  *before* the host's blocks are checked, and the process may end between any two;
* what BlocksCollection read of the network and of its own height is older than its lock;
* blocks are downloaded from several nodes on different forks, the download may be
  cut off, and the host may change its chain between the two requests of an update;
* a transaction may come back when it is already in the chain, fail, expire between its
  verification and its block, or be lost in a rollback;
* the rows of `rollback_tx` must be undone in exactly the reverse order, or the contract
  tables and the next rollbacks hash are wrong on this node only;
* slots need not be whole seconds, while clocks and blocks count seconds, and a block
  may change the length of the slots that earlier blocks were generated in;
* the pause flag is looked at before the wait for DBLock and used after it, it is set for
  two reasons and cleared without looking at the reason, and the end of an update hands
  a token over an unbuffered channel with DBLock held;
* a transaction has rows in four tables which API, TCP handlers, queue parser, generator, a
  goroutine of the generator and the playing of a block write one by one, some of
  them without DBLock;
* a contract changes the database, which savepoints undo, and the process's virtual machine
  and parameter cache, which the code undoes itself, by another list and at other times;
* the VDE daemons have nothing in common but the state columns of their tables: each reads a
  row, waits for another node or for the chain, and writes the whole row back.

## Modules

| module | what it is | code |
|---|---|---|
| `ChainDB` | the database of a node and the procedures that change it within one database transaction, as operators from a database to a database | `block/block.go`, `block/db.go`, `rollback/`, `model/`, `transaction/db.go`, `processBlocks` |
| `NodeChain` | the daemons of one node over `ChainDB`, the Type1 handler, crashes, the other nodes; the properties and the inductive invariant | `daemons/`, `network/tcpserver/disseminator.go`, `transaction/process.go` |
| `Ledger` | the abstract specification: a ledger that grows by linked blocks with their effects and shrinks by its last block with its effects | |
| `BlockTime` | the generation queue in seconds and milliseconds | `protocols/generation-queue.go` |
| `NodeService` | the pause flag with those who set, clear and read it: generator, updates, relevance goroutine, stop-network transaction | `service/`, the guards of `daemons/`, `network/tcpserver/type3.go`, `transaction/custom/stop_network.go` |
| `TxPool` | the rows of a transaction from the client to a block, a refusal or a rollback, and the collection of a block | `model/send_tx.go`, `transaction/process.go`, `transaction/db.go`, `daemons/block_generator*.go`, `block/limits.go`, `network/tcpserver/disseminator.go` |
| `TxPlay` | the playing of a block's contracts on generating and following nodes: database, virtual machine, parameter cache, payment, rollback entries | `block/block.go`, `smart/`, `script/`, `rollback/`, `conf/syspar` |
| `VDETask` | a share task among the VDE nodes: installed, shared over the chain, authorised, run | `daemons/vde_*task*.go` |
| `VDEData` | the data of a task: split, sent directly or by an agent, hashed on the chain, judged | `daemons/vde_*data*.go`, `vde_*hash*.go`, `network/tcpserver/vde*.go` |
| `Selection` | the elements of a list that are in a set, in the order of the list, as a recursive function the provers can reason about; used by `ChainDB` and `TxPool` | the loops that skip or drop transactions |
| `NodeChain_proofs`, `BlockTime_proofs`, `NodeService_proofs`, `TxPool_proofs`, `TxPlay_proofs`, `TxPlayAgreement_proofs`, `VDETask_proofs`, `VDEData_proofs` | theorems; `TxPlayAgreement_proofs` extends `TxPlay_proofs` with what relates two nodes | |
| `MCNodeChain`, `MCBlockTime`, `MCNodeService`, `MCTxPool`, `MCTxPlay`, `MCVDETask`, `MCVDEData` | values of the constants for TLC | |

`ChainDB` and `Ledger` are parts of `NodeChain`; the other modules stand beside it and share
its boundaries: `TxPool` and `TxPlay` see a block as its set or list of transactions and leave
links, signatures and forks to `NodeChain`; `NodeService` sees a chain as its height; the VDE
modules see a block chain as an external service that mines what it is sent, in some order.

### How NodeChain corresponds to the code

A step is one committed database transaction, or one answer of another node: nothing
else in the daemons is visible to anybody.  What a daemon keeps between two steps is
in `sync` (the locals of `UpdateChain` and `ReplaceBlocksFromHost`; one record, because
only the holder of DBLock runs them) and `coll` (what BlocksCollection read before it
asked for the lock).

| action | code |
|---|---|
| `BlockGenerator` | the daemon from DBLock to DBUnlock: guards, processTransactions, MarshallBlock, InsertBlockWOForks = Check and PlaySafe.  The time limit may end the play after any number of transactions (`cut`) |
| `LookForMaxBlock`, `BlocksCollection` | blocksCollection before and at DBLock; any subset of the hosts answers |
| `QueueParserBlocks` | the daemon up to UpdateChain |
| `FetchBlocks`, `PlayRawBlock` | UpdateChain's request and its playRawBlock; the stream may end after any block |
| `GetBlocks`, `RollbackOurBlock`, `PlayNewBlocks` | ReplaceBlocksFromHost: getBlocks with MarkVerifiedAndNotUsedTransactionsUnverified, each RollbackBlock, processBlocks |
| `QueueParserTx` | ProcessTransactionsQueue with the check of the time of each transaction |
| `AskTransaction`, `SaveTransaction`, `AnnounceBlock` | Type1: getUnknownTransactions, saveNewTransactions, processBlock, without the lock |
| `Crash` | the process ends (also by a panic of a daemon) and restarts; memory is lost, the database stays |
| `RemoteGenerates`, `RemoteFollows`, `Tick` | the environment |

Abstractions, each of which keeps the control of the code:

* A hash is the sequence that holds what is hashed: injective, and the empty byte slice
  is `<<>>`.  A signature is valid exactly if the block names the predecessor and the
  rollbacks hash it is verified with.
* A transaction is its hash with the list of rows its contract writes (`Writes`), whether
  the contract fails (`Rejected`) and the slots it may be in (`TxFrom`, `TxUntil`: the
  limits on transaction time relative to block time).  Writes of a row carry
  the transaction and the position of the write, so that any lost, doubled or
  misordered write shows.
* Time is counted in slots.  `BlockTime` has the seconds, and its theorem `RangesAreSlots`
  is why the two agree.
* Another node runs the same code on its own database.  `RemoteGenerates` makes blocks of
  one transaction with the same `PlaySafe`; `RemoteFollows` lets it adopt a longer chain in
  one step, which hides its own intermediate states: it then answers from one chain or
  the other.  Its clock may be `Skew` slots ahead.  A host sends what its chain
  holds; it may fail to answer, or stop in the middle, at any time.
* Pausing is in `NodeService`, stop-network transactions there and in `TxPool`, delayed
  contracts, the order of the rates and the limits of a block in `TxPool` and `TxPlay`.  Banning is left out.

### How BlockTime corresponds to the code

`queue`, `nodePosition`, `RangeByTime` and `GetNodeBlocksAtTime` are the functions of
`protocols/generation-queue.go` and the query of `model/blockchain.go:98` with their
divisions.  `Generate` has the two guards of the generator.  `ChangeDuration` is a block
that updates the system parameters (`UpdateSysParam` of `smart/smart_p.go`).

### How NodeService corresponds to the code

A step is one read or write of what goroutines share, so the state of a goroutine says what
it has read and not yet used.  What is in blocks is left to `NodeChain`: a chain is its
height, and any block or rollback under DBLock that keeps the height possible may happen.

| action | code |
|---|---|
| `StartGenerator`, `LockGenerator` | the guard of BlockGenerator on the pause, and its DBLock |
| `InsertBlock`, `GiveUp` | the block, or any of the returns without one |
| `PauseNodeActivity`, `MarkTransactionBad` | the Action of a stop-network transaction sets the pause and fails the block; PlaySafe then deletes the row |
| `LookForMaxBlock`, `LockCollector`, `UpdateChain`, `NodeDoneUpdatingBlockchain` | blocksCollection; the last one sends the token if the node is paused |
| `UpdatingEndWhilePaused` | the hand-over of the token to the goroutine in its select |
| `ReadInfoBlock`, `GetStopNetwork`, `HostWithMaxBlock` | checkNodeRelevance: the height it compares with is older than the hosts' answer |
| `PauseForUpdate`, `ResumeNodeActivity`, `CheckingInterval`, `RelevanceFails` | what Run does with the outcome, its timer, and its returns on errors |
| `QueueParserBlocks` | the other update, which sends no token |
| `ProcessStopNetwork` | Type3, which stores the transaction |
| `QueueParserTx` | the queue parser meets the row of a stop-network transaction, which has no TxSmart to read the expedite from: the process ends by a panic |
| `Crash`, `Restart`, `Hosts` | the process ends and starts unpaused; hosts grow, fall silent, or are all banned (the node is then alone and relevant); the database and the ban service work or may fail (`services`) |

`late` is a history variable: the blocks generated during the present pause.

### How TxPool corresponds to the code

The variables are the rows of `transactions_status`, `queue_tx`, `transactions` and the
transactions of the blocks; what goroutines keep between two writes is in `sending`, `asking`,
`parser`, `gen`, `marking` and `msgs` (`updBlockMsg`, which is process-wide).  A transaction is a
user's contract, a report of a bad block (which a node writes to its own pool), a
stop-network transaction, or the delayed contract of `DelayBlock`.

| action | code |
|---|---|
| `SendTx`, `SendTxQueue`, `SendTxBatches` | `model.SendTx`, status row and then queue row, and its batch form in one database transaction |
| `Type1`, `GetUnknownTransactions`, `SaveNewTransactions` | the handler of a host's offer: one look-up after the other, then the rows |
| `CreateTransaction` | the node's own transactions, which go to the pool directly |
| `ProcessQueueTransactionBatches`, `DeleteQueueTxs`, `RefuseBatch`, `Panic` | the queue parser: pool rows, then the rows of the queue; a refused transaction abandons its batch; a stop-network row ends the process |
| `BlockGenerator` with `ProcessTransactions`, `CollectOne`, `LimitError` | the delayed contracts, the batch in its order, the limits in the mode letPreprocess, and DBLock |
| `ProcessBadTx` | the goroutine that marks what was refused |
| `PlayNothing`, `PlayStop`, `PlayAgain`, `PlayBlock` | Block.PlaySafe: nothing is left, the network stops, some fail and are marked and the rest is played again, the block is inserted |
| `ReceiveBlock`, `ReceiveBadBlock`, `RollbackBlock`, `Crash` | the block of another node, one that fails on a transaction, which is marked bad while the rest is undone, a rollback, the end of the process |
| `CheckNodeRelevance` | the relevance check: it pauses the node while a stop-network transaction is in the pool and resumes it when none is, whatever paused it |

Only the generator (`block_generator.go:36`) and the server, before it takes an offer of a host
(`tcpserver.go:33`), ask for the pause; updates of the chain go on, and so do their rollbacks.  `Foreign` are the
transactions other nodes put in their blocks.  `PlayStop` pauses the node, and the row it leaves
is deleted, so the next check resumes the node (the finding `StaysStopped`): a stop excuses nothing for
good.  What else the check looks at, the heights of the hosts and readings that have become stale, is
in `NodeService`; here it is one step.  `excused` and `failed` are history variables: the cases the code
itself leaves without an answer.

### How TxPlay corresponds to the code

One block is played at a time (`play`); a step of it is one transaction, with everything
`SmartContract.CallContract` does in it, because Play runs them one after the other with DBLock
held.  A contract is a sequence of calls: it compiles a new contract, edits one, sets the fuel rate,
adds a column to a table, writes a row, calls another contract, or fails.  The generator of a
block leaves transactions out and is cut short by the time limit; a node that plays the block of
another does neither.

| action or operator | code |
|---|---|
| `Generate`, `Receive`, `PlayTx`, `Commit`, `Drop` | Block.Play under PlaySafe or processBlocks: the start, a transaction with its savepoint, the commit, and a block that is given up for a reason of its own |
| `Exec`, `VMRun` | the functions of `smart/funcs.go` and `smart_p.go` in the order of the contract, with the fuel and the time of the run |
| `PrepareMultiPay`, `PayOne`, `PayContract`, `Move` | `smart/gas.go`: who can pay, the fee, the taxes, one token ecosystem after the other |
| `CallContract` | savepoint, run, payment or fine, and what is left of a contract that fails or cannot pay |
| `FlushBlock`, `FlushInfo`, `UndoFlush` | compiled contracts entering the virtual machine and Play taking them out again |
| `CheckLimit`, `FuelLimit` | the limits of `block/limits.go` that are looked at after a transaction was played |
| `Keep`, `TakeBack`, `Skip`, `Stop`, `Reject`, `Leave` | the ends of one turn of Play's loop |
| `RollbackBlock`, `RolledBack`, `RollbackTransaction`, `RollbackEntry` | `rollback/block.go` and `transaction.go` over the entries of `rollback_tx` |
| `Restart` | contracts are compiled and parameters read from the database |

The tokens a transaction is paid in come out of a Go map (`getTokenEcos`, `gas.go:371`), so `Results` takes
them in every order, and the order is not harmless: `prepareMultiPay` declares `pay` outside its loop
(`gas.go:148`), so the fuel for storage and for a new element, which are set for some tokens only, stay
set for those that follow (`StorageFuel`, `NewElementFuel`), and `CallContract` compares each wallet
with the estimates of all tokens so far and of both methods (`smart.go:974`-`995`, in
`PrepareMultiPay`).  Two nodes may therefore take different amounts for a transaction paid in two
tokens, and one may refuse what the other kept.  In the model they do; `AgreesWithChain` and
`ReplayAccepts` speak of blocks whose transactions pay in one token or are free (`OneOrder`, kept in the history
variables `agrees` and in `fair` of a block), while `MemoryTrue`, `MoneyStays`, `FailedOnlyPays` and `JamsOnlyIf` hold
whatever the order.

`agrees` and `stained` are history variables.  A node is *stained* where the code has a gap that is
known and listed below; the properties speak of all other cases, so they say that
there is no gap besides those.

### How VDETask and VDEData correspond to the code

A row of a table is a record of its state columns.  A daemon that works on a row for a while
(installs a contract on another node, collects what the chain has) reads it in one step
(`held`) and writes it back in another, with `Updates`, which is gorm's: every column that
is not zero.  Daemons that post to the chain or ask for the fate of a transaction do so in one
step with the write, or with its failure.  Actions have the names of the daemons; where source
and scheduling node have a daemon each with the same text, the action is written once
(`ChainStatus`, `UpToChain`, `TaskStatus`, `StatusRun` and their `...State`).

The users' update handlers (`VDESrcTaskUpdateHandlre`, `VDEScheTaskUpdateHandlre`,
`VDESrcTaskFromScheUpdateHandlre`) write every column of a form that is not zero, those of the daemons included.
A form may be filled from the row as it was at any time (`Forms`), so an older chain state may replace a newer
one and the run state may be any; what is assumed is that a form does not say of the chain what is
not so (a user may write anything, and with forms that lie nothing can be true of the chain state).
The outcome of a run is written to two tables: either write may fail (`StatusRunState`), the second after
a run that was mined or that was not.

In `VDEData` a stamp is put on a row when it is posted (`now`), the row is seen when it is
mined (`chain`, a sequence per table of the chain), and a destination asks for rows stamped after the last one it has stored
(`mark`), `PageSize` at a time: three different orders.  An answer that is lost is a `Fault` after
the receiver's insert (`SendRow`).

## Runs

| run | bounds | shows |
|---|---|---|
| `NodeForks` | 1 host, 4 transactions, one fails and one expires after slot 2, 5 slots, rb_blocks_1 = 1, 1 crash | `InfoIsLastBlock`, `ChainLinked`, `LogIsChain`, `TxInTime`, `OneBlockForTime`, `ReplacementBounded`; `RefinesLedger`: the node implements `Ledger`, its contract tables and rollback rows are the replay of its chain |
| `NodeTwoHosts` | 2 hosts, all four daemons, 2 transactions, 3 slots, rb_blocks_1 = 1, a host's clock 1 slot ahead | the inductive invariant `IInv`, `TypeOK` included |
| `NodeCatchesUp` | 1 host, 2 transactions, 3 slots, 1 crash; fair | `CatchesUp` |
| `BlockTime` | slots of 1, 1.2, 2.5 and 3 s, 2 nodes, 8 s | `TypeOK`, `RangeIsSlot`, `OneBlockInSlot` |
| `NodeService` | 2 stop-network transactions, heights up to 3, gap 1, failures, 1 restart; fair | `IInv`, `OneBlockPerPause`, `LockReleased`, `PauseBegins`, `PauseEnds` |
| `TxPool` | 2 users, one of them faulty, a report, a stop-network transaction, a delayed one, 2 blocks, 2 faults, one user's contract in others' blocks, pause and resumption; fair | `TypeOK`, `Waits`, `StatusTrue`, `CollectFits`, `Answered` |
| `TxPlay` | 2 nodes, 6 transactions, 2 blocks of 2, 1 fault, restarts | `TypeOK`, `MemoryTrue`, `AgreesWithChain`, `MoneyStays`, `FailedOnlyPays`, `ReplayAccepts`, `JamsOnlyIf` |
| `VDETask` | 1 task of either kind, 2 destinations, one authorised later, 2 runs, 3 copies, 1 form of a user or 1 fault; fair | `TypeOK`, `ChainStateTrue`, `NoRunBeforeShared`, `OnceUnlessFault`, `NeverBack`, `TaskIsShared` |
| `VDEData` | 1 item and one of another source, 1 destination, a task that is bad, or good (directly or by an agent, hashes on the chain or not), pages of 2 rows, 2 stamps, 2 copies, 1 fault; fair | `TypeOK`, `SentIsStored`, `VerifiedByChain`, `InOrderRowArrives`, `DataIsJudged` |
| `ForkedBlocksReplayed`, `StopHolds`, `StaysStopped` | | a statement of the repository the code does not keep (below) |

Why the bounds are enough.  In `NodeChain`, three valid transactions give chains of up to three
blocks over the first one: forks at every depth, a replacement longer than
`rb_blocks_1`, a common ancestor below and above the bound, a wrong rollbacks hash
(count 2) and a wrong hash (count 1), and blocks with two transactions that write the
same row, one of them twice.  Two blocks per answer cut the stream of a chain of three.
`MaxTxCount` = 3 (`NodeCatchesUp`) is the least value for which a block of this node has two
transactions (the generator's limit drops the last one); it is 2 elsewhere.  `MaxSlot` lets each node
generate two or three times.  One crash at any point is enough, because a crash leaves
only the database and every database state is again a state without a crash budget.
The runs stop when time does, so deadlock is not checked in them.

In `NodeService` a gap of 1 and heights up to 3 let the node be behind by more than the gap,
at it and ahead of it, and change between these while a check is under way.  Two stop-network
transactions let one wait while the other is played; one restart shows that a process begins
without a pause while the pool keeps its rows.  `MaxHeight` bounds hosts and blocks; all
else in the module is a finite control state.  A process that has ended for good leaves
nothing to do, so deadlock is not checked there either; `LockReleased` is the property that
says that nobody waits for ever.

In `TxPool` two blocks let a transaction be played, rolled back, and sent again; three places
in a block against five transactions, one of them with a user's limit of one, make every limit
bite; two faults let a resend meet a crash, a rollback or a host's copy.  In `TxPlay` the six
transactions are the smallest that differ: an edit, a new contract with a parameter, one that is
free, one with a column, one in two token ecosystems with fuel for storage and a new element, one that calls another contract; two blocks
of two let a block stand on the one before and its rollback meet the other node's chain, and
one fault (a rollback or a block that is given up) suffices because a restart brings memory
back to what the database says.  In `VDETask` one fault or one form of a user at any point is
enough (`MaxTroubles` counts both; the theorems are for any number), because the daemons share nothing
but rows of one task; the late authorisation is the
only way in which two requests of a task are made at different times.  In `VDEData` two stamps
and three hashes in pages of two rows are the least for which the orders of stamping, mining and
reading differ and a pass can end inside a page.
None of these three can run for ever within its bounds, so deadlock is not checked in them; the
liveness properties say what must happen before.

**Fairness** in `NodeChain` (`FairSpec`, run `NodeCatchesUp`).  BlocksCollection is one goroutine that
daemonLoop runs again after every return, and a Go mutex is not kept from a waiter for
ever (it turns to hand-over after a millisecond), so its next step is weakly fair.  A
host may fail to answer any request but not all of them: an answered request is
strongly fair.  The generator, the hosts and the clock have no fairness.  `CatchesUp`
assumes that the pool of this node is empty from some time on: otherwise its generator may
go on building its own fork.

**Fairness** in `NodeService` (`FairSpec`, run `NodeService`).  A daemon that
holds DBLock gets on with its work: its requests and queries have time limits.  The relevance
goroutine goes on as long as it has not returned; its waits are the ticker and the token.
The token is strongly fair: each time the goroutine is in its select with a sender waiting,
the ticker may be ready too, and select picks one of the ready cases at random.  Nothing is
assumed of the start of a daemon, of the hosts or of the end of the process.  `LockReleased`
makes one exception: when the relevance goroutine has returned (info_block cannot be
read, or the ban service fails) nobody takes the token, and a sender keeps DBLock for as long
as the process runs.  `PauseEnds` assumes that nothing fails any more (`services`): each
failure to read the pool counts as a waiting stop-network transaction.

**Fairness** in `TxPool`.  The daemons run for ever.  The queue parser and the generator
wait for DBLock again and again and are both served by the mutex: strong fairness of `Parse` and
`BlockGenerator`, weak of what they do with the lock held and of the goroutine that marks bad
transactions.  The relevance check is weakly fair: its goroutine runs every few seconds.  Clients,
hosts, crashes and rollbacks have none.  `Answered` makes exceptions where
the code gives no answer: a copy brought by a host (its failure is not told), a crash
inside `SendTx`, a rollback, and for as long as it lasts a stop-network transaction in the pool
(the node is paused by it and its generator does not run it) or a transaction of the chain in
the pool, on which every block of this node fails.  A stop that was played is no exception.

**Fairness** in `VDETask` and `VDEData`.  Each daemon is a loop of its own over a table, so a
row that is in its state long enough is worked on, and the chain mines what it was sent.
`VDEData` states less than that: some daemon takes a step as long as one can.  Users, faults and
the clock have none.  `TaskIsShared` and `DataIsJudged` name the ways in which the code gives up:
an installation or a transaction that fails, a receiver whose row could not be inserted, a row
of the chain the destination's time mark has passed.

### What the violation runs show

* `ForkedBlocksReplayed` - a replacement of two or more blocks never succeeds.
  `processBlocks` checks the second block against a header copied from the first, whose
  rollbacks hash was never set; the signature covers the real one.  Our blocks are rolled
  back by then.  The node recovers (`CatchesUp`), because the blocks then come by the
  ordinary download, whose first block is checked against a stored row.
* `StopHolds` - a task that its user stops while its contract is being installed is valid
  again when the daemon writes back the row it read before.
* `StaysStopped` - a node paused by a stop-network transaction is resumed by the next relevance
  check: the transaction fails its block, so its row is deleted, and the check that should
  keep the node irrelevant finds nothing.

What the passing runs allow and a reader should know:

* A failed replacement leaves the chain shorter than it was, and the transactions of the blocks
  rolled back are in no pool: their rows were deleted when the blocks were played, so the update
  of `rollback/block.go:81` finds none, and they must be sent again (`NodeForks`, `TxPool`).
* The package's test of the generation queue expects a range to begin 1 ms after the slot
  boundary, the code begins it a second later; `RangeIsSlot` shows that the code is right for times
  in whole seconds.
* A transaction of the chain may be put in the pool again, because nothing but the primary key of
  log_transactions looks for it (`LogIsChain` says that it gets into no second block); as long as
  its row is there, every block of this node fails (`Stuck` in `TxPool`).
* The generator looks at the pause, waits for DBLock and generates, so a node that is
  paused in between still generates a block: one at most (`OneBlockPerPause`).
* One transaction that is refused abandons the rest of the queue's batch, so a stream of bad
  ones starves the queue; a stop-network row in the pool ends the process when the parser
  reaches it (`RefuseBatch`, `Panic` in `TxPool`).
* The known gaps of `TxPlay` (`Gaps`): a paid contract that fails and stays in the block leaves what
  it compiled and the parameters it read in memory, because block.go:217 undoes only when there
  is an error; a block that is rejected or dropped leaves those of its earlier transactions; a
  rollback does not read the parameters again; PlaySafe has the call that would commented out
  (block.go:116), processBlocks has it.
* A transaction paid in two tokens may cost other amounts on another node, or be refused there: both
  depend on the order in which a Go map gives the tokens (`gas.go:148`, `smart.go:988`).  Its block's
  rollback entries, and with them the rollbacks hash, may differ then too.  `AgreesWithChain` and
  `ReplayAccepts` leave such blocks out.
* The rollback entries of a failed contract that stays in the block are written although what
  they stand for was undone: if one of them is a new column, the block can never be rolled
  back (`JamsOnlyIf`).
* A contract that runs into the time limit of its virtual machine is always late for the
  time limit of the block too, whose clock starts earlier, so it never stays in a block.
* A failure between the two writes of the outcome of a run leaves a task that waits for a run that is over
  (`StatusRunState`); nothing takes it up again.
* A form of a user filled from an old copy of a row takes the chain state back (the exception in
  `NeverBack`).
* A share that is stamped in the same second as one already read, or mined after a later one, is
  passed over by its receiver for good; `InOrderRowArrives` is what remains true.  A datum
  whose task the source does not know yet is given up at once, at a destination it waits.

## Proofs

`NodeChain_proofs` proves, for every value of the constants that satisfies
`TxAssumption` and `NodeAssumption`, that `IInv` is an invariant of `Spec` (`Invariant`)
and from it `TypeOK`, `InfoIsLastBlock`, `ChainLinked`, `LogIsChain` (`LogFollowsChain`),
`TxInTime` (`TransactionsInTime`), `OneBlockForTime` and `ReplacementBounded`.  These are not inductive: a played block comes from a host's chain
through `sync.raw` or `sync.blocks`, and a rollback makes the row before the last the
new info_block, so `IInv` says in addition

* `ChainOK` of *every* database, ours and the hosts': rows carry their ids, no row has
  an empty rollbacks hash, and links and slots are right for all rows;
* `LogOK` of every database: a transaction is in a block exactly if its row of log_transactions
  names that block, so it is in no other one, and its time suits the block's.  A block
  with a transaction of the log fails at the primary key of log_transactions (`PlayedAreNew`),
  and one with a transaction out of its time at `CheckTime`;
* `Received`: blocks on their way have ids and, above the first, a rollbacks hash that is
  not empty.  That is why the second block of a replacement can never pass
  `Check`, and so why `processBlocks` plays one block at most, which is what keeps its
  slots different from those of the chain;
* `SyncOK`: in which range the ids of an update are, relative to `info_block`, at each
  point of it.

The argument: each procedure of `ChainDB` takes a sound database to a sound one
(`ExtendSound`, `RollbackBlockSound`, `PlaySafeSound`, `ProcessBlocksSound`), lemmas on what
hosts send (`BlocksUpReceived`, `BlocksDownReceived`, `KeptBlocks`), then one lemma per
action.

The refinement of `Ledger` is proved too (`LedgerRefined`, for `RefinesLedger`).  To `IInv` it adds
`Replayed` (`LedgerIsReplayed`): the contract tables and `rollback_tx` are the result of executing
the blocks of the chain on the first block, and no block above the first has a transaction twice.
A block that joins is executed on what the blocks before it came to, which is one step more of
the same fold (`ExtendData`, `ExecuteOneMore`, `JoinReplayed`).  That the last one leaves with its
effects and no others rests on `BlockUndone`, in two steps:

* a transaction is undone (`TransactionUndone`): its rows are the last ones of `rollback_tx`,
  in the order of its writes (`ExecuteTxRows`), and each has the value its write found, so that undoing them by
  id descending walks back write by write (`WriteUndone`), and exactly they are deleted (`RowsDeleted`);
* a block is undone transaction by transaction from its end.  The rows are looked up by the hash of the
  transaction, in the whole table and not in that of the block, so this is right only if no transaction has
  rows of another block or twice in this one.  `Check` and the generator see to the second (`CheckDistinct`,
  `PlayedDistinct`).  The first follows from `LogOK`: what has rows is in a block
  (`ExecuteRowTxs`), and no transaction is in two.

So the primary key of log_transactions is what keeps the rollback right, and not only what keeps a
transaction from being executed twice.

`BlockTime_proofs` proves the four properties of `BlockTime` for all durations of at least
a second, any number of nodes, and every sequence of changes.  The heart is
`SlotOfSecond`: a second t > 0 is in slot q exactly if q*duration < 1000*t <= (q+1)*duration.

`NodeService_proofs` proves `IInv` for any set of stop-network transactions, any gap and bounds
(`Invariant`), and from it `OneBlockPerPause` (`PauseLetsOneBlockPass`).  The latter is not
inductive: that a block may follow is known only to the generator's state.  `LateBlock` adds
that a generator whose block came during the pause is idle, where the pause is looked at,
and `LockHeld` that generators and updates exclude each other.

`VDETask_proofs` proves `IInv` for any tasks, receivers, bounds and number of failures, and from it
`ChainStateTrue` (`ShownIsThere`) and `NoRunBeforeShared` (`RunsAreShared`).  Neither is
inductive: a daemon writes "on the chain" from a row it read long before, a run posts long after its
row was made.  So `IInv` says of every row that is held (`HeldInv`), requested (`ReqInv`), running
(`RunsInv`) or posted (`TxsInv`) what the daemon that goes on with it relies on.  All of it rests on one
fact: what is in a block stays there (`Grows`, `GrowsKeeps`); `RowTrue` is kept when a true row
is written over a true row (`UpdatesTrue`), which is why writing whole rows back late does no
harm to the chain state, while `StopHolds`, about a column the user writes, fails.

Its second part goes on from there to the columns themselves: `TypeOK`, that no state
column ever goes back but the chain state by an old form of a user (`NeverBack`, `NothingGoesBack`), and that nothing is sent more often than there
were failures (`OnceUnlessFault`, `SentOnce`).  `NeverBack` compares a held row with the row in the table
(`HeldRowsAreLate`): of every column a daemon holds nothing, or what the table still has (once there was
a form, the chain state may have become an older one), and the
column it is going to set no other daemon sets before it.  What forms keep is in `FormTrue` and `FormRow`.  `OnceUnlessFault` counts, so its
invariant does too (`ShareCount`, `RunCount`): what has been posted and what is still going to be
posted are together at most one more than the failures, and one less while the row that says
so is not marked; each action moves one unit from one of these to another or pays with a failure.

`VDEData_proofs` proves `SentIsStored` (`MarkedIsStored`), `VerifiedByChain` (`VerdictByChain`) and
`InOrderRowArrives` (`InOrderRowsAreRead`) for any number of items and destinations, any
parameters and any size of a page.  The third needs that a mark is always the stamp of a row of the
chain (`MarkInv`): a row mined later with a later stamp than all before it is then still ahead of the
mark; and that a page is a first part of the rows it is taken from (`PageIsPrefix`), so that
the mark never moves over a row of the page that was not read (`KeepKeeps`).

`TypeOK` of `VDEData` is proved there too (`TypeCorrect`).

`TxPool_proofs` proves `TypeOK`, `Waits` (`AnswersWait`), `StatusTrue` (`BlocksTold`) and `CollectFits`
(`ListFits`), for any transactions, arrivals, keys, limits and bounds that satisfy
`PoolAssumption`: the kinds of transactions are disjoint, there are finitely many delayed contracts,
and the limits are positive.  Only `TypeOK` says enough by itself to be kept by a step; the invariant
`IInv` (TLC agrees with it on the instance of the run) says in addition

* where a row comes from (`OriginKnown`): a client's has a status, a host's is excused;
* that between the two writes of the queue parser the rows it is going to delete are in the
  pool already, or need no answer (`ParserMoves`), which is why a transaction that waits for its
  answer is always in one of the tables;
* that messages wait in `updBlockMsg` from one block to the next only after a block failed
  (`StatusInv`), so no other block tells a client what an earlier one left there;
* that the queue parser and the generator do not hold DBLock at once, and that the list of
  the one that has it fits (`ListsOK`).

`CollectFits` is an induction on the list the generator goes through (`CollectedFits`): the
counters of the limiters are the numbers of what was taken so far, and a stop-network
transaction ends the collection with a block of its own.

`TxPlay_proofs` proves `TypeOK` (`TypeCorrect`) and `MoneyStays` (`MoneyIsKept`) for any nodes, contracts,
payers, prices and limits that satisfy `PlayAssumption`.  Payments keep the sum of all balances, whoever
pays whom (`TotalChanges`, `MoveRunning`), a savepoint brings back what was there, and so does a rollback; but
the rollback knows only the entries its block has left in `rollback_tx`.  So the invariant relates
the entries of every block a node has to the balances before and after it:

* `Covers`: a balance without an entry is the same before and after a transaction, and the first entry of a
  balance holds what it was before.  It is kept by every call of a contract (`ExecRunning`), every
  payment and fine (`PayContractRunning`) and by the savepoint, which undoes the rows and *keeps*
  the entries (`CoversSaved`);
* `BlockCovers`, `HistoryOK`: there are balances between the transactions of a block, and between the blocks of
  a node, that the entries lead from one to the next, each with all the money.

Taking the entries of a transaction back from the last to the first then restores its balances
(`RollbackTransactionKeeps`), and transaction by transaction those before the block
(`RolledBackKeeps`).  TLC cannot check this invariant, which says that there *are* such
balances; it checks `TypeOK` and `MoneyStays` themselves.

`FailureOnlyPays` is `FailedOnlyPays` for every value of the constants with `TaxesSize <= 100`, a hypothesis of the
theorem and not an assumption of the model: `UpdateSysParam` accepts any `taxes_size` that is not
negative (`smart_p.go:116`), and with more than 100 percent what is left for the node's key is
negative, so that a fine would take from an account that is not the payer's.  The
argument follows `CallContract`: only a transaction that is kept makes the list of a block longer (`EndsKept`),
the limits after a contract make an error of it or leave it alone (`ResultsEnd`), and what is kept of a
failed contract is the payment made on the tables of the savepoint (`CallContractEnds`).  Each token's
payment changes that token only and takes from nobody else (`PayOneSends`, `PayContractCharges`).  For the
second half, a contract uses no more fuel than its size and its calls (`VMRunFuel`), so a payer
with the price of that and of its storage in each token is refused by no payment (`PayContractSucceeds`): each token is
paid once, and the balance of the next is still what it was.

`MemoryIsTrue` (`MemoryTrue`) and `JamsAreKnown` (`JamsOnlyIf`) need all the tables and not the balances
alone.  `MemoryTrue` is far from inductive: after a rollback, a rejected block or a skipped
transaction it holds only if taking things back restores *exactly* what was there, and whether it does
was settled when they were put there.  The invariant `MemInv` (next to `IInv`) has three parts:

* `MemAt`: a node between blocks has a table of contracts in which each name occurs once (`Sound`), and where
  no gap is known the contracts compiled from it and the rate in it;
* `Recalls`: each block of a node was played on tables d and led to tables e such that
  `BlockUndoes(d, u, e)`: taking back its entries from e, with *any* compiled contracts, either fails
  or gives d, fails only over a wrong memory or a column of a failed contract, and from the contracts of e
  it gives those of d;
* `PlayMemAt`: the same for the part of a block that was played so far, with what `Leave` relies on:
  that without an edit the contracts only grew at the end (`Begins`), and without a new contract they did not change.

For one transaction, `Track` follows tables, entries and flushes side by side through every function of a
contract (`ExecTracks`), every payment (`PayContractTracks`) and the savepoint (`SavepointTracks`), which brings
the tables back and keeps the entries: `Trail` says that the entries then still lead back, because
each of them sets a column to what it was or is about a row that is not there.  `FlushUndone` is the
fact about the virtual machine: a contract that is taken out goes back to its old place, or was the last.
The memory of a generator is right after `Skip` because the flushes of a transaction, taken
back from the last to the first, give the memory it began with (`ResultTaken`).  TLC cannot
check `BlockUndoes`, which speaks of all compiled contracts; it checks the two properties.

In `TxPlayAgreement_proofs`, `AgreementIsKept` (`AgreesWithChain`) and `ReplaysAreAccepted` (`ReplayAccepts`)
compare what two nodes make of the same transactions, where each is free or paid in one token.  `AgreesWithChain` looks at databases between blocks only; a node that plays a block
is in the middle of it, with a memory and fuel of its own.  The invariant `AgreeInv`, next to
`IInv` and `MemInv`, says

* of every block of the chain whose generator's memory was right (`FairBlock`): there is a path of states, tables,
  compiled contracts, cached rate and fuel together, from the tables before the block to those after it,
  whose steps are what some run of each transaction of the block comes to (`PathOf`, `KeptBy`);
* of the block that is played: a generator has gone such a path so far, and what it skips or cuts off is not on it
  (`GenPath`); another node is at the place of the generator's path that its part of the block leads to, and
  what is left of its block are the transactions of the rest (`RecvPath`);
* of every node in `agrees`: its tables are those after its last block, and taking back any of its blocks leads
  from the tables after that block to those before it (`Agreed`), which is what a rollback relies on.

A step of the path does not depend on the order of the tokens where there is only one, or where nothing is paid
(`OneOrder`); a block with any other transaction is not fair.  And it does not depend on who takes it: only a generator is ever late, and what it is
late for it does not keep, so that what was kept by one is kept by all (`LateFails`, `KeptAgain`), under
the same limits of fuel.  A rejection is therefore a difference of memories, which `fair` excludes.  TLC cannot
check `AgreeInv`, which speaks of all paths; it checks the two properties.

The proof of `MemInv` found one thing in the model that was wrong: `CreateContract` looked for the name in the
virtual machine only, and over a memory that a gap had left wrong it could put a name into the table
twice.  The table does not let it: `1_contracts` has a unique index on ecosystem and name
(`migration/first_ecosystem.go:118`), and the insert fails.

Two lemmas make such inductions possible, stated where they are used.  The library's induction
theorems take an operator as a parameter, which the provers here cannot instantiate; `UpTo` proves
induction over 0..n for a *set* of numbers from the well-foundedness of `<` instead, and `Recursion`
unfolds one recursive function on an interval.  With them a fold over a list of any length that
is written as a recursive function can be proved about, list by list.

Only model-checked: liveness, which is beyond these provers: `CatchesUp`, `LockReleased`, `PauseBegins`, `PauseEnds`,
`Answered`, `TaskIsShared` and `DataIsJudged`.

## Plan

The models are as planned: the chain and its database, the generation queue, the pause of a node,
the pool of transactions and the collection of a block, the playing of contracts, and the VDE
daemons, each with its runs, and theorems where the provers reach.  Every invariant and
every action property of the passing runs, and the refinement of `Ledger`, is proved.

## Not modelled

* Node and key bans (`service/node_ban.go`, `smart/smart_p.go`): clocks and counters with no
  effect on the chain but that a host or key is left out for a while; the modules let a host fail
  to answer at any time.
* Confirmations: counts of hosts that have a block, shown by the API; the guard of the generator
  that would use them is commented out (`block_generator.go:82`).
* The sending side of the disseminator, the network protocol and the streams: a host's answers and
  offers come in any order, cut short, wrong or not at all.
* Sub-node daemons: the same machine as the VDE daemons over other tables; external networks: the same
  as `UpToChain` with another chain.  Scheduler, OBS manager, notifications: no state that the rest
  reads.
* Configuration, first block, query building, page templates, script compiler, virtual machine,
  encodings, cryptography, migrations, API handlers: sequential transformations of data, or input and
  output.  The modules use their results (a contract fails or not, costs this much, compiles).
* The database (external): its transactions are atomic and isolated as `model/` uses them.
* In `TxPlay`: how a contract splits into conditions and action (but for the two estimates), and of
  `prepareMultiPay` the writes for a token that has no fuel rate, taxes wallet or key yet (`UpdateSysParam` and
  `DBInsert`, `gas.go:172`-`261`), the ecosystem wallet as payer, the comparison of public keys (`errDiffKeys`), a
  rate of its own for each token, the bounds of the price and expedite; tables created or deleted, `DeleteColumn`, the binding of wallets
  (`SetContractWallet`, `smart.go:382`, which writes the virtual machine and no flush entry),
  activation, `NewEcosystem`.
* In `VDETask` and `VDEData`: the log rows of data and the daemons that bring them to the chain, the
  installation of contracts at destinations, the map of parameters a daemon carries from one task
  to the next, the API's handlers that delete rows, `VDESrcTaskAuthUpdateHandlre`,
  `VDESrcTaskFromScheCreateHandlre` and the handlers of destination tables, and `VDEScheTaskSrcGetFromChain`, whose first
  line returns (`vde_sche_task_fromchain.go:65`).
