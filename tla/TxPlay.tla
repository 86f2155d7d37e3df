------------------------------- MODULE TxPlay -------------------------------
(***************************************************************************)
(* The playing of a block's transactions: Block.Play of                    *)
(* src/packages/block/block.go with SmartContract.CallContract of          *)
(* src/packages/smart, on the nodes that generate blocks and on those that *)
(* play the blocks of others.  A contract changes three things: the        *)
(* database, which savepoints undo; the compiled contracts of the virtual  *)
(* machine and the cache of system parameters, which are process-wide and  *)
(* which the code must undo itself.  ChainDB has the chain these blocks    *)
(* are linked in; here a block is what its transactions do.                *)
(***************************************************************************)
EXTENDS Integers, FiniteSets, Sequences, SequencesExt

CONSTANTS
  Nodes,      \* the nodes, by the key that is paid for their blocks
  Honor,      \* those of them that generate blocks
  Txs,        \* transactions
  Payer,      \* who pays for a transaction
  Code,       \* its contract: a sequence of calls <<function, argument>>
  Size,       \* the fuel its size costs, the contract's own calls one each
  Free,       \* transactions of contracts that are free of charge
  Heavy,      \* transactions that may run into the time limit of a generator
  Tokens,     \* the token ecosystems a transaction is paid in
  Wallet,     \* the wallet of the taxes
  Accounts,   \* keys with a balance: nodes, payers and Wallet
  Amount,     \* the balance of each key at first, in each ecosystem
  Storage,    \* the fuel that is asked for its storage, 0 in ecosystem 1
  Price,      \* the fuel that is asked for the new element it makes
  Estimate,   \* the fuel that conditions and action are expected to use
  TaxesSize, MaxTxFuel, MaxBlockFuel,   \* system parameters
  MaxBlocks, MaxTxs, MaxFaults          \* bounds of the model

Ecos == UNION {Tokens[t] : t \in Txs}

ASSUME PlayAssumption ==
  /\ Honor \subseteq Nodes /\ Nodes \subseteq Accounts /\ Wallet \in Accounts
  /\ Payer \in [Txs -> Accounts] /\ Size \in [Txs -> Nat]
  /\ Free \subseteq Txs /\ Heavy \subseteq Txs
  /\ Storage \in [Txs -> Nat] /\ Price \in [Txs -> Nat] /\ Estimate \in [1..2 -> Nat]
  /\ \A t \in Txs : IsFiniteSet(Tokens[t]) /\ 1 \in Tokens[t]
  /\ IsFiniteSet(Accounts) /\ 1 \in Ecos
  /\ \A t \in Txs : Code[t] \in Seq(Range(Code[t]))
  /\ \A t \in Txs : \A op \in Range(Code[t]) :
       /\ op[1] \in {"create", "edit", "rate", "column", "call", "send", "error"}
       /\ op[1] \in {"rate", "send"} => op[2] \in Nat
  /\ {Amount, TaxesSize, MaxTxFuel, MaxBlockFuel, MaxBlocks, MaxTxs, MaxFaults}
       \subseteq Nat

VARIABLES
  db,      \* the committed database of each node
  vm,      \* its compiled contracts: objs by name, kids by number
  cache,   \* its cached fuel rate
  undo,    \* its rollback_tx by block: what each of its transactions did
  play,    \* the block that a node plays, or Idle
  chain,   \* the blocks there are, as their generators played them
  spent,   \* transactions that were tried in a block, kept or not
  agrees,  \* nodes whose blocks were all played with a memory that is right,
           \* here and where they come from, and in one order of tokens
  stained, \* the parts of a node's memory that a known gap may have left wrong
  jammed,  \* nodes that could not roll back their last block
  faults

vars == <<db, vm, cache, undo, play, chain, spent, agrees, stained, jammed, faults>>

Idle == [on |-> FALSE]
Playing(n) == play.on /\ play.node = n
None == [name |-> "none", ver |-> 0]

With(f, x, v) == [y \in DOMAIN f \cup {x} |-> IF y = x THEN v ELSE f[y]]
Without(f, x) == [y \in DOMAIN f \ {x} |-> f[y]]

-----------------------------------------------------------------------------
(* The virtual machine.  FlushBlock puts a contract in both of its tables, *)
(* in its old place if it has one.                                         *)

FlushBlock(m, c, v) ==
  LET id == IF c \in DOMAIN m.objs THEN m.objs[c].id ELSE Len(m.kids) + 1
      kid == [name |-> c, ver |-> v]
  IN [objs |-> With(m.objs, c, [id |-> id, ver |-> v]),
      kids |-> IF id > Len(m.kids) THEN Append(m.kids, kid)
               ELSE [m.kids EXCEPT ![id] = kid]]

(* What Play needs to take a flush back: FlushInfo.                        *)
FlushInfo(m, c) ==
  IF c \in DOMAIN m.objs
  THEN [id |-> m.objs[c].id, prev |-> m.kids[m.objs[c].id], info |-> m.objs[c].ver, name |-> c]
  ELSE [id |-> Len(m.kids) + 1, prev |-> None, info |-> 0, name |-> c]

UndoOne(m, f) ==
  IF f.prev # None
  THEN [objs |-> With(m.objs, f.name, [id |-> f.id, ver |-> f.info]),
        kids |-> [m.kids EXCEPT ![f.id] = f.prev]]
  ELSE IF f.id # Len(m.kids) THEN m
  ELSE [objs |-> Without(m.objs, f.name), kids |-> SubSeq(m.kids, 1, f.id - 1)]

\* Mutant: the first flush is taken back first.
UndoFlushInOrder(m, flush) ==
  LET undone[i \in 0..Len(flush)] == IF i = 0 THEN m ELSE UndoOne(undone[i-1], flush[i])
  IN undone[Len(flush)]

UndoFlush(m, flush) ==
  LET undone[i \in 0..Len(flush)] ==
        IF i = 0 THEN m ELSE UndoOne(undone[i-1], flush[Len(flush) + 1 - i])
  IN undone[Len(flush)]

(* LoadContracts, in the order of their ids.                               *)
LoadContracts(src) ==
  [objs |-> [c \in {src[i].name : i \in DOMAIN src} |->
               LET i == CHOOSE i \in DOMAIN src : src[i].name = c
               IN [id |-> i, ver |-> src[i].ver]],
   kids |-> src]

(* ReplaceBlocksFromHost keeps the names, and the number of the contracts. *)
RollbackSmartVMObjects(m, saved) ==
  [objs |-> saved.objs, kids |-> SubSeq(m.kids, 1, Len(saved.kids))]

-----------------------------------------------------------------------------
(* A running transaction has its copies of the database and of the memory, *)
(* the undo entries it has made, and an error, "" if there is none.        *)

Log(s, e) == [s EXCEPT !.log = Append(@, e)]
Fail(s, e) == [s EXCEPT !.err = e]

(* A contract that the virtual machine does not have may be in the table   *)
(* all the same, where a name is unique: the row is not inserted.          *)
CreateContract(s, c) ==
  LET id == Len(s.db.src) + 1
      t  == Log(Log(s, <<"insert", id>>), <<"NewContract", c>>)
  IN IF c \in DOMAIN s.vm.objs \/ \E i \in DOMAIN s.db.src : s.db.src[i].name = c
     THEN Fail(s, "contract exists")
     ELSE [t EXCEPT !.db.src = Append(@, [name |-> c, ver |-> 1]),
                    !.flush = Append(@, FlushInfo(s.vm, c)),
                    !.vm = FlushBlock(@, c, 1)]

UpdateContract(s, c) ==
  LET ids == {i \in DOMAIN s.db.src : s.db.src[i].name = c} IN
  IF ids = {} THEN Fail(s, "no contract")
  ELSE LET id == CHOOSE i \in ids : TRUE
           t == Log(Log(s, <<"EditContract", id>>), <<"value", id, s.db.src[id].ver>>)
           v == s.db.src[id].ver + 1
       IN [t EXCEPT !.db.src[id].ver = v,
                    !.flush = Append(@, FlushInfo(s.vm, c)),
                    !.vm = FlushBlock(@, c, v)]

(* The cache is read again from the transaction that is under way.         *)
UpdateSysParam(s, rate) ==
  [Log(s, <<"rate", s.db.rate>>) EXCEPT !.db.rate = rate, !.cache = rate, !.sys = TRUE]

CreateColumn(s) ==
  IF s.db.column THEN Fail(s, "column exists")
  ELSE [Log(s, <<"NewColumn">>) EXCEPT !.db.column = TRUE]

(* A contract that calls another by its name and writes what that returns. *)
CallOther(s, c) ==
  IF c \notin DOMAIN s.vm.objs THEN Fail(s, "unknown contract")
  ELSE [Log(s, <<"row", s.db.row>>) EXCEPT !.db.row = s.vm.objs[c].ver]

(* No balance of the table of keys may be negative.                        *)
\* Mutant: the balance of the payer is the one before the other was paid.
MoveStale(s, e, from, to, sum) ==
  IF s.db.bal[e][from] < sum THEN Fail(s, "taxes")
  ELSE [s EXCEPT !.db.bal[e] = With(With(@, to, @[to] + sum), from, @[from] - sum)]

AddAmount(s, e, k, sum) ==
  [Log(s, <<"amount", e, k, s.db.bal[e][k]>>) EXCEPT !.db.bal[e][k] = @ + sum]

Move(s, e, from, to, sum) ==
  LET paid == AddAmount(s, e, to, sum)
      done == AddAmount(paid, e, from, 0 - sum)
  IN IF paid.db.bal[e][to] < 0 \/ done.db.bal[e][from] < 0 THEN Fail(s, "taxes") ELSE done

Exec(s, t, op) ==
  IF s.err # "" THEN s
  ELSE LET r == [s EXCEPT !.fuel = @ + 1] IN
    CASE op[1] = "create" -> CreateContract(r, op[2])
      [] op[1] = "edit"   -> UpdateContract(r, op[2])
      [] op[1] = "rate"   -> UpdateSysParam(r, op[2])
      [] op[1] = "column" -> CreateColumn(r)
      [] op[1] = "call"   -> CallOther(r, op[2])
      [] op[1] = "send"   -> Move(r, 1, Payer[t], Wallet, op[2])
      [] op[1] = "error"  -> Fail(r, "error")

(* VMRun: a generator stops at any instruction when its time is over, and  *)
(* the fuel that was used is not written back when there is an error.      *)
VMRun(s, t, upto) ==
  LET run[i \in 0..upto] == IF i = 0 THEN s ELSE Exec(run[i-1], t, Code[t][i])
      end == run[upto]
      cut == IF upto < Len(Code[t]) /\ end.err = "" THEN Fail(end, "time limit") ELSE end
  IN IF cut.err = "" THEN cut ELSE [cut EXCEPT !.fuel = s.fuel]

-----------------------------------------------------------------------------
(* Payment.  The rate and the balances are read before the contract runs.  *)
(* The tokens are taken in the order of a Go map, and that matters: what   *)
(* the storage and a new element cost is set for some tokens only but kept *)
(* for those that follow, and each balance is held against the estimates   *)
(* of all the tokens so far.                                               *)

StorageFuel(t, ecos, i) ==
  IF \E j \in 1..i : Len(ecos) = 1 \/ ecos[j] # 1 THEN Storage[t] ELSE 0

NewElementFuel(t, ecos, i) == IF \E j \in 1..i : ecos[j] = 1 THEN Price[t] ELSE 0

PrepareMultiPay(s, t, ecos) ==
  LET short(i) ==
        LET amount == s.db.bal[ecos[i]][Payer[t]]
            asked == StorageFuel(t, ecos, i) + NewElementFuel(t, ecos, i)
            estimate == Len(ecos) * Estimate[1] + i * Estimate[2]
        IN amount < asked * s.cache \/ amount < estimate * s.cache
  IN IF s.cache = 0 \/ \E i \in 1..Len(ecos) : short(i) THEN Fail(s, "balance") ELSE s

PayOne(s, t, e, money, amount, key) ==
  LET taxes == (money * TaxesSize) \div 100
      paid  == Move(s, e, Payer[t], key, money - taxes)
  IN IF s.err # "" THEN s
     ELSE IF amount[e] < money THEN Fail(s, "taxes")
     ELSE IF paid.err # "" THEN paid
     ELSE Move(paid, e, Payer[t], Wallet, taxes)

(* What the token in a place of the order is to pay; a fine has no price.  *)
Bill(fuel, t, ecos, i, fine) ==
  fuel + StorageFuel(t, ecos, i) + (IF fine THEN 0 ELSE NewElementFuel(t, ecos, i))

PayContract(s, t, pay, key, fine) ==
  LET amount == [e \in Ecos |-> pay.bal[e][Payer[t]]]
      money == [i \in 1..Len(pay.ecos) |-> Bill(s.fuel, t, pay.ecos, i, fine) * pay.rate]
      paid[i \in 0..Len(pay.ecos)] ==
        IF i = 0 THEN s ELSE PayOne(paid[i-1], t, pay.ecos[i], money[i], amount, key)
  IN paid[Len(pay.ecos)]

(* RollbackSavepoint: the database of the savepoint, and the rest as it is. *)
\* Mutant: a contract that fails keeps what it wrote.
KeepSavepoint(s, saved) == [s EXCEPT !.err = ""]

RollbackSavepoint(s, saved) == [s EXCEPT !.db = saved.db, !.err = ""]

(* CallContract: an error of a contract that is paid for ends in the       *)
(* payment and in no error; a payer who cannot pay then pays nothing.      *)
CallContract(s, t, upto, ecos, key) ==
  LET ready == PrepareMultiPay([s EXCEPT !.fuel = Size[t]], t, ecos)
      pay   == [bal |-> s.db.bal, rate |-> s.cache, ecos |-> ecos]
      ran   == VMRun(ready, t, upto)
      paid  == IF ran.err = "" THEN PayContract(ran, t, pay, key, FALSE) ELSE ran
      fined == PayContract(RollbackSavepoint(paid, s), t, pay, key, TRUE)
  IN CASE t \in Free -> [VMRun([s EXCEPT !.fuel = Size[t]], t, upto) EXCEPT !.kind = "ok"]
       [] t \notin Free /\ ready.err # "" -> ready
       [] t \notin Free /\ ready.err = "" /\ paid.err = "" -> [paid EXCEPT !.kind = "ok"]
       [] t \notin Free /\ ready.err = "" /\ paid.err # "" /\ fined.err = "" ->
            [fined EXCEPT !.kind = "failed"]
       [] OTHER -> [RollbackSavepoint(fined, s) EXCEPT !.kind = "unpaid"]

-----------------------------------------------------------------------------
(* Block.Play, one transaction at a time.  DBLock keeps a node's daemons   *)
(* out meanwhile, and what two nodes do at a time is not related: one      *)
(* block is played at once.                                                *)

StartPlay(n, gen, fork, todo) ==
  /\ ~ play.on
  /\ play' = [on |-> TRUE, node |-> n, gen |-> gen, fork |-> fork, todo |-> todo,
              key |-> IF gen THEN n ELSE chain[Len(undo[n]) + 1].by,
              db |-> db[n], fuel |-> 0, undo |-> <<>>, start |-> vm[n],
              fair |-> ~ \E part \in {"vm", "cache"} : <<n, part>> \in stained,
              fresh |-> FALSE, old |-> FALSE, sys |-> FALSE, first |-> TRUE]
  /\ UNCHANGED <<db, vm, cache, undo, chain, spent, agrees, stained, jammed, faults>>

(* A generator takes some of the transactions there are, in any order.     *)
Generate(n) ==
  /\ n \in Honor
  /\ Len(undo[n]) = Len(chain) /\ Len(chain) < MaxBlocks
  /\ \E k \in 1..MaxTxs : \E q \in [1..k -> Txs \ spent] :
       /\ \A i, j \in 1..k : q[i] = q[j] => i = j
       /\ StartPlay(n, TRUE, FALSE, q)

(* A block of another node, after what has been rolled back for it or by   *)
(* itself.                                                                 *)
Receive(n) ==
  /\ Len(undo[n]) < Len(chain)
  /\ LET txs == chain[Len(undo[n]) + 1].undo IN
     \E fork \in BOOLEAN : StartPlay(n, FALSE, fork, [i \in DOMAIN txs |-> txs[i].tx])

(* txMaxFuel is the same when a block is generated and when it is played,  *)
(* but for what follows; timeBlockLimit is for generators and comes first. *)
\* Mutant: the fuel of the transaction itself is not counted.
FuelLimitLate(s, used) ==
  IF s.fuel > MaxTxFuel THEN Fail(s, "tx fuel")
  ELSE IF used > MaxBlockFuel THEN Fail(s, "stop")
  ELSE s

FuelLimit(s, used) ==
  IF s.fuel > MaxTxFuel THEN Fail(s, "tx fuel")
  ELSE IF used + s.fuel > MaxBlockFuel THEN Fail(s, "stop")
  ELSE s

\* Mutant: the time is not looked at when a contract has ended.
CheckLimitNoTime(s, used, late) == IF s.err # "" THEN s ELSE FuelLimit(s, used)

CheckLimit(s, used, late) ==
  IF s.err # "" THEN s
  ELSE IF late THEN Fail(s, "stop")
  ELSE FuelLimit(s, used)

(* What may become of the transaction that is next.  The clock of the      *)
(* block starts before that of a contract: a contract that is cut is late. *)
Orders(S) == {q \in [1..Cardinality(S) -> S] : \A i, j \in DOMAIN q : q[i] = q[j] => i = j}

Begun ==
  LET n == play.node
  IN [db |-> play.db, vm |-> vm[n], cache |-> cache[n], log |-> <<>>, flush |-> <<>>,
      sys |-> FALSE, fuel |-> 0, err |-> "", kind |-> "error"]

Runs(t) ==
  {<<Len(Code[t]), FALSE>>} \cup
    IF play.gen /\ t \in Heavy THEN {<<i, TRUE>> : i \in 0..Len(Code[t])} ELSE {}

Results ==
  LET t == Head(play.todo)
  IN {CheckLimit(CallContract(Begun, t, run[1], q, play.key), play.fuel, run[2]) :
        run \in Runs(t), q \in Orders(Tokens[t])}

Gaps(n, flushed, read) == (IF flushed THEN {<<n, "vm">>} ELSE {})
                       \cup (IF read THEN {<<n, "cache">>} ELSE {})

(* Whether no order of tokens bears on a transaction.                      *)
OneOrder(t) == t \in Free \/ Cardinality(Tokens[t]) = 1

(* No error: the transaction stays in the block.  What a contract that     *)
(* failed had put into the memory stays there.                             *)
Keep(r) ==
  LET n == play.node
      new == \E i \in DOMAIN r.flush : r.flush[i].prev = None
      edited == \E i \in DOMAIN r.flush : r.flush[i].prev # None
      done == [tx |-> Head(play.todo), log |-> r.log, kind |-> r.kind]
  IN /\ r.err = ""
     /\ play' = [play EXCEPT !.first = FALSE, !.todo = Tail(@), !.db = r.db, !.fuel = @ + r.fuel,
                   !.undo = Append(@, done), !.fresh = @ \/ new, !.old = @ \/ edited,
                   !.sys = @ \/ r.sys, !.fair = @ /\ OneOrder(Head(play.todo))]
     /\ vm' = [vm EXCEPT ![n] = r.vm] /\ cache' = [cache EXCEPT ![n] = r.cache]
     /\ stained' = IF r.kind = "ok" THEN stained
                   ELSE stained \cup Gaps(n, r.flush # <<>>, r.sys)
     /\ UNCHANGED <<db, undo, chain, spent, agrees, jammed, faults>>

(* An error takes the contracts back and reads the parameters again, if    *)
(* they were read, from the transaction of the block.                      *)
TakeBack(r) ==
  LET n == play.node IN
  /\ vm' = [vm EXCEPT ![n] = UndoFlush(r.vm, r.flush)]
  /\ cache' = [cache EXCEPT ![n] = IF r.sys THEN play.db.rate ELSE r.cache]

(* A generator goes on with the next one; the transaction is marked bad.   *)
Skip(r) ==
  LET n == play.node IN
  /\ play.gen /\ r.err \notin {"", "stop"}
  /\ TakeBack(r)
  /\ play' = [play EXCEPT !.first = FALSE, !.todo = Tail(@), !.fair = @ /\ cache'[n] = cache[n]]
  /\ spent' = spent \cup {Head(play.todo)}
  /\ stained' = IF r.sys THEN stained \ {<<n, "cache">>} ELSE stained
  /\ UNCHANGED <<db, undo, chain, agrees, jammed, faults>>

(* A generator that is over a limit ends the block with what it has.  The  *)
(* parameters are not read again.  The first transaction of a block is     *)
(* marked bad, and its block fails.                                        *)
Stop(r) ==
  LET n == play.node
  IN /\ play.gen /\ r.err = "stop"
     /\ vm' = [vm EXCEPT ![n] = UndoFlush(r.vm, r.flush)]
     /\ cache' = [cache EXCEPT ![n] = r.cache]
     /\ stained' = stained \cup Gaps(n, FALSE, r.sys)
     /\ play' = IF play.first THEN Idle ELSE [play EXCEPT !.todo = <<>>]
     /\ spent' = IF play.first THEN spent \cup {Head(play.todo)} ELSE spent
     /\ UNCHANGED <<db, undo, chain, agrees, jammed, faults>>

(* A node that plays the block of another rejects it: PlaySafe and         *)
(* processBlocks roll the database back, and ReplaceBlocksFromHost the     *)
(* names of the contracts.  What the block's earlier transactions put into *)
(* the memory is otherwise kept.                                           *)
Leave(m) ==
  LET n == play.node
      lost == IF play.fork THEN play.old ELSE play.old \/ play.fresh
  IN /\ vm' = [vm EXCEPT ![n] = IF play.fork THEN RollbackSmartVMObjects(m, play.start) ELSE m]
     /\ play' = Idle
     /\ stained' = stained \cup Gaps(n, lost, play.sys)
     /\ UNCHANGED <<db, undo, chain, spent, agrees, jammed>>

Reject(r) ==
  LET n == play.node IN
  /\ ~ play.gen /\ r.err # ""
  /\ cache' = [cache EXCEPT ![n] = IF r.sys THEN play.db.rate ELSE r.cache]
  /\ Leave(UndoFlush(r.vm, r.flush))
  /\ UNCHANGED faults

(* Fault: a later block of the same transaction fails, or the commit.      *)
(* processBlocks has read the parameters again by then.                    *)
Drop ==
  LET n == play.node IN
  /\ play.on /\ ~ play.gen /\ play.todo = <<>> /\ faults < MaxFaults
  /\ cache' = [cache EXCEPT ![n] = IF play.fork /\ play.sys THEN play.db.rate ELSE @]
  /\ Leave(vm[n])
  /\ faults' = faults + 1

PlayTx ==
  /\ play.on /\ play.todo # <<>>
  /\ \E r \in Results : Keep(r) \/ Skip(r) \/ Stop(r) \/ Reject(r)

(* The end of a block: PlaySafe, and processBlocks for a fork.             *)
Commit ==
  LET n == play.node
      h == Len(undo[n]) + 1
      b == [by |-> n, undo |-> play.undo, db |-> play.db, fair |-> play.fair /\ n \in agrees]
      read == play.fork /\ play.sys
      same == IF play.gen THEN play.fair ELSE play.fair /\ chain[h].fair
  IN /\ play.on /\ play.todo = <<>> /\ play' = Idle
     /\ IF play.undo = <<>> THEN UNCHANGED <<db, undo, chain, agrees>>
        ELSE /\ db' = [db EXCEPT ![n] = play.db]
             /\ undo' = [undo EXCEPT ![n] = Append(@, play.undo)]
             /\ chain' = IF play.gen THEN Append(chain, b) ELSE chain
             /\ agrees' = IF same THEN agrees ELSE agrees \ {n}
     /\ cache' = [cache EXCEPT ![n] = IF read THEN play.db.rate ELSE @]
     /\ stained' = IF read THEN stained \ {<<n, "cache">>} ELSE stained
     /\ spent' = spent \cup {play.undo[i].tx : i \in DOMAIN play.undo}
     /\ UNCHANGED <<vm, jammed, faults>>

-----------------------------------------------------------------------------
(* rollback.RollbackBlock: the entries of a block's transactions, the last *)
(* one first.                                                              *)

SysRollbackContract(s, c) ==
  IF c \notin DOMAIN s.vm.objs THEN s
  ELSE IF s.vm.objs[c].id # Len(s.vm.kids) THEN Fail(s, "not the last contract")
  ELSE [s EXCEPT !.vm = [objs |-> Without(@.objs, c),
                         kids |-> SubSeq(@.kids, 1, Len(@.kids) - 1)]]

SysRollbackEditContract(s, id) ==
  IF id > Len(s.db.src) THEN s
  ELSE [s EXCEPT !.vm = FlushBlock(@, s.db.src[id].name, s.db.src[id].ver)]

RollbackEntry(s, e) ==
  IF s.err # "" THEN s ELSE
  CASE e[1] = "insert"       -> IF e[2] > Len(s.db.src) THEN s
                                ELSE [s EXCEPT !.db.src = SubSeq(@, 1, e[2] - 1)]
    [] e[1] = "value"        -> IF e[2] > Len(s.db.src) THEN s
                                ELSE [s EXCEPT !.db.src[e[2]].ver = e[3]]
    [] e[1] = "rate"         -> [s EXCEPT !.db.rate = e[2]]
    [] e[1] = "row"          -> [s EXCEPT !.db.row = e[2]]
    [] e[1] = "amount"       -> [s EXCEPT !.db.bal[e[2]][e[3]] = e[4]]
    [] e[1] = "NewContract"  -> SysRollbackContract(s, e[2])
    [] e[1] = "EditContract" -> SysRollbackEditContract(s, e[2])
    [] e[1] = "NewColumn"    -> IF s.db.column THEN [s EXCEPT !.db.column = FALSE]
                                ELSE Fail(s, "no column")

\* Mutant: the first entry is taken back first.
RollbackTransactionInOrder(s, log) ==
  LET back[i \in 0..Len(log)] == IF i = 0 THEN s ELSE RollbackEntry(back[i-1], log[i])
  IN back[Len(log)]

RollbackTransaction(s, log) ==
  LET back[i \in 0..Len(log)] ==
        IF i = 0 THEN s ELSE RollbackEntry(back[i-1], log[Len(log) + 1 - i])
  IN back[Len(log)]

RolledBack(s, u) ==
  LET back[i \in 0..Len(u)] ==
        IF i = 0 THEN s ELSE RollbackTransaction(back[i-1], u[Len(u) + 1 - i].log)
  IN back[Len(u)]

(* The cache of parameters is not read again.                              *)
RollbackBlock(n) ==
  LET u == Last(undo[n])
      r == RolledBack([db |-> db[n], vm |-> vm[n], err |-> ""], u)
      kept == [undo EXCEPT ![n] = Front(@)]
      top == CHOOSE h \in {Len(kept[m]) : m \in Nodes} : \A m \in Nodes : Len(kept[m]) <= h
      rate == \E i \in DOMAIN u : \E j \in DOMAIN u[i].log : u[i].log[j][1] = "rate"
  IN /\ ~ play.on /\ undo[n] # <<>> /\ n \notin jammed /\ faults < MaxFaults
     /\ faults' = faults + 1
     /\ vm' = [vm EXCEPT ![n] = r.vm]
     /\ IF r.err # ""
        THEN /\ jammed' = jammed \cup {n}
             /\ stained' = stained \cup Gaps(n, TRUE, FALSE)
             /\ UNCHANGED <<db, undo, chain>>
        ELSE /\ db' = [db EXCEPT ![n] = r.db]
             /\ undo' = kept
             /\ chain' = SubSeq(chain, 1, top)
             /\ stained' = stained \cup Gaps(n, FALSE, rate)
             /\ UNCHANGED jammed
     /\ UNCHANGED <<cache, play, spent, agrees>>

(* A node that starts compiles its contracts and reads its parameters.  One*)
(* that dies in the middle of a block is where it was before the block.    *)
Restart(n) ==
  /\ ~ Playing(n)
  /\ vm' = [vm EXCEPT ![n] = LoadContracts(db[n].src)]
  /\ cache' = [cache EXCEPT ![n] = db[n].rate]
  /\ stained' = stained \ ({n} \X {"vm", "cache"})
  /\ jammed' = jammed \ {n}
  /\ UNCHANGED <<db, undo, play, chain, spent, agrees, faults>>

-----------------------------------------------------------------------------
Genesis == [bal |-> [e \in Ecos |-> [k \in Accounts |-> Amount]],
            src |-> <<[name |-> "a", ver |-> 1]>>, rate |-> 1, column |-> FALSE, row |-> 0]

Init ==
  /\ db = [n \in Nodes |-> Genesis]
  /\ vm = [n \in Nodes |-> LoadContracts(Genesis.src)]
  /\ cache = [n \in Nodes |-> Genesis.rate]
  /\ undo = [n \in Nodes |-> <<>>]
  /\ play = Idle /\ chain = <<>> /\ spent = {}
  /\ agrees = Nodes /\ stained = {} /\ jammed = {} /\ faults = 0

Next == PlayTx \/ Commit \/ Drop
     \/ \E n \in Nodes : Generate(n) \/ Receive(n) \/ RollbackBlock(n) \/ Restart(n)

Spec == Init /\ [][Next]_vars

-----------------------------------------------------------------------------
(* The committed databases, the numbers of the model and the places where  *)
(* a node can be have their types.                                         *)
TypeOK ==
  /\ \A n \in Nodes :
       /\ db[n].bal \in [Ecos -> [Accounts -> Nat]]
       /\ db[n].rate \in Nat /\ db[n].row \in Nat /\ db[n].column \in BOOLEAN
       /\ cache[n] \in Nat /\ Len(undo[n]) <= Len(chain)
  /\ play = Idle \/ (play.node \in Nodes /\ play.fuel <= MaxBlockFuel)
  /\ Len(chain) <= MaxBlocks /\ spent \subseteq Txs
  /\ agrees \subseteq Nodes /\ stained \subseteq Nodes \X {"vm", "cache"}
  /\ jammed \subseteq Nodes /\ faults <= MaxFaults

(* The compiled contracts are those of the database and the cached rate is *)
(* its rate, block after block, whatever was tried, skipped, rejected and  *)
(* rolled back, except where a known gap has left the memory behind.       *)
MemoryTrue ==
  \A n \in Nodes :
    LET d == IF Playing(n) THEN play.db ELSE db[n] IN
    /\ <<n, "vm">> \notin stained => vm[n] = LoadContracts(d.src)
    /\ <<n, "cache">> \notin stained => cache[n] = d.rate

(* A node that has the blocks of a chain has the data their generators had *)
(* after them: what a generator tried and left out, what it was late for   *)
(* and what it failed to finish changes nothing that another node repeats, *)
(* the entries for the rollback included.  Blocks with a transaction that  *)
(* pays in two tokens are left out: in the code each node pays them in an  *)
(* order of its own, and the amounts may differ (gas.go:148).              *)
AgreesWithChain ==
  \A n \in agrees :
    LET h == Len(undo[n]) IN
    /\ db[n] = IF h = 0 THEN Genesis ELSE chain[h].db
    /\ \A i \in 1..h : undo[n][i] = chain[i].undo

(* No contract, payment, fine or rollback makes money or loses it.         *)
Keys == SetToSeq(Accounts)

Total(b) ==
  LET sum[i \in 0..Len(Keys)] == IF i = 0 THEN 0 ELSE sum[i-1] + b[Keys[i]]
  IN sum[Len(Keys)]

MoneyStays ==
  \A n \in Nodes, e \in Ecos : Total(db[n].bal[e]) = Cardinality(Accounts) * Amount

(* A step that ends a transaction which stays in the block.                *)
Ends(kind) == /\ play.on /\ play'.on /\ Len(play'.undo) > Len(play.undo)
              /\ Last(play'.undo).kind = kind

(* A contract that fails and is paid for changes nothing of the database   *)
(* but what its payer pays, in the tokens it was to be paid in.            *)
OnlyPays(t) ==
  /\ [play'.db EXCEPT !.bal = play.db.bal] = play.db
  /\ \A e \in Ecos \ Tokens[t] : play'.db.bal[e] = play.db.bal[e]
  /\ \A e \in Tokens[t], k \in Accounts \ {Payer[t]} : play'.db.bal[e][k] >= play.db.bal[e][k]

(* Only a payer who does not have what the contract may have cost keeps    *)
(* all he has, and then the contract changes nothing.                      *)
PoorIsFree(t) ==
  /\ \E e \in Tokens[t] :
       play.db.bal[e][Payer[t]]
         < (Size[t] + Len(Code[t]) + Storage[t]) * cache[play.node]
  /\ play'.db = play.db

(* A contract that fails has no effect but its payment, whole or, where    *)
(* the payer is too poor for it, none (the two savepoints of CallContract, *)
(* smart.go:1017).                                                         *)
FailedOnlyPays == [][
  /\ Ends("failed") => OnlyPays(Head(play.todo))
  /\ Ends("unpaid") => PoorIsFree(Head(play.todo))
  ]_vars

(* A node whose memory was right whenever it played a block, as its        *)
(* generator's was, rejects none of them, unless a transaction pays in two *)
(* tokens: then an order of its own may refuse it (smart.go:988).          *)
ReplayAccepts == [][
  ~ (/\ play.on /\ ~ play.gen /\ play.todo # <<>> /\ ~ play'.on /\ faults' = faults
     /\ play.fair /\ play.node \in agrees /\ chain[Len(undo[play.node]) + 1].fair)
  ]_vars

(* A node cannot roll back a block only where a known gap left its memory  *)
(* wrong, or where a contract of the block failed after it made a column.  *)
JamsOnlyIf == [][
  \A n \in jammed' \ jammed :
    \/ <<n, "vm">> \in stained
    \/ \E i \in DOMAIN Last(undo[n]) :
         /\ Last(undo[n])[i].kind # "ok"
         /\ <<"NewColumn">> \in ToSet(Last(undo[n])[i].log)
  ]_vars

=============================================================================
