------------------------------ MODULE VDEData ------------------------------
(***************************************************************************)
(* The data of a share task on its way from the source node to the         *)
(* destinations: the daemons src/packages/daemons/vde_*data*.go and        *)
(* vde_*hash*.go, and the TCP handlers 100 to 102 they call.  The data go  *)
(* node to node, directly or by an agent; their hashes and the tasks go    *)
(* over the block chain, which the destinations read by the time the       *)
(* senders stamped.  A destination needs all three to accept an item.      *)
(***************************************************************************)
EXTENDS Naturals, FiniteSets, Sequences

CONSTANTS
  Items,      \* data items of the source
  Others,     \* items of other sources, of which only the hashes are seen
  Tasks,      \* share tasks, created as VDETask has it
  TaskOf,     \* the task of an item
  Dests,      \* the destinations of every task
  Parms,      \* parameters a task may have: [ok, hash, agents]
  PageSize,   \* rows in an answer of the chain (the limit of listWhere)
  MaxTime, MaxCopies, MaxFaults    \* bounds of the model

ASSUME DataAssumption ==
  /\ IsFiniteSet(Items) /\ Items \cap Others = {}
  /\ TaskOf \in [Items -> Tasks] /\ IsFiniteSet(Dests)
  /\ Parms \subseteq [ok : BOOLEAN, hash : BOOLEAN, agents : SUBSET Dests]
  /\ {PageSize, MaxTime, MaxCopies, MaxFaults} \subseteq Nat

VARIABLES
  parms,   \* the parameters of the tasks: whether they parse, whether hash_mode
           \* is 1 (hashes go to the chain), the destinations with agent_mode 1
  wrong,   \* items the user stores with a hash that is not that of their data
  data,    \* vde_src_data: data_state by item
  sent,    \* vde_src_data_status: data_send_state by <<item, dest, copy>>
  agent,   \* vde_agent_data: data_send_state by <<item, dest, copy>>
  recv,    \* vde_dest_data: data_state by <<item, dest, copy>>
  verify,  \* vde_dest_data_status: hash_state by <<item, dest, copy>>
  hash,    \* vde_src_data_hash: chain_state and transaction by <<item, copy>>
  got,     \* what a destination keeps of the chain: <<dest, kind, task or item>>
  mark,    \* the create_time up to which it has read, by <<dest, kind>>
  txs,     \* transactions for the chain, by <<kind, task or item, dest, copy>>
  chain,   \* the rows of vde_share_task and vde_share_hash, by kind: the
           \* transactions that made them, in the order of the blocks
  now,     \* the clock that stamps a row when it is posted
  lost,    \* <<dest, row>>: rows that were passed over as they were not stored
  faults   \* how many writes, answers or transactions have failed

vars == <<parms, wrong, data, sent, agent, recv, verify, hash, got, mark, txs, chain,
          now, lost, faults>>

Kinds == {"task", "hash"}
Any   == "any"     \* a hash is not addressed to a destination

With(f, x, v) == [y \in DOMAIN f \cup {x} |-> IF y = x THEN v ELSE f[y]]

Copies(f, i, d) == {k \in DOMAIN f : k[1] = i /\ k[2] = d}
New(f, i, d) == <<i, d, Cardinality(Copies(f, i, d)) + 1>>
InsertAll(f, i, ds) == LET new == {New(f, i, d) : d \in ds} IN
                       [k \in DOMAIN f \cup new |-> IF k \in new THEN 0 ELSE f[k]]
Room(f, k) == Cardinality(Copies(f, k[1], k[2])) < MaxCopies
Insert(f, i, d) == InsertAll(f, i, {d})

Fault == faults < MaxFaults /\ faults' = faults + 1
Sound == UNCHANGED faults

-----------------------------------------------------------------------------
(* The source.                                                             *)

VDESrcDataCreateHandlre(i) ==
  /\ i \in Items \ DOMAIN data
  /\ data' = With(data, i, 0)
  /\ UNCHANGED <<parms, wrong, sent, agent, recv, verify, hash, got, mark, txs, chain, now, lost, faults>>

NewHash(i) ==
  IF ~ parms[TaskOf[i]].hash THEN hash
  ELSE With(hash, <<i, Cardinality({k \in DOMAIN hash : k[1] = i}) + 1>>,
            [chain |-> 0, tx |-> 0])

(* A row for each destination, by an agent or not.                         *)
ForEachDest(i, ds) == InsertAll(sent, i, ds)

(* An item is given up when its task is not valid, as the user may have    *)
(* stopped it, and when its parameters do not parse.  A destination whose  *)
(* row cannot be inserted is passed over; a pass that ends half-way is     *)
(* made again.                                                             *)
VDESrcData(i) ==
  /\ i \in DOMAIN data /\ data[i] = 0
  /\ \/ data' = [data EXCEPT ![i] = 2] /\ Sound /\ UNCHANGED <<sent, hash>>
     \/ /\ ~ parms[TaskOf[i]].ok /\ data' = [data EXCEPT ![i] = 3] /\ Sound
        /\ UNCHANGED <<sent, hash>>
     \/ /\ parms[TaskOf[i]].ok /\ hash' = NewHash(i)
        /\ \/ sent' = ForEachDest(i, Dests) /\ data' = [data EXCEPT ![i] = 1] /\ Sound
           \/ sent' = ForEachDest(i, Dests) /\ UNCHANGED data /\ Fault
           \/ /\ \E d \in Dests : sent' = ForEachDest(i, Dests \ {d})
              /\ data' = [data EXCEPT ![i] = 1] /\ Fault
  /\ UNCHANGED <<parms, wrong, agent, recv, verify, got, mark, txs, chain, now, lost>>

-----------------------------------------------------------------------------
ByAgent(k) == k[2] \in parms[TaskOf[k[1]]].agents

(* From node to node.  The handler of the receiver stores the item and     *)
(* answers with the hash of what it has; the sender compares it.  "0", no  *)
(* answer, leaves the row as it is: it is sent again.                      *)

Type100(i, d) == recv' = Insert(recv, i, d) /\ UNCHANGED agent
Type101(i, d) == agent' = Insert(agent, i, d) /\ UNCHANGED recv
Type102(i, d) == recv' = Insert(recv, i, d)

Compared(i) == IF i \in wrong THEN 2 ELSE 1

\* Mutant: a row without an answer gets a state that no daemon selects.
SendRowGivesUp(k) ==
  /\ \/ sent' = [sent EXCEPT ![k] = Compared(k[1])] /\ Sound
     \/ sent' = [sent EXCEPT ![k] = 3] /\ Fault
  /\ UNCHANGED <<parms, wrong, data, verify, hash, got, mark, txs, chain, now, lost>>

SendRow(k) ==
  /\ \/ sent' = [sent EXCEPT ![k] = Compared(k[1])] /\ Sound
     \/ UNCHANGED sent /\ Fault
  /\ UNCHANGED <<parms, wrong, data, verify, hash, got, mark, txs, chain, now, lost>>

\* Mutant: no answer is taken for a success.
VDESrcDataStatusUnsure(k) ==
  /\ sent[k] = 0 /\ ~ ByAgent(k) /\ sent' = [sent EXCEPT ![k] = 1]
  /\ UNCHANGED <<parms, wrong, data, agent, recv, verify, hash, got, mark, txs, chain, now,
                 lost, faults>>

VDESrcDataStatus(k) ==
  /\ sent[k] = 0 /\ ~ ByAgent(k) /\ Room(recv, k)
  /\ Type100(k[1], k[2]) /\ SendRow(k)

VDESrcDataStatusAgent(k) ==
  /\ sent[k] = 0 /\ ByAgent(k) /\ Room(agent, k)
  /\ Type101(k[1], k[2]) /\ SendRow(k)

VDEAgentData(k) ==
  /\ agent[k] = 0 /\ Room(recv, k)
  /\ Type102(k[1], k[2])
  /\ \/ agent' = [agent EXCEPT ![k] = 1] /\ Sound
     \/ UNCHANGED agent /\ Fault
  /\ UNCHANGED <<parms, wrong, data, sent, verify, hash, got, mark, txs, chain, now, lost>>

-----------------------------------------------------------------------------
(* The chain.  A row of a table of the chain is a transaction in a block.  *)

Post(x) ==
  /\ x[4] \in 1..MaxCopies /\ x \notin DOMAIN txs
  /\ x[4] > 1 => <<x[1], x[2], x[3], x[4] - 1>> \in DOMAIN txs
  /\ txs' = With(txs, x, [time |-> now, st |-> "pool"])

Join(x) == chain' = [chain EXCEPT ![x[1]] = Append(@, x)]

(* Tasks shared by the sources, and hashes of others, reach the chain some *)
(* time after they were posted.                                            *)
OthersPost(x) ==
  /\ x \notin DOMAIN txs
  /\ \E time \in 1..now : txs' = With(txs, x, [time |-> time, st |-> "block"])
  /\ Join(x)
  /\ UNCHANGED <<parms, wrong, data, sent, agent, recv, verify, hash, got, mark, now, lost, faults>>

VDESrcHashUpToChain(k) ==
  /\ hash[k].chain = 0
  /\ \E c \in 1..MaxCopies :
       /\ Post(<<"hash", k[1], Any, c>>)
       /\ \/ hash' = [hash EXCEPT ![k] = [chain |-> 1, tx |-> c]] /\ Sound
          \/ UNCHANGED hash /\ Fault
  /\ UNCHANGED <<parms, wrong, data, sent, agent, recv, verify, got, mark, chain, now, lost>>

VDESrcHashUpToChainState(k) ==
  /\ hash[k].chain = 1 /\ txs[<<"hash", k[1], Any, hash[k].tx>>].st = "block"
  /\ hash' = [hash EXCEPT ![k].chain = 2]
  /\ UNCHANGED <<parms, wrong, data, sent, agent, recv, verify, got, mark, txs, chain, now, lost, faults>>

Mine(x) ==
  /\ txs[x].st = "pool"
  /\ \/ txs' = [txs EXCEPT ![x].st = "block"] /\ Join(x) /\ Sound
     \/ txs' = [txs EXCEPT ![x].st = "bad"] /\ UNCHANGED chain /\ Fault
  /\ UNCHANGED <<parms, wrong, data, sent, agent, recv, verify, hash, got, mark, now, lost>>

Tick ==
  /\ now < MaxTime /\ now' = now + 1
  /\ UNCHANGED <<parms, wrong, data, sent, agent, recv, verify, hash, got, mark, txs, chain, lost, faults>>

-----------------------------------------------------------------------------
(* A destination reads the rows stamped after its mark, a page at a time   *)
(* in the order of the chain, and moves the mark to the last it has kept.  *)

Addressed(x, d) == x[3] \in {d, Any}
Visible(d, kind) == {j \in 1..Len(chain[kind]) :
    /\ Addressed(chain[kind][j], d)
    /\ txs[chain[kind][j]].time > mark[<<d, kind>>]}

\* Mutant: the newest rows come first.
PageNewest(rows) == {j \in rows : Cardinality({i \in rows : i > j}) < PageSize}

Page(rows) == {j \in rows : Cardinality({i \in rows : i < j}) < PageSize}

(* The rows that are stored, of a page, and the row whose stamp is kept.   *)
Store(d, kind, rows) == got' = got \cup {<<d, kind, chain[kind][j][2]>> : j \in rows}
Keep(d, kind, page, rows, last) ==
  /\ Store(d, kind, rows)
  /\ mark' = [mark EXCEPT ![<<d, kind>>] = txs[chain[kind][last]].time]
  /\ lost' = lost \cup {<<d, chain[kind][j]>> : j \in {i \in page : i <= last} \ rows}
KeepNot(d, kind, rows) == Store(d, kind, rows) /\ UNCHANGED <<mark, lost>>

IsLast(j, page) == j \in page /\ \A i \in page : i <= j

(* An insert that fails is passed over, and so is a row that does not      *)
(* decrypt unless it is the last.                                          *)
VDEDestTaskGetFromChain(d) ==
  LET page == Page(Visible(d, "task"))
      KeepTo(rows, last) == Keep(d, "task", page, rows, last)
  IN
  /\ \E last \in page :
       /\ IsLast(last, page)
       /\ \/ KeepTo(page, last) /\ Sound
          \/ KeepNot(d, "task", page) /\ Fault
          \/ \E j \in page : KeepTo(page \ {j}, last) /\ Fault
          \/ \E j \in page : IsLast(j, page \ {last}) /\ KeepTo(page \ {last}, j) /\ Fault
          \/ page = {last} /\ KeepNot(d, "task", {}) /\ Fault
  /\ UNCHANGED <<parms, wrong, data, sent, agent, recv, verify, hash, txs, chain, now>>

(* An insert that fails ends the pass.                                     *)
VDEDestDataHashGetFromChain(d) ==
  LET page == Page(Visible(d, "hash"))
      KeepUpTo(last) == Keep(d, "hash", page, {i \in page : i <= last}, last)
  IN
  /\ \E last \in page :
       \/ IsLast(last, page) /\ KeepUpTo(last) /\ Sound
       \/ IsLast(last, page) /\ KeepNot(d, "hash", page) /\ Fault
       \/ ~ IsLast(last, page) /\ KeepUpTo(last) /\ Fault
       \/ KeepNot(d, "hash", {}) /\ Fault
  /\ UNCHANGED <<parms, wrong, data, sent, agent, recv, verify, hash, txs, chain, now>>

-----------------------------------------------------------------------------
(* The destination waits for the task of an item, then for its hash.       *)

(* An item whose task does not put its hashes on the chain is not compared. *)
HashState(t) == IF parms[t].hash THEN 0 ELSE 3

\* Mutant: an item whose task is not there is given up.
VDEDestDataGivesUp(k) ==
  LET t == TaskOf[k[1]]
      there == <<k[2], "task", t>> \in got /\ parms[t].ok
  IN
  /\ recv[k] = 0 /\ recv' = [recv EXCEPT ![k] = IF there THEN 1 ELSE 3]
  /\ verify' = IF there THEN With(verify, New(verify, k[1], k[2]),
                                  HashState(t))
               ELSE verify
  /\ UNCHANGED <<parms, wrong, data, sent, agent, hash, got, mark, txs, chain, now, lost, faults>>

VDEDestData(k) ==
  LET t == TaskOf[k[1]] IN
  /\ recv[k] = 0 /\ <<k[2], "task", t>> \in got
  /\ \/ /\ ~ parms[t].ok /\ recv' = [recv EXCEPT ![k] = 3] /\ UNCHANGED verify /\ Sound
     \/ /\ parms[t].ok /\ Room(verify, k)
        /\ verify' = With(verify, New(verify, k[1], k[2]),
                          HashState(t))
        /\ \/ recv' = [recv EXCEPT ![k] = 1] /\ Sound
           \/ UNCHANGED recv /\ Fault
  /\ UNCHANGED <<parms, wrong, data, sent, agent, hash, got, mark, txs, chain, now, lost>>

\* Mutant: a hash that is not found is no objection.
HashFoundOrNot(k) == TRUE

HashFound(k) == <<k[2], "hash", k[1]>> \in got

VDEDestDataStatus(k) ==
  /\ verify[k] = 0 /\ HashFound(k)
  /\ verify' = [verify EXCEPT ![k] = Compared(k[1])]
  /\ UNCHANGED <<parms, wrong, data, sent, agent, recv, hash, got, mark, txs, chain, now, lost, faults>>

-----------------------------------------------------------------------------
Init ==
  /\ parms \in [Tasks -> Parms] /\ wrong \in SUBSET Items
  /\ data = <<>> /\ sent = <<>> /\ agent = <<>> /\ recv = <<>> /\ verify = <<>>
  /\ hash = <<>> /\ got = {} /\ mark = [k \in Dests \X Kinds |-> 0]
  /\ txs = <<>> /\ chain = [k \in Kinds |-> <<>>] /\ now = 1 /\ lost = {} /\ faults = 0

SendData(k)  == VDESrcDataStatus(k) \/ VDESrcDataStatusAgent(k)
PostHash(k)  == VDESrcHashUpToChain(k) \/ VDESrcHashUpToChainState(k)
ReadChain(d) == VDEDestTaskGetFromChain(d) \/ VDEDestDataHashGetFromChain(d)

Environment ==
  \/ \E i \in Items : VDESrcDataCreateHandlre(i)
  \/ \E t \in Tasks, d \in Dests : OthersPost(<<"task", t, d, 1>>)
  \/ \E o \in Others : OthersPost(<<"hash", o, Any, 1>>)
  \/ Tick

Daemons ==
  \/ \E i \in Items : VDESrcData(i)
  \/ \E k \in DOMAIN sent : SendData(k)
  \/ \E k \in DOMAIN agent : VDEAgentData(k)
  \/ \E k \in DOMAIN hash : PostHash(k)
  \/ \E x \in DOMAIN txs : Mine(x)
  \/ \E d \in Dests : ReadChain(d)
  \/ \E k \in DOMAIN recv : VDEDestData(k)
  \/ \E k \in DOMAIN verify : VDEDestDataStatus(k)

Next == Environment \/ Daemons

(* The daemons do not stop as long as one of them, or the chain, has work  *)
(* to do: less than what their loops give, and enough, as none of them can *)
(* go on for ever by itself.                                               *)
Fairness == WF_vars(Daemons)

Spec == Init /\ [][Next]_vars /\ Fairness

-----------------------------------------------------------------------------
States(f, S, n) == DOMAIN f \subseteq S /\ \A k \in DOMAIN f : f[k] \in 0..n

(* The rows of every table hold values the daemons know.                   *)
TypeOK ==
  /\ parms \in [Tasks -> Parms] /\ wrong \subseteq Items /\ States(data, Items, 3)
  /\ \A f \in {sent, agent} : States(f, Items \X Dests \X (Nat \ {0}), 2)
  /\ \A f \in {recv, verify} : States(f, Items \X Dests \X (Nat \ {0}), 3)
  /\ DOMAIN hash \subseteq Items \X (Nat \ {0})
  /\ \A k \in DOMAIN hash : hash[k] \in [chain : 0..2, tx : 0..MaxCopies]
  /\ got \subseteq Dests \X Kinds \X (Tasks \cup Items \cup Others)
  /\ mark \in [Dests \X Kinds -> Nat] /\ {now, faults} \subseteq Nat
  /\ \A x \in DOMAIN txs : txs[x] \in [time : Nat, st : {"pool", "block", "bad"}]
  /\ chain \in [Kinds -> Seq(DOMAIN txs)]

(* What a sender's row says has arrived is stored at the receiver: at the  *)
(* destination, or at the agent on the way to it.                          *)
SentIsStored ==
  /\ \A k \in DOMAIN sent : sent[k] \in {1, 2} =>
       Copies(IF ByAgent(k) THEN agent ELSE recv, k[1], k[2]) # {}
  /\ \A k \in DOMAIN agent : agent[k] = 1 => Copies(recv, k[1], k[2]) # {}

(* An item passes or fails the comparison of hashes for what the source    *)
(* has put on the chain, and an item with the right hash never fails it.   *)
VerifiedByChain ==
  \A k \in DOMAIN verify : verify[k] \in {1, 2} =>
    /\ parms[TaskOf[k[1]]].hash
    /\ \E i \in 1..Len(chain["hash"]) : chain["hash"][i][2] = k[1]
    /\ verify[k] = 2 <=> k[1] \in wrong

(* A destination follows the chain by the time the senders stamped: a row  *)
(* stamped later than all those meant for it before it on the chain is     *)
(* passed over only when it is a task that cannot be stored: a hash is     *)
(* asked for again.                                                        *)
InOrderRowArrives ==
  \A d \in Dests, kind \in Kinds : \A j \in 1..Len(chain[kind]) :
    LET rows == chain[kind]
        x == rows[j]
    IN
    (/\ Addressed(x, d) /\ txs[x].time <= mark[<<d, kind>>]
     /\ kind = "task" => <<d, x>> \notin lost
     /\ \A i \in 1..(j - 1) : Addressed(rows[i], d) => txs[rows[i]].time < txs[x].time)
    => <<d, kind, x[2]>> \in got

(* An item that is sent out gets a verdict at each destination: unless the *)
(* destination was passed over by the source, or the task, its hash or the *)
(* mark of the destination kept it from one of them.                       *)
Missed(d, kind, y) ==
  /\ <<d, kind, y>> \notin got
  /\ \E x \in DOMAIN txs :
       /\ x[1] = kind /\ Addressed(x, d) /\ x[2] = y
       /\ txs[x].st = "bad" \/ txs[x].time <= mark[<<d, kind>>]
Verdict(i, d) ==
  \/ \E k \in DOMAIN verify : k[1] = i /\ k[2] = d /\ verify[k] # 0
  \/ Copies(sent, i, d) = {}
  \/ Missed(d, "task", TaskOf[i]) \/ Missed(d, "hash", i)
  \/ <<"task", TaskOf[i], d, 1>> \notin DOMAIN txs
DataIsJudged ==
  \A i \in Items, d \in Dests :
    (i \in DOMAIN data /\ data[i] = 1) ~> (i \in DOMAIN data /\ Verdict(i, d))

=============================================================================
