------------------------------ MODULE VDETask ------------------------------
(***************************************************************************)
(* The life of a share task among the off-chain (VDE) nodes: the daemons   *)
(* of src/packages/daemons/vde_*task*.go.  A task is created at its source *)
(* node or at the scheduling node, its contract is installed, a request is *)
(* made for each receiver and posted to the block chain, the receivers     *)
(* read the chain, and the source runs the task's contract.  Every daemon  *)
(* polls a table for rows in one state and writes the rows back in the     *)
(* next; nothing but those columns ties the daemons together.              *)
(***************************************************************************)
EXTENDS Naturals, FiniteSets, Sequences

CONSTANTS
  SrcTasks,   \* tasks created at the source node (contract_mode 1 or 3)
  ScheTasks,  \* tasks created at the scheduling node (contract_mode 2 or 4)
  OneTime,    \* the tasks of task_type 1; the others, of type 2, run for ever
  Src,        \* the source node, by its public key
  Dests,      \* the destination nodes named in the parameters of every task
  Auths,      \* <<task, node>>: the receivers authorised afterwards
  MaxTasks, MaxRuns, MaxCopies,   \* bounds of the model
  MaxTroubles                     \* bound of the forms and failures together

Tasks     == SrcTasks \cup ScheTasks
Receivers == {Src} \cup Dests
Nodes     == Receivers \cup {a[2] : a \in Auths}

ASSUME TaskAssumption ==
  /\ SrcTasks \cap ScheTasks = {} /\ OneTime \subseteq Tasks
  /\ Src \notin Dests /\ IsFiniteSet(Dests)
  /\ Auths \subseteq SrcTasks \X (Nodes \ Receivers)
  /\ {MaxTasks, MaxRuns, MaxCopies, MaxTroubles} \subseteq Nat

VARIABLES
  task,   \* rows of vde_src_task and vde_sche_task, by task
  held,   \* rows read and not yet written back, by <<daemon, key>>
  auth,   \* rows of vde_src_task_auth, by <<task, node>>
  req,    \* rows of the two chain_status tables, by <<task, node, copy>>
  runs,   \* rows of vde_src_task_status and vde_src_task_from_sche_status
  got,    \* rows of vde_src_task_from_sche, by task
  txs,    \* the fates of the transactions posted, by <<what, task, node, copy>>
  orders, \* how many forms the users have sent
  faults  \* how many writes, answers or transactions have failed

vars == <<task, held, auth, req, runs, got, txs, orders, faults>>

With(f, x, v) == [y \in DOMAIN f \cup {x} |-> IF y = x THEN v ELSE f[y]]
Without(f, x) == [y \in DOMAIN f \ {x} |-> f[y]]

(* A row as it is inserted: contract_state_src, contract_state_dest,       *)
(* task_run_state, chain_state and task_state.                             *)
NewRow == [src |-> 0, dest |-> 0, run |-> 0, chain |-> 0, state |-> 1]

(* gorm's Updates(struct) writes every column of the row the daemon holds  *)
(* that is not zero, the ones it has not changed included.                 *)
\* Mutant: the columns that are zero are written too.
UpdatesAll(row, item) == item

Updates(row, item) ==
  [c \in DOMAIN row |-> IF item[c] = 0 THEN row[c] ELSE item[c]]

Fault == orders + faults < MaxTroubles /\ faults' = faults + 1
Sound == UNCHANGED faults

Posted(what, t, n) == {x \in DOMAIN txs : x[1] = what /\ x[2] = t /\ x[3] = n}
InBlock(what, t, n) == \E x \in Posted(what, t, n) : txs[x] = "block"
OnChain(t, n) == InBlock("share", t, n)

-----------------------------------------------------------------------------
(* Users: the API of the node creates a task and takes forms that change   *)
(* it.                                                                     *)

Create(t) ==
  /\ t \in Tasks \ DOMAIN task /\ Cardinality(DOMAIN task) < MaxTasks
  /\ task' = With(task, t, NewRow)
  /\ UNCHANGED <<held, auth, req, runs, got, txs, orders, faults>>

(* A form has every column of the row, and those that are not zero are     *)
(* written, the daemons' columns included.  A user may have filled it from *)
(* the row as it was long ago; it says of the chain only what is so.  To   *)
(* leave a column out is to write what the row has anyway, and a form that *)
(* changes nothing is no step.                                             *)
Forms(t, row) ==
  [src : {row.src}, dest : {row.dest}, state : {1, 2},
   run : {r \in 0..3 : /\ r = 0 <=> row.run = 0
                       /\ r = 1 => InBlock("run", t, Src)},
   chain : {c \in 0..2 : /\ c = 0 <=> row.chain = 0
                         /\ c = 2 => \A n \in Receivers : OnChain(t, n)}]

SendForm ==
  /\ orders + faults < MaxTroubles /\ orders' = orders + 1
  /\ UNCHANGED <<held, auth, req, runs, txs, faults>>

UpdateTask(t) ==
  /\ t \in DOMAIN task
  /\ \E form \in Forms(t, task[t]) : task' = [task EXCEPT ![t] = Updates(@, form)]
  /\ task' # task /\ SendForm /\ UNCHANGED got

VDESrcTaskUpdateHandlre(t)  == t \in SrcTasks /\ UpdateTask(t)
VDEScheTaskUpdateHandlre(t) == t \in ScheTasks /\ UpdateTask(t)
VDESrcTaskFromScheUpdateHandlre(t) ==
  /\ t \in DOMAIN got
  /\ \E form \in Forms(t, got[t]) : got' = [got EXCEPT ![t] = Updates(@, form)]
  /\ got' # got /\ SendForm /\ UNCHANGED task

Authorise(a) ==
  /\ a \in Auths \ DOMAIN auth /\ a[1] \in DOMAIN task
  /\ auth' = With(auth, a, 0)
  /\ UNCHANGED <<task, held, req, runs, got, txs, orders, faults>>

-----------------------------------------------------------------------------
(* A daemon reads a row, works on it and writes it back.                   *)

Read(d, t, row) ==
  /\ <<d, t>> \notin DOMAIN held
  /\ held' = With(held, <<d, t>>, row)

WriteTask(d, t, col, val) ==
  /\ <<d, t>> \in DOMAIN held
  /\ held' = Without(held, <<d, t>>)
  /\ task' = [task EXCEPT ![t] = Updates(@, [held[<<d, t>>] EXCEPT ![col] = val])]

(* The write fails, or the node restarts first: the row stays as it was.   *)
WriteFails(k) ==
  /\ k \in DOMAIN held /\ Fault
  /\ held' = Without(held, k)
  /\ UNCHANGED <<task, auth, req, runs, got, txs, orders>>

(* Installing the contract of a task on the node it runs on: one try.      *)
Install(t, col) ==
  \/ /\ t \in DOMAIN task /\ task[t][col] = 0
     /\ Read(col, t, task[t])
     /\ UNCHANGED <<task, auth, req, runs, got, txs, orders, faults>>
  \/ /\ \E r \in {1, 2} : WriteTask(col, t, col, r)
     /\ UNCHANGED <<auth, req, runs, got, txs, orders, faults>>

VDESrcTaskInstallContractSrc(t)   == t \in SrcTasks  /\ Install(t, "src")
VDEScheTaskInstallContractSrc(t)  == t \in ScheTasks /\ Install(t, "src")
VDEScheTaskInstallContractDest(t) == t \in ScheTasks /\ Install(t, "dest")

(* A task of the scheduling node needs both of its contracts.              *)
Installed(t, row) == row.src = 1 /\ (row.dest = 1 <=> t \in ScheTasks)

-----------------------------------------------------------------------------
(* Requests: one row per receiver, and again all of them when one failed.  *)

Copies(t, n) == Cardinality({k \in DOMAIN req : k[1] = t /\ k[2] = n})

\* Mutant: a request is made without the state of the contract.
NewRequestsPlain(t, ns, inst) ==
  [k \in DOMAIN req \cup {<<t, n, Copies(t, n) + 1>> : n \in ns} |->
     IF k \in DOMAIN req THEN req[k]
     ELSE [inst |-> FALSE, chain |-> 0, tx |-> 0]]

NewRequests(t, ns, inst) ==
  [k \in DOMAIN req \cup {<<t, n, Copies(t, n) + 1>> : n \in ns} |->
     IF k \in DOMAIN req THEN req[k]
     ELSE [inst |-> inst, chain |-> 0, tx |-> 0]]

(* An insert that fails ends in another pass over the task; a receiver the *)
(* contract cannot be encrypted for is passed over in silence.             *)
ChainStatus(t) ==
  \/ /\ t \in DOMAIN task /\ Installed(t, task[t]) /\ task[t].chain = 0
     /\ <<"chain", t>> \notin DOMAIN held
     /\ \/ /\ req' = NewRequests(t, Receivers, TRUE)
           /\ Read("chain", t, task[t]) /\ Sound
        \/ \E d \in Dests :
             /\ req' = NewRequests(t, Receivers \ {d}, TRUE) /\ Fault
             /\ UNCHANGED held \/ Read("chain", t, task[t])
     /\ UNCHANGED <<task, auth, runs, got, txs, orders>>
  \/ /\ WriteTask("chain", t, "chain", 1)
     /\ UNCHANGED <<auth, req, runs, got, txs, orders, faults>>

VDESrcTaskChainStatus(t)  == t \in SrcTasks  /\ ChainStatus(t)
VDEScheTaskChainStatus(t) == t \in ScheTasks /\ ChainStatus(t)

(* The state daemons look for a request that reached the chain.            *)
\* Mutant: a request that is posted counts.
ReachedPosted(t, n) ==
  \E k \in DOMAIN req : k[1] = t /\ k[2] = n /\ req[k].chain \in {1, 2}

Reached(t, n) == \E k \in DOMAIN req : /\ k[1] = t /\ k[2] = n /\ req[k].chain = 2

ChainStatusState(t) ==
  \/ /\ t \in DOMAIN task /\ Installed(t, task[t]) /\ task[t].chain = 1
     /\ \A n \in Receivers : Reached(t, n)
     /\ Read("chainState", t, task[t])
     /\ UNCHANGED <<task, auth, req, runs, got, txs, orders, faults>>
  \/ /\ WriteTask("chainState", t, "chain", 2)
     /\ UNCHANGED <<auth, req, runs, got, txs, orders, faults>>

VDESrcTaskChainStatusState(t)  == t \in SrcTasks  /\ ChainStatusState(t)
VDEScheTaskChainStatusState(t) == t \in ScheTasks /\ ChainStatusState(t)

(* A receiver authorised later gets a request of its own, with the         *)
(* contract state the task has when the row is made.                       *)
VDESrcTaskAuthChainStatus(a) ==
  /\ a \in DOMAIN auth /\ auth[a] = 0
  /\ req' = NewRequests(a[1], {a[2]}, Installed(a[1], task[a[1]]))
  /\ \/ Sound /\ auth' = [auth EXCEPT ![a] = 1]
     \/ Fault /\ UNCHANGED auth
  /\ UNCHANGED <<task, held, runs, got, txs, orders>>

VDESrcTaskAuthChainStatusState(a) ==
  /\ a \in DOMAIN auth /\ auth[a] = 1 /\ Reached(a[1], a[2])
  /\ auth' = [auth EXCEPT ![a] = 2]
  /\ UNCHANGED <<task, held, req, runs, got, txs, orders, faults>>

-----------------------------------------------------------------------------
(* The chain.  VDEPostTxResult sends a transaction and does not wait; an   *)
(* answer that is lost leaves the caller without the hash.                 *)

VDEPostTxResult(what, t, n, c) ==
  /\ c \in 1..MaxCopies /\ <<what, t, n, c>> \notin DOMAIN txs
  /\ c > 1 => <<what, t, n, c - 1>> \in DOMAIN txs
  /\ txs' = With(txs, <<what, t, n, c>>, "pool")

(* VDEWaitTx: a block, an error, or nothing yet.                           *)
VDEWaitTx(x) == IF txs[x] = "pool" THEN "timeout" ELSE txs[x]

Mine(x) ==
  /\ txs[x] = "pool"
  /\ \/ txs' = [txs EXCEPT ![x] = "block"] /\ Sound
     \/ txs' = [txs EXCEPT ![x] = "bad"] /\ Fault
  /\ UNCHANGED <<task, held, auth, req, runs, got, orders>>

(* Posting a request: a row not marked as posted is posted again.          *)
UpToChain(k) ==
  /\ k \in DOMAIN req /\ req[k].chain = 0 /\ req[k].inst
  /\ \E c \in 1..MaxCopies :
       /\ VDEPostTxResult("share", k[1], k[2], c)
       /\ \/ Sound /\ req' = [req EXCEPT ![k].chain = 1, ![k].tx = c]
          \/ Fault /\ UNCHANGED req
  /\ UNCHANGED <<task, held, auth, runs, got, orders>>

\* Mutant: a failed request gets the state that a failed run has.
UpToChainStateFails(k) ==
  /\ k \in DOMAIN req /\ req[k].chain = 1
  /\ VDEWaitTx(<<"share", k[1], k[2], req[k].tx>>) = "bad"
  /\ req' = [req EXCEPT ![k].chain = 3]
  /\ UNCHANGED <<task, held, auth, runs, got, txs, orders, faults>>

(* A failed transaction leaves the row as it is, with the error in it.     *)
UpToChainState(k) ==
  /\ k \in DOMAIN req /\ req[k].chain = 1
  /\ VDEWaitTx(<<"share", k[1], k[2], req[k].tx>>) = "block"
  /\ req' = [req EXCEPT ![k].chain = 2]
  /\ UNCHANGED <<task, held, auth, runs, got, txs, orders, faults>>

VDESrcTaskUpToChain(k)       == k[1] \in SrcTasks  /\ UpToChain(k)
VDEScheTaskUpToChain(k)      == k[1] \in ScheTasks /\ UpToChain(k)
VDESrcTaskUpToChainState(k)  == k[1] \in SrcTasks  /\ UpToChainState(k)
VDEScheTaskUpToChainState(k) == k[1] \in ScheTasks /\ UpToChainState(k)

-----------------------------------------------------------------------------
(* The source reads a share of a task of the scheduling node (VDEData *)
(* has the order it reads them in).  A task it has is updated, but for     *)
(* task_run_state, which a share lacks; an insert that fails is passed     *)
(* over, and another copy of the share may bring the task again.           *)
VDESrcTaskScheGetFromChain(t) ==
  /\ t \in ScheTasks /\ OnChain(t, Src)
  /\ got' = IF t \in DOMAIN got THEN [got EXCEPT ![t] = Updates(@, NewRow)]
            ELSE With(got, t, NewRow)
  /\ UNCHANGED <<task, held, auth, req, runs, txs, orders, faults>>

-----------------------------------------------------------------------------
(* Running a task at the source: a request row, the transaction, its fate. *)

AtSource(t)  == IF t \in SrcTasks THEN t \in DOMAIN task ELSE t \in DOMAIN got
RunRow(t)    == IF t \in SrcTasks THEN task[t] ELSE got[t]

WriteRun(t, item) ==
  IF t \in SrcTasks THEN /\ task' = [task EXCEPT ![t] = Updates(@, item)]
                         /\ UNCHANGED got
                    ELSE /\ got' = [got EXCEPT ![t] = Updates(@, item)]
                         /\ UNCHANGED task

(* GetOneTimeTasks and GetScheTimeTasks.                                   *)
\* Mutants: the chain state is not compared; a one-time task is due again.
DueUnshared(t) ==
  /\ RunRow(t).state = 1 /\ t \in SrcTasks => Installed(t, RunRow(t))
  /\ IF t \in OneTime THEN RunRow(t).run = 0 ELSE RunRow(t).run # 3
DueAgain(t) ==
  /\ RunRow(t).state = 1 /\ RunRow(t).run # 3
  /\ t \in SrcTasks => RunRow(t).chain = 2

Due(t) ==
  LET row == RunRow(t) IN
  /\ row.state = 1
  /\ IF t \in SrcTasks THEN Installed(t, row) /\ row.chain = 2
                       ELSE row.src = 0 /\ row.dest = 0
  /\ IF t \in OneTime THEN row.run = 0 ELSE row.run # 3

TaskStatus(t) ==
  \/ /\ AtSource(t) /\ Due(t) /\ Len(runs) < MaxRuns
     /\ Read("status", t, RunRow(t))
     /\ runs' = Append(runs, [task |-> t, chain |-> 0, tx |-> 0])
     /\ UNCHANGED <<task, auth, req, got, txs, orders, faults>>
  \/ /\ <<"status", t>> \in DOMAIN held
     /\ held' = Without(held, <<"status", t>>)
     /\ WriteRun(t, [held[<<"status", t>>] EXCEPT !.run = 3])
     /\ UNCHANGED <<auth, req, runs, txs, orders, faults>>

VDESrcTaskStatus(t)         == t \in SrcTasks  /\ TaskStatus(t)
VDESrcTaskFromScheStatus(t) == t \in ScheTasks /\ TaskStatus(t)

(* An error of the post ends the run, though the transaction may be on its *)
(* way; a row that is not marked as sent is sent again.                    *)
StatusRun(i) ==
  LET Sent(c) == VDEPostTxResult("run", runs[i].task, Src, c) IN
  /\ runs[i].chain = 0
  /\ \/ \E c \in 1..MaxCopies :
          Sent(c) /\ runs' = [runs EXCEPT ![i].chain = 1, ![i].tx = c] /\ Sound
     \/ (\E c \in 1..MaxCopies : Sent(c)) /\ UNCHANGED runs /\ Fault
     \/ /\ UNCHANGED txs \/ \E c \in 1..MaxCopies : Sent(c)
        /\ runs' = [runs EXCEPT ![i].chain = 3] /\ Fault
  /\ UNCHANGED <<task, held, auth, req, got, orders>>

VDESrcTaskStatusRun(i)         == runs[i].task \in SrcTasks  /\ StatusRun(i)
VDESrcTaskFromScheStatusRun(i) == runs[i].task \in ScheTasks /\ StatusRun(i)

(* The row of the task is read before the wait; the two rows are written   *)
(* one after the other, and the second may not be.  An answer that is lost *)
(* counts as a failure.                                                    *)
StatusRunState(i) ==
  LET t   == runs[i].task
      key == <<"runState", i>>
      tx  == <<"run", t, Src, runs[i].tx>>
      Ends(chain) == runs' = [runs EXCEPT ![i].chain = chain]
      Shows(run)  == WriteRun(t, [held[key] EXCEPT !.run = run])
  IN
  \/ /\ runs[i].chain = 1 /\ AtSource(t)
     /\ Read("runState", i, RunRow(t))
     /\ UNCHANGED <<task, auth, req, runs, got, txs, orders, faults>>
  \/ /\ key \in DOMAIN held
     /\ held' = Without(held, key)
     /\ \/ VDEWaitTx(tx) = "timeout" /\ Sound /\ UNCHANGED <<task, got, runs>>
        \/ VDEWaitTx(tx) = "block" /\ Ends(2) /\ Sound /\ Shows(1)
        \/ VDEWaitTx(tx) = "block" /\ Ends(2) /\ Fault /\ UNCHANGED <<task, got>>
        \/ VDEWaitTx(tx) = "bad" /\ Ends(3) /\ Sound /\ Shows(2)
        \/ Ends(3) /\ Fault /\ (Shows(2) \/ UNCHANGED <<task, got>>)
     /\ UNCHANGED <<auth, req, txs, orders>>

VDESrcTaskStatusRunState(i)         == runs[i].task \in SrcTasks  /\ StatusRunState(i)
VDESrcTaskFromScheStatusRunState(i) == runs[i].task \in ScheTasks /\ StatusRunState(i)

-----------------------------------------------------------------------------
Init ==
  /\ task = <<>> /\ held = <<>> /\ auth = <<>> /\ req = <<>>
  /\ runs = <<>> /\ got = <<>> /\ txs = <<>>
  /\ orders = 0 /\ faults = 0

User ==
  \/ \E t \in Tasks : Create(t)
  \/ \E t \in Tasks : \/ VDESrcTaskUpdateHandlre(t) \/ VDEScheTaskUpdateHandlre(t)
                      \/ VDESrcTaskFromScheUpdateHandlre(t)
  \/ \E a \in Auths : Authorise(a)

ShareTask(t) ==
  \/ VDESrcTaskInstallContractSrc(t) \/ VDESrcTaskChainStatus(t)
  \/ VDESrcTaskChainStatusState(t)
  \/ VDEScheTaskInstallContractSrc(t) \/ VDEScheTaskInstallContractDest(t)
  \/ VDEScheTaskChainStatus(t) \/ VDEScheTaskChainStatusState(t)

ShareAuth(a) == VDESrcTaskAuthChainStatus(a) \/ VDESrcTaskAuthChainStatusState(a)

PostRequest(k) ==
  \/ VDESrcTaskUpToChain(k) \/ VDESrcTaskUpToChainState(k)
  \/ VDEScheTaskUpToChain(k) \/ VDEScheTaskUpToChainState(k)

StartRun(t) == VDESrcTaskStatus(t) \/ VDESrcTaskFromScheStatus(t)

FollowRun(i) ==
  \/ VDESrcTaskStatusRun(i) \/ VDESrcTaskFromScheStatusRun(i)
  \/ VDESrcTaskStatusRunState(i) \/ VDESrcTaskFromScheStatusRunState(i)

Daemons ==
  \/ \E t \in Tasks : ShareTask(t) \/ StartRun(t)
  \/ \E a \in Auths : ShareAuth(a)
  \/ \E k \in DOMAIN req : PostRequest(k)
  \/ \E t \in ScheTasks : VDESrcTaskScheGetFromChain(t)
  \/ \E i \in DOMAIN runs : FollowRun(i)
  \/ \E x \in DOMAIN txs : Mine(x)

Next ==
  \/ User \/ Daemons
  \/ \E k \in DOMAIN held : WriteFails(k)

(* Each daemon runs in a loop of its own, and the chain mines what it gets. *)
Fairness ==
  /\ \A t \in Tasks : WF_vars(ShareTask(t))
  /\ WF_vars(\E k \in DOMAIN req : PostRequest(k))
  /\ WF_vars(\E x \in DOMAIN txs : Mine(x))

Spec == Init /\ [][Next]_vars /\ Fairness

-----------------------------------------------------------------------------
(* The rows of every table hold values the daemons know.                   *)
Row == [src : 0..2, dest : 0..2, run : 0..3, chain : 0..2, state : 1..2]
TypeOK ==
  /\ DOMAIN task \subseteq Tasks /\ \A t \in DOMAIN task : task[t] \in Row
  /\ \A k \in DOMAIN held : held[k] \in Row
  /\ DOMAIN auth \subseteq Auths /\ \A a \in DOMAIN auth : auth[a] \in 0..2
  /\ DOMAIN req \subseteq Tasks \X Nodes \X (Nat \ {0})
  /\ \A k \in DOMAIN req : req[k] \in [inst : BOOLEAN, chain : 0..2, tx : 0..MaxCopies]
  /\ runs \in Seq([task : Tasks, chain : 0..3, tx : 0..MaxCopies])
  /\ DOMAIN got \subseteq Tasks /\ \A k \in DOMAIN got : got[k] \in Row
  /\ DOMAIN txs \subseteq {"share", "run"} \X Tasks \X Nodes \X (1..MaxCopies)
  /\ \A x \in DOMAIN txs : txs[x] \in {"pool", "block", "bad"}
  /\ {orders, faults} \subseteq Nat

(* What the tables show as on the chain is there: a shared task, for every *)
(* receiver, a shared authorisation, and the run of a task that has run.   *)
(* The daemons that get it there work on other tables and on rows read     *)
(* long before.                                                            *)
ChainStateTrue ==
  /\ \A t \in DOMAIN task : task[t].chain = 2 => \A n \in Receivers : OnChain(t, n)
  /\ \A a \in DOMAIN auth : auth[a] = 2 => OnChain(a[1], a[2])
  /\ \A t \in Tasks : AtSource(t) /\ RunRow(t).run = 1 => InBlock("run", t, Src)

(* No contract of a task is run before the chain has the shares its        *)
(* receivers need: all of them, or for a task of the scheduling node the   *)
(* one of the source that runs it.                                         *)
NoRunBeforeShared ==
  \A t \in Tasks : Posted("run", t, Src) # {} =>
    IF t \in SrcTasks THEN \A n \in Receivers : OnChain(t, n) ELSE OnChain(t, Src)

(* A failed write or a lost answer repeats work, and nothing else does:    *)
(* a receiver is sent a share, and a one-time task is run, once and once   *)
(* more for each failure.                                                  *)
OnceUnlessFault ==
  /\ \A t \in Tasks, n \in Nodes :
       Cardinality(Posted("share", t, n)) <= 1 + faults
  /\ \A t \in OneTime :
       Cardinality(Posted("run", t, Src)) <= 1 + faults

(* Rows are written back whole and late, yet nothing that was done is      *)
(* undone: an installed contract stays so, a request or a run that was     *)
(* made is not made again, and the chain state grows, unless a user sends  *)
(* a form with an older one.                                               *)
NeverBack ==
  [][\A t \in DOMAIN task : /\ task[t].chain # 0 => task'[t].chain # 0
                            /\ orders' = 0 => task'[t].chain >= task[t].chain
                            /\ task[t].src # 0 => task'[t].src = task[t].src
                            /\ task[t].dest # 0 => task'[t].dest = task[t].dest
                            /\ task[t].run # 0 => task'[t].run # 0]_vars

(* A task that the user stops is stopped until the user changes it again.  *)
StopHolds ==
  [][\A t \in DOMAIN task :
       task[t].state = 2 /\ orders' = orders => task'[t].state = 2]_vars

(* A task gets to its receivers, unless its contract cannot be installed,  *)
(* one of its transactions is refused or a receiver was passed over.       *)
Shared(t) ==
  \/ task[t].chain = 2 \/ task[t].src = 2 \/ task[t].dest = 2
  \/ \E x \in DOMAIN txs : x[2] = t /\ txs[x] = "bad"
  \/ /\ task[t].chain = 1
     /\ \E n \in Receivers : ~\E k \in DOMAIN req : k[1] = t /\ k[2] = n
TaskIsShared ==
  \A t \in Tasks : (t \in DOMAIN task) ~> (t \in DOMAIN task /\ Shared(t))

=============================================================================
