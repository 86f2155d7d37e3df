--------------------------- MODULE VDETask_proofs ---------------------------
(***************************************************************************)
(* Proofs about VDETask, for any tasks, destinations, authorisations and   *)
(* bounds, any number of failures and any order of the daemons.            *)
(*                                                                         *)
(* ChainStateTrue and NoRunBeforeShared are not inductive: what a table    *)
(* says of the chain comes from a row that was read long before (held),    *)
(* from the rows of the requests (req) and from the runs that wait for     *)
(* their transactions (runs).  IInv says of each of them what the daemon   *)
(* that uses it relies on.  All of it is kept by every step because what   *)
(* is in a block stays there (Grows, GrowsKeeps).                          *)
(*                                                                         *)
(* The second part compares the rows the daemons hold with the rows of the *)
(* tables, and counts how often anything is sent.                          *)
(*                                                                         *)
(* A daemon writes a row back whole and late.  What it has of a column is  *)
(* nothing or what the table still has (or, once a user has sent a form,   *)
(* another chain state), and the column it is about to set no other daemon *)
(* sets before it (LateInv): that is why nothing goes back (NeverBack).    *)
(* What is still to be posted and what has been posted are together at     *)
(* most one more than the failures (ShareCount, RunCount), and one less    *)
(* while the row that says so is not marked.                               *)
(***************************************************************************)
EXTENDS VDETask, FiniteSetTheorems, FunctionTheorems, TLAPS

RowFields == {"src", "dest", "run", "chain", "state"}
RunType   == [task : Tasks, chain : 0..3, tx : 0..MaxCopies]

(* A row of task t says nothing of the chain that is not so.               *)
RowTrue(t, row) ==
  /\ DOMAIN row = RowFields
  /\ row.chain = 2 => \A n \in Receivers : OnChain(t, n)
  /\ row.run = 1 => InBlock("run", t, Src)

(* The task may be run.                                                    *)
Ready(t) == IF t \in SrcTasks THEN \A n \in Receivers : OnChain(t, n) ELSE OnChain(t, Src)

(* The task of a row that is held.                                         *)
HeldTask(k) == IF k[1] = "runState" THEN runs[k[2]].task ELSE k[2]

TaskInv == \A t \in DOMAIN task : RowTrue(t, task[t])
GotInv  == \A t \in DOMAIN got : RowTrue(t, got[t]) /\ OnChain(t, Src)
HeldInv ==
  \A k \in DOMAIN held :
    /\ k = <<k[1], k[2]>>
    /\ RowTrue(HeldTask(k), held[k])
    /\ k[1] = "runState" => k[2] \in 1..Len(runs) /\ runs[k[2]].chain = 1
    /\ k[1] = "chainState" => \A n \in Receivers : OnChain(k[2], n)
ReqInv ==
  \A k \in DOMAIN req :
    /\ DOMAIN req[k] = {"inst", "chain", "tx"}
    /\ req[k].chain = 1 => <<"share", k[1], k[2], req[k].tx>> \in DOMAIN txs
    /\ req[k].chain = 2 => OnChain(k[1], k[2])
AuthInv == \A a \in DOMAIN auth : auth[a] = 2 => OnChain(a[1], a[2])
RunsInv ==
  /\ runs \in Seq(RunType)
  /\ \A i \in 1..Len(runs) :
       /\ Ready(runs[i].task)
       /\ runs[i].chain = 1 => <<"run", runs[i].task, Src, runs[i].tx>> \in DOMAIN txs
TxsInv == \A x \in DOMAIN txs : x[1] = "run" => Ready(x[2])

IInv == TaskInv /\ GotInv /\ HeldInv /\ ReqInv /\ AuthInv /\ RunsInv /\ TxsInv

-----------------------------------------------------------------------------
(* Rows.                                                                   *)

(* A row as it is inserted.                                                *)
LEMMA NewRowFields == DOMAIN NewRow = RowFields /\ NewRow.chain = 0 /\ NewRow.run = 0
BY DEF NewRow, RowFields

(* What a write of a held row leaves in the table.                         *)
LEMMA UpdatesFields ==
  ASSUME NEW row, DOMAIN row = RowFields, NEW item
  PROVE  /\ DOMAIN Updates(row, item) = RowFields
         /\ Updates(row, item).chain = IF item.chain = 0 THEN row.chain ELSE item.chain
         /\ Updates(row, item).run = IF item.run = 0 THEN row.run ELSE item.run
BY DEF Updates, RowFields

(* A daemon sets one column of the row it holds.                           *)
LEMMA SetColumn ==
  ASSUME NEW item, DOMAIN item = RowFields, NEW col \in {"src", "dest", "chain"}, NEW v
  PROVE  LET i == [item EXCEPT ![col] = v] IN
         /\ DOMAIN i = RowFields
         /\ i.chain = IF col = "chain" THEN v ELSE item.chain
         /\ i.run = item.run
BY DEF RowFields

(* A daemon sets task_run_state of the row it holds.                       *)
LEMMA SetRun ==
  ASSUME NEW item, DOMAIN item = RowFields, NEW v
  PROVE  LET i == [item EXCEPT !.run = v] IN
         DOMAIN i = RowFields /\ i.chain = item.chain /\ i.run = v
BY DEF RowFields

(* A true row written over a true row leaves a true row.                   *)
LEMMA UpdatesTrue ==
  ASSUME NEW t, NEW row, RowTrue(t, row), NEW item, RowTrue(t, item)
  PROVE  RowTrue(t, Updates(row, item))
BY UpdatesFields DEF RowTrue

-----------------------------------------------------------------------------
(* What is posted stays posted, what is in a block stays there.            *)
Grows == \A x \in DOMAIN txs : /\ x \in DOMAIN txs'
                               /\ txs[x] = "block" => txs'[x] = "block"

(* What was on the chain still is.                                         *)
LEMMA GrowsKeeps ==
  ASSUME Grows
  PROVE  /\ \A w, t, n : InBlock(w, t, n) => InBlock(w, t, n)'
         /\ \A t, n : OnChain(t, n) => OnChain(t, n)'
         /\ \A t : Ready(t) => Ready(t)'
<1>1. \A w, t, n : InBlock(w, t, n) => InBlock(w, t, n)'
  BY DEF Grows, InBlock, Posted
<1>2. \A t, n : OnChain(t, n) => OnChain(t, n)'
  BY <1>1 DEF OnChain
<1> QED
  BY <1>1, <1>2 DEF Ready

(* A post adds one transaction.                                            *)
LEMMA PostGrows ==
  ASSUME NEW w, NEW t, NEW n, NEW c, VDEPostTxResult(w, t, n, c)
  PROVE  /\ Grows
         /\ DOMAIN txs' = DOMAIN txs \cup {<<w, t, n, c>>}
BY DEF VDEPostTxResult, With, Grows

(* The chain decides on a transaction that was posted.                     *)
LEMMA MineGrows == ASSUME NEW x \in DOMAIN txs, Mine(x)
                   PROVE  Grows /\ DOMAIN txs' = DOMAIN txs
BY DEF Mine, Grows

-----------------------------------------------------------------------------
(* What a step leaves alone stays true.                                    *)

(* Tables that a step leaves alone stay true, as the chain grows.          *)
LEMMA Frame ==
  ASSUME IInv, Grows
  PROVE  /\ UNCHANGED task => TaskInv'
         /\ UNCHANGED got => GotInv'
         /\ UNCHANGED req => ReqInv'
         /\ UNCHANGED auth => AuthInv'
         /\ UNCHANGED runs => RunsInv'
         /\ DOMAIN txs' = DOMAIN txs => TxsInv'
<1> USE GrowsKeeps DEF IInv
<1>1. UNCHANGED task => TaskInv'
  BY DEF TaskInv, RowTrue
<1>2. UNCHANGED got => GotInv'
  BY DEF GotInv, RowTrue
<1>3. UNCHANGED req => ReqInv'
  BY DEF ReqInv, Grows
<1>4. UNCHANGED auth => AuthInv'
  BY DEF AuthInv
<1>5. UNCHANGED runs => RunsInv'
  BY DEF RunsInv, Grows
<1>6. DOMAIN txs' = DOMAIN txs => TxsInv'
  BY DEF TxsInv
<1> QED
  BY <1>1, <1>2, <1>3, <1>4, <1>5, <1>6

(* Rows that a daemon has put down are no longer held, the others stay.    *)
LEMMA HeldFrame ==
  ASSUME IInv, Grows, DOMAIN held' \subseteq DOMAIN held,
         \A k \in DOMAIN held' : held'[k] = held[k],
         \A k \in DOMAIN held' : k[1] = "runState" =>
            /\ k[2] \in 1..Len(runs')
            /\ runs'[k[2]].task = runs[k[2]].task /\ runs'[k[2]].chain = 1
  PROVE  HeldInv'
BY GrowsKeeps DEF IInv, HeldInv, HeldTask, RowTrue

(* A row that is put down.                                                 *)
LEMMA WithoutHeld ==
  ASSUME NEW k, held' = Without(held, k)
  PROVE  /\ DOMAIN held' = DOMAIN held \ {k}
         /\ \A j \in DOMAIN held' : held'[j] = held[j]
BY DEF Without

(* A row of a task that is read is true of that task.                      *)
LEMMA ReadHeld ==
  ASSUME IInv, Grows, NEW d, NEW t, d # "runState",
         DOMAIN held' = DOMAIN held \cup {<<d, t>>},
         \A k \in DOMAIN held : held'[k] = held[k],
         RowTrue(t, held'[<<d, t>>]),
         d = "chainState" => \A n \in Receivers : OnChain(t, n),
         \A i \in 1..Len(runs) : i \in 1..Len(runs') /\ runs'[i] = runs[i]
  PROVE  HeldInv'
<1>1. /\ RowTrue(HeldTask(<<d, t>>), held[<<d, t>>])'
      /\ d = "chainState" => \A n \in Receivers : OnChain(t, n)'
  BY GrowsKeeps DEF HeldTask, RowTrue
<1>2. ASSUME NEW k \in DOMAIN held
      PROVE  /\ RowTrue(HeldTask(k), held[k])'
             /\ k[1] = "runState" => k[2] \in 1..Len(runs') /\ runs'[k[2]].chain = 1
             /\ k[1] = "chainState" => \A n \in Receivers : OnChain(k[2], n)'
  <2>1. k[1] = "runState" => /\ k[2] \in 1..Len(runs) /\ k[2] \in 1..Len(runs')
                             /\ runs'[k[2]] = runs[k[2]] /\ runs[k[2]].chain = 1
    BY <1>2 DEF IInv, HeldInv
  <2>2. HeldTask(k)' = HeldTask(k) /\ held'[k] = held[k]
    BY <2>1 DEF HeldTask
  <2>3. RowTrue(HeldTask(k), held[k])'
    BY <1>2, <2>2, GrowsKeeps DEF IInv, HeldInv, RowTrue
  <2> QED
    BY <1>2, <2>1, <2>3, GrowsKeeps DEF IInv, HeldInv
<1>3. \A k \in DOMAIN held' : k = <<k[1], k[2]>>
  BY DEF IInv, HeldInv
<1> QED
  BY <1>1, <1>2, <1>3 DEF HeldInv

-----------------------------------------------------------------------------
(* The users.                                                              *)

(* A form for a task, and one for a task the source has of the scheduling  *)
(* node.                                                                   *)
TaskForm(t, form) ==
  /\ t \in DOMAIN task /\ form \in Forms(t, task[t])
  /\ task' = [task EXCEPT ![t] = Updates(@, form)]
  /\ SendForm /\ UNCHANGED got
GotForm(t, form) ==
  /\ t \in DOMAIN got /\ form \in Forms(t, got[t])
  /\ got' = [got EXCEPT ![t] = Updates(@, form)]
  /\ SendForm /\ UNCHANGED task

(* What a user may do.                                                     *)
LEMMA UserKinds ==
  ASSUME User
  PROVE  \/ \E t \in Tasks : Create(t)
         \/ \E t, form : TaskForm(t, form)
         \/ \E t, form : GotForm(t, form)
         \/ \E a \in Auths : Authorise(a)
<1>1. ASSUME NEW t, UpdateTask(t) PROVE \E form : TaskForm(t, form)
  BY <1>1 DEF UpdateTask, TaskForm
<1>2. ASSUME NEW t, VDESrcTaskFromScheUpdateHandlre(t) PROVE \E form : GotForm(t, form)
  BY <1>2 DEF VDESrcTaskFromScheUpdateHandlre, GotForm
<1> QED
  BY <1>1, <1>2 DEF User, VDESrcTaskUpdateHandlre, VDEScheTaskUpdateHandlre

(* A form says nothing of the chain that is not so.                        *)
LEMMA FormTrue ==
  ASSUME NEW t, NEW row, NEW form \in Forms(t, row)
  PROVE  RowTrue(t, form)
BY DEF Forms, RowTrue, RowFields

LEMMA UserStep == ASSUME IInv, User PROVE IInv'
<1>1. Grows /\ DOMAIN txs' = DOMAIN txs /\ UNCHANGED <<held, req, runs>>
  BY UserKinds DEF Create, TaskForm, GotForm, SendForm, Authorise, Grows
<1>2. ReqInv' /\ RunsInv' /\ TxsInv' /\ HeldInv'
  BY <1>1, Frame, HeldFrame DEF IInv, HeldInv
<1>3. TaskInv' /\ GotInv'
  <2>1. ASSUME NEW t \in Tasks, Create(t) PROVE TaskInv' /\ GotInv'
    <3>1. TaskInv'
      BY <1>1, <2>1, GrowsKeeps, NewRowFields DEF Create, With, IInv, TaskInv, RowTrue
    <3> QED
      BY <1>1, <2>1, <3>1, Frame DEF Create
  <2>2. ASSUME NEW t, NEW form, TaskForm(t, form) PROVE TaskInv' /\ GotInv'
    <3>1. RowTrue(t, task[t]) /\ RowTrue(t, form) /\ t \in DOMAIN task
      BY <2>2, FormTrue DEF TaskForm, IInv, TaskInv
    <3>2. PICK new : new = Updates(task[t], form)
      OBVIOUS
    <3>3. RowTrue(t, new)
      BY <3>1, <3>2, UpdatesTrue
    <3>4. /\ DOMAIN task' = DOMAIN task /\ task'[t] = new
          /\ \A u \in DOMAIN task : u # t => task'[u] = task[u]
      BY <2>2, <3>1, <3>2 DEF TaskForm
    <3>5. TaskInv'
      BY <1>1, <3>3, <3>4, GrowsKeeps DEF IInv, TaskInv, RowTrue
    <3> QED
      BY <1>1, <2>2, <3>5, Frame DEF TaskForm
  <2>3. ASSUME NEW t, NEW form, GotForm(t, form) PROVE TaskInv' /\ GotInv'
    <3>1. RowTrue(t, got[t]) /\ RowTrue(t, form) /\ t \in DOMAIN got
      BY <2>3, FormTrue DEF GotForm, IInv, GotInv
    <3>2. PICK new : new = Updates(got[t], form)
      OBVIOUS
    <3>3. RowTrue(t, new)
      BY <3>1, <3>2, UpdatesTrue
    <3>4. /\ DOMAIN got' = DOMAIN got /\ got'[t] = new
          /\ \A u \in DOMAIN got : u # t => got'[u] = got[u]
      BY <2>3, <3>1, <3>2 DEF GotForm
    <3>5. GotInv'
      BY <1>1, <3>3, <3>4, GrowsKeeps DEF IInv, GotInv, RowTrue
    <3> QED
      BY <1>1, <2>3, <3>5, Frame DEF GotForm
  <2>4. ASSUME NEW a \in Auths, Authorise(a) PROVE TaskInv' /\ GotInv'
    BY <1>1, <2>4, Frame DEF Authorise
  <2> QED
    BY <2>1, <2>2, <2>3, <2>4, UserKinds
<1>4. AuthInv'
  <2>1. ASSUME NEW a \in Auths, Authorise(a) PROVE AuthInv'
    BY <1>1, <2>1, GrowsKeeps DEF Authorise, With, IInv, AuthInv
  <2>2. UNCHANGED auth \/ \E a \in Auths : Authorise(a)
    BY UserKinds DEF Create, TaskForm, GotForm, SendForm
  <2> QED
    BY <1>1, <2>1, <2>2, Frame
<1> QED
  BY <1>2, <1>3, <1>4 DEF IInv

-----------------------------------------------------------------------------
(* The daemons of a task: they read a row and write it back.               *)
LEMMA WriteTaskKeeps ==
  ASSUME IInv, NEW d, d # "runState", NEW t, NEW col \in {"src", "dest", "chain"},
         NEW val, col = "chain" /\ val = 2 => \A n \in Receivers : OnChain(t, n),
         WriteTask(d, t, col, val), UNCHANGED <<auth, req, runs, got, txs>>
  PROVE  IInv'
<1>1. Grows
  BY DEF Grows
<1>2. GotInv' /\ ReqInv' /\ AuthInv' /\ RunsInv' /\ TxsInv'
  BY <1>1, Frame
<1>3. HeldInv'
  <2>1. DOMAIN held' \subseteq DOMAIN held /\ \A k \in DOMAIN held' : held'[k] = held[k]
    BY WithoutHeld DEF WriteTask
  <2> QED
    BY <1>1, <2>1, HeldFrame DEF IInv, HeldInv
<1>4. TaskInv'
  <2> DEFINE item == [held[<<d, t>>] EXCEPT ![col] = val]
  <2>1. RowTrue(t, held[<<d, t>>])
    BY DEF WriteTask, IInv, HeldInv, HeldTask
  <2>2. RowTrue(t, item)
    BY <2>1, SetColumn DEF RowTrue
  <2>3. ASSUME NEW u \in DOMAIN task
        PROVE  RowTrue(u, IF u = t THEN Updates(task[t], item) ELSE task[u])
    <3>1. RowTrue(u, task[u])
      BY <2>3 DEF IInv, TaskInv
    <3> HIDE DEF item
    <3> QED
      BY <2>2, <3>1, UpdatesTrue
  <2>4. /\ DOMAIN task' = DOMAIN task
        /\ \A u \in DOMAIN task :
             task'[u] = IF u = t THEN Updates(task[t], item) ELSE task[u]
    BY DEF WriteTask
  <2> HIDE DEF item
  <2> QED
    BY <1>1, <2>3, <2>4, GrowsKeeps DEF TaskInv, RowTrue
<1> QED
  BY <1>2, <1>3, <1>4 DEF IInv

(* A row of the task's own table is read.                                  *)
LEMMA ReadTask ==
  ASSUME IInv, Grows, NEW d, d # "runState", NEW t \in DOMAIN task,
         Read(d, t, task[t]), d = "chainState" => \A n \in Receivers : OnChain(t, n),
         UNCHANGED runs
  PROVE  HeldInv'
<1>1. /\ DOMAIN held' = DOMAIN held \cup {<<d, t>>} /\ held'[<<d, t>>] = task[t]
      /\ \A k \in DOMAIN held : held'[k] = held[k]
  BY DEF Read, With
<1>2. RowTrue(t, held'[<<d, t>>])
  BY <1>1 DEF IInv, TaskInv
<1> QED
  BY <1>1, <1>2, ReadHeld

(* The contract daemons: the row is read, and written with their column.   *)
LEMMA InstallStep ==
  ASSUME IInv, NEW t, NEW col \in {"src", "dest"}, Install(t, col)
  PROVE  IInv'
<1>1. CASE /\ t \in DOMAIN task /\ Read(col, t, task[t])
           /\ UNCHANGED <<task, auth, req, runs, got, txs>>
  <2>1. Grows
    BY <1>1 DEF Grows
  <2>2. HeldInv'
    BY <1>1, <2>1, ReadTask
  <2> QED
    BY <1>1, <2>1, <2>2, Frame DEF IInv
<1>2. CASE \E r \in {1, 2} : WriteTask(col, t, col, r) /\ UNCHANGED <<auth, req, runs, got, txs>>
  BY <1>2, WriteTaskKeeps
<1> QED
  BY <1>1, <1>2 DEF Install

(* New requests are not on the chain yet.                                  *)
LEMMA NewRequestsKeep ==
  ASSUME IInv, NEW t, NEW ns, NEW inst, req' = NewRequests(t, ns, inst), UNCHANGED txs
  PROVE  ReqInv'
<1>1. Grows
  BY DEF Grows
<1>2. ASSUME NEW k \in DOMAIN req'
      PROVE  \/ k \in DOMAIN req /\ req'[k] = req[k]
             \/ DOMAIN req'[k] = {"inst", "chain", "tx"} /\ req'[k].chain = 0
  BY <1>2 DEF NewRequests
<1> QED
  BY <1>1, <1>2, GrowsKeeps DEF IInv, ReqInv

(* The request daemons: requests are made, then the task is marked.        *)
LEMMA ChainStatusStep == ASSUME IInv, NEW t, ChainStatus(t) PROVE IInv'
<1>1. ASSUME NEW ns, req' = NewRequests(t, ns, TRUE), t \in DOMAIN task,
             UNCHANGED held \/ Read("chain", t, task[t]),
             UNCHANGED <<task, auth, runs, got, txs>>
      PROVE  IInv'
  <2>1. Grows
    BY <1>1 DEF Grows
  <2>2. ReqInv'
    BY <1>1, NewRequestsKeep
  <2>3. CASE UNCHANGED held
    BY <1>1, <2>1, <2>2, <2>3, Frame, HeldFrame DEF IInv, HeldInv
  <2>4. CASE Read("chain", t, task[t])
    BY <1>1, <2>1, <2>2, <2>4, Frame, ReadTask DEF IInv
  <2> QED
    BY <1>1, <2>3, <2>4
<1>2. CASE WriteTask("chain", t, "chain", 1) /\ UNCHANGED <<auth, req, runs, got, txs>>
  BY <1>2, WriteTaskKeeps
<1> QED
  BY <1>1, <1>2 DEF ChainStatus

(* A request that was seen in a block is on the chain.                     *)
LEMMA ReachedOnChain == ASSUME IInv, NEW t, NEW n, Reached(t, n) PROVE OnChain(t, n)
BY DEF Reached, IInv, ReqInv

(* The state daemons: they mark what they have seen on the chain.          *)
LEMMA ChainStatusStateStep == ASSUME IInv, NEW t, ChainStatusState(t) PROVE IInv'
<1>1. CASE /\ t \in DOMAIN task /\ \A n \in Receivers : Reached(t, n)
           /\ Read("chainState", t, task[t])
           /\ UNCHANGED <<task, auth, req, runs, got, txs>>
  <2>1. Grows
    BY <1>1 DEF Grows
  <2>2. \A n \in Receivers : OnChain(t, n)
    BY <1>1, ReachedOnChain
  <2>3. HeldInv'
    BY <1>1, <2>1, <2>2, ReadTask
  <2> QED
    BY <1>1, <2>1, <2>3, Frame DEF IInv
<1>2. CASE /\ WriteTask("chainState", t, "chain", 2)
           /\ UNCHANGED <<auth, req, runs, got, txs>>
  <2>1. \A n \in Receivers : OnChain(t, n)
    BY <1>2 DEF WriteTask, IInv, HeldInv
  <2> QED
    BY <1>2, <2>1, WriteTaskKeeps
<1> QED
  BY <1>1, <1>2 DEF ChainStatusState

(* All the daemons that share a task.                                      *)
LEMMA ShareTaskStep == ASSUME IInv, NEW t, ShareTask(t) PROVE IInv'
BY InstallStep, ChainStatusStep, ChainStatusStateStep
   DEF ShareTask, VDESrcTaskInstallContractSrc, VDEScheTaskInstallContractSrc,
       VDEScheTaskInstallContractDest, VDESrcTaskChainStatus, VDEScheTaskChainStatus,
       VDESrcTaskChainStatusState, VDEScheTaskChainStatusState

-----------------------------------------------------------------------------
(* Authorisations.                                                         *)
LEMMA ShareAuthStep == ASSUME IInv, NEW a \in Auths, ShareAuth(a) PROVE IInv'
<1>1. Grows /\ UNCHANGED <<task, held, runs, got, txs>>
  BY DEF ShareAuth, VDESrcTaskAuthChainStatus, VDESrcTaskAuthChainStatusState, Grows
<1>2. TaskInv' /\ GotInv' /\ RunsInv' /\ TxsInv' /\ HeldInv'
  BY <1>1, Frame, HeldFrame DEF IInv, HeldInv
<1>3. CASE VDESrcTaskAuthChainStatus(a)
  <2>1. ReqInv'
    BY <1>1, <1>3, NewRequestsKeep DEF VDESrcTaskAuthChainStatus
  <2>2. AuthInv'
    BY <1>1, <1>3, GrowsKeeps DEF VDESrcTaskAuthChainStatus, IInv, AuthInv
  <2> QED
    BY <1>2, <2>1, <2>2 DEF IInv
<1>4. CASE VDESrcTaskAuthChainStatusState(a)
  <2>1. OnChain(a[1], a[2])
    BY <1>4, ReachedOnChain DEF VDESrcTaskAuthChainStatusState
  <2>2. AuthInv'
    BY <1>1, <1>4, <2>1, GrowsKeeps DEF VDESrcTaskAuthChainStatusState, IInv, AuthInv
  <2> QED
    BY <1>1, <1>2, <1>4, <2>2, Frame DEF VDESrcTaskAuthChainStatusState, IInv
<1> QED
  BY <1>3, <1>4 DEF ShareAuth

-----------------------------------------------------------------------------
(* The chain.                                                              *)
LEMMA PostRequestStep == ASSUME IInv, NEW k \in DOMAIN req, PostRequest(k) PROVE IInv'
<1>1. CASE UpToChain(k)
  <2>1. PICK c \in 1..MaxCopies :
          /\ VDEPostTxResult("share", k[1], k[2], c)
          /\ \/ req' = [req EXCEPT ![k].chain = 1, ![k].tx = c]
             \/ UNCHANGED req
    BY <1>1 DEF UpToChain
  <2>2. Grows /\ DOMAIN txs' = DOMAIN txs \cup {<<"share", k[1], k[2], c>>}
    BY <2>1, PostGrows
  <2>3. TaskInv' /\ GotInv' /\ AuthInv' /\ RunsInv' /\ HeldInv'
    BY <1>1, <2>2, Frame, HeldFrame DEF UpToChain, IInv, HeldInv
  <2>4. TxsInv'
    BY <2>2, GrowsKeeps DEF IInv, TxsInv
  <2>5. ReqInv'
    <3>1. CASE UNCHANGED req
      BY <2>2, <3>1, Frame
    <3>2. CASE req' = [req EXCEPT ![k].chain = 1, ![k].tx = c]
      <4>1. \A j \in DOMAIN req : j # k => req'[j] = req[j]
        BY <3>2
      <4>2. /\ DOMAIN req' = DOMAIN req
            /\ DOMAIN req'[k] = {"inst", "chain", "tx"}
            /\ req'[k].chain = 1 /\ req'[k].tx = c
        BY <3>2 DEF IInv, ReqInv
      <4> QED
        BY <2>2, <4>1, <4>2, GrowsKeeps DEF IInv, ReqInv, Grows
    <3> QED
      BY <2>1, <3>1, <3>2
  <2> QED
    BY <2>3, <2>4, <2>5 DEF IInv
<1>2. CASE UpToChainState(k)
  <2>1. Grows /\ UNCHANGED <<task, held, auth, runs, got, txs>>
    BY <1>2 DEF UpToChainState, Grows
  <2>2. TaskInv' /\ GotInv' /\ AuthInv' /\ RunsInv' /\ HeldInv' /\ TxsInv'
    BY <2>1, Frame, HeldFrame DEF IInv, HeldInv
  <2>3. OnChain(k[1], k[2])
    BY <1>2 DEF UpToChainState, VDEWaitTx, IInv, ReqInv, OnChain, InBlock, Posted
  <2>4. /\ DOMAIN req' = DOMAIN req
        /\ \A j \in DOMAIN req : j # k => req'[j] = req[j]
        /\ DOMAIN req'[k] = {"inst", "chain", "tx"} /\ req'[k].chain = 2
    BY <1>2 DEF UpToChainState, IInv, ReqInv
  <2>5. ReqInv'
    BY <2>1, <2>3, <2>4, GrowsKeeps DEF IInv, ReqInv, Grows
  <2> QED
    BY <2>2, <2>5 DEF IInv
<1> QED
  BY <1>1, <1>2 DEF PostRequest, VDESrcTaskUpToChain, VDEScheTaskUpToChain,
                    VDESrcTaskUpToChainState, VDEScheTaskUpToChainState

(* A transaction gets into a block or is refused.                          *)
LEMMA MineStep == ASSUME IInv, NEW x \in DOMAIN txs, Mine(x) PROVE IInv'
<1>1. Grows /\ DOMAIN txs' = DOMAIN txs
  BY MineGrows
<1> QED
  BY <1>1, Frame, HeldFrame DEF Mine, IInv, HeldInv

(* The source reads what is on the chain for it.                           *)
LEMMA FromChainStep ==
  ASSUME IInv, NEW t, VDESrcTaskScheGetFromChain(t)
  PROVE  IInv'
<1>1. Grows /\ OnChain(t, Src) /\ UNCHANGED <<task, held, auth, req, runs, txs>>
  BY DEF VDESrcTaskScheGetFromChain, Grows
<1>2. TaskInv' /\ AuthInv' /\ ReqInv' /\ RunsInv' /\ HeldInv' /\ TxsInv'
  BY <1>1, Frame, HeldFrame DEF IInv, HeldInv
<1>3. RowTrue(t, NewRow)
  BY NewRowFields DEF RowTrue
<1>4. GotInv'
  <2>1. ASSUME NEW u \in DOMAIN got' PROVE RowTrue(u, got'[u]) /\ OnChain(u, Src)
    <3>1. CASE t \in DOMAIN got
      <4>1. DOMAIN got' = DOMAIN got
            /\ got'[u] = IF u = t THEN Updates(got[t], NewRow) ELSE got[u]
        BY <2>1, <3>1 DEF VDESrcTaskScheGetFromChain
      <4> QED
        BY <1>3, <2>1, <4>1, UpdatesTrue DEF IInv, GotInv
    <3>2. CASE t \notin DOMAIN got
      <4>1. DOMAIN got' = DOMAIN got \cup {t} /\ got'[u] = IF u = t THEN NewRow ELSE got[u]
        BY <2>1, <3>2 DEF VDESrcTaskScheGetFromChain, With
      <4> QED
        BY <1>1, <1>3, <2>1, <4>1 DEF IInv, GotInv
    <3> QED
      BY <3>1, <3>2
  <2> QED
    BY <1>1, <2>1, GrowsKeeps DEF GotInv, RowTrue
<1> QED
  BY <1>2, <1>4 DEF IInv

-----------------------------------------------------------------------------
(* Runs.                                                                   *)

(* A task that is due may be run.                                          *)
LEMMA DueReady == ASSUME IInv, NEW t, AtSource(t), Due(t) PROVE Ready(t)
BY DEF AtSource, Due, RunRow, Ready, IInv, TaskInv, GotInv, RowTrue

(* The row that the source runs a task by is true.                         *)
LEMMA RunRowTrue == ASSUME IInv, NEW t, AtSource(t) PROVE RowTrue(t, RunRow(t))
BY DEF AtSource, RunRow, IInv, TaskInv, GotInv

(* A true row written over the row of the run's task keeps the tables so.  *)
LEMMA WriteRunKeeps ==
  ASSUME IInv, Grows, NEW t, NEW item, RowTrue(t, item), WriteRun(t, item)
  PROVE  TaskInv' /\ GotInv'
<1>1. CASE t \in SrcTasks
  <2>1. /\ DOMAIN task' = DOMAIN task /\ UNCHANGED got
        /\ \A u \in DOMAIN task :
             task'[u] = IF u = t THEN Updates(task[t], item) ELSE task[u]
    BY <1>1 DEF WriteRun
  <2>2. \A u \in DOMAIN task' : RowTrue(u, task'[u])
    BY <2>1, UpdatesTrue DEF IInv, TaskInv
  <2>3. TaskInv'
    BY <2>2, GrowsKeeps DEF TaskInv, RowTrue
  <2> QED
    BY <2>1, <2>3, Frame
<1>2. CASE t \notin SrcTasks
  <2>1. /\ DOMAIN got' = DOMAIN got /\ UNCHANGED task
        /\ \A u \in DOMAIN got :
             got'[u] = IF u = t THEN Updates(got[t], item) ELSE got[u]
    BY <1>2 DEF WriteRun
  <2>2. \A u \in DOMAIN got' : RowTrue(u, got'[u]) /\ OnChain(u, Src)
    BY <2>1, UpdatesTrue DEF IInv, GotInv
  <2>3. GotInv'
    BY <2>2, GrowsKeeps DEF GotInv, RowTrue
  <2> QED
    BY <2>1, <2>3, Frame
<1> QED
  BY <1>1, <1>2

(* A run is made of a task that is due, and the task is marked.            *)
LEMMA StartRunStep == ASSUME IInv, NEW t \in Tasks, StartRun(t) PROVE IInv'
<1> DEFINE run == [task |-> t, chain |-> 0, tx |-> 0]
<1>1. Grows /\ UNCHANGED <<auth, req, txs>>
  BY DEF StartRun, VDESrcTaskStatus, VDESrcTaskFromScheStatus, TaskStatus, Grows
<1>2. AuthInv' /\ ReqInv' /\ TxsInv'
  BY <1>1, Frame
<1>3. CASE /\ AtSource(t) /\ Due(t) /\ Read("status", t, RunRow(t))
           /\ runs' = Append(runs, run) /\ UNCHANGED <<task, got>>
  <2>1. run \in RunType
    BY TaskAssumption DEF RunType
  <2>2. /\ runs \in Seq(RunType) /\ runs' \in Seq(RunType) /\ Len(runs') = Len(runs) + 1
        /\ \A i \in 1..Len(runs) : i \in 1..Len(runs') /\ runs'[i] = runs[i]
        /\ runs'[Len(runs')] = run
    <3> HIDE DEF run
    <3> QED
      BY <1>3, <2>1 DEF IInv, RunsInv
  <2>3. RunsInv'
    <3>1. ASSUME NEW i \in 1..Len(runs')
          PROVE  i \in 1..Len(runs) \/ runs'[i] = run
      <4> HIDE DEF run
      <4> QED
        BY <2>2
    <3>2. Ready(t)
      BY <1>3, DueReady
    <3> QED
      BY <1>1, <2>2, <3>1, <3>2, GrowsKeeps DEF IInv, RunsInv
  <2>4. /\ DOMAIN held' = DOMAIN held \cup {<<"status", t>>}
        /\ held'[<<"status", t>>] = RunRow(t)
        /\ \A k \in DOMAIN held : held'[k] = held[k]
    BY <1>3 DEF Read, With
  <2>5. RowTrue(t, held'[<<"status", t>>])
    BY <1>3, <2>4, RunRowTrue
  <2>6. HeldInv'
    BY <1>1, <2>2, <2>4, <2>5, ReadHeld
  <2> QED
    BY <1>1, <1>2, <1>3, <2>3, <2>6, Frame DEF IInv
<1>4. CASE /\ <<"status", t>> \in DOMAIN held /\ held' = Without(held, <<"status", t>>)
           /\ WriteRun(t, [held[<<"status", t>>] EXCEPT !.run = 3]) /\ UNCHANGED runs
  <2>1. RowTrue(t, held[<<"status", t>>])
    BY <1>4 DEF IInv, HeldInv, HeldTask
  <2>2. RowTrue(t, [held[<<"status", t>>] EXCEPT !.run = 3])
    BY <2>1, SetRun DEF RowTrue
  <2>3. TaskInv' /\ GotInv'
    BY <1>1, <1>4, <2>2, WriteRunKeeps
  <2>4. DOMAIN held' \subseteq DOMAIN held /\ \A k \in DOMAIN held' : held'[k] = held[k]
    BY <1>4, WithoutHeld
  <2>5. HeldInv'
    BY <1>1, <1>4, <2>4, HeldFrame DEF IInv, HeldInv
  <2> QED
    BY <1>1, <1>2, <1>4, <2>3, <2>5, Frame DEF IInv
<1> QED
  BY <1>3, <1>4 DEF StartRun, VDESrcTaskStatus, VDESrcTaskFromScheStatus, TaskStatus

(* One run changes; what it waits for, if anything, has been posted.       *)
LEMMA RunsKeep ==
  ASSUME IInv, Grows, NEW i \in 1..Len(runs),
         DOMAIN runs' = DOMAIN runs, runs' \in Seq(RunType),
         \A j \in 1..Len(runs) : j # i => runs'[j] = runs[j],
         runs'[i].task = runs[i].task,
         runs'[i].chain = 1 =>
           <<"run", runs[i].task, Src, runs'[i].tx>> \in DOMAIN txs'
  PROVE  RunsInv' /\ Len(runs') = Len(runs)
<1>1. Len(runs') = Len(runs)
  BY DEF IInv, RunsInv
<1>2. ASSUME NEW j \in 1..Len(runs')
      PROVE  /\ Ready(runs[j].task)'
             /\ runs'[j].chain = 1 =>
                  <<"run", runs'[j].task, Src, runs'[j].tx>> \in DOMAIN txs'
  <2>1. Ready(runs[j].task) /\ runs'[j].task = runs[j].task
    BY <1>1 DEF IInv, RunsInv
  <2>2. Ready(runs[j].task)'
    BY <2>1, GrowsKeeps
  <2> QED
    BY <1>1, <2>2 DEF IInv, RunsInv, Grows
<1> QED
  BY <1>1, <1>2 DEF RunsInv

(* What the daemons do to the row of a run.                                *)
LEMMA EndRunRow ==
  ASSUME runs \in Seq(RunType), NEW i \in 1..Len(runs), NEW ch \in {2, 3},
         runs' = [runs EXCEPT ![i].chain = ch]
  PROVE  /\ DOMAIN runs' = DOMAIN runs /\ runs' \in Seq(RunType)
         /\ \A j \in 1..Len(runs) : j # i => runs'[j] = runs[j]
         /\ runs'[i].task = runs[i].task /\ runs'[i].chain = ch
<1>1. runs[i] \in RunType
  OBVIOUS
<1>2. [runs[i] EXCEPT !.chain = ch] \in RunType
  BY <1>1 DEF RunType
<1> QED
  BY <1>1, <1>2 DEF RunType

(* The row of a run that was posted.                                       *)
LEMMA SendRunRow ==
  ASSUME runs \in Seq(RunType), NEW i \in 1..Len(runs), NEW c \in 1..MaxCopies,
         runs' = [runs EXCEPT ![i].chain = 1, ![i].tx = c]
  PROVE  /\ DOMAIN runs' = DOMAIN runs /\ runs' \in Seq(RunType)
         /\ \A j \in 1..Len(runs) : j # i => runs'[j] = runs[j]
         /\ runs'[i].task = runs[i].task /\ runs'[i].tx = c
<1> DEFINE sent == [[runs[i] EXCEPT !.chain = 1] EXCEPT !.tx = c]
<1>1. runs[i] \in RunType
  OBVIOUS
<1>2. sent \in RunType /\ sent.task = runs[i].task /\ sent.tx = c
  <2>1. c \in 0..MaxCopies
    BY TaskAssumption
  <2>2. [runs[i] EXCEPT !.chain = 1] \in RunType
    BY SMTT(30), <1>1 DEF RunType
  <2> QED
    BY <1>1, <2>1, <2>2 DEF RunType
<1>3. runs' = [runs EXCEPT ![i] = sent]
  BY <1>1 DEF RunType
<1> HIDE DEF sent
<1> QED
  BY <1>2, <1>3

(* A run is posted, or given up; its task was ready when it was made.      *)
LEMMA StatusRunStep == ASSUME IInv, NEW i \in 1..Len(runs), StatusRun(i) PROVE IInv'
<1> PICK t : t = runs[i].task
  OBVIOUS
<1>1. /\ UNCHANGED txs \/ \E c \in 1..MaxCopies : VDEPostTxResult("run", t, Src, c)
      /\ \/ UNCHANGED runs
         \/ \E c \in 1..MaxCopies :
              /\ VDEPostTxResult("run", t, Src, c)
              /\ runs' = [runs EXCEPT ![i].chain = 1, ![i].tx = c]
         \/ runs' = [runs EXCEPT ![i].chain = 3]
      /\ runs[i].chain = 0 /\ UNCHANGED <<task, held, auth, req, got>>
  BY DEF StatusRun
<1>2. /\ Grows
      /\ \A x \in DOMAIN txs' : x \in DOMAIN txs \/ (x[1] = "run" /\ x[2] = t)
  <2>1. CASE UNCHANGED txs
    BY <2>1 DEF Grows
  <2>2. ASSUME NEW c \in 1..MaxCopies, VDEPostTxResult("run", t, Src, c)
        PROVE  /\ Grows
               /\ \A x \in DOMAIN txs' : x \in DOMAIN txs \/ (x[1] = "run" /\ x[2] = t)
    <3>1. Grows /\ DOMAIN txs' = DOMAIN txs \cup {<<"run", t, Src, c>>}
      BY <2>2, PostGrows
    <3> QED
      BY <3>1
  <2> QED
    BY <1>1, <2>1, <2>2
<1>3. TaskInv' /\ GotInv' /\ AuthInv' /\ ReqInv'
  BY <1>1, <1>2, Frame
<1>4. Ready(t) /\ runs \in Seq(RunType)
  BY DEF IInv, RunsInv
<1>5. TxsInv'
  BY <1>2, <1>4, GrowsKeeps DEF IInv, TxsInv
<1>6. RunsInv' /\ Len(runs') = Len(runs) /\ \A j \in 1..Len(runs) : j # i => runs'[j] = runs[j]
  <2>1. CASE UNCHANGED runs
    BY <1>2, <2>1, Frame
  <2>2. ASSUME NEW c \in 1..MaxCopies, VDEPostTxResult("run", t, Src, c),
               runs' = [runs EXCEPT ![i].chain = 1, ![i].tx = c]
        PROVE  /\ RunsInv' /\ Len(runs') = Len(runs)
               /\ \A j \in 1..Len(runs) : j # i => runs'[j] = runs[j]
    <3>1. /\ DOMAIN runs' = DOMAIN runs /\ runs' \in Seq(RunType)
          /\ \A j \in 1..Len(runs) : j # i => runs'[j] = runs[j]
          /\ runs'[i].task = runs[i].task /\ runs'[i].tx = c
      BY <1>4, <2>2, SendRunRow
    <3>2. <<"run", t, Src, c>> \in DOMAIN txs'
      BY <2>2 DEF VDEPostTxResult, With
    <3> QED
      BY <1>2, <3>1, <3>2, RunsKeep
  <2>3. CASE runs' = [runs EXCEPT ![i].chain = 3]
    <3>1. /\ DOMAIN runs' = DOMAIN runs /\ runs' \in Seq(RunType)
          /\ \A j \in 1..Len(runs) : j # i => runs'[j] = runs[j]
          /\ runs'[i].task = runs[i].task /\ runs'[i].chain = 3
      BY <1>4, <2>3, EndRunRow
    <3>2. runs'[i].chain # 1
      BY <3>1
    <3> QED
      BY <1>2, <3>1, <3>2, RunsKeep
  <2> QED
    BY <1>1, <2>1, <2>2, <2>3
<1>7. HeldInv'
  <2>1. \A k \in DOMAIN held : k[1] = "runState" => k[2] \in 1..Len(runs) /\ k[2] # i
    BY <1>1 DEF IInv, HeldInv
  <2>2. \A k \in DOMAIN held : k[1] = "runState" => runs[k[2]].chain = 1
    BY DEF IInv, HeldInv
  <2> QED
    BY <1>1, <1>2, <1>6, <2>1, <2>2, HeldFrame
<1> QED
  BY <1>3, <1>5, <1>6, <1>7 DEF IInv

(* The row of the run's task is read, before the chain is asked.           *)
LEMMA ReadRunStep ==
  ASSUME IInv, NEW i \in 1..Len(runs), runs[i].chain = 1, AtSource(runs[i].task),
         Read("runState", i, RunRow(runs[i].task)),
         UNCHANGED <<task, auth, req, runs, got, txs>>
  PROVE  IInv'
<1> DEFINE key == <<"runState", i>>
<1>1. Grows
  BY DEF Grows
<1>2. /\ DOMAIN held' = DOMAIN held \cup {key} /\ held'[key] = RunRow(runs[i].task)
      /\ \A k \in DOMAIN held : held'[k] = held[k]
  BY DEF Read, With
<1>3. RowTrue(HeldTask(key), held'[key])
  BY <1>2, RunRowTrue DEF HeldTask
<1>4. ASSUME NEW k \in DOMAIN held'
      PROVE  /\ k = <<k[1], k[2]>> /\ RowTrue(HeldTask(k), held'[k])
             /\ k[1] = "runState" => k[2] \in 1..Len(runs) /\ runs[k[2]].chain = 1
             /\ k[1] = "chainState" => \A n \in Receivers : OnChain(k[2], n)
  BY <1>2, <1>3, <1>4 DEF IInv, HeldInv
<1>5. HeldInv'
  BY <1>1, <1>4, GrowsKeeps DEF HeldInv, HeldTask, RowTrue
<1> QED
  BY <1>1, <1>5, Frame DEF IInv

(* The row goes back, with what became of the transaction.                 *)
LEMMA EndRunStep ==
  ASSUME IInv, NEW i \in 1..Len(runs), <<"runState", i>> \in DOMAIN held,
         held' = Without(held, <<"runState", i>>),
         \/ UNCHANGED <<task, got, runs>>
         \/ /\ UNCHANGED <<task, got>>
            /\ \E ch \in {2, 3} : runs' = [runs EXCEPT ![i].chain = ch]
         \/ /\ VDEWaitTx(<<"run", runs[i].task, Src, runs[i].tx>>) = "block"
            /\ runs' = [runs EXCEPT ![i].chain = 2]
            /\ WriteRun(runs[i].task, [held[<<"runState", i>>] EXCEPT !.run = 1])
         \/ /\ runs' = [runs EXCEPT ![i].chain = 3]
            /\ WriteRun(runs[i].task, [held[<<"runState", i>>] EXCEPT !.run = 2]),
         UNCHANGED <<auth, req, txs>>
  PROVE  IInv'
<1> PICK t, row : t = runs[i].task /\ row = held[<<"runState", i>>]
  OBVIOUS
<1>1. Grows
  BY DEF Grows
<1>2. AuthInv' /\ ReqInv' /\ TxsInv'
  BY <1>1, Frame
<1>3. RowTrue(t, row) /\ runs[i].chain = 1 /\ runs \in Seq(RunType)
  BY DEF IInv, HeldInv, HeldTask, RunsInv
<1>4. /\ RunsInv' /\ Len(runs') = Len(runs)
      /\ \A j \in 1..Len(runs) : j # i => runs'[j] = runs[j]
  <2>1. CASE UNCHANGED runs
    BY <1>1, <2>1, Frame
  <2>2. ASSUME NEW ch \in {2, 3}, runs' = [runs EXCEPT ![i].chain = ch]
        PROVE  /\ RunsInv' /\ Len(runs') = Len(runs)
               /\ \A j \in 1..Len(runs) : j # i => runs'[j] = runs[j]
    <3>1. /\ DOMAIN runs' = DOMAIN runs /\ runs' \in Seq(RunType)
          /\ \A j \in 1..Len(runs) : j # i => runs'[j] = runs[j]
          /\ runs'[i].task = runs[i].task /\ runs'[i].chain = ch
      BY <1>3, <2>2, EndRunRow
    <3>2. runs'[i].chain # 1
      BY <3>1
    <3> QED
      BY <1>1, <3>1, <3>2, RunsKeep
  <2> QED
    BY <2>1, <2>2
<1>5. HeldInv'
  <2>1. /\ DOMAIN held' = DOMAIN held \ {<<"runState", i>>}
        /\ \A k \in DOMAIN held' : held'[k] = held[k]
    BY WithoutHeld
  <2>2. \A k \in DOMAIN held' : k[1] = "runState" =>
           k[2] \in 1..Len(runs) /\ k[2] # i /\ runs[k[2]].chain = 1
    BY <2>1 DEF IInv, HeldInv
  <2>3. \A k \in DOMAIN held' : k[1] = "runState" =>
           /\ k[2] \in 1..Len(runs') /\ runs'[k[2]].task = runs[k[2]].task
           /\ runs'[k[2]].chain = 1
    BY <1>4, <2>2
  <2> QED
    BY <1>1, <2>1, <2>3, HeldFrame
<1>6. TaskInv' /\ GotInv'
  <2>1. CASE UNCHANGED <<task, got>>
    BY <1>1, <2>1, Frame
  <2>2. CASE /\ VDEWaitTx(<<"run", t, Src, runs[i].tx>>) = "block"
             /\ WriteRun(t, [row EXCEPT !.run = 1])
    <3>1. InBlock("run", t, Src)
      BY <1>3, <2>2 DEF VDEWaitTx, IInv, RunsInv, InBlock, Posted
    <3>2. RowTrue(t, [row EXCEPT !.run = 1])
      BY <1>3, <3>1, SetRun DEF RowTrue
    <3> QED
      BY <1>1, <2>2, <3>2, WriteRunKeeps
  <2>3. CASE WriteRun(t, [row EXCEPT !.run = 2])
    <3>1. RowTrue(t, [row EXCEPT !.run = 2])
      BY <1>3, SetRun DEF RowTrue
    <3> QED
      BY <1>1, <2>3, <3>1, WriteRunKeeps
  <2> QED
    BY <2>1, <2>2, <2>3
<1> QED
  BY <1>2, <1>4, <1>5, <1>6 DEF IInv

(* Both halves of the daemon that follows a run.                           *)
LEMMA StatusRunStateStep ==
  ASSUME IInv, NEW i \in 1..Len(runs), StatusRunState(i)
  PROVE  IInv'
<1>1. CASE /\ runs[i].chain = 1 /\ AtSource(runs[i].task)
           /\ Read("runState", i, RunRow(runs[i].task))
           /\ UNCHANGED <<task, auth, req, runs, got, txs>>
  BY <1>1, ReadRunStep
<1>2. CASE /\ <<"runState", i>> \in DOMAIN held
           /\ held' = Without(held, <<"runState", i>>)
           /\ \/ UNCHANGED <<task, got, runs>>
              \/ /\ UNCHANGED <<task, got>>
                 /\ \E ch \in {2, 3} : runs' = [runs EXCEPT ![i].chain = ch]
              \/ /\ VDEWaitTx(<<"run", runs[i].task, Src, runs[i].tx>>) = "block"
                 /\ runs' = [runs EXCEPT ![i].chain = 2]
                 /\ WriteRun(runs[i].task, [held[<<"runState", i>>] EXCEPT !.run = 1])
              \/ /\ runs' = [runs EXCEPT ![i].chain = 3]
                 /\ WriteRun(runs[i].task, [held[<<"runState", i>>] EXCEPT !.run = 2])
           /\ UNCHANGED <<auth, req, txs>>
  BY <1>2, EndRunStep
<1> QED
  BY <1>1, <1>2 DEF StatusRunState

(* All the daemons of a run.                                               *)
LEMMA FollowRunStep == ASSUME IInv, NEW i \in DOMAIN runs, FollowRun(i) PROVE IInv'
<1>1. i \in 1..Len(runs)
  BY DEF IInv, RunsInv
<1> QED
  BY <1>1, StatusRunStep, StatusRunStateStep
     DEF FollowRun, VDESrcTaskStatusRun, VDESrcTaskFromScheStatusRun,
         VDESrcTaskStatusRunState, VDESrcTaskFromScheStatusRunState

(* A row that is lost leaves the others as they are.                       *)
LEMMA WriteFailsStep == ASSUME IInv, NEW k, WriteFails(k) PROVE IInv'
<1>1. Grows /\ UNCHANGED <<task, auth, req, runs, got, txs>>
  BY DEF WriteFails, Grows
<1>2. DOMAIN held' \subseteq DOMAIN held /\ \A j \in DOMAIN held' : held'[j] = held[j]
  BY WithoutHeld DEF WriteFails
<1>3. HeldInv'
  BY <1>1, <1>2, HeldFrame DEF IInv, HeldInv
<1> QED
  BY <1>1, <1>3, Frame DEF IInv

-----------------------------------------------------------------------------
(* The invariant.                                                          *)

(* All tables are empty at first.                                          *)
LEMMA InitHolds == ASSUME Init PROVE IInv
<1>1. runs \in Seq(RunType) /\ Len(runs) = 0
  BY DEF Init
<1> QED
  BY <1>1 DEF Init, IInv, TaskInv, GotInv, HeldInv, ReqInv, AuthInv, RunsInv, TxsInv

(* Every step keeps the invariant.                                         *)
LEMMA NextStep == ASSUME IInv, [Next]_vars PROVE IInv'
<1>1. CASE User
  BY <1>1, UserStep
<1>2. CASE Daemons
  <2>1. ASSUME NEW t \in Tasks, ShareTask(t) \/ StartRun(t) PROVE IInv'
    BY <2>1, ShareTaskStep, StartRunStep
  <2>2. ASSUME NEW a \in Auths, ShareAuth(a) PROVE IInv'
    BY <2>2, ShareAuthStep
  <2>3. ASSUME NEW k \in DOMAIN req, PostRequest(k) PROVE IInv'
    BY <2>3, PostRequestStep
  <2>4. ASSUME NEW t \in ScheTasks, VDESrcTaskScheGetFromChain(t) PROVE IInv'
    BY <2>4, FromChainStep
  <2>5. ASSUME NEW i \in DOMAIN runs, FollowRun(i) PROVE IInv'
    BY <2>5, FollowRunStep
  <2>6. ASSUME NEW x \in DOMAIN txs, Mine(x) PROVE IInv'
    BY <2>6, MineStep
  <2> QED
    BY <1>2, <2>1, <2>2, <2>3, <2>4, <2>5, <2>6 DEF Daemons
<1>3. ASSUME NEW k \in DOMAIN held, WriteFails(k) PROVE IInv'
  BY <1>3, WriteFailsStep
<1>4. CASE UNCHANGED vars
  <2>1. Grows /\ UNCHANGED <<task, held, auth, req, runs, got, txs>>
    BY <1>4 DEF vars, Grows
  <2>2. HeldInv'
    BY <2>1, HeldFrame DEF IInv, HeldInv
  <2> QED
    BY <2>1, <2>2, Frame DEF IInv
<1> QED
  BY <1>1, <1>2, <1>3, <1>4 DEF Next

(* In every state, what is held, requested, running or posted is what the  *)
(* daemon that goes on with it relies on.                                  *)
THEOREM Invariant == Spec => []IInv
<1>1. Init => IInv
  BY InitHolds
<1>2. IInv /\ [Next]_vars => IInv'
  BY NextStep
<1> QED
  BY <1>1, <1>2, PTL DEF Spec

(* A table never shows a task, an authorisation or a run as on the chain   *)
(* when it is not, though the daemon that wrote so read its row long       *)
(* before: vde_src_task_chain_status.go:315 writes what it saw.             *)
THEOREM ShownIsThere == Spec => []ChainStateTrue
<1>1. IInv => ChainStateTrue
  BY DEF IInv, TaskInv, AuthInv, GotInv, RowTrue, ChainStateTrue, AtSource, RunRow
<1> QED
  BY <1>1, Invariant, PTL

(* A task is not run before its receivers have it on the chain: the rows   *)
(* that GetOneTimeTasks and GetScheTimeTasks select are shared, and a run  *)
(* posts long after its row was made.                                      *)
THEOREM RunsAreShared == Spec => []NoRunBeforeShared
<1>1. IInv => NoRunBeforeShared
  BY DEF IInv, TxsInv, Ready, NoRunBeforeShared, Posted
<1> QED
  BY <1>1, Invariant, PTL


-----------------------------------------------------------------------------
(* Types.                                                                  *)

ReqType == [inst : BOOLEAN, chain : 0..2, tx : 0..MaxCopies]

TaskOK == DOMAIN task \subseteq Tasks /\ \A t \in DOMAIN task : task[t] \in Row
HeldOK == \A k \in DOMAIN held : held[k] \in Row
AuthOK == DOMAIN auth \subseteq Auths /\ \A a \in DOMAIN auth : auth[a] \in 0..2
ReqOK  ==
  /\ IsFiniteSet(DOMAIN req) /\ DOMAIN req \subseteq Tasks \X Nodes \X (Nat \ {0})
  /\ \A k \in DOMAIN req : req[k] \in ReqType
GotOK  == DOMAIN got \subseteq Tasks /\ \A t \in DOMAIN got : got[t] \in Row
TxsOK  ==
  /\ IsFiniteSet(DOMAIN txs)
  /\ DOMAIN txs \subseteq {"share", "run"} \X Tasks \X Nodes \X (1..MaxCopies)
  /\ \A x \in DOMAIN txs : txs[x] \in {"pool", "block", "bad"}
CountOK == orders \in Nat /\ faults \in Nat

Types == TaskOK /\ HeldOK /\ AuthOK /\ ReqOK /\ GotOK /\ TxsOK /\ CountOK

(* A row as it is inserted.                                                *)
LEMMA NewRowType == NewRow \in Row
BY DEF NewRow, Row

(* What a write of a held row leaves in the table is a row, with each      *)
(* column the held one's or, where that is zero, the table's.              *)
LEMMA UpdatesRow ==
  ASSUME NEW row \in Row, NEW item \in Row
  PROVE  /\ Updates(row, item) \in Row
         /\ Updates(row, item).src = IF item.src = 0 THEN row.src ELSE item.src
         /\ Updates(row, item).dest = IF item.dest = 0 THEN row.dest ELSE item.dest
         /\ Updates(row, item).chain = IF item.chain = 0 THEN row.chain ELSE item.chain
         /\ Updates(row, item).run = IF item.run = 0 THEN row.run ELSE item.run
BY DEF Updates, Row

(* A daemon sets one column of the row it holds.                           *)
LEMMA SetColumnRow ==
  ASSUME NEW item \in Row, NEW col \in {"src", "dest", "chain"}, NEW v \in 0..2
  PROVE  LET i == [item EXCEPT ![col] = v] IN
         /\ i \in Row /\ i.run = item.run
         /\ i.src = IF col = "src" THEN v ELSE item.src
         /\ i.dest = IF col = "dest" THEN v ELSE item.dest
         /\ i.chain = IF col = "chain" THEN v ELSE item.chain
BY DEF Row

(* A daemon sets task_run_state of the row it holds.                       *)
LEMMA SetRunRow ==
  ASSUME NEW item \in Row, NEW v \in 0..3
  PROVE  /\ [item EXCEPT !.run = v] \in Row
         /\ [item EXCEPT !.run = v].run = v
         /\ [item EXCEPT !.run = v].src = item.src
         /\ [item EXCEPT !.run = v].dest = item.dest
         /\ [item EXCEPT !.run = v].chain = item.chain
BY DEF Row

(* The nodes a request can be made for.                                    *)
LEMMA NodesOfRequests ==
  /\ IsFiniteSet(Receivers) /\ Receivers \subseteq Nodes
  /\ \A a \in Auths : a = <<a[1], a[2]>> /\ a[1] \in SrcTasks /\ a[2] \in Nodes \ Receivers
<1>1. IsFiniteSet(Receivers)
  BY TaskAssumption, FS_Singleton, FS_Union DEF Receivers
<1> QED
  BY <1>1, TaskAssumption DEF Nodes, Receivers

(* Requests are made for finitely many receivers at a time.                *)
LEMMA NewRequestsType ==
  ASSUME ReqOK, NEW t \in Tasks, NEW ns \in SUBSET Nodes, IsFiniteSet(ns),
         NEW inst \in BOOLEAN, req' = NewRequests(t, ns, inst)
  PROVE  ReqOK'
<1> DEFINE S == {<<t, n, Copies(t, n) + 1>> : n \in ns}
           f == [n \in ns |-> <<t, n, Copies(t, n) + 1>>]
<1>1. f \in Surjection(ns, S)
  BY DEF Surjection
<1>2. IsFiniteSet(S)
  BY <1>1, FS_Surjection
<1>3. ASSUME NEW n \in ns PROVE <<t, n, Copies(t, n) + 1>> \in Tasks \X Nodes \X (Nat \ {0})
  <2>1. {k \in DOMAIN req : k[1] = t /\ k[2] = n} \in SUBSET DOMAIN req
    OBVIOUS
  <2>2. Copies(t, n) \in Nat
    BY <2>1, FS_Subset, FS_CardinalityType DEF Copies, ReqOK
  <2> QED
    BY <1>3, <2>2
<1>4. S \subseteq Tasks \X Nodes \X (Nat \ {0})
  BY <1>3
<1>5. /\ DOMAIN req' = DOMAIN req \cup S
      /\ \A k \in DOMAIN req' : \/ k \in DOMAIN req /\ req'[k] = req[k]
                                \/ req'[k] = [inst |-> inst, chain |-> 0, tx |-> 0]
  BY DEF NewRequests
<1>6. [inst |-> inst, chain |-> 0, tx |-> 0] \in ReqType
  BY TaskAssumption DEF ReqType
<1>7. IsFiniteSet(DOMAIN req \cup S)
  BY <1>2, FS_Union DEF ReqOK
<1> HIDE DEF S
<1> QED
  BY <1>4, <1>5, <1>6, <1>7 DEF ReqOK

(* A post is of a task, for a node.                                        *)
LEMMA PostType ==
  ASSUME TxsOK, NEW w \in {"share", "run"}, NEW t \in Tasks, NEW n \in Nodes,
         NEW c \in 1..MaxCopies, VDEPostTxResult(w, t, n, c)
  PROVE  TxsOK'
<1>1. /\ DOMAIN txs' = DOMAIN txs \cup {<<w, t, n, c>>}
      /\ \A x \in DOMAIN txs' : (x \in DOMAIN txs /\ txs'[x] = txs[x]) \/ txs'[x] = "pool"
  BY DEF VDEPostTxResult, With
<1>2. IsFiniteSet(DOMAIN txs')
  BY <1>1, FS_AddElement DEF TxsOK
<1> QED
  BY <1>1, <1>2 DEF TxsOK

(* A row that is read is held; the others are as they were.                *)
LEMMA ReadType ==
  ASSUME HeldOK, NEW d, NEW t, NEW row \in Row, Read(d, t, row)
  PROVE  /\ HeldOK'
         /\ DOMAIN held' = DOMAIN held \cup {<<d, t>>} /\ held'[<<d, t>>] = row
         /\ \A k \in DOMAIN held : held'[k] = held[k]
BY DEF Read, With, HeldOK

(* A column that is written leaves rows.                                   *)
LEMMA WriteTaskType ==
  ASSUME TaskOK, HeldOK, NEW d, NEW t, NEW col \in {"src", "dest", "chain"},
         NEW v \in 0..2, WriteTask(d, t, col, v)
  PROVE  TaskOK' /\ HeldOK'
<1>1. held[<<d, t>>] \in Row /\ [held[<<d, t>>] EXCEPT ![col] = v] \in Row
  BY SetColumnRow DEF WriteTask, HeldOK
<1>2. \A u \in DOMAIN task : Updates(task[u], [held[<<d, t>>] EXCEPT ![col] = v]) \in Row
  BY <1>1, UpdatesRow DEF TaskOK
<1>3. TaskOK'
  BY <1>2 DEF WriteTask, TaskOK
<1> QED
  BY <1>3, WithoutHeld DEF WriteTask, HeldOK

(* So does the end of a run.                                               *)
LEMMA WriteRunType ==
  ASSUME TaskOK, GotOK, NEW t, NEW item \in Row, WriteRun(t, item)
  PROVE  TaskOK' /\ GotOK'
<1>1. /\ \A u \in DOMAIN task : Updates(task[u], item) \in Row
      /\ \A u \in DOMAIN got : Updates(got[u], item) \in Row
  BY UpdatesRow DEF TaskOK, GotOK
<1> QED
  BY <1>1 DEF WriteRun, TaskOK, GotOK

(* The table that the source runs a task from has its row.                 *)
LEMMA RunRowType == ASSUME TaskOK, GotOK, NEW t, AtSource(t) PROVE RunRow(t) \in Row
BY DEF AtSource, RunRow, TaskOK, GotOK

(* What a step leaves alone keeps its type.                                *)
LEMMA TypesFrame ==
  ASSUME Types
  PROVE  /\ UNCHANGED task => TaskOK'
         /\ UNCHANGED held => HeldOK'
         /\ UNCHANGED auth => AuthOK'
         /\ UNCHANGED req => ReqOK'
         /\ UNCHANGED got => GotOK'
         /\ UNCHANGED txs => TxsOK'
         /\ UNCHANGED orders /\ (UNCHANGED faults \/ faults' = faults + 1) => CountOK'
<1> USE DEF Types
<1>1. UNCHANGED task => TaskOK'
  BY DEF TaskOK
<1>2. UNCHANGED held => HeldOK'
  BY DEF HeldOK
<1>3. UNCHANGED auth => AuthOK'
  BY DEF AuthOK
<1>4. UNCHANGED req => ReqOK'
  BY DEF ReqOK
<1>5. UNCHANGED got => GotOK'
  BY DEF GotOK
<1>6. UNCHANGED txs => TxsOK'
  BY DEF TxsOK
<1>7. UNCHANGED orders /\ (UNCHANGED faults \/ faults' = faults + 1) => CountOK'
  BY DEF CountOK
<1> QED
  BY <1>1, <1>2, <1>3, <1>4, <1>5, <1>6, <1>7

-----------------------------------------------------------------------------
(* One lemma per kind of step.                                             *)

(* A form is a row, with every column that the row has and no other.       *)
LEMMA FormRow ==
  ASSUME NEW t, NEW row \in Row, NEW form \in Forms(t, row)
  PROVE  /\ form \in Row /\ form.src = row.src /\ form.dest = row.dest
         /\ form.chain = 0 <=> row.chain = 0
         /\ form.run = 0 <=> row.run = 0
<1>1. /\ form.src = row.src /\ form.dest = row.dest /\ form.state \in {1, 2}
      /\ form.run \in 0..3 /\ form.chain \in 0..2
      /\ form.chain = 0 <=> row.chain = 0
      /\ form.run = 0 <=> row.run = 0
      /\ form = [src |-> form.src, dest |-> form.dest, run |-> form.run,
                 chain |-> form.chain, state |-> form.state]
  BY DEF Forms
<1>2. form.src \in 0..2 /\ form.dest \in 0..2 /\ form.state \in 1..2
  BY <1>1 DEF Row
<1>3. form \in Row
  BY <1>1, <1>2 DEF Row
<1> QED
  BY <1>1, <1>3

(* The users.                                                              *)
LEMMA UserType == ASSUME Types, User PROVE Types'
<1>1. ASSUME NEW t \in Tasks, Create(t) PROVE Types'
  <2>1. TaskOK'
    BY <1>1, NewRowType DEF Create, With, Types, TaskOK
  <2> QED
    BY <1>1, <2>1, TypesFrame DEF Create, Types
<1>2. ASSUME NEW t, NEW form, TaskForm(t, form) PROVE Types'
  <2>1. task[t] \in Row /\ form \in Forms(t, task[t])
    BY <1>2 DEF TaskForm, Types, TaskOK
  <2>2. PICK new : new = Updates(task[t], form)
    OBVIOUS
  <2>3. new \in Row
    BY <2>1, <2>2, FormRow, UpdatesRow
  <2>4. TaskOK'
    BY <1>2, <2>2, <2>3 DEF TaskForm, Types, TaskOK
  <2>5. CountOK'
    BY <1>2 DEF TaskForm, SendForm, Types, CountOK
  <2> QED
    BY <1>2, <2>4, <2>5, TypesFrame DEF TaskForm, SendForm, Types
<1>4. ASSUME NEW t, NEW form, GotForm(t, form) PROVE Types'
  <2>1. got[t] \in Row /\ form \in Forms(t, got[t])
    BY <1>4 DEF GotForm, Types, GotOK
  <2>2. PICK new : new = Updates(got[t], form)
    OBVIOUS
  <2>3. new \in Row
    BY <2>1, <2>2, FormRow, UpdatesRow
  <2>4. GotOK'
    BY <1>4, <2>2, <2>3 DEF GotForm, Types, GotOK
  <2>5. CountOK'
    BY <1>4 DEF GotForm, SendForm, Types, CountOK
  <2> QED
    BY <1>4, <2>4, <2>5, TypesFrame DEF GotForm, SendForm, Types
<1>3. ASSUME NEW a \in Auths, Authorise(a) PROVE Types'
  <2>1. AuthOK'
    BY <1>3 DEF Authorise, With, Types, AuthOK
  <2> QED
    BY <1>3, <2>1, TypesFrame DEF Authorise, Types
<1> QED
  BY <1>1, <1>2, <1>3, <1>4, UserKinds

(* The daemons that share a task.                                          *)
LEMMA ShareTaskType == ASSUME Types, NEW t \in Tasks, ShareTask(t) PROVE Types'
<1>1. ASSUME NEW d, t \in DOMAIN task, Read(d, t, task[t]) PROVE HeldOK'
  BY <1>1, ReadType DEF Types, TaskOK
<1>2. ASSUME NEW d, NEW col \in {"src", "dest", "chain"}, NEW v \in 0..2,
             WriteTask(d, t, col, v),
             UNCHANGED <<auth, req, runs, got, txs, orders, faults>>
      PROVE  Types'
  BY <1>2, WriteTaskType, TypesFrame DEF Types
<1>3. ASSUME NEW d, t \in DOMAIN task, Read(d, t, task[t]),
             UNCHANGED <<task, auth, req, runs, got, txs, orders, faults>>
      PROVE  Types'
  BY <1>1, <1>3, TypesFrame DEF Types
<1>4. ASSUME NEW col \in {"src", "dest"}, Install(t, col) PROVE Types'
  BY <1>2, <1>3, <1>4 DEF Install
<1>5. CASE ChainStatus(t)
  <2>1. ASSUME NEW ns \in SUBSET Receivers, req' = NewRequests(t, ns, TRUE),
               t \in DOMAIN task, UNCHANGED held \/ Read("chain", t, task[t]),
               UNCHANGED <<task, auth, runs, got, txs, orders>>,
               UNCHANGED faults \/ faults' = faults + 1
        PROVE  Types'
    <3>1. ns \in SUBSET Nodes /\ IsFiniteSet(ns)
      BY NodesOfRequests, FS_Subset
    <3>2. ReqOK'
      BY <2>1, <3>1, NewRequestsType DEF Types
    <3>3. HeldOK'
      BY <1>1, <2>1, TypesFrame
    <3> QED
      BY <2>1, <3>2, <3>3, TypesFrame DEF Types
  <2>2. CASE req' = NewRequests(t, Receivers, TRUE) /\ Read("chain", t, task[t]) /\ Sound
             /\ t \in DOMAIN task /\ UNCHANGED <<task, auth, runs, got, txs, orders>>
    BY <2>1, <2>2 DEF Sound
  <2>3. ASSUME NEW d \in Dests, req' = NewRequests(t, Receivers \ {d}, TRUE), Fault,
               UNCHANGED held \/ Read("chain", t, task[t]), t \in DOMAIN task,
               UNCHANGED <<task, auth, runs, got, txs, orders>>
        PROVE  Types'
    <3>1. (Receivers \ {d}) \in SUBSET Receivers
      OBVIOUS
    <3> QED
      BY <2>1, <2>3, <3>1 DEF Fault
  <2>4. CASE /\ WriteTask("chain", t, "chain", 1)
             /\ UNCHANGED <<auth, req, runs, got, txs, orders, faults>>
    BY <1>2, <2>4
  <2> QED
    BY <1>5, <2>2, <2>3, <2>4 DEF ChainStatus
<1>6. CASE ChainStatusState(t)
  BY <1>2, <1>3, <1>6 DEF ChainStatusState
<1> QED
  BY <1>4, <1>5, <1>6
     DEF ShareTask, VDESrcTaskInstallContractSrc, VDEScheTaskInstallContractSrc,
         VDEScheTaskInstallContractDest, VDESrcTaskChainStatus, VDEScheTaskChainStatus,
         VDESrcTaskChainStatusState, VDEScheTaskChainStatusState

(* Authorisations.                                                         *)
LEMMA ShareAuthType == ASSUME Types, NEW a \in Auths, ShareAuth(a) PROVE Types'
<1>1. a[1] \in Tasks /\ {a[2]} \in SUBSET Nodes /\ IsFiniteSet({a[2]})
  BY NodesOfRequests, FS_Singleton DEF Tasks
<1>2. CASE VDESrcTaskAuthChainStatus(a)
  <2>1. Installed(a[1], task[a[1]]) \in BOOLEAN
    BY DEF Installed
  <2>2. ReqOK'
    BY <1>1, <1>2, <2>1, NewRequestsType DEF VDESrcTaskAuthChainStatus, Types
  <2>3. AuthOK'
    BY <1>2 DEF VDESrcTaskAuthChainStatus, Types, AuthOK
  <2> QED
    BY <1>2, <2>2, <2>3, TypesFrame DEF VDESrcTaskAuthChainStatus, Sound, Fault, Types
<1>3. CASE VDESrcTaskAuthChainStatusState(a)
  <2>1. AuthOK'
    BY <1>3 DEF VDESrcTaskAuthChainStatusState, Types, AuthOK
  <2> QED
    BY <1>3, <2>1, TypesFrame DEF VDESrcTaskAuthChainStatusState, Types
<1> QED
  BY <1>2, <1>3 DEF ShareAuth

(* Requests go to the chain.                                               *)
LEMMA PostRequestType == ASSUME Types, NEW k \in DOMAIN req, PostRequest(k) PROVE Types'
<1>1. k[1] \in Tasks /\ k[2] \in Nodes /\ req[k] \in ReqType
  BY DEF Types, ReqOK
<1>2. CASE UpToChain(k)
  <2>1. PICK c \in 1..MaxCopies :
          /\ VDEPostTxResult("share", k[1], k[2], c)
          /\ \/ req' = [req EXCEPT ![k].chain = 1, ![k].tx = c]
             \/ UNCHANGED req
    BY <1>2 DEF UpToChain
  <2>2. TxsOK'
    BY <1>1, <2>1, PostType DEF Types
  <2>3. [[req[k] EXCEPT !.chain = 1] EXCEPT !.tx = c] \in ReqType
    <3>1. c \in 0..MaxCopies
      BY TaskAssumption
    <3>2. [req[k] EXCEPT !.chain = 1] \in ReqType
      BY <1>1 DEF ReqType
    <3> QED
      BY <3>1, <3>2 DEF ReqType
  <2>4. ReqOK'
    BY <2>1, <2>3 DEF Types, ReqOK
  <2> QED
    BY <1>2, <2>2, <2>4, TypesFrame DEF UpToChain, Sound, Fault, Types
<1>3. CASE UpToChainState(k)
  <2>1. [req[k] EXCEPT !.chain = 2] \in ReqType
    BY <1>1 DEF ReqType
  <2>2. ReqOK'
    BY <1>3, <2>1 DEF UpToChainState, Types, ReqOK
  <2> QED
    BY <1>3, <2>2, TypesFrame DEF UpToChainState, Types
<1> QED
  BY <1>2, <1>3 DEF PostRequest, VDESrcTaskUpToChain, VDEScheTaskUpToChain,
                    VDESrcTaskUpToChainState, VDEScheTaskUpToChainState

(* The chain decides, or the source reads it.                              *)
LEMMA ChainType ==
  ASSUME Types, \/ \E x \in DOMAIN txs : Mine(x)
                \/ \E t \in ScheTasks : VDESrcTaskScheGetFromChain(t)
  PROVE  Types'
<1>1. ASSUME NEW x \in DOMAIN txs, Mine(x) PROVE Types'
  <2>1. TxsOK'
    BY <1>1 DEF Mine, Types, TxsOK
  <2> QED
    BY <1>1, <2>1, TypesFrame DEF Mine, Sound, Fault, Types
<1>2. ASSUME NEW t \in ScheTasks, VDESrcTaskScheGetFromChain(t) PROVE Types'
  <2>1. \A u \in DOMAIN got : Updates(got[u], NewRow) \in Row
    BY UpdatesRow, NewRowType DEF Types, GotOK
  <2>2. GotOK'
    BY <1>2, <2>1, NewRowType DEF VDESrcTaskScheGetFromChain, With, Types, GotOK, Tasks
  <2> QED
    BY <1>2, <2>2, TypesFrame DEF VDESrcTaskScheGetFromChain, Types
<1> QED
  BY <1>1, <1>2

(* A run is made, and its task is marked.                                  *)
LEMMA StartRunType == ASSUME Types, NEW t \in Tasks, StartRun(t) PROVE Types'
<1>1. CASE /\ AtSource(t) /\ Read("status", t, RunRow(t))
           /\ UNCHANGED <<task, auth, req, got, txs, orders, faults>>
  <2>1. HeldOK'
    BY <1>1, RunRowType, ReadType DEF Types
  <2> QED
    BY <1>1, <2>1, TypesFrame DEF Types
<1>2. CASE /\ <<"status", t>> \in DOMAIN held /\ held' = Without(held, <<"status", t>>)
           /\ WriteRun(t, [held[<<"status", t>>] EXCEPT !.run = 3])
           /\ UNCHANGED <<auth, req, txs, orders, faults>>
  <2>1. [held[<<"status", t>>] EXCEPT !.run = 3] \in Row
    <3>1. held[<<"status", t>>] \in Row
      BY <1>2 DEF Types, HeldOK
    <3> QED
      BY <3>1 DEF Row
  <2>2. TaskOK' /\ GotOK'
    BY <1>2, <2>1, WriteRunType DEF Types
  <2>3. HeldOK'
    BY <1>2, WithoutHeld DEF Types, HeldOK
  <2> QED
    BY <1>2, <2>2, <2>3, TypesFrame DEF Types
<1> QED
  BY <1>1, <1>2 DEF StartRun, VDESrcTaskStatus, VDESrcTaskFromScheStatus, TaskStatus

(* A run is posted, and followed.                                          *)
LEMMA FollowRunType == ASSUME IInv, Types, NEW i \in DOMAIN runs, FollowRun(i) PROVE Types'
<1>1. runs[i] \in RunType /\ runs[i].task \in Tasks /\ Src \in Nodes
  <2>1. runs[i] \in RunType
    BY DEF IInv, RunsInv
  <2> QED
    BY <2>1 DEF RunType, Nodes, Receivers
<1>2. CASE StatusRun(i)
  <2> PICK t : t = runs[i].task
    OBVIOUS
  <2>1. UNCHANGED txs \/ \E c \in 1..MaxCopies : VDEPostTxResult("run", t, Src, c)
    BY <1>2 DEF StatusRun
  <2>2. TxsOK'
    BY <1>1, <2>1, PostType, TypesFrame DEF Types
  <2> QED
    BY <1>2, <2>2, TypesFrame DEF StatusRun, Sound, Fault, Types
<1>3. CASE StatusRunState(i)
  <2>1. CASE /\ AtSource(runs[i].task) /\ Read("runState", i, RunRow(runs[i].task))
             /\ UNCHANGED <<task, auth, req, got, txs, orders, faults>>
    <3>1. HeldOK'
      BY <2>1, RunRowType, ReadType DEF Types
    <3> QED
      BY <2>1, <3>1, TypesFrame DEF Types
  <2>2. ASSUME <<"runState", i>> \in DOMAIN held, held' = Without(held, <<"runState", i>>),
               \/ UNCHANGED <<task, got>>
               \/ \E v \in {1, 2} :
                    WriteRun(runs[i].task, [held[<<"runState", i>>] EXCEPT !.run = v]),
               UNCHANGED <<auth, req, txs, orders>>,
               UNCHANGED faults \/ faults' = faults + 1
        PROVE  Types'
    <3>1. \A v \in {1, 2} : [held[<<"runState", i>>] EXCEPT !.run = v] \in Row
      <4>1. held[<<"runState", i>>] \in Row
        BY <2>2 DEF Types, HeldOK
      <4> QED
        BY <4>1 DEF Row
    <3>2. TaskOK' /\ GotOK'
      BY <2>2, <3>1, WriteRunType, TypesFrame DEF Types
    <3>3. HeldOK'
      BY <2>2, WithoutHeld DEF Types, HeldOK
    <3> QED
      BY <2>2, <3>2, <3>3, TypesFrame DEF Types
  <2> QED
    BY <1>3, <2>1, <2>2 DEF StatusRunState, Sound, Fault
<1> QED
  BY <1>2, <1>3
     DEF FollowRun, VDESrcTaskStatusRun, VDESrcTaskFromScheStatusRun,
         VDESrcTaskStatusRunState, VDESrcTaskFromScheStatusRunState

(* Every step.                                                             *)
LEMMA TypesStep == ASSUME IInv, Types, [Next]_vars PROVE Types'
<1>1. CASE User
  BY <1>1, UserType
<1>2. CASE Daemons
  BY <1>2, ShareTaskType, StartRunType, ShareAuthType, PostRequestType, ChainType,
     FollowRunType DEF Daemons
<1>3. ASSUME NEW k \in DOMAIN held, WriteFails(k) PROVE Types'
  <2>1. HeldOK'
    BY <1>3, WithoutHeld DEF WriteFails, Types, HeldOK
  <2> QED
    BY <1>3, <2>1, TypesFrame DEF WriteFails, Fault, Types
<1>4. CASE UNCHANGED vars
  BY <1>4, TypesFrame DEF vars, Types
<1> QED
  BY <1>1, <1>2, <1>3, <1>4 DEF Next

(* All tables are empty at first.                                          *)
LEMMA TypesInit == ASSUME Init PROVE Types
BY FS_EmptySet DEF Init, Types, TaskOK, HeldOK, AuthOK, ReqOK, GotOK, TxsOK, CountOK

\* The tables and daemons have their types in every reachable state.
LEMMA TypesHold == Spec => [](IInv /\ Types)
<1>1. Init => Types
  BY TypesInit
<1>2. IInv /\ Types /\ [Next]_vars => Types'
  BY TypesStep
<1> QED
  BY <1>1, <1>2, Invariant, PTL DEF Spec

(* The rows of every table hold values the daemons know.                   *)
THEOREM TypeCorrect == Spec => []TypeOK
<1>1. IInv /\ Types => TypeOK
  BY DEF IInv, RunsInv, RunType, Types, TaskOK, HeldOK, AuthOK, ReqOK, ReqType, GotOK,
         TxsOK, CountOK, TypeOK
<1> QED
  BY <1>1, TypesHold, PTL

-----------------------------------------------------------------------------
(* Rows that are written back late.                                        *)

(* A row that is held of the task's own table; the source holds rows of a  *)
(* task of the scheduling node in a table of its own (got).                *)
OfTable(k) == k[1] \in {"status", "runState"} => HeldTask(k) \in SrcTasks

(* A row that is held against the one in the table: what it has of a       *)
(* column the table still has, and the column the daemon d is about to set *)
(* is as the daemon read it.  Once users have sent forms (o is how many)   *)
(* the chain state may be an older one, but for no chain state at all.     *)
Late(o, d, t, row, tab) ==
  /\ row.src # 0 => row.src = tab.src
  /\ row.dest # 0 => row.dest = tab.dest
  /\ row.chain # 0 => tab.chain # 0 /\ (o = 0 => row.chain = tab.chain)
  /\ d = "src" => tab.src = 0
  /\ d = "dest" => tab.dest = 0 /\ t \in ScheTasks
  /\ d = "chain" => tab.chain = 0 /\ Installed(t, tab)
  /\ d = "chainState" => tab.chain # 0 /\ (o = 0 => tab.chain = 1)
  /\ d \in {"status", "runState"} => tab.chain # 0 /\ (o = 0 => tab.chain = 2)
  /\ d \in {"src", "dest", "chain", "chainState", "status", "runState"}

(* Only a task whose contracts are installed has a chain state, and a task *)
(* of the source has no contract at a destination.                         *)
TabOK(t, tab) ==
  /\ tab.chain # 0 => Installed(t, tab)
  /\ t \in SrcTasks => tab.dest = 0

TabInv  == \A t \in DOMAIN task : TabOK(t, task[t])
LateInv ==
  \A k \in DOMAIN held : OfTable(k) =>
    /\ HeldTask(k) \in DOMAIN task
    /\ Late(orders, k[1], HeldTask(k), held[k], task[HeldTask(k)])
RunTabInv ==
  \A i \in DOMAIN runs : runs[i].task \in SrcTasks =>
    /\ runs[i].task \in DOMAIN task /\ task[runs[i].task].chain # 0
    /\ orders = 0 => task[runs[i].task].chain = 2

RowsInv == TabInv /\ LateInv /\ RunTabInv

(* Nothing goes back in one row.                                           *)
Onward(o, tab, new) ==
  /\ tab.chain # 0 => new.chain # 0
  /\ o = 0 => new.chain >= tab.chain
  /\ tab.src # 0 => new.src = tab.src
  /\ tab.dest # 0 => new.dest = tab.dest
  /\ tab.run # 0 => new.run # 0

(* The columns that Late speaks of.                                        *)
SameCols(o, tab, new) ==
  /\ tab.src = new.src /\ tab.dest = new.dest
  /\ tab.chain = 0 <=> new.chain = 0
  /\ o = 0 => tab.chain = new.chain

(* A daemon that sets its column, or task_run_state, changes that column   *)
(* alone: the rest of the row it held is what the table has.               *)
LEMMA WriteColumn ==
  ASSUME NEW o, NEW t \in Tasks, NEW tab \in Row, TabOK(t, tab), NEW row \in Row,
         NEW d, NEW col \in {"src", "dest", "chain"}, NEW v \in 1..2, Late(o, d, t, row, tab),
         \/ d = "src" /\ col = "src"
         \/ d = "dest" /\ col = "dest"
         \/ d = "chain" /\ col = "chain" /\ v = 1
         \/ d = "chainState" /\ col = "chain" /\ v = 2,
         NEW item, item = [row EXCEPT ![col] = v], NEW new, new = Updates(tab, item)
  PROVE  /\ new \in Row /\ TabOK(t, new) /\ Onward(o, tab, new)
         /\ new.src = IF col = "src" THEN v ELSE tab.src
         /\ new.dest = IF col = "dest" THEN v ELSE tab.dest
         /\ new.chain = IF col = "chain" THEN v ELSE tab.chain
<1>1. /\ item \in Row /\ item.run = row.run
      /\ item.src = IF col = "src" THEN v ELSE row.src
      /\ item.dest = IF col = "dest" THEN v ELSE row.dest
      /\ item.chain = IF col = "chain" THEN v ELSE row.chain
  <2>1. v \in 0..2
    OBVIOUS
  <2> QED
    BY <2>1 DEF Row
<1>2. /\ new \in Row
      /\ new.src = IF item.src = 0 THEN tab.src ELSE item.src
      /\ new.dest = IF item.dest = 0 THEN tab.dest ELSE item.dest
      /\ new.chain = IF item.chain = 0 THEN tab.chain ELSE item.chain
      /\ new.run = IF item.run = 0 THEN tab.run ELSE item.run
  BY <1>1, UpdatesRow
<1>3. /\ new.src = IF col = "src" THEN v ELSE tab.src
      /\ new.dest = IF col = "dest" THEN v ELSE tab.dest
      /\ new.chain = IF col = "chain" THEN v ELSE tab.chain
  <2>1. col # "chain" => tab.chain = 0 /\ row.chain = 0
    BY TaskAssumption DEF Late, TabOK, Installed
  <2> QED
    BY <1>1, <1>2, <2>1 DEF Late
<1>4. Onward(o, tab, new)
  BY <1>1, <1>2, <1>3 DEF Onward, Late, Row
<1>5. TabOK(t, new)
  BY <1>3, TaskAssumption DEF TabOK, Late, Installed
<1> QED
  BY <1>2, <1>3, <1>4, <1>5

(* The other rows that are held of that task stay late.                    *)
LEMMA OthersStayLate ==
  ASSUME NEW o, NEW t \in Tasks, NEW tab \in Row, TabOK(t, tab), NEW row \in Row,
         NEW d, NEW col \in {"src", "dest", "chain"}, NEW v \in 1..2, Late(o, d, t, row, tab),
         \/ d = "src" /\ col = "src"
         \/ d = "dest" /\ col = "dest"
         \/ d = "chain" /\ col = "chain" /\ v = 1
         \/ d = "chainState" /\ col = "chain" /\ v = 2,
         NEW new, new.src = IF col = "src" THEN v ELSE tab.src,
         new.dest = IF col = "dest" THEN v ELSE tab.dest,
         new.chain = IF col = "chain" THEN v ELSE tab.chain,
         NEW e, e # d, NEW other \in Row, Late(o, e, t, other, tab)
  PROVE  Late(o, e, t, other, new)
BY TaskAssumption DEF Late, TabOK, Installed

(* So does every row when task_run_state alone is written.                 *)
LEMMA WriteRunColumn ==
  ASSUME NEW o, NEW t, NEW tab \in Row, NEW row \in Row, NEW d, Late(o, d, t, row, tab),
         NEW v \in 1..3, NEW new, new = Updates(tab, [row EXCEPT !.run = v])
  PROVE  new \in Row /\ SameCols(o, tab, new) /\ Onward(o, tab, new)
<1> DEFINE item == [row EXCEPT !.run = v]
<1>1. /\ item \in Row /\ item.run = v /\ item.src = row.src
      /\ item.dest = row.dest /\ item.chain = row.chain
  <2>1. v \in 0..3
    OBVIOUS
  <2> QED
    BY <2>1, SetRunRow
<1>2. /\ new \in Row
      /\ new.src = IF item.src = 0 THEN tab.src ELSE item.src
      /\ new.dest = IF item.dest = 0 THEN tab.dest ELSE item.dest
      /\ new.chain = IF item.chain = 0 THEN tab.chain ELSE item.chain
      /\ new.run = IF item.run = 0 THEN tab.run ELSE item.run
  BY <1>1, UpdatesRow
<1> HIDE DEF item
<1>3. SameCols(o, tab, new)
  BY <1>1, <1>2 DEF Late, SameCols
<1> QED
  BY <1>1, <1>2, <1>3 DEF Onward, SameCols, Row

(* Rows with the same columns are as late and as good.                     *)
LEMMA SameColsSame ==
  ASSUME NEW o, NEW o2, o2 = 0 => o = 0, NEW t, NEW tab, NEW new, SameCols(o2, tab, new)
  PROVE  /\ TabOK(t, tab) => TabOK(t, new)
         /\ \A d, row : Late(o, d, t, row, tab) => Late(o2, d, t, row, new)
BY DEF SameCols, TabOK, Late, Installed

-----------------------------------------------------------------------------
(* Every step moves the rows of the tasks on, and keeps what is held late. *)

TaskOnward == \A t \in DOMAIN task : t \in DOMAIN task' /\ Onward(orders', task[t], task'[t])

(* A row is where it was.                                                  *)
LEMMA OnwardSame ==
  ASSUME NEW o, NEW row \in Row
  PROVE  Onward(o, row, row) /\ SameCols(o, row, row)
BY DEF Onward, SameCols, Row

(* A step that reads no row and sets no column Late speaks of.             *)
LEMMA RowsFrame ==
  ASSUME RowsInv, orders' = 0 => orders = 0,
         DOMAIN held' \subseteq DOMAIN held, \A k \in DOMAIN held' : held'[k] = held[k],
         \A t \in DOMAIN task : t \in DOMAIN task' /\ SameCols(orders', task[t], task'[t]),
         \A t \in DOMAIN task' \ DOMAIN task : TabOK(t, task'[t]),
         DOMAIN runs' = DOMAIN runs,
         \A i \in DOMAIN runs : runs'[i].task = runs[i].task,
         \A k \in DOMAIN held : k[1] = "runState" => k[2] \in DOMAIN runs
  PROVE  RowsInv'
<1>1. TabInv'
  BY SameColsSame DEF RowsInv, TabInv
<1>2. ASSUME NEW k \in DOMAIN held', OfTable(k)'
      PROVE  /\ HeldTask(k)' \in DOMAIN task'
             /\ Late(orders', k[1], HeldTask(k)', held'[k], task'[HeldTask(k)'])
  <2>1. k \in DOMAIN held /\ held'[k] = held[k]
    OBVIOUS
  <2>2. PICK t : t = HeldTask(k)
    OBVIOUS
  <2>3. HeldTask(k)' = t
    BY <2>1, <2>2 DEF HeldTask
  <2>4. OfTable(k)
    BY <1>2, <2>2, <2>3 DEF OfTable
  <2>5. t \in DOMAIN task /\ Late(orders, k[1], t, held[k], task[t])
    BY <2>1, <2>2, <2>4 DEF RowsInv, LateInv
  <2> QED
    BY <2>1, <2>3, <2>5, SameColsSame
<1>3. LateInv'
  BY <1>2 DEF LateInv
<1>4. RunTabInv'
  BY DEF RowsInv, RunTabInv, SameCols
<1> QED
  BY <1>1, <1>3, <1>4 DEF RowsInv

(* A step that leaves the tasks alone.                                     *)
LEMMA RowsLeft ==
  ASSUME IInv, Types, RowsInv, UNCHANGED <<task, orders>>,
         DOMAIN held' \subseteq DOMAIN held, \A k \in DOMAIN held' : held'[k] = held[k],
         DOMAIN runs' = DOMAIN runs, \A i \in DOMAIN runs : runs'[i].task = runs[i].task
  PROVE  RowsInv' /\ TaskOnward
<1>1. \A t \in DOMAIN task : Onward(orders', task[t], task[t]) /\ SameCols(orders', task[t], task[t])
  BY OnwardSame DEF Types, TaskOK
<1>2. \A k \in DOMAIN held : k[1] = "runState" => k[2] \in DOMAIN runs
  BY DEF IInv, HeldInv, RunsInv
<1> QED
  BY <1>1, <1>2, RowsFrame DEF TaskOnward

(* A daemon reads a row that is as it needs it.                            *)
LEMMA RowsRead ==
  ASSUME IInv, Types, RowsInv, UNCHANGED task, NEW d, NEW t, t \in DOMAIN task,
         d # "runState", Read(d, t, task[t]), Late(orders, d, t, task[t], task[t]),
         UNCHANGED <<runs, orders>>
  PROVE  RowsInv' /\ TaskOnward
<1>1. \A u \in DOMAIN task : Onward(orders', task[u], task[u])
  BY OnwardSame DEF Types, TaskOK
<1>2. /\ DOMAIN held' = DOMAIN held \cup {<<d, t>>} /\ held'[<<d, t>>] = task[t]
      /\ \A k \in DOMAIN held : held'[k] = held[k]
  BY ReadType DEF Types, TaskOK
<1>3. HeldTask(<<d, t>>)' = t
  BY DEF HeldTask
<1>4. ASSUME NEW k \in DOMAIN held, OfTable(k)'
      PROVE  /\ HeldTask(k)' \in DOMAIN task'
             /\ Late(orders', k[1], HeldTask(k)', held'[k], task'[HeldTask(k)'])
  <2>1. HeldTask(k)' = HeldTask(k) /\ (OfTable(k)' <=> OfTable(k))
    BY DEF HeldTask, OfTable
  <2> QED
    BY <1>2, <1>4, <2>1 DEF RowsInv, LateInv
<1>5. LateInv'
  BY <1>2, <1>3, <1>4 DEF LateInv
<1> QED
  BY <1>1, <1>5 DEF RowsInv, TabInv, RunTabInv, TaskOnward

(* A daemon writes its column.                                             *)
LEMMA RowsWrite ==
  ASSUME IInv, Types, RowsInv, NEW t \in Tasks, NEW d, NEW col \in {"src", "dest", "chain"},
         NEW v \in 1..2, WriteTask(d, t, col, v), UNCHANGED <<runs, orders>>,
         \/ d = "src" /\ col = "src"
         \/ d = "dest" /\ col = "dest"
         \/ d = "chain" /\ col = "chain" /\ v = 1
         \/ d = "chainState" /\ col = "chain" /\ v = 2
  PROVE  RowsInv' /\ TaskOnward
<1> PICK row, tab, item, new : /\ row = held[<<d, t>>] /\ tab = task[t]
                               /\ item = [row EXCEPT ![col] = v]
                               /\ new = Updates(tab, item)
  OBVIOUS
<1>1. /\ <<d, t>> \in DOMAIN held /\ t \in DOMAIN task /\ Late(orders, d, t, row, tab)
      /\ row \in Row /\ tab \in Row /\ TabOK(t, tab)
  BY DEF WriteTask, Types, HeldOK, TaskOK, RowsInv, TabInv, LateInv, OfTable, HeldTask
<1>2. /\ DOMAIN task' = DOMAIN task /\ task'[t] = new
      /\ \A u \in DOMAIN task : u # t => task'[u] = task[u]
  BY <1>1 DEF WriteTask
<1>3. /\ DOMAIN held' = DOMAIN held \ {<<d, t>>}
      /\ \A k \in DOMAIN held' : held'[k] = held[k]
  BY WithoutHeld DEF WriteTask
<1>4. /\ new \in Row /\ TabOK(t, new) /\ Onward(orders, tab, new)
      /\ new.src = IF col = "src" THEN v ELSE tab.src
      /\ new.dest = IF col = "dest" THEN v ELSE tab.dest
      /\ new.chain = IF col = "chain" THEN v ELSE tab.chain
  BY <1>1, WriteColumn
<1>5. ASSUME NEW k \in DOMAIN held', OfTable(k)'
      PROVE  /\ HeldTask(k)' \in DOMAIN task'
             /\ Late(orders', k[1], HeldTask(k)', held'[k], task'[HeldTask(k)'])
  <2>1. HeldTask(k)' = HeldTask(k) /\ (OfTable(k)' <=> OfTable(k))
    BY DEF HeldTask, OfTable
  <2>2. /\ k \in DOMAIN held /\ k # <<d, t>> /\ k = <<k[1], k[2]>> /\ held[k] \in Row
        /\ HeldTask(k) \in DOMAIN task
        /\ Late(orders, k[1], HeldTask(k), held[k], task[HeldTask(k)])
    BY <1>3, <1>5, <2>1 DEF IInv, HeldInv, Types, HeldOK, RowsInv, LateInv
  <2>3. CASE HeldTask(k) # t
    BY <1>2, <1>3, <2>1, <2>2, <2>3
  <2>4. CASE HeldTask(k) = t
    <3>1. CASE k[1] # d
      <4>1. Late(orders, k[1], t, held[k], new)
        BY <1>1, <1>4, <2>2, <2>4, <3>1, OthersStayLate
      <4> QED
        BY <1>2, <1>3, <2>1, <2>2, <2>4, <4>1
    <3>2. CASE k[1] = d
      BY <2>2, <2>4, <3>2 DEF HeldTask
    <3> QED
      BY <3>1, <3>2
  <2> QED
    BY <2>3, <2>4
<1>6. LateInv'
  BY <1>5 DEF LateInv
<1>7. TabInv'
  BY <1>2, <1>4 DEF RowsInv, TabInv
<1>8. RunTabInv'
  <2>1. ASSUME NEW i \in DOMAIN runs, runs[i].task = t, t \in SrcTasks
        PROVE  new.chain # 0 /\ (orders = 0 => new.chain = 2)
    <3>1. tab.chain # 0 /\ (orders = 0 => tab.chain = 2)
      BY <2>1 DEF RowsInv, RunTabInv
    <3> QED
      BY <1>1, <1>4, <3>1 DEF Late
  <2> QED
    BY <1>1, <1>2, <2>1 DEF RowsInv, RunTabInv
<1>9. TaskOnward
  BY <1>1, <1>2, <1>4, OnwardSame DEF TaskOnward, Types, TaskOK
<1> QED
  BY <1>6, <1>7, <1>8, <1>9 DEF RowsInv

(* A daemon of a run writes task_run_state, in the table of the task.      *)
LEMMA RowsWriteRun ==
  ASSUME IInv, Types, RowsInv, NEW k, k \in DOMAIN held, k[1] \in {"status", "runState"},
         NEW t, t = HeldTask(k), NEW v \in 1..3, WriteRun(t, [held[k] EXCEPT !.run = v]),
         UNCHANGED orders, held' = Without(held, k), DOMAIN runs' = DOMAIN runs,
         \A i \in DOMAIN runs : runs'[i].task = runs[i].task
  PROVE  RowsInv' /\ TaskOnward
<1>1. DOMAIN held' \subseteq DOMAIN held /\ \A j \in DOMAIN held' : held'[j] = held[j]
  BY WithoutHeld
<1>2. CASE t \notin SrcTasks
  BY <1>1, <1>2, RowsLeft DEF WriteRun
<1>3. CASE t \in SrcTasks
  <2> PICK row, tab, new : /\ row = held[k] /\ tab = task[t]
                           /\ new = Updates(tab, [row EXCEPT !.run = v])
    OBVIOUS
  <2>1. t \in DOMAIN task /\ row \in Row /\ tab \in Row /\ Late(orders, k[1], t, row, tab)
    BY <1>3 DEF Types, HeldOK, TaskOK, RowsInv, LateInv, OfTable
  <2>2. /\ DOMAIN task' = DOMAIN task /\ task'[t] = new
        /\ \A u \in DOMAIN task : u # t => task'[u] = task[u]
    BY <1>3, <2>1 DEF WriteRun
  <2>3. new \in Row /\ SameCols(orders', tab, new) /\ Onward(orders', tab, new)
    BY <2>1, WriteRunColumn
  <2>4. \A u \in DOMAIN task :
           Onward(orders', task[u], task'[u]) /\ SameCols(orders', task[u], task'[u])
    BY <2>2, <2>3, OnwardSame DEF Types, TaskOK
  <2>5. \A j \in DOMAIN held : j[1] = "runState" => j[2] \in DOMAIN runs
    BY DEF IInv, HeldInv, RunsInv
  <2>6. RowsInv'
    BY <1>1, <2>2, <2>4, <2>5, RowsFrame
  <2> QED
    BY <2>2, <2>4, <2>6 DEF TaskOnward
<1> QED
  BY <1>2, <1>3

(* The users.                                                              *)
LEMMA UserRows == ASSUME IInv, Types, RowsInv, User PROVE RowsInv' /\ TaskOnward
<1>1. UNCHANGED <<held, runs>> /\ (orders' = 0 => orders = 0)
  BY UserKinds DEF Create, TaskForm, GotForm, SendForm, Authorise, Types, CountOK
<1>2. \A k \in DOMAIN held : k[1] = "runState" => k[2] \in DOMAIN runs
  BY DEF IInv, HeldInv, RunsInv
<1>3. \A t \in DOMAIN task :
         Onward(orders', task[t], task[t]) /\ SameCols(orders', task[t], task[t])
  BY OnwardSame DEF Types, TaskOK
<1>4. ASSUME NEW t \in Tasks, Create(t) PROVE RowsInv' /\ TaskOnward
  <2>1. /\ DOMAIN task' = DOMAIN task \cup {t} /\ task'[t] = NewRow
        /\ \A u \in DOMAIN task : task'[u] = task[u]
    BY <1>4 DEF Create, With
  <2>2. TabOK(t, NewRow)
    BY DEF TabOK, NewRow
  <2> QED
    BY <1>1, <1>2, <1>3, <2>1, <2>2, RowsFrame DEF TaskOnward
<1>5. ASSUME NEW t, NEW form, TaskForm(t, form) PROVE RowsInv' /\ TaskOnward
  <2>1. task[t] \in Row /\ t \in DOMAIN task /\ form \in Forms(t, task[t]) /\ orders' # 0
    BY <1>5 DEF TaskForm, SendForm, Types, TaskOK, CountOK
  <2> PICK tab, new : tab = task[t] /\ new = Updates(tab, form)
    OBVIOUS
  <2>2. /\ new.src = tab.src /\ new.dest = tab.dest
        /\ new.chain = 0 <=> tab.chain = 0
        /\ tab.run # 0 => new.run # 0
    BY <2>1, FormRow, UpdatesRow
  <2>3. Onward(orders', tab, new) /\ SameCols(orders', tab, new)
    BY <2>1, <2>2 DEF Onward, SameCols
  <2>4. /\ DOMAIN task' = DOMAIN task /\ task'[t] = new
        /\ \A u \in DOMAIN task : u # t => task'[u] = task[u]
    BY <1>5, <2>1 DEF TaskForm
  <2>5. \A u \in DOMAIN task :
           Onward(orders', task[u], task'[u]) /\ SameCols(orders', task[u], task'[u])
    BY <1>3, <2>3, <2>4
  <2> QED
    BY <1>1, <1>2, <2>4, <2>5, RowsFrame DEF TaskOnward
<1>6. CASE UNCHANGED task
  BY <1>1, <1>2, <1>3, <1>6, RowsFrame DEF TaskOnward
<1> QED
  BY <1>4, <1>5, <1>6, UserKinds DEF GotForm, Authorise

(* The daemons that share a task.                                          *)
LEMMA ShareTaskRows ==
  ASSUME IInv, Types, RowsInv, NEW t \in Tasks, ShareTask(t)
  PROVE  RowsInv' /\ TaskOnward
<1>1. ASSUME NEW col \in {"src", "dest"}, Install(t, col), col = "dest" => t \in ScheTasks
      PROVE  RowsInv' /\ TaskOnward
  <2>1. CASE /\ t \in DOMAIN task /\ task[t][col] = 0 /\ Read(col, t, task[t])
             /\ UNCHANGED <<task, runs, orders>>
    <3>1. Late(orders, col, t, task[t], task[t])
      BY <1>1, <2>1 DEF Late
    <3> QED
      BY <2>1, <3>1, RowsRead
  <2>2. ASSUME NEW r \in {1, 2}, WriteTask(col, t, col, r), UNCHANGED <<runs, orders>>
        PROVE  RowsInv' /\ TaskOnward
    <3>1. r \in 1..2
      OBVIOUS
    <3> QED
      BY <2>2, <3>1, RowsWrite
  <2> QED
    BY <1>1, <2>1, <2>2 DEF Install
<1>2. CASE ChainStatus(t)
  <2>1. CASE /\ t \in DOMAIN task /\ Installed(t, task[t]) /\ task[t].chain = 0
             /\ UNCHANGED held \/ Read("chain", t, task[t])
             /\ UNCHANGED <<task, runs, orders>>
    <3>1. CASE UNCHANGED held
      BY <2>1, <3>1, RowsLeft
    <3>2. CASE Read("chain", t, task[t])
      <4>1. Late(orders, "chain", t, task[t], task[t])
        BY <2>1 DEF Late
      <4> QED
        BY <2>1, <3>2, <4>1, RowsRead
    <3> QED
      BY <2>1, <3>1, <3>2
  <2>2. CASE WriteTask("chain", t, "chain", 1) /\ UNCHANGED <<runs, orders>>
    BY <2>2, RowsWrite
  <2> QED
    BY <1>2, <2>1, <2>2 DEF ChainStatus
<1>3. CASE ChainStatusState(t)
  <2>1. CASE /\ t \in DOMAIN task /\ task[t].chain = 1
             /\ Read("chainState", t, task[t]) /\ UNCHANGED <<task, runs, orders>>
    <3>1. Late(orders, "chainState", t, task[t], task[t])
      BY <2>1 DEF Late
    <3> QED
      BY <2>1, <3>1, RowsRead
  <2>2. CASE WriteTask("chainState", t, "chain", 2) /\ UNCHANGED <<runs, orders>>
    BY <2>2, RowsWrite
  <2> QED
    BY <1>3, <2>1, <2>2 DEF ChainStatusState
<1> QED
  BY <1>1, <1>2, <1>3
     DEF ShareTask, VDESrcTaskInstallContractSrc, VDEScheTaskInstallContractSrc,
         VDEScheTaskInstallContractDest, VDESrcTaskChainStatus, VDEScheTaskChainStatus,
         VDESrcTaskChainStatusState, VDEScheTaskChainStatusState

(* A run of a task is made, and the task is marked.                        *)
LEMMA StartRunRows ==
  ASSUME IInv, Types, RowsInv, NEW t \in Tasks, StartRun(t)
  PROVE  RowsInv' /\ TaskOnward
<1>1. CASE /\ AtSource(t) /\ Due(t) /\ Read("status", t, RunRow(t))
           /\ runs' = Append(runs, [task |-> t, chain |-> 0, tx |-> 0]) /\ UNCHANGED <<task, orders>>
  <2> PICK run : run = [task |-> t, chain |-> 0, tx |-> 0]
    OBVIOUS
  <2>1. t \in SrcTasks => /\ t \in DOMAIN task /\ RunRow(t) = task[t]
                          /\ Late(orders, "status", t, task[t], task[t])
    BY <1>1 DEF AtSource, RunRow, Due, Late
  <2>2. /\ DOMAIN held' = DOMAIN held \cup {<<"status", t>>}
        /\ held'[<<"status", t>>] = RunRow(t)
        /\ \A k \in DOMAIN held : held'[k] = held[k]
    BY <1>1, RunRowType, ReadType DEF Types
  <2>3. /\ run.task = t /\ run \in RunType /\ runs \in Seq(RunType)
    BY TaskAssumption DEF RunType, IInv, RunsInv
  <2>4. /\ \A i \in DOMAIN runs : i \in DOMAIN runs' /\ runs'[i] = runs[i]
        /\ \A i \in DOMAIN runs' : i \in DOMAIN runs \/ runs'[i] = run
    BY <1>1, <2>3
  <2>5. HeldTask(<<"status", t>>)' = t
    BY DEF HeldTask
  <2>6. ASSUME NEW k \in DOMAIN held, OfTable(k)'
        PROVE  /\ HeldTask(k)' \in DOMAIN task'
               /\ Late(orders', k[1], HeldTask(k)', held'[k], task'[HeldTask(k)'])
    <3>1. k[1] = "runState" => k[2] \in DOMAIN runs
      BY DEF IInv, HeldInv, RunsInv
    <3>2. HeldTask(k)' = HeldTask(k) /\ (OfTable(k)' <=> OfTable(k))
      BY <2>4, <3>1 DEF HeldTask, OfTable
    <3> QED
      BY <1>1, <2>2, <2>6, <3>2 DEF RowsInv, LateInv
  <2>7. ASSUME OfTable(<<"status", t>>)'
        PROVE  /\ t \in DOMAIN task'
               /\ Late(orders', "status", t, held'[<<"status", t>>], task'[t])
    BY <1>1, <2>1, <2>2, <2>5, <2>7 DEF OfTable
  <2>8. LateInv'
    BY <2>2, <2>5, <2>6, <2>7 DEF LateInv
  <2>9. RunTabInv'
    BY <1>1, <2>1, <2>3, <2>4 DEF RowsInv, RunTabInv, Late
  <2>10. TabInv' /\ TaskOnward
    BY <1>1, OnwardSame DEF RowsInv, TabInv, TaskOnward, Types, TaskOK
  <2> QED
    BY <2>8, <2>9, <2>10 DEF RowsInv
<1>2. CASE /\ <<"status", t>> \in DOMAIN held /\ held' = Without(held, <<"status", t>>)
           /\ WriteRun(t, [held[<<"status", t>>] EXCEPT !.run = 3]) /\ UNCHANGED <<runs, orders>>
  <2>1. HeldTask(<<"status", t>>) = t
    BY DEF HeldTask
  <2>2. PICK key : key = <<"status", t>>
    OBVIOUS
  <2>3. key[1] = "status" /\ 3 \in 1..3 /\ DOMAIN runs' = DOMAIN runs
    BY <1>2, <2>2
  <2>4. \A i \in DOMAIN runs : runs'[i].task = runs[i].task
    BY <1>2
  <2>5. /\ key \in DOMAIN held /\ held' = Without(held, key)
        /\ WriteRun(t, [held[key] EXCEPT !.run = 3]) /\ t = HeldTask(key) /\ UNCHANGED orders
    BY <1>2, <2>1, <2>2
  <2> QED
    BY <2>3, <2>4, <2>5, RowsWriteRun
<1> QED
  BY <1>1, <1>2 DEF StartRun, VDESrcTaskStatus, VDESrcTaskFromScheStatus, TaskStatus

(* The rows of the runs are numbered.                                      *)
LEMMA RunsDomain == ASSUME runs \in Seq(RunType) PROVE DOMAIN runs = 1..Len(runs)
OBVIOUS

(* What the daemons of a run leave of the rows of the runs.                *)
LEMMA RunTasksStay ==
  ASSUME runs \in Seq(RunType), NEW i \in DOMAIN runs,
         \/ UNCHANGED runs
         \/ \E c \in 1..MaxCopies : runs' = [runs EXCEPT ![i].chain = 1, ![i].tx = c]
         \/ \E ch \in {2, 3} : runs' = [runs EXCEPT ![i].chain = ch]
  PROVE  DOMAIN runs' = DOMAIN runs /\ \A j \in DOMAIN runs : runs'[j].task = runs[j].task
<1>1. i \in 1..Len(runs) /\ DOMAIN runs = 1..Len(runs)
  <2>1. DOMAIN runs = 1..Len(runs)
    BY RunsDomain
  <2> QED
    BY <2>1
<1>2. ASSUME DOMAIN runs' = DOMAIN runs, runs'[i].task = runs[i].task,
             \A j \in 1..Len(runs) : j # i => runs'[j] = runs[j]
      PROVE  /\ DOMAIN runs' = DOMAIN runs
             /\ \A j \in DOMAIN runs : runs'[j].task = runs[j].task
  BY <1>1, <1>2
<1>3. ASSUME NEW c \in 1..MaxCopies, runs' = [runs EXCEPT ![i].chain = 1, ![i].tx = c]
      PROVE  /\ DOMAIN runs' = DOMAIN runs
             /\ \A j \in DOMAIN runs : runs'[j].task = runs[j].task
  BY <1>1, <1>2, <1>3, SendRunRow
<1>4. ASSUME NEW ch \in {2, 3}, runs' = [runs EXCEPT ![i].chain = ch]
      PROVE  /\ DOMAIN runs' = DOMAIN runs
             /\ \A j \in DOMAIN runs : runs'[j].task = runs[j].task
  BY <1>1, <1>2, <1>4, EndRunRow
<1> QED
  BY <1>3, <1>4

(* A run is posted, and followed.                                          *)
LEMMA FollowRunRows ==
  ASSUME IInv, Types, RowsInv, NEW i \in DOMAIN runs, FollowRun(i)
  PROVE  RowsInv' /\ TaskOnward
<1>1. i \in 1..Len(runs) /\ runs \in Seq(RunType)
  BY DEF IInv, RunsInv
<1>2. CASE StatusRun(i)
  <2>1. /\ UNCHANGED <<task, held, orders>>
        /\ \/ UNCHANGED runs
           \/ \E c \in 1..MaxCopies : runs' = [runs EXCEPT ![i].chain = 1, ![i].tx = c]
           \/ \E ch \in {2, 3} : runs' = [runs EXCEPT ![i].chain = ch]
    BY <1>2 DEF StatusRun
  <2>2. DOMAIN runs' = DOMAIN runs /\ \A j \in DOMAIN runs : runs'[j].task = runs[j].task
    BY <1>1, <2>1, RunTasksStay
  <2> QED
    BY <2>1, <2>2, RowsLeft
<1>3. CASE StatusRunState(i)
  <2> PICK t, key : t = runs[i].task /\ key = <<"runState", i>>
    OBVIOUS
  <2>1. CASE /\ runs[i].chain = 1 /\ AtSource(t) /\ Read("runState", i, RunRow(t))
             /\ UNCHANGED <<task, runs, orders>>
    <3>1. t \in SrcTasks => /\ t \in DOMAIN task /\ RunRow(t) = task[t]
                            /\ Late(orders, "runState", t, task[t], task[t])
      BY <2>1 DEF AtSource, RunRow, Late, RowsInv, RunTabInv
    <3>2. /\ DOMAIN held' = DOMAIN held \cup {key} /\ held'[key] = RunRow(t)
          /\ \A k \in DOMAIN held : held'[k] = held[k]
      BY <2>1, RunRowType, ReadType DEF Types
    <3>3. \A k : HeldTask(k)' = HeldTask(k) /\ (OfTable(k)' <=> OfTable(k))
      BY <2>1 DEF HeldTask, OfTable
    <3>4. HeldTask(key) = t /\ key[1] = "runState"
      BY DEF HeldTask
    <3>5. ASSUME NEW k \in DOMAIN held', OfTable(k)
          PROVE  /\ HeldTask(k) \in DOMAIN task
                 /\ Late(orders, k[1], HeldTask(k), held'[k], task[HeldTask(k)])
      <4>1. CASE k = key
        BY <3>1, <3>2, <3>4, <3>5, <4>1 DEF OfTable
      <4>2. CASE k # key
        BY <3>2, <3>5, <4>2 DEF RowsInv, LateInv
      <4> QED
        BY <4>1, <4>2
    <3>6. LateInv'
      BY <2>1, <3>3, <3>5 DEF LateInv
    <3> QED
      BY <2>1, <3>6, OnwardSame
         DEF RowsInv, TabInv, RunTabInv, TaskOnward, Types, TaskOK
  <2>2. CASE /\ key \in DOMAIN held /\ held' = Without(held, key)
             /\ UNCHANGED runs \/ \E ch \in {2, 3} : runs' = [runs EXCEPT ![i].chain = ch]
             /\ UNCHANGED orders
             /\ \/ UNCHANGED task
                \/ \E v \in {1, 2} : WriteRun(t, [held[key] EXCEPT !.run = v])
    <3>1. DOMAIN runs' = DOMAIN runs /\ \A j \in DOMAIN runs : runs'[j].task = runs[j].task
      BY <1>1, <2>2, RunTasksStay
    <3>2. CASE UNCHANGED task
      BY <2>2, <3>1, <3>2, WithoutHeld, RowsLeft
    <3>3. ASSUME NEW v \in {1, 2}, WriteRun(t, [held[key] EXCEPT !.run = v])
          PROVE  RowsInv' /\ TaskOnward
      <4>1. v \in 1..3 /\ t = HeldTask(key) /\ key[1] = "runState"
        BY DEF HeldTask
      <4> QED
        BY <2>2, <3>1, <3>3, <4>1, RowsWriteRun
    <3> QED
      BY <2>2, <3>2, <3>3
  <2> QED
    BY <1>3, <2>1, <2>2 DEF StatusRunState
<1> QED
  BY <1>2, <1>3
     DEF FollowRun, VDESrcTaskStatusRun, VDESrcTaskFromScheStatusRun,
         VDESrcTaskStatusRunState, VDESrcTaskFromScheStatusRunState

(* Every step.                                                             *)
LEMMA RowsStep == ASSUME IInv, Types, RowsInv, [Next]_vars PROVE RowsInv' /\ TaskOnward
<1>1. CASE User
  BY <1>1, UserRows
<1>2. CASE Daemons
  <2>1. ASSUME NEW t \in Tasks, ShareTask(t) \/ StartRun(t) PROVE RowsInv' /\ TaskOnward
    BY <2>1, ShareTaskRows, StartRunRows
  <2>2. CASE UNCHANGED <<task, held, runs, orders>>
    BY <2>2, RowsLeft
  <2>3. (\E a \in Auths : ShareAuth(a)) => UNCHANGED <<task, held, runs, orders>>
    BY DEF ShareAuth, VDESrcTaskAuthChainStatus, VDESrcTaskAuthChainStatusState
  <2>4. (\E k \in DOMAIN req : PostRequest(k)) => UNCHANGED <<task, held, runs, orders>>
    BY DEF PostRequest, VDESrcTaskUpToChain, VDEScheTaskUpToChain,
           VDESrcTaskUpToChainState, VDEScheTaskUpToChainState, UpToChain, UpToChainState
  <2>5. (\E t \in ScheTasks : VDESrcTaskScheGetFromChain(t)) => UNCHANGED <<task, held, runs, orders>>
    BY DEF VDESrcTaskScheGetFromChain
  <2>6. (\E x \in DOMAIN txs : Mine(x)) => UNCHANGED <<task, held, runs, orders>>
    BY DEF Mine
  <2>7. ASSUME NEW i \in DOMAIN runs, FollowRun(i) PROVE RowsInv' /\ TaskOnward
    BY <2>7, FollowRunRows
  <2> QED
    BY <1>2, <2>1, <2>2, <2>3, <2>4, <2>5, <2>6, <2>7 DEF Daemons
<1>3. ASSUME NEW k \in DOMAIN held, WriteFails(k) PROVE RowsInv' /\ TaskOnward
  BY <1>3, WithoutHeld, RowsLeft DEF WriteFails
<1>4. CASE UNCHANGED vars
  BY <1>4, RowsLeft DEF vars
<1> QED
  BY <1>1, <1>2, <1>3, <1>4 DEF Next

(* No row is held at first.                                                *)
LEMMA RowsInit == ASSUME Init PROVE RowsInv
BY DEF Init, RowsInv, TabInv, LateInv, RunTabInv

(* What the daemons hold is late, and never wrong, in every state.         *)
THEOREM HeldRowsAreLate == Spec => [](IInv /\ Types /\ RowsInv)
<1>1. Init => RowsInv
  BY RowsInit
<1>2. IInv /\ Types /\ RowsInv /\ [Next]_vars => RowsInv'
  BY RowsStep
<1> QED
  BY <1>1, <1>2, TypesHold, PTL DEF Spec

(* No daemon undoes what another has done, though each writes back a whole *)
(* row that it read before: gorm's Updates of vde_src_task_chain_status.go *)
(* and of the other task daemons.                                          *)
THEOREM NothingGoesBack == Spec => NeverBack
<1> DEFINE Fwd == \A t \in DOMAIN task : /\ task[t].chain # 0 => task'[t].chain # 0
                                         /\ orders' = 0 => task'[t].chain >= task[t].chain
                                         /\ task[t].src # 0 => task'[t].src = task[t].src
                                         /\ task[t].dest # 0 => task'[t].dest = task[t].dest
                                         /\ task[t].run # 0 => task'[t].run # 0
<1>1. IInv /\ Types /\ RowsInv /\ [Next]_vars => [Fwd]_vars
  BY RowsStep DEF TaskOnward, Onward
<1>2. Spec => [][Fwd]_vars
  BY <1>1, HeldRowsAreLate, PTL DEF Spec
<1> QED
  BY <1>2 DEF NeverBack

-----------------------------------------------------------------------------
(* How often anything is sent.                                             *)

(* What is to be posted for a receiver, and the runs to be posted.         *)
Waiting(t, n) == {k \in DOMAIN req : k[1] = t /\ k[2] = n /\ req[k].chain = 0}
RunWaiting(t) == {i \in DOMAIN runs : runs[i].task = t /\ runs[i].chain = 0}

(* The row is marked, or about to be: no other request, or run, is made.   *)
Closed(t, n) ==
  IF n \in Receivers
  THEN t \in DOMAIN task /\ (task[t].chain # 0 \/ <<"chain", t>> \in DOMAIN held)
  ELSE <<t, n>> \in DOMAIN auth /\ auth[<<t, n>>] # 0
RunClosed(t) == <<"status", t>> \in DOMAIN held \/ (AtSource(t) /\ RunRow(t).run # 0)

Budget(t, n) == IF Closed(t, n) THEN faults + 1 ELSE faults
RunBudget(t) == IF RunClosed(t) THEN faults + 1 ELSE faults

ShareCount ==
  \A t \in Tasks, n \in Nodes :
    Cardinality(Posted("share", t, n)) + Cardinality(Waiting(t, n)) <= Budget(t, n)
RunCount ==
  \A t \in OneTime :
    Cardinality(Posted("run", t, Src)) + Cardinality(RunWaiting(t)) <= RunBudget(t)

(* What a step does to what is posted (P) and what waits (W), and what it  *)
(* costs: nothing new, something new that waits, a post of what waits, or  *)
(* a post that leaves it waiting.                                          *)
Moved(P, W, b, P2, W2, b2) ==
  \/ P2 \subseteq P /\ W2 \subseteq W /\ b2 >= b
  \/ \E k : P2 \subseteq P /\ W2 \subseteq W \cup {k} /\ b2 >= b + 1
  \/ \E x, k : k \in W /\ P2 \subseteq P \cup {x} /\ W2 \subseteq W \ {k} /\ b2 >= b
  \/ \E x : P2 \subseteq P \cup {x} /\ W2 \subseteq W /\ b2 >= b + 1

(* No such step costs more than it has.                                    *)
LEMMA MovedWithin ==
  ASSUME NEW P, NEW W, IsFiniteSet(P), IsFiniteSet(W), NEW b \in Nat, NEW P2, NEW W2,
         NEW b2 \in Nat, Cardinality(P) + Cardinality(W) <= b, Moved(P, W, b, P2, W2, b2)
  PROVE  Cardinality(P2) + Cardinality(W2) <= b2
<1>1. ASSUME NEW S, NEW T, IsFiniteSet(S), T \subseteq S
      PROVE  IsFiniteSet(T) /\ Cardinality(T) <= Cardinality(S) /\ Cardinality(T) \in Nat
  BY <1>1, FS_Subset, FS_CardinalityType
<1>2. Cardinality(P) \in Nat /\ Cardinality(W) \in Nat
  BY FS_CardinalityType
<1>3. ASSUME NEW x, NEW S, IsFiniteSet(S)
      PROVE  /\ IsFiniteSet(S \cup {x}) /\ Cardinality(S \cup {x}) <= Cardinality(S) + 1
             /\ Cardinality(S \cup {x}) \in Nat
  <2>1. IsFiniteSet(S \cup {x}) /\ Cardinality(S) \in Nat /\ Cardinality(S \cup {x}) \in Nat
    BY <1>3, FS_AddElement, FS_CardinalityType
  <2>2. Cardinality(S \cup {x}) = IF x \in S THEN Cardinality(S) ELSE Cardinality(S) + 1
    BY <1>3, FS_AddElement
  <2> QED
    BY <2>1, <2>2
<1>4. CASE P2 \subseteq P /\ W2 \subseteq W /\ b2 >= b
  <2>1. /\ Cardinality(P2) <= Cardinality(P) /\ Cardinality(P2) \in Nat
        /\ Cardinality(W2) <= Cardinality(W) /\ Cardinality(W2) \in Nat
    BY <1>1, <1>4
  <2> QED
    BY <1>2, <1>4, <2>1
<1>5. ASSUME NEW k, P2 \subseteq P, W2 \subseteq W \cup {k}, b2 >= b + 1
      PROVE  Cardinality(P2) + Cardinality(W2) <= b2
  <2>1. /\ Cardinality(P2) <= Cardinality(P) /\ Cardinality(P2) \in Nat
        /\ Cardinality(W2) <= Cardinality(W \cup {k}) /\ Cardinality(W2) \in Nat
        /\ Cardinality(W \cup {k}) <= Cardinality(W) + 1 /\ Cardinality(W \cup {k}) \in Nat
    BY <1>1, <1>3, <1>5
  <2> QED
    BY <1>2, <1>5, <2>1
<1>6. ASSUME NEW x, NEW k \in W, P2 \subseteq P \cup {x}, W2 \subseteq W \ {k}, b2 >= b
      PROVE  Cardinality(P2) + Cardinality(W2) <= b2
  <2>1. IsFiniteSet(W \ {k}) /\ Cardinality(W \ {k}) = Cardinality(W) - 1
    BY FS_RemoveElement
  <2>2. /\ Cardinality(W2) <= Cardinality(W \ {k}) /\ Cardinality(W2) \in Nat
        /\ Cardinality(P2) <= Cardinality(P \cup {x}) /\ Cardinality(P2) \in Nat
        /\ Cardinality(P \cup {x}) <= Cardinality(P) + 1 /\ Cardinality(P \cup {x}) \in Nat
    BY <1>1, <1>3, <1>6, <2>1
  <2> QED
    BY <1>2, <1>6, <2>1, <2>2
<1>7. ASSUME NEW x, P2 \subseteq P \cup {x}, W2 \subseteq W, b2 >= b + 1
      PROVE  Cardinality(P2) + Cardinality(W2) <= b2
  <2>1. /\ Cardinality(W2) <= Cardinality(W) /\ Cardinality(W2) \in Nat
        /\ Cardinality(P2) <= Cardinality(P \cup {x}) /\ Cardinality(P2) \in Nat
        /\ Cardinality(P \cup {x}) <= Cardinality(P) + 1 /\ Cardinality(P \cup {x}) \in Nat
    BY <1>1, <1>3, <1>7
  <2> QED
    BY <1>2, <1>7, <2>1
<1> QED
  BY <1>4, <1>5, <1>6, <1>7 DEF Moved

ShareMoved(t, n) ==
  Moved(Posted("share", t, n), Waiting(t, n), Budget(t, n),
        Posted("share", t, n)', Waiting(t, n)', Budget(t, n)')
RunMoved(t) ==
  Moved(Posted("run", t, Src), RunWaiting(t), RunBudget(t),
        Posted("run", t, Src)', RunWaiting(t)', RunBudget(t)')

(* What may only grow, but for a fault.                                    *)
AuthOnward == \A a \in DOMAIN auth : a \in DOMAIN auth' /\ (auth[a] # 0 => auth'[a] # 0)
GotOnward == \A t \in DOMAIN got : t \in DOMAIN got' /\ (got[t].run # 0 => got'[t].run # 0)
Costless == UNCHANGED faults \/ faults' = faults + 1

(* The request daemon puts down a row only with the chain state set.       *)
ChainMarked ==
  \A t : <<"chain", t>> \in DOMAIN held =>
    \/ <<"chain", t>> \in DOMAIN held'
    \/ t \in DOMAIN task' /\ task'[t].chain # 0
RunMarked ==
  \A t : <<"status", t>> \in DOMAIN held =>
    <<"status", t>> \in DOMAIN held' \/ (AtSource(t)' /\ RunRow(t)'.run # 0)

(* A receiver that is done with stays so.                                  *)
LEMMA ClosedStays ==
  ASSUME Types, Types', TaskOnward, AuthOnward, ChainMarked, Costless, NEW t, NEW n
  PROVE  /\ Closed(t, n) => Closed(t, n)'
         /\ Budget(t, n)' >= Budget(t, n)
         /\ faults' = faults + 1 => Budget(t, n)' >= Budget(t, n) + 1
<1>1. ASSUME t \in DOMAIN task, task[t].chain # 0
      PROVE  t \in DOMAIN task' /\ task'[t].chain # 0
  BY <1>1 DEF TaskOnward, Onward, Types, TaskOK, Row
<1>2. ASSUME Closed(t, n) PROVE Closed(t, n)'
  <2>1. CASE n \in Receivers
    <3>1. t \in DOMAIN task'
      BY <1>2, <2>1 DEF Closed, TaskOnward
    <3> QED
      BY <1>1, <1>2, <2>1, <3>1 DEF Closed, ChainMarked
  <2>2. CASE n \notin Receivers
    BY <1>2, <2>2 DEF Closed, AuthOnward
  <2> QED
    BY <2>1, <2>2
<1>3. faults \in Nat /\ faults' \in Nat
  BY DEF Types, CountOK
<1>4. /\ Closed(t, n) => Budget(t, n) = faults + 1
      /\ ~Closed(t, n) => Budget(t, n) = faults
      /\ Closed(t, n)' => Budget(t, n)' = faults' + 1
      /\ ~Closed(t, n)' => Budget(t, n)' = faults'
  BY DEF Budget
<1>5. CASE Closed(t, n)
  <2>1. Budget(t, n) = faults + 1 /\ Budget(t, n)' = faults' + 1
    BY <1>2, <1>4, <1>5
  <2>2. /\ Budget(t, n)' >= Budget(t, n)
        /\ faults' = faults + 1 => Budget(t, n)' >= Budget(t, n) + 1
    <3>1. CASE UNCHANGED faults
      BY <1>3, <2>1, <3>1
    <3>2. CASE faults' = faults + 1
      BY <1>3, <2>1, <3>2
    <3> QED
      BY <3>1, <3>2 DEF Costless
  <2> QED
    BY <1>2, <2>2
<1>6. CASE ~Closed(t, n)
  <2>1. Budget(t, n)' = faults' \/ Budget(t, n)' = faults' + 1
    BY <1>4
  <2>2. Budget(t, n) = faults
    BY <1>4, <1>6
  <2>3. /\ Budget(t, n)' >= Budget(t, n)
        /\ faults' = faults + 1 => Budget(t, n)' >= Budget(t, n) + 1
    BY <1>3, <2>1, <2>2 DEF Costless
  <2> QED
    BY <1>2, <2>3
<1> QED
  BY <1>5, <1>6

(* A task that has been run, or is about to be, stays so.                  *)
LEMMA RunClosedStays ==
  ASSUME Types, Types', TaskOnward, GotOnward, RunMarked, Costless, NEW t
  PROVE  /\ RunClosed(t) => RunClosed(t)'
         /\ RunBudget(t)' >= RunBudget(t)
         /\ faults' = faults + 1 => RunBudget(t)' >= RunBudget(t) + 1
<1>1. ASSUME RunClosed(t) PROVE RunClosed(t)'
  <2>1. CASE AtSource(t) /\ RunRow(t).run # 0
    BY <2>1 DEF AtSource, RunRow, RunClosed, TaskOnward, Onward, GotOnward
  <2> QED
    BY <1>1, <2>1 DEF RunClosed, RunMarked
<1>2. faults \in Nat /\ faults' \in Nat
  BY DEF Types, CountOK
<1>3. /\ RunClosed(t) => RunBudget(t) = faults + 1
      /\ ~RunClosed(t) => RunBudget(t) = faults
      /\ RunClosed(t)' => RunBudget(t)' = faults' + 1
      /\ ~RunClosed(t)' => RunBudget(t)' = faults'
  BY DEF RunBudget
<1>4. CASE RunClosed(t)
  <2>1. RunBudget(t) = faults + 1 /\ RunBudget(t)' = faults' + 1
    BY <1>1, <1>3, <1>4
  <2>2. /\ RunBudget(t)' >= RunBudget(t)
        /\ faults' = faults + 1 => RunBudget(t)' >= RunBudget(t) + 1
    <3>1. CASE UNCHANGED faults
      BY <1>2, <2>1, <3>1
    <3>2. CASE faults' = faults + 1
      BY <1>2, <2>1, <3>2
    <3> QED
      BY <3>1, <3>2 DEF Costless
  <2> QED
    BY <1>1, <2>2
<1>5. CASE ~RunClosed(t)
  <2>1. RunBudget(t)' = faults' \/ RunBudget(t)' = faults' + 1
    BY <1>3
  <2>2. RunBudget(t) = faults
    BY <1>3, <1>5
  <2>3. /\ RunBudget(t)' >= RunBudget(t)
        /\ faults' = faults + 1 => RunBudget(t)' >= RunBudget(t) + 1
    BY <1>2, <2>1, <2>2 DEF Costless
  <2> QED
    BY <1>1, <2>3
<1> QED
  BY <1>4, <1>5

(* Nothing is posted: what has been is what it was.                        *)
LEMMA NotPosted ==
  ASSUME DOMAIN txs' = DOMAIN txs, NEW w, NEW t, NEW n
  PROVE  Posted(w, t, n)' = Posted(w, t, n)
BY DEF Posted

(* A post adds to what is posted of its kind, for its task and node.       *)
LEMMA PostPosted ==
  ASSUME NEW w, NEW t, NEW n, NEW c, VDEPostTxResult(w, t, n, c)
  PROVE  /\ Posted(w, t, n)' = Posted(w, t, n) \cup {<<w, t, n, c>>}
         /\ \A v, u, m : <<v, u, m>> # <<w, t, n>> => Posted(v, u, m)' = Posted(v, u, m)
<1>1. DOMAIN txs' = DOMAIN txs \cup {<<w, t, n, c>>}
  BY PostGrows
<1> QED
  BY <1>1 DEF Posted

(* New requests wait, one for each receiver they are made for.             *)
LEMMA NewWaiting ==
  ASSUME NEW t, NEW ns, NEW inst, req' = NewRequests(t, ns, inst), NEW u, NEW n
  PROVE  /\ Waiting(u, n)' \subseteq Waiting(u, n) \cup {<<t, n, Copies(t, n) + 1>>}
         /\ (u # t \/ n \notin ns) => Waiting(u, n)' \subseteq Waiting(u, n)
<1>1. ASSUME NEW k \in DOMAIN req'
      PROVE  \/ k \in DOMAIN req /\ req'[k] = req[k]
             \/ \E m \in ns : k = <<t, m, Copies(t, m) + 1>>
  BY <1>1 DEF NewRequests
<1>2. ASSUME NEW k, k \in Waiting(u, n)'
      PROVE  k \in Waiting(u, n) \/ (k = <<t, n, Copies(t, n) + 1>> /\ u = t /\ n \in ns)
  <2>1. k \in DOMAIN req' /\ k[1] = u /\ k[2] = n /\ req'[k].chain = 0
    BY <1>2 DEF Waiting
  <2>2. CASE k \in DOMAIN req /\ req'[k] = req[k]
    BY <2>1, <2>2 DEF Waiting
  <2>3. ASSUME NEW m \in ns, k = <<t, m, Copies(t, m) + 1>>
        PROVE  k = <<t, n, Copies(t, n) + 1>> /\ u = t /\ n \in ns
    BY <2>1, <2>3
  <2> QED
    BY <1>1, <2>1, <2>2, <2>3
<1> QED
  BY <1>2

-----------------------------------------------------------------------------
(* Every step pays for what it posts.                                      *)

(* A row of the source's own table that is held to mark a run is there.    *)
HeldGot == \A t \in ScheTasks : <<"status", t>> \in DOMAIN held => t \in DOMAIN got

CountInv == ShareCount /\ RunCount /\ HeldGot

Stepped == IInv /\ Types /\ RowsInv /\ HeldGot /\ Types' /\ TaskOnward

AllMoved ==
  /\ \A t \in Tasks, n \in Nodes : ShareMoved(t, n)
  /\ \A t \in OneTime : RunMoved(t)
  /\ HeldGot'

(* Nothing is posted for the node, or nothing new is to be.                *)
LEMMA ShareSame ==
  ASSUME Types, Types', TaskOnward, AuthOnward, ChainMarked, Costless, NEW t, NEW n,
         Posted("share", t, n)' = Posted("share", t, n), Waiting(t, n)' \subseteq Waiting(t, n)
  PROVE  ShareMoved(t, n)
BY ClosedStays DEF ShareMoved, Moved

(* The same of the runs of a task.                                         *)
LEMMA RunSame ==
  ASSUME Types, Types', TaskOnward, GotOnward, RunMarked, Costless, NEW t,
         Posted("run", t, Src)' = Posted("run", t, Src), RunWaiting(t)' \subseteq RunWaiting(t)
  PROVE  RunMoved(t)
BY RunClosedStays DEF RunMoved, Moved

(* The rows that are held stay held.                                       *)
LEMMA HeldStay ==
  ASSUME HeldGot, DOMAIN held \subseteq DOMAIN held', GotOnward,
         \A t : <<"status", t>> \in DOMAIN held' \ DOMAIN held => AtSource(t)
  PROVE  ChainMarked /\ RunMarked /\ HeldGot'
BY TaskAssumption DEF ChainMarked, RunMarked, HeldGot, GotOnward, AtSource

(* A daemon that puts down neither kind of row.                            *)
LEMMA HeldOthers ==
  ASSUME HeldGot, NEW k, DOMAIN held' = DOMAIN held \ {k}, GotOnward
  PROVE  /\ k[1] # "chain" => ChainMarked
         /\ k[1] # "status" => RunMarked
         /\ HeldGot'
BY DEF ChainMarked, RunMarked, HeldGot, GotOnward

(* A write of a run moves the table of the source on.                      *)
LEMMA WriteRunGot ==
  ASSUME Types, NEW t, NEW item \in Row, item.run # 0, WriteRun(t, item)
  PROVE  /\ GotOnward
         /\ AtSource(t) => AtSource(t)' /\ RunRow(t)'.run # 0
<1>1. CASE t \in SrcTasks
  <2>1. /\ UNCHANGED got /\ DOMAIN task' = DOMAIN task
        /\ t \in DOMAIN task => task'[t] = Updates(task[t], item)
    BY <1>1 DEF WriteRun
  <2>2. t \in DOMAIN task => Updates(task[t], item).run # 0
    BY UpdatesRow DEF Types, TaskOK
  <2> QED
    BY <1>1, <2>1, <2>2 DEF GotOnward, AtSource, RunRow
<1>2. CASE t \notin SrcTasks
  <2>1. /\ DOMAIN got' = DOMAIN got
        /\ \A u \in DOMAIN got : got'[u] = IF u = t THEN Updates(got[u], item) ELSE got[u]
    BY <1>2 DEF WriteRun
  <2>2. \A u \in DOMAIN got : Updates(got[u], item).run # 0
    BY UpdatesRow DEF Types, GotOK
  <2> QED
    BY <1>2, <2>1, <2>2 DEF GotOnward, AtSource, RunRow
<1> QED
  BY <1>1, <1>2

(* A step that posts nothing and makes nothing to post.                    *)
LEMMA QuietMoves ==
  ASSUME Stepped, AuthOnward, GotOnward, Costless, ChainMarked, RunMarked, HeldGot',
         DOMAIN txs' = DOMAIN txs, \A t, n : Waiting(t, n)' \subseteq Waiting(t, n),
         \A t : RunWaiting(t)' \subseteq RunWaiting(t)
  PROVE  AllMoved
<1>1. ASSUME NEW t, NEW n PROVE ShareMoved(t, n)
  BY NotPosted, ShareSame DEF Stepped
<1>2. ASSUME NEW t PROVE RunMoved(t)
  BY NotPosted, RunSame DEF Stepped
<1> QED
  BY <1>1, <1>2 DEF AllMoved

(* What is not written waits as it did.                                    *)
LEMMA WaitAlike ==
  /\ UNCHANGED req => \A t, n : Waiting(t, n)' \subseteq Waiting(t, n)
  /\ UNCHANGED runs => \A t : RunWaiting(t)' \subseteq RunWaiting(t)
  /\ UNCHANGED auth => AuthOnward
  /\ UNCHANGED got => GotOnward
  /\ UNCHANGED faults => Costless
BY DEF Waiting, RunWaiting, AuthOnward, GotOnward, Costless

(* The users.                                                              *)
LEMMA UserMoves == ASSUME Stepped, User PROVE AllMoved
<1>1. UNCHANGED <<held, req, runs, txs, faults>>
  BY UserKinds DEF Create, TaskForm, GotForm, SendForm, Authorise
<1>2. AuthOnward
  BY UserKinds DEF Create, TaskForm, GotForm, SendForm, Authorise, With, AuthOnward
<1>3. GotOnward
  <2>1. ASSUME NEW t, NEW form, GotForm(t, form) PROVE GotOnward
    <3>1. got[t] \in Row /\ form \in Forms(t, got[t])
      BY <2>1 DEF GotForm, Stepped, Types, GotOK
    <3>2. PICK new : new = Updates(got[t], form)
      OBVIOUS
    <3>3. got[t].run # 0 => new.run # 0
      BY <3>1, <3>2, FormRow, UpdatesRow
    <3> QED
      BY <2>1, <3>2, <3>3 DEF GotForm, GotOnward
  <2>2. UNCHANGED got => GotOnward
    BY WaitAlike
  <2> QED
    BY <2>1, <2>2, UserKinds DEF Create, TaskForm, Authorise
<1>4. ChainMarked /\ RunMarked /\ HeldGot'
  BY <1>1, <1>3, HeldStay DEF Stepped
<1> QED
  BY <1>1, <1>2, <1>3, <1>4, WaitAlike, QuietMoves

(* The daemons that install contracts, and those that look at the chain.   *)
LEMMA QuietDaemonMoves ==
  ASSUME Stepped, NEW t \in Tasks, NEW d, d \notin {"chain", "status"},
         \/ \E row : Read(d, t, row)
         \/ \E col, v : WriteTask(d, t, col, v),
         UNCHANGED <<auth, req, runs, got, txs, faults>>
  PROVE  AllMoved
<1>1. ASSUME NEW row, Read(d, t, row) PROVE ChainMarked /\ RunMarked /\ HeldGot'
  <2>1. DOMAIN held' = DOMAIN held \cup {<<d, t>>}
    BY <1>1 DEF Read, With
  <2> QED
    BY <2>1, WaitAlike, HeldStay DEF Stepped
<1>2. ASSUME NEW col, NEW v, WriteTask(d, t, col, v) PROVE ChainMarked /\ RunMarked /\ HeldGot'
  <2>1. DOMAIN held' = DOMAIN held \ {<<d, t>>}
    BY <1>2, WithoutHeld DEF WriteTask
  <2>2. PICK key : key = <<d, t>>
    OBVIOUS
  <2>3. key[1] # "chain" /\ key[1] # "status"
    BY <2>2
  <2>4. GotOnward
    BY WaitAlike
  <2> QED
    BY <2>1, <2>2, <2>3, <2>4, HeldOthers DEF Stepped
<1> QED
  BY <1>1, <1>2, WaitAlike, QuietMoves

(* A task is marked.                                                       *)
LEMMA MarkedRow ==
  ASSUME NEW tab \in Row, NEW row \in Row, NEW col, col = "chain",
         NEW item, item = [row EXCEPT ![col] = 1]
  PROVE  Updates(tab, item).chain # 0
<1>1. item \in Row /\ item.chain = 1
  BY DEF Row
<1>2. Updates(tab, item).chain = IF item.chain = 0 THEN tab.chain ELSE item.chain
  BY <1>1, UpdatesRow
<1> QED
  BY <1>1, <1>2

(* The request daemons: a request for each receiver, then the mark.        *)
LEMMA ChainStatusMoves == ASSUME Stepped, NEW t \in Tasks, ChainStatus(t) PROVE AllMoved
<1>1. ASSUME NEW ns \in SUBSET Receivers, req' = NewRequests(t, ns, TRUE),
             t \in DOMAIN task, task[t].chain = 0, <<"chain", t>> \notin DOMAIN held,
             UNCHANGED <<task, auth, runs, got, txs, orders>>,
             \/ Read("chain", t, task[t]) /\ UNCHANGED faults
             \/ faults' = faults + 1 /\ (UNCHANGED held \/ Read("chain", t, task[t]))
      PROVE  AllMoved
  <2>1. DOMAIN held' = DOMAIN held \/ DOMAIN held' = DOMAIN held \cup {<<"chain", t>>}
    BY <1>1 DEF Read, With
  <2>2. ChainMarked /\ RunMarked /\ HeldGot' /\ AuthOnward /\ GotOnward /\ Costless
    <3>1. AuthOnward /\ GotOnward /\ Costless
      BY <1>1, WaitAlike DEF Costless
    <3> QED
      BY <2>1, <3>1, HeldStay DEF Stepped
  <2>3. ASSUME NEW u, NEW n, u # t \/ n \notin ns PROVE ShareMoved(u, n)
    <3>1. Waiting(u, n)' \subseteq Waiting(u, n)
      BY <1>1, <2>3, NewWaiting
    <3> QED
      BY <1>1, <2>2, <3>1, NotPosted, ShareSame DEF Stepped
  <2>4. ASSUME NEW n \in ns PROVE ShareMoved(t, n)
    <3>1. Budget(t, n)' >= Budget(t, n) + 1
      <4>1. CASE faults' = faults + 1
        BY <2>2, <4>1, ClosedStays DEF Stepped
      <4>2. CASE Read("chain", t, task[t]) /\ UNCHANGED faults
        <5>1. ~Closed(t, n) /\ n \in Receivers
          BY <1>1 DEF Closed
        <5>2. Closed(t, n)'
          BY <1>1, <4>2, <5>1 DEF Closed, Read, With
        <5>3. Budget(t, n) = faults /\ Budget(t, n)' = faults' + 1 /\ faults \in Nat
          BY <5>1, <5>2 DEF Budget, Stepped, Types, CountOK
        <5> QED
          BY <4>2, <5>3
      <4> QED
        BY <1>1, <4>1, <4>2
    <3>2. Waiting(t, n)' \subseteq Waiting(t, n) \cup {<<t, n, Copies(t, n) + 1>>}
      BY <1>1, NewWaiting
    <3>3. Posted("share", t, n)' = Posted("share", t, n)
      BY <1>1, NotPosted
    <3> QED
      BY <3>1, <3>2, <3>3 DEF ShareMoved, Moved
  <2>5. ASSUME NEW u PROVE RunMoved(u)
    BY <1>1, <2>2, WaitAlike, NotPosted, RunSame DEF Stepped
  <2> QED
    BY <2>2, <2>3, <2>4, <2>5 DEF AllMoved
<1>2. CASE WriteTask("chain", t, "chain", 1) /\ UNCHANGED <<auth, req, runs, got, txs, faults>>
  <2> PICK col : col = "chain"
    OBVIOUS
  <2> PICK row, item : row = held[<<"chain", t>>] /\ item = [row EXCEPT ![col] = 1]
    OBVIOUS
  <2>1. /\ <<"chain", t>> \in DOMAIN held /\ DOMAIN held' = DOMAIN held \ {<<"chain", t>>}
        /\ task' = [task EXCEPT ![t] = Updates(@, item)]
    BY <1>2, WithoutHeld DEF WriteTask
  <2>2. t \in DOMAIN task /\ task[t] \in Row /\ row \in Row
    BY <2>1 DEF Stepped, RowsInv, LateInv, OfTable, HeldTask, Types, TaskOK, HeldOK
  <2>4. t \in DOMAIN task' /\ task'[t].chain # 0
    <3>1. Updates(task[t], item).chain # 0
      BY <2>2, MarkedRow
    <3> QED
      BY <2>1, <2>2, <3>1
  <2>5. GotOnward
    BY <1>2, WaitAlike
  <2>6. RunMarked /\ HeldGot'
    <3>1. PICK key : key = <<"chain", t>>
      OBVIOUS
    <3> QED
      BY <2>1, <2>5, <3>1, HeldOthers DEF Stepped
  <2>7. ChainMarked
    BY <2>1, <2>4 DEF ChainMarked
  <2> QED
    BY <1>2, <2>6, <2>7, WaitAlike, QuietMoves
<1>3. CASE /\ t \in DOMAIN task /\ task[t].chain = 0 /\ <<"chain", t>> \notin DOMAIN held
           /\ \/ req' = NewRequests(t, Receivers, TRUE) /\ Read("chain", t, task[t]) /\ Sound
              \/ \E d \in Dests :
                   /\ req' = NewRequests(t, Receivers \ {d}, TRUE) /\ Fault
                   /\ UNCHANGED held \/ Read("chain", t, task[t])
           /\ UNCHANGED <<task, auth, runs, got, txs, orders>>
  <2>1. CASE req' = NewRequests(t, Receivers, TRUE) /\ Read("chain", t, task[t]) /\ Sound
    BY <1>1, <1>3, <2>1 DEF Sound
  <2>2. ASSUME NEW d \in Dests, req' = NewRequests(t, Receivers \ {d}, TRUE), Fault,
               UNCHANGED held \/ Read("chain", t, task[t])
        PROVE  AllMoved
    <3>1. (Receivers \ {d}) \in SUBSET Receivers
      OBVIOUS
    <3> QED
      BY <1>1, <1>3, <2>2, <3>1 DEF Fault
  <2> QED
    BY <1>3, <2>1, <2>2
<1> QED
  BY <1>2, <1>3 DEF ChainStatus

(* The daemons that share a task.                                          *)
LEMMA ShareTaskMoves == ASSUME Stepped, NEW t \in Tasks, ShareTask(t) PROVE AllMoved
<1>1. ASSUME NEW col \in {"src", "dest"}, Install(t, col) PROVE AllMoved
  <2>1. CASE Read(col, t, task[t]) /\ UNCHANGED <<auth, req, runs, got, txs, faults>>
    BY <2>1, QuietDaemonMoves
  <2>2. CASE /\ \E r \in {1, 2} : WriteTask(col, t, col, r)
             /\ UNCHANGED <<auth, req, runs, got, txs, faults>>
    BY <2>2, QuietDaemonMoves
  <2> QED
    BY <1>1, <2>1, <2>2 DEF Install
<1>2. CASE ChainStatus(t)
  BY <1>2, ChainStatusMoves
<1>3. CASE ChainStatusState(t)
  <2>1. CASE /\ Read("chainState", t, task[t])
             /\ UNCHANGED <<auth, req, runs, got, txs, faults>>
    BY <2>1, QuietDaemonMoves
  <2>2. CASE /\ WriteTask("chainState", t, "chain", 2)
             /\ UNCHANGED <<auth, req, runs, got, txs, faults>>
    BY <2>2, QuietDaemonMoves
  <2> QED
    BY <1>3, <2>1, <2>2 DEF ChainStatusState
<1> QED
  BY <1>1, <1>2, <1>3
     DEF ShareTask, VDESrcTaskInstallContractSrc, VDEScheTaskInstallContractSrc,
         VDEScheTaskInstallContractDest, VDESrcTaskChainStatus, VDEScheTaskChainStatus,
         VDESrcTaskChainStatusState, VDEScheTaskChainStatusState

(* Authorisations: a request for one receiver, and its mark.               *)
LEMMA ShareAuthMoves == ASSUME Stepped, NEW a \in Auths, ShareAuth(a) PROVE AllMoved
<1>1. UNCHANGED <<task, held, runs, got, txs>> /\ Costless
  BY DEF ShareAuth, VDESrcTaskAuthChainStatus, VDESrcTaskAuthChainStatusState,
         Sound, Fault, Costless
<1>2. AuthOnward
  BY DEF ShareAuth, VDESrcTaskAuthChainStatus, VDESrcTaskAuthChainStatusState, AuthOnward
<1>3. ChainMarked /\ RunMarked /\ HeldGot' /\ GotOnward
  BY <1>1, WaitAlike, HeldStay DEF Stepped
<1>4. CASE VDESrcTaskAuthChainStatusState(a)
  <2>1. UNCHANGED req
    BY <1>4 DEF VDESrcTaskAuthChainStatusState
  <2> QED
    BY <1>1, <1>2, <1>3, <2>1, WaitAlike, QuietMoves
<1>5. CASE VDESrcTaskAuthChainStatus(a)
  <2> PICK t, n, inst : t = a[1] /\ n = a[2] /\ inst = Installed(a[1], task[a[1]])
    OBVIOUS
  <2>1. /\ req' = NewRequests(t, {n}, inst) /\ a = <<t, n>> /\ n \notin Receivers
        /\ a \in DOMAIN auth /\ auth[a] = 0
    BY <1>5, NodesOfRequests DEF VDESrcTaskAuthChainStatus
  <2>2. ASSUME NEW u, NEW m, u # t \/ m # n PROVE ShareMoved(u, m)
    <3>1. Waiting(u, m)' \subseteq Waiting(u, m)
      BY <2>1, <2>2, NewWaiting
    <3> QED
      BY <1>1, <1>2, <1>3, <3>1, NotPosted, ShareSame DEF Stepped
  <2>3. ShareMoved(t, n)
    <3>1. Budget(t, n)' >= Budget(t, n) + 1
      <4>1. CASE faults' = faults + 1
        BY <1>1, <1>2, <1>3, <4>1, ClosedStays DEF Stepped
      <4>2. CASE UNCHANGED faults /\ auth' = [auth EXCEPT ![a] = 1]
        <5>1. ~Closed(t, n)
          BY <2>1 DEF Closed
        <5>2. Closed(t, n)'
          BY <2>1, <4>2 DEF Closed
        <5>3. Budget(t, n) = faults /\ Budget(t, n)' = faults' + 1 /\ faults \in Nat
          BY <5>1, <5>2 DEF Budget, Stepped, Types, CountOK
        <5> QED
          BY <4>2, <5>3
      <4> QED
        BY <1>5, <4>1, <4>2 DEF VDESrcTaskAuthChainStatus, Sound, Fault
    <3>2. Waiting(t, n)' \subseteq Waiting(t, n) \cup {<<t, n, Copies(t, n) + 1>>}
      BY <2>1, NewWaiting
    <3>3. Posted("share", t, n)' = Posted("share", t, n)
      BY <1>1, NotPosted
    <3> QED
      BY <3>1, <3>2, <3>3 DEF ShareMoved, Moved
  <2>4. ASSUME NEW u PROVE RunMoved(u)
    BY <1>1, <1>3, WaitAlike, NotPosted, RunSame DEF Stepped
  <2> QED
    BY <1>3, <2>2, <2>3, <2>4 DEF AllMoved
<1> QED
  BY <1>4, <1>5 DEF ShareAuth

(* A request is posted; one that the daemon could not mark is still there. *)
LEMMA PostRequestMoves ==
  ASSUME Stepped, NEW k \in DOMAIN req, PostRequest(k)
  PROVE  AllMoved
<1>1. UNCHANGED <<task, held, auth, runs, got>> /\ Costless
  BY DEF PostRequest, VDESrcTaskUpToChain, VDEScheTaskUpToChain, VDESrcTaskUpToChainState,
         VDEScheTaskUpToChainState, UpToChain, UpToChainState, Sound, Fault, Costless
<1>2. ChainMarked /\ RunMarked /\ HeldGot' /\ GotOnward /\ AuthOnward
  BY <1>1, WaitAlike, HeldStay DEF Stepped
<1>3. req[k] \in ReqType
  BY DEF Stepped, Types, ReqOK
<1>4. CASE UpToChain(k)
  <2> PICK t, n : t = k[1] /\ n = k[2]
    OBVIOUS
  <2>1. PICK c \in 1..MaxCopies :
          /\ VDEPostTxResult("share", t, n, c)
          /\ \/ UNCHANGED faults /\ req' = [req EXCEPT ![k].chain = 1, ![k].tx = c]
             \/ faults' = faults + 1 /\ UNCHANGED req
    BY <1>4 DEF UpToChain, Sound, Fault
  <2>2. /\ Posted("share", t, n)' = Posted("share", t, n) \cup {<<"share", t, n, c>>}
        /\ \A u, m : <<u, m>> # <<t, n>> => Posted("share", u, m)' = Posted("share", u, m)
        /\ \A u : Posted("run", u, Src)' = Posted("run", u, Src)
    BY <2>1, PostPosted
  <2>3. \A u, m : Waiting(u, m)' \subseteq Waiting(u, m)
    <3>1. CASE UNCHANGED req
      BY <3>1, WaitAlike
    <3>2. CASE req' = [req EXCEPT ![k].chain = 1, ![k].tx = c]
      <4>1. /\ DOMAIN req' = DOMAIN req /\ \A j \in DOMAIN req : j # k => req'[j] = req[j]
            /\ req'[k].chain = 1
        BY <1>3, <3>2 DEF ReqType
      <4> QED
        BY <4>1 DEF Waiting
    <3> QED
      BY <2>1, <3>1, <3>2
  <2>4. ASSUME NEW u, NEW m, <<u, m>> # <<t, n>> PROVE ShareMoved(u, m)
    <3>1. Posted("share", u, m)' = Posted("share", u, m) /\ Waiting(u, m)' \subseteq Waiting(u, m)
      BY <2>2, <2>3, <2>4
    <3> QED
      BY <1>1, <1>2, <3>1, ShareSame DEF Stepped
  <2>5. ShareMoved(t, n)
    <3>1. CASE UNCHANGED faults /\ req' = [req EXCEPT ![k].chain = 1, ![k].tx = c]
      <4>1. /\ DOMAIN req' = DOMAIN req /\ \A j \in DOMAIN req : j # k => req'[j] = req[j]
            /\ req'[k].chain = 1
        BY <1>3, <3>1 DEF ReqType
      <4>2. k \in Waiting(t, n) /\ Waiting(t, n)' \subseteq Waiting(t, n) \ {k}
        BY <1>4, <4>1 DEF Waiting, UpToChain
      <4>3. Budget(t, n)' >= Budget(t, n)
        BY <1>1, <1>2, ClosedStays DEF Stepped
      <4> QED
        BY <2>2, <4>2, <4>3 DEF ShareMoved, Moved
    <3>2. CASE faults' = faults + 1
      <4>1. Budget(t, n)' >= Budget(t, n) + 1
        BY <1>1, <1>2, <3>2, ClosedStays DEF Stepped
      <4> QED
        BY <2>2, <2>3, <4>1 DEF ShareMoved, Moved
    <3> QED
      BY <2>1, <3>1, <3>2
  <2>6. ASSUME NEW u PROVE RunMoved(u)
    BY <1>1, <1>2, <2>2, WaitAlike, RunSame DEF Stepped
  <2>7. ASSUME NEW u, NEW m PROVE ShareMoved(u, m)
    BY <2>4, <2>5
  <2> QED
    BY <1>2, <2>6, <2>7 DEF AllMoved
<1>5. CASE UpToChainState(k)
  <2>1. /\ DOMAIN req' = DOMAIN req /\ \A j \in DOMAIN req : j # k => req'[j] = req[j]
        /\ req'[k].chain = 2 /\ UNCHANGED txs
    BY <1>3, <1>5 DEF UpToChainState, ReqType
  <2>2. \A u, m : Waiting(u, m)' \subseteq Waiting(u, m)
    BY <2>1 DEF Waiting
  <2> QED
    BY <1>1, <1>2, <2>1, <2>2, WaitAlike, QuietMoves
<1> QED
  BY <1>4, <1>5 DEF PostRequest, VDESrcTaskUpToChain, VDEScheTaskUpToChain,
                    VDESrcTaskUpToChainState, VDEScheTaskUpToChainState

(* The chain decides, or the source reads it: nothing is sent.             *)
LEMMA ChainMoves ==
  ASSUME Stepped, \/ \E x \in DOMAIN txs : Mine(x)
                  \/ \E t \in ScheTasks : VDESrcTaskScheGetFromChain(t)
  PROVE  AllMoved
<1>1. ASSUME NEW x \in DOMAIN txs, Mine(x) PROVE AllMoved
  <2>1. DOMAIN txs' = DOMAIN txs /\ UNCHANGED <<task, held, auth, req, runs, got>> /\ Costless
    BY <1>1, MineGrows DEF Mine, Sound, Fault, Costless
  <2>2. ChainMarked /\ RunMarked /\ HeldGot'
    BY <2>1, WaitAlike, HeldStay DEF Stepped
  <2> QED
    BY <2>1, <2>2, WaitAlike, QuietMoves
<1>2. ASSUME NEW t \in ScheTasks, VDESrcTaskScheGetFromChain(t) PROVE AllMoved
  <2>1. \A u \in DOMAIN got : Updates(got[u], NewRow).run = got[u].run
    BY UpdatesRow, NewRowType, NewRowFields DEF Stepped, Types, GotOK
  <2>2. GotOnward
    BY <1>2, <2>1 DEF VDESrcTaskScheGetFromChain, With, GotOnward
  <2>3. UNCHANGED <<task, held, auth, req, runs, txs, faults>>
    BY <1>2 DEF VDESrcTaskScheGetFromChain
  <2>4. ChainMarked /\ RunMarked /\ HeldGot'
    BY <2>2, <2>3, HeldStay DEF Stepped
  <2> QED
    BY <2>2, <2>3, <2>4, WaitAlike, QuietMoves
<1> QED
  BY <1>1, <1>2

(* A row that is lost is paid for.                                         *)
LEMMA WriteFailsMoves == ASSUME Stepped, NEW k, WriteFails(k) PROVE AllMoved
<1>1. /\ UNCHANGED <<task, auth, req, runs, got, txs>> /\ faults' = faults + 1
      /\ DOMAIN held' = DOMAIN held \ {k}
  BY WithoutHeld DEF WriteFails, Fault
<1>2. faults \in Nat
  BY DEF Stepped, Types, CountOK
<1>3. ASSUME NEW t, NEW n PROVE ShareMoved(t, n)
  <2>1. Budget(t, n)' >= Budget(t, n)
    <3>1. Budget(t, n) \in {faults, faults + 1} /\ Budget(t, n)' \in {faults', faults' + 1}
      BY DEF Budget
    <3> QED
      BY <1>1, <1>2, <3>1
  <2> QED
    BY <1>1, <2>1, WaitAlike, NotPosted DEF ShareMoved, Moved
<1>4. ASSUME NEW t PROVE RunMoved(t)
  <2>1. RunBudget(t)' >= RunBudget(t)
    <3>1. RunBudget(t) \in {faults, faults + 1} /\ RunBudget(t)' \in {faults', faults' + 1}
      BY DEF RunBudget
    <3> QED
      BY <1>1, <1>2, <3>1
  <2> QED
    BY <1>1, <2>1, WaitAlike, NotPosted DEF RunMoved, Moved
<1> QED
  BY <1>1, <1>3, <1>4 DEF AllMoved, Stepped, HeldGot

(* A run of a one-time task is made when none has been: the task is held,  *)
(* then marked.                                                            *)
LEMMA StartRunMoves == ASSUME Stepped, NEW t \in Tasks, StartRun(t) PROVE AllMoved
<1>1. CASE /\ AtSource(t) /\ Due(t) /\ Read("status", t, RunRow(t))
           /\ runs' = Append(runs, [task |-> t, chain |-> 0, tx |-> 0])
           /\ UNCHANGED <<task, auth, req, got, txs, orders, faults>>
  <2> PICK run : run = [task |-> t, chain |-> 0, tx |-> 0]
    OBVIOUS
  <2>1. /\ <<"status", t>> \notin DOMAIN held
        /\ DOMAIN held' = DOMAIN held \cup {<<"status", t>>}
    BY <1>1 DEF Read, With
  <2>2. ChainMarked /\ RunMarked /\ HeldGot' /\ GotOnward /\ AuthOnward /\ Costless
    <3>1. GotOnward /\ AuthOnward /\ Costless
      BY <1>1, WaitAlike
    <3> QED
      BY <1>1, <2>1, <3>1, HeldStay DEF Stepped
  <2>3. run.task = t /\ run \in RunType /\ runs \in Seq(RunType)
    BY TaskAssumption DEF RunType, Stepped, IInv, RunsInv
  <2>4. /\ \A i \in DOMAIN runs' : \/ i \in DOMAIN runs /\ runs'[i] = runs[i]
                                   \/ i = Len(runs) + 1 /\ runs'[i] = run
    BY <1>1, <2>3
  <2>5. ASSUME NEW u, NEW n PROVE ShareMoved(u, n)
    BY <1>1, <2>2, WaitAlike, NotPosted, ShareSame DEF Stepped
  <2>6. ASSUME NEW u, u # t PROVE RunMoved(u)
    <3>1. RunWaiting(u)' \subseteq RunWaiting(u)
      BY <2>3, <2>4, <2>6 DEF RunWaiting
    <3> QED
      BY <1>1, <2>2, <3>1, NotPosted, RunSame DEF Stepped
  <2>7. ASSUME t \in OneTime PROVE RunMoved(t)
    <3>1. RunWaiting(t)' \subseteq RunWaiting(t) \cup {Len(runs) + 1}
      BY <2>4 DEF RunWaiting
    <3>2. RunBudget(t)' >= RunBudget(t) + 1
      <4>1. ~RunClosed(t)
        BY <1>1, <2>1, <2>7 DEF RunClosed, Due
      <4>2. RunClosed(t)'
        BY <2>1 DEF RunClosed
      <4>3. RunBudget(t) = faults /\ RunBudget(t)' = faults' + 1 /\ faults \in Nat
        BY <4>1, <4>2 DEF RunBudget, Stepped, Types, CountOK
      <4> QED
        BY <1>1, <4>3
    <3>3. Posted("run", t, Src)' = Posted("run", t, Src)
      BY <1>1, NotPosted
    <3> QED
      BY <3>1, <3>2, <3>3 DEF RunMoved, Moved
  <2> QED
    BY <2>2, <2>5, <2>6, <2>7 DEF AllMoved
<1>2. CASE /\ <<"status", t>> \in DOMAIN held /\ held' = Without(held, <<"status", t>>)
           /\ WriteRun(t, [held[<<"status", t>>] EXCEPT !.run = 3])
           /\ UNCHANGED <<auth, req, runs, txs, orders, faults>>
  <2> PICK key, item : key = <<"status", t>> /\ item = [held[key] EXCEPT !.run = 3]
    OBVIOUS
  <2>1. DOMAIN held' = DOMAIN held \ {key} /\ key[1] # "chain"
    BY <1>2, WithoutHeld
  <2>2. item \in Row /\ item.run # 0
    <3>1. held[key] \in Row /\ 3 \in 0..3
      BY <1>2 DEF Stepped, Types, HeldOK
    <3>2. item \in Row /\ item.run = 3
      BY <3>1, SetRunRow
    <3> QED
      BY <3>2
  <2>3. AtSource(t)
    BY <1>2 DEF Stepped, HeldGot, RowsInv, LateInv, OfTable, HeldTask, AtSource, Tasks
  <2>4. GotOnward /\ AtSource(t)' /\ RunRow(t)'.run # 0
    BY <1>2, <2>2, <2>3, WriteRunGot DEF Stepped
  <2>5. ChainMarked /\ HeldGot'
    BY <2>1, <2>4, HeldOthers DEF Stepped
  <2>6. RunMarked
    BY <2>1, <2>4 DEF RunMarked
  <2> QED
    BY <1>2, <2>4, <2>5, <2>6, WaitAlike, QuietMoves
<1> QED
  BY <1>1, <1>2 DEF StartRun, VDESrcTaskStatus, VDESrcTaskFromScheStatus, TaskStatus

(* Runs of a table that has one row changed, to another state than waiting.*)
LEMMA RunWaits ==
  ASSUME NEW i, DOMAIN runs' = DOMAIN runs, runs'[i].chain # 0,
         \A j \in DOMAIN runs : j # i => runs'[j] = runs[j]
  PROVE  \A t : RunWaiting(t)' \subseteq RunWaiting(t) \ {i}
BY DEF RunWaiting

(* The row of a run.                                                       *)
LEMMA RunRowOf == ASSUME runs \in Seq(RunType), NEW i \in 1..Len(runs) PROVE runs[i] \in RunType
OBVIOUS

(* A run is posted, at most once unless something fails, or given up.      *)
LEMMA StatusRunMoves ==
  ASSUME Stepped, NEW i \in DOMAIN runs, StatusRun(i)
  PROVE  AllMoved
<1> PICK t : t = runs[i].task
  OBVIOUS
<1>1. UNCHANGED <<task, held, auth, req, got>> /\ Costless
  BY DEF StatusRun, Sound, Fault, Costless
<1>2. ChainMarked /\ RunMarked /\ HeldGot' /\ GotOnward /\ AuthOnward
  BY <1>1, WaitAlike, HeldStay DEF Stepped
<1>3. /\ runs \in Seq(RunType) /\ i \in 1..Len(runs) /\ DOMAIN runs = 1..Len(runs)
      /\ i \in RunWaiting(t)
  <2>1. runs \in Seq(RunType) /\ runs[i].chain = 0
    BY DEF Stepped, IInv, RunsInv, StatusRun
  <2>2. DOMAIN runs = 1..Len(runs)
    BY <2>1, RunsDomain
  <2> QED
    BY <2>1, <2>2 DEF RunWaiting
<1>4. \/ UNCHANGED txs
      \/ \E c \in 1..MaxCopies : VDEPostTxResult("run", t, Src, c)
  BY DEF StatusRun
<1>5. \/ UNCHANGED runs /\ faults' = faults + 1
      \/ /\ DOMAIN runs' = DOMAIN runs /\ runs'[i].chain # 0
         /\ \A j \in DOMAIN runs : j # i => runs'[j] = runs[j]
  <2>1. CASE UNCHANGED runs /\ Fault
    BY <2>1 DEF Fault
  <2>2. ASSUME NEW c \in 1..MaxCopies, runs' = [runs EXCEPT ![i].chain = 1, ![i].tx = c]
        PROVE  /\ DOMAIN runs' = DOMAIN runs /\ runs'[i].chain # 0
               /\ \A j \in DOMAIN runs : j # i => runs'[j] = runs[j]
    <3>1. /\ DOMAIN runs' = DOMAIN runs
          /\ \A j \in 1..Len(runs) : j # i => runs'[j] = runs[j]
      BY <1>3, <2>2, SendRunRow
    <3>2. runs[i] \in RunType
      BY <1>3, RunRowOf
    <3>3. runs'[i].chain = 1
      BY <2>2, <3>2 DEF RunType
    <3> QED
      BY <1>3, <3>1, <3>3
  <2>3. CASE runs' = [runs EXCEPT ![i].chain = 3]
    <3>1. /\ DOMAIN runs' = DOMAIN runs /\ runs'[i].chain = 3
          /\ \A j \in 1..Len(runs) : j # i => runs'[j] = runs[j]
      BY <1>3, <2>3, EndRunRow
    <3> QED
      BY <1>3, <3>1
  <2> QED
    BY <2>1, <2>2, <2>3 DEF StatusRun
<1>6. \A u : u # t => RunWaiting(u)' \subseteq RunWaiting(u)
  BY <1>5, RunWaits, WaitAlike
<1>7. /\ \A u, n : Posted("share", u, n)' = Posted("share", u, n)
      /\ \A u : u # t => Posted("run", u, Src)' = Posted("run", u, Src)
      /\ \E x : Posted("run", t, Src)' \subseteq Posted("run", t, Src) \cup {x}
  <2>1. CASE UNCHANGED txs
    BY <2>1, NotPosted
  <2>2. ASSUME NEW c \in 1..MaxCopies, VDEPostTxResult("run", t, Src, c)
        PROVE  /\ \A u, n : Posted("share", u, n)' = Posted("share", u, n)
               /\ \A u : u # t => Posted("run", u, Src)' = Posted("run", u, Src)
               /\ \E x : Posted("run", t, Src)' \subseteq Posted("run", t, Src) \cup {x}
    <3>1. \A v, u, m : <<v, u, m>> # <<"run", t, Src>> => Posted(v, u, m)' = Posted(v, u, m)
      BY <2>2, PostPosted
    <3>2. Posted("run", t, Src)' \subseteq Posted("run", t, Src) \cup {<<"run", t, Src, c>>}
      BY <2>2, PostPosted
    <3> QED
      BY <3>1, <3>2
  <2> QED
    BY <1>4, <2>1, <2>2
<1>8. ASSUME NEW u, NEW n PROVE ShareMoved(u, n)
  BY <1>1, <1>2, <1>7, WaitAlike, ShareSame DEF Stepped
<1>9. ASSUME NEW u, u # t PROVE RunMoved(u)
  <2>1. RunWaiting(u)' \subseteq RunWaiting(u) /\ Posted("run", u, Src)' = Posted("run", u, Src)
    BY <1>6, <1>7, <1>9
  <2> QED
    BY <1>1, <1>2, <2>1, RunSame DEF Stepped
<1>10. RunMoved(t)
  <2>1. CASE UNCHANGED runs /\ faults' = faults + 1
    <3>1. RunBudget(t)' >= RunBudget(t) + 1
      BY <1>1, <1>2, <2>1, RunClosedStays DEF Stepped
    <3>2. RunWaiting(t)' \subseteq RunWaiting(t)
      BY <2>1, WaitAlike
    <3> QED
      BY <1>7, <3>1, <3>2 DEF RunMoved, Moved
  <2>2. CASE /\ DOMAIN runs' = DOMAIN runs /\ runs'[i].chain # 0
             /\ \A j \in DOMAIN runs : j # i => runs'[j] = runs[j]
    <3>1. RunWaiting(t)' \subseteq RunWaiting(t) \ {i}
      BY <2>2, RunWaits
    <3>2. RunBudget(t)' >= RunBudget(t)
      BY <1>1, <1>2, RunClosedStays DEF Stepped
    <3> QED
      BY <1>3, <1>7, <3>1, <3>2 DEF RunMoved, Moved
  <2> QED
    BY <1>5, <2>1, <2>2
<1> QED
  BY <1>2, <1>8, <1>9, <1>10 DEF AllMoved

(* A run is followed: nothing is posted.                                   *)
LEMMA StatusRunStateMoves ==
  ASSUME Stepped, NEW i \in DOMAIN runs, StatusRunState(i)
  PROVE  AllMoved
<1> PICK t, key : t = runs[i].task /\ key = <<"runState", i>>
  OBVIOUS
<1>1. UNCHANGED <<auth, req, txs>> /\ Costless
  BY DEF StatusRunState, Sound, Fault, Costless
<1>2. AuthOnward
  BY <1>1, WaitAlike
<1>3. CASE Read("runState", i, RunRow(t)) /\ UNCHANGED <<task, runs, got>>
  <2>1. DOMAIN held' = DOMAIN held \cup {key}
    BY <1>3 DEF Read, With
  <2>2. ChainMarked /\ RunMarked /\ HeldGot'
    BY <1>3, <2>1, WaitAlike, HeldStay DEF Stepped
  <2> QED
    BY <1>1, <1>3, <2>2, WaitAlike, QuietMoves
<1>4. CASE /\ key \in DOMAIN held /\ held' = Without(held, key)
           /\ UNCHANGED runs \/ \E ch \in {2, 3} : runs' = [runs EXCEPT ![i].chain = ch]
           /\ \/ UNCHANGED <<task, got>>
              \/ \E v \in {1, 2} : WriteRun(t, [held[key] EXCEPT !.run = v])
  <2>1. DOMAIN held' = DOMAIN held \ {key} /\ key[1] # "chain" /\ key[1] # "status"
    BY <1>4, WithoutHeld
  <2>2. GotOnward
    <3>1. ASSUME NEW v \in {1, 2}, WriteRun(t, [held[key] EXCEPT !.run = v]) PROVE GotOnward
      <4> PICK item : item = [held[key] EXCEPT !.run = v]
        OBVIOUS
      <4>1. item \in Row /\ item.run # 0
        <5>1. held[key] \in Row /\ v \in 0..3 /\ v # 0
          BY <1>4 DEF Stepped, Types, HeldOK
        <5>2. item \in Row /\ item.run = v
          BY <5>1, SetRunRow
        <5> QED
          BY <5>1, <5>2
      <4> QED
        BY <3>1, <4>1, WriteRunGot DEF Stepped
    <3> QED
      BY <1>4, <3>1, WaitAlike
  <2>3. ChainMarked /\ RunMarked /\ HeldGot'
    BY <2>1, <2>2, HeldOthers DEF Stepped
  <2>4. \A u : RunWaiting(u)' \subseteq RunWaiting(u)
    <3>1. CASE UNCHANGED runs
      BY <3>1, WaitAlike
    <3>2. ASSUME NEW ch \in {2, 3}, runs' = [runs EXCEPT ![i].chain = ch]
          PROVE  \A u : RunWaiting(u)' \subseteq RunWaiting(u)
      <4>1. runs \in Seq(RunType) /\ i \in 1..Len(runs) /\ DOMAIN runs = 1..Len(runs)
        BY RunsDomain DEF Stepped, IInv, RunsInv
      <4>2. /\ DOMAIN runs' = DOMAIN runs /\ runs'[i].chain = ch
            /\ \A j \in 1..Len(runs) : j # i => runs'[j] = runs[j]
        BY <3>2, <4>1, EndRunRow
      <4>3. runs'[i].chain # 0 /\ \A j \in DOMAIN runs : j # i => runs'[j] = runs[j]
        BY <4>1, <4>2
      <4> QED
        BY <4>2, <4>3, RunWaits
    <3> QED
      BY <1>4, <3>1, <3>2
  <2> QED
    BY <1>1, <1>2, <2>2, <2>3, <2>4, WaitAlike, QuietMoves
<1> QED
  BY <1>3, <1>4 DEF StatusRunState

(* Every step pays for what it posts.                                      *)
LEMMA EveryStepMoves == ASSUME Stepped, [Next]_vars PROVE AllMoved
<1>1. CASE User
  BY <1>1, UserMoves
<1>2. CASE Daemons
  <2>1. ASSUME NEW i \in DOMAIN runs, FollowRun(i) PROVE AllMoved
    BY <2>1, StatusRunMoves, StatusRunStateMoves
       DEF FollowRun, VDESrcTaskStatusRun, VDESrcTaskFromScheStatusRun,
           VDESrcTaskStatusRunState, VDESrcTaskFromScheStatusRunState
  <2>2. ASSUME NEW t \in Tasks, ShareTask(t) \/ StartRun(t) PROVE AllMoved
    BY <2>2, ShareTaskMoves, StartRunMoves
  <2>3. ASSUME NEW a \in Auths, ShareAuth(a) PROVE AllMoved
    BY <2>3, ShareAuthMoves
  <2>4. ASSUME NEW k \in DOMAIN req, PostRequest(k) PROVE AllMoved
    BY <2>4, PostRequestMoves
  <2> QED
    BY <1>2, <2>1, <2>2, <2>3, <2>4, ChainMoves DEF Daemons
<1>3. ASSUME NEW k \in DOMAIN held, WriteFails(k) PROVE AllMoved
  BY <1>3, WriteFailsMoves
<1>4. CASE UNCHANGED vars
  <2>1. UNCHANGED <<task, held, auth, req, runs, got, txs, faults>>
    BY <1>4 DEF vars
  <2>2. ChainMarked /\ RunMarked /\ HeldGot'
    BY <2>1, WaitAlike, HeldStay DEF Stepped
  <2> QED
    BY <2>1, <2>2, WaitAlike, QuietMoves
<1> QED
  BY <1>1, <1>2, <1>3, <1>4 DEF Next

(* What a step pays keeps it within what it has.                           *)
LEMMA CountStep ==
  ASSUME IInv, Types, RowsInv, CountInv, Types', TaskOnward, [Next]_vars
  PROVE  CountInv'
<1>1. AllMoved
  BY EveryStepMoves DEF Stepped, CountInv
<1>2. faults \in Nat /\ faults' \in Nat
  BY DEF Types, CountOK
<1>3. ASSUME NEW w, NEW t, NEW n
      PROVE  IsFiniteSet(Posted(w, t, n)) /\ IsFiniteSet(Waiting(t, n))
  <2>1. Posted(w, t, n) \in SUBSET DOMAIN txs /\ Waiting(t, n) \in SUBSET DOMAIN req
    BY DEF Posted, Waiting
  <2> QED
    BY <2>1, FS_Subset DEF Types, TxsOK, ReqOK
<1>4. ASSUME NEW t PROVE IsFiniteSet(RunWaiting(t))
  <2>1. RunWaiting(t) \in SUBSET (1..Len(runs)) /\ Len(runs) \in Nat
    BY DEF RunWaiting, IInv, RunsInv
  <2>2. IsFiniteSet(1..Len(runs))
    BY <2>1, FS_Interval
  <2> QED
    BY <2>1, <2>2, FS_Subset
<1>5. ASSUME NEW t \in Tasks, NEW n \in Nodes
      PROVE  Cardinality(Posted("share", t, n)') + Cardinality(Waiting(t, n)') <= Budget(t, n)'
  <2>1. Budget(t, n) \in Nat /\ Budget(t, n)' \in Nat
    <3>1. Budget(t, n) \in {faults, faults + 1} /\ Budget(t, n)' \in {faults', faults' + 1}
      BY DEF Budget
    <3> QED
      BY <1>2, <3>1
  <2>2. Cardinality(Posted("share", t, n)) + Cardinality(Waiting(t, n)) <= Budget(t, n)
    BY DEF CountInv, ShareCount
  <2>3. Moved(Posted("share", t, n), Waiting(t, n), Budget(t, n),
              Posted("share", t, n)', Waiting(t, n)', Budget(t, n)')
    BY <1>1 DEF AllMoved, ShareMoved
  <2>4. IsFiniteSet(Posted("share", t, n)) /\ IsFiniteSet(Waiting(t, n))
    BY <1>3
  <2> QED
    BY <2>1, <2>2, <2>3, <2>4, MovedWithin
<1>6. ASSUME NEW t \in OneTime
      PROVE  Cardinality(Posted("run", t, Src)') + Cardinality(RunWaiting(t)') <= RunBudget(t)'
  <2>1. RunBudget(t) \in Nat /\ RunBudget(t)' \in Nat
    <3>1. RunBudget(t) \in {faults, faults + 1} /\ RunBudget(t)' \in {faults', faults' + 1}
      BY DEF RunBudget
    <3> QED
      BY <1>2, <3>1
  <2>2. Cardinality(Posted("run", t, Src)) + Cardinality(RunWaiting(t)) <= RunBudget(t)
    BY DEF CountInv, RunCount
  <2>3. Moved(Posted("run", t, Src), RunWaiting(t), RunBudget(t),
              Posted("run", t, Src)', RunWaiting(t)', RunBudget(t)')
    BY <1>1 DEF AllMoved, RunMoved
  <2>4. IsFiniteSet(Posted("run", t, Src)) /\ IsFiniteSet(RunWaiting(t))
    BY <1>3, <1>4
  <2> QED
    BY <2>1, <2>2, <2>3, <2>4, MovedWithin
<1> QED
  <2>1. ShareCount'
    BY <1>5 DEF ShareCount
  <2>2. RunCount'
    BY <1>6 DEF RunCount
  <2> QED
    BY <1>1, <2>1, <2>2 DEF CountInv, AllMoved

(* Nothing has been posted at first.                                       *)
LEMMA CountInit == ASSUME Init PROVE CountInv
<1>1. faults = 0 /\ DOMAIN txs = {} /\ DOMAIN req = {} /\ DOMAIN runs = {} /\ DOMAIN held = {}
  BY DEF Init
<1>2. /\ \A w, t, n : Posted(w, t, n) = {}
      /\ \A t, n : Waiting(t, n) = {}
      /\ \A t : RunWaiting(t) = {}
  BY <1>1 DEF Posted, Waiting, RunWaiting
<1>3. \A t, n : Budget(t, n) \in Nat /\ RunBudget(t) \in Nat
  BY <1>1 DEF Budget, RunBudget
<1>4. Cardinality({}) = 0
  BY FS_EmptySet
<1>5. ShareCount
  <2>1. ASSUME NEW b \in Nat PROVE 0 + 0 <= b
    OBVIOUS
  <2> QED
    BY <1>2, <1>3, <1>4, <2>1 DEF ShareCount
<1>6. RunCount
  <2>1. ASSUME NEW b \in Nat PROVE 0 + 0 <= b
    OBVIOUS
  <2> QED
    BY <1>2, <1>3, <1>4, <2>1 DEF RunCount
<1> QED
  BY <1>1, <1>5, <1>6 DEF CountInv, HeldGot

(* What is posted and what is still to be are paid for, in every state.    *)
LEMMA CountHolds == Spec => [](IInv /\ Types /\ CountInv)
<1>1. Init => CountInv
  BY CountInit
<1>2. (IInv /\ Types /\ RowsInv) /\ (IInv /\ Types /\ RowsInv)' /\ CountInv /\ [Next]_vars
      => CountInv'
  BY RowsStep, CountStep
<1> QED
  BY <1>1, <1>2, HeldRowsAreLate, PTL DEF Spec

(* A receiver is sent a share, and a one-time task is run, at most once,   *)
(* and once more for each write, answer or transaction that failed: the    *)
(* loops of UpToChain and of GetOneTimeTasks.                              *)
THEOREM SentOnce == Spec => []OnceUnlessFault
<1>1. IInv /\ Types /\ CountInv => OnceUnlessFault
  <2> SUFFICES ASSUME IInv, Types, CountInv PROVE OnceUnlessFault
    OBVIOUS
  <2>1. faults \in Nat
    BY DEF Types, CountOK
  <2>2. ASSUME NEW w, NEW t, NEW n
        PROVE  /\ Cardinality(Posted(w, t, n)) \in Nat /\ Cardinality(Waiting(t, n)) \in Nat
               /\ Cardinality(RunWaiting(t)) \in Nat
    <3>1. Posted(w, t, n) \in SUBSET DOMAIN txs /\ Waiting(t, n) \in SUBSET DOMAIN req
      BY DEF Posted, Waiting
    <3>2. RunWaiting(t) \in SUBSET (1..Len(runs)) /\ IsFiniteSet(1..Len(runs))
      BY FS_Interval DEF RunWaiting, IInv, RunsInv
    <3> QED
      BY <3>1, <3>2, FS_Subset, FS_CardinalityType DEF Types, TxsOK, ReqOK
  <2>3. ASSUME NEW t \in Tasks, NEW n \in Nodes
        PROVE  Cardinality(Posted("share", t, n)) <= 1 + faults
    <3>1. Budget(t, n) \in {faults, faults + 1}
      BY DEF Budget
    <3>2. Cardinality(Posted("share", t, n)) + Cardinality(Waiting(t, n)) <= Budget(t, n)
      BY DEF CountInv, ShareCount
    <3> QED
      BY <2>1, <2>2, <3>1, <3>2
  <2>4. ASSUME NEW t \in OneTime
        PROVE  Cardinality(Posted("run", t, Src)) <= 1 + faults
    <3>1. RunBudget(t) \in {faults, faults + 1}
      BY DEF RunBudget
    <3>2. Cardinality(Posted("run", t, Src)) + Cardinality(RunWaiting(t)) <= RunBudget(t)
      BY DEF CountInv, RunCount
    <3> QED
      BY <2>1, <2>2, <3>1, <3>2
  <2> QED
    BY <2>3, <2>4 DEF OnceUnlessFault
<1> QED
  BY <1>1, CountHolds, PTL
=============================================================================
