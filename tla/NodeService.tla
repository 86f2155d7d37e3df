---------------------------- MODULE NodeService ----------------------------
(***************************************************************************)
(* The pause of a node (packages/service).  The flag np is set by the      *)
(* goroutine of NodeRelevanceService when the node lags behind its hosts   *)
(* or has a stop-network transaction waiting, and by the transaction       *)
(* itself when the generator plays it.  The generator looks at it once,    *)
(* before it takes DBLock.  Only the relevance goroutine clears it.        *)
(*                                                                         *)
(* An update that ends while the node is paused hands a token to the       *)
(* relevance goroutine over an unbuffered channel, so that it checks again *)
(* at once; it does so with DBLock held.                                   *)
(*                                                                         *)
(* Blocks are heights here: module NodeChain has what is in them.  A step  *)
(* of the generator or of the relevance goroutine is one read or write of  *)
(* what they share: the flag, the pool, info_block, the lock.              *)
(***************************************************************************)
EXTENDS Integers

CONSTANTS
    StopTxs,     \* stop-network transactions that may be sent to the node
    Gap,         \* availableBlockchainGap: blocks the node may be behind
    MaxHeight,   \* bound on the height of a chain
    MaxRestarts  \* bound on restarts of the process

ASSUME ServiceAssumption ==
    /\ Gap \in Nat
    /\ MaxHeight \in Nat \ {0} /\ MaxRestarts \in Nat

VARIABLES
    np,        \* the pause: NoPause, or the reason for it
    holder,    \* the daemon that holds DBLock
    generator, \* where BlockGenerator is
    collector, \* where blocksCollection is
    relevance, \* where the relevance goroutine is and the height it has read: [at, cur]
    pool,      \* the stop-network transactions in the table transactions
    sent,      \* the stop-network transactions sent so far
    height,    \* info_block
    network,   \* the height of the highest host that answers
    hosts,     \* how the hosts that are not banned answer
    services,  \* whether the database and the ban service "work" or may "fail" a relevance check
    run,       \* "running", or "ended" when the process has ended
    restarts,  \* restarts so far
    late       \* blocks generated during the present pause

chain == <<height, network, hosts, services>>
process == <<run, restarts>>
vars == <<np, holder, generator, collector, relevance, pool, sent, chain, process, late>>

NoPause == "NoPause"
UpdatingBlockchain == "UpdatingBlockchain"
StopingNetwork == "StopingNetwork"
None == "none"

up == run = "running"
IsNodePaused == np # NoPause
Start == [at |-> "start", cur |-> 0]

\* The state of a process that starts.
StartProcess ==
    /\ np' = NoPause /\ holder' = None /\ late' = 0
    /\ generator' = "idle" /\ collector' = "idle" /\ relevance' = Start

Init ==
    /\ np = NoPause /\ holder = None /\ late = 0
    /\ generator = "idle" /\ collector = "idle" /\ relevance = Start
    /\ pool = {} /\ sent = {}
    /\ height = 1 /\ network \in 1..MaxHeight /\ hosts = "answer" /\ services = "work"
    /\ run = "running" /\ restarts = 0

\* Mutant: the lock does not exclude.
DBLockShared(daemon) == holder' = daemon

DBLock(daemon) == holder = None /\ holder' = daemon
DBUnlock == holder' = None

-----------------------------------------------------------------------------
(* BlockGenerator.                                                           *)

\* Mutant: the pause is not looked at.
StartGeneratorPaused ==
    /\ up
    /\ generator = "idle"
    /\ generator' = "unpaused"
    /\ UNCHANGED <<np, holder, collector, relevance, pool, sent, chain, process, late>>

StartGenerator ==
    /\ up
    /\ generator = "idle"
    /\ ~ IsNodePaused
    /\ generator' = "unpaused"
    /\ UNCHANGED <<np, holder, collector, relevance, pool, sent, chain, process, late>>

LockGenerator ==
    /\ up
    /\ generator = "unpaused"
    /\ DBLock("BlockGenerator")
    /\ generator' = "generating"
    /\ UNCHANGED <<np, collector, relevance, pool, sent, chain, process, late>>

\* A block is generated.  A stop-network transaction comes last in the batch of the
\* pool, and may be left out of it.
InsertBlock ==
    /\ up
    /\ generator = "generating"
    /\ height < MaxHeight
    /\ height' = height + 1
    /\ late' = IF IsNodePaused THEN late + 1 ELSE late
    /\ generator' = "idle"
    /\ DBUnlock
    /\ UNCHANGED <<np, collector, relevance, pool, sent, network, hosts, services, process>>

\* It is not the node's turn, nothing waits, or the block fails.
GiveUp ==
    /\ up
    /\ generator = "generating"
    /\ generator' = "idle"
    /\ DBUnlock
    /\ UNCHANGED <<np, collector, relevance, pool, sent, chain, process, late>>

\* Action of the stop-network transaction, which is alone in its block: it pauses the
\* node and fails the block.
PauseNodeActivity ==
    /\ up
    /\ generator = "generating"
    /\ pool # {}
    /\ np' = StopingNetwork
    /\ generator' = "stopped"
    /\ UNCHANGED <<holder, collector, relevance, pool, sent, chain, process, late>>

\* PlaySafe marks the first transaction of a generated block that fails as bad.
MarkTransactionBad(t) ==
    /\ up
    /\ generator = "stopped"
    /\ t \in pool
    /\ pool' = pool \ {t}
    /\ generator' = "idle"
    /\ DBUnlock
    /\ UNCHANGED <<np, collector, relevance, sent, chain, process, late>>

-----------------------------------------------------------------------------
(* BlocksCollection and the other updates.                                   *)

\* The height of the hosts, or of the configured addresses if all hosts are banned.
LookForMaxBlock ==
    /\ up
    /\ collector = "idle"
    /\ hosts # "silent"
    /\ height < network
    /\ collector' = "behind"
    /\ UNCHANGED <<np, holder, generator, relevance, pool, sent, chain, process, late>>

LockCollector ==
    /\ up
    /\ collector = "behind"
    /\ DBLock("BlocksCollection")
    /\ collector' = "updating"
    /\ UNCHANGED <<np, generator, relevance, pool, sent, chain, process, late>>

\* Blocks are played, or the last one is rolled back for a replacement.
Heights == {h \in 1..network : h >= height - 1}

UpdateChain ==
    /\ up
    /\ collector = "updating"
    /\ height' \in Heights
    /\ UNCHANGED <<np, holder, generator, collector, relevance, pool, sent, network, hosts,
                   services, process, late>>

\* The end of blocksCollection: NodeDoneUpdatingBlockchain before DBUnlock.
NodeDoneUpdatingBlockchain ==
    /\ up
    /\ collector = "updating"
    /\ IF IsNodePaused
       THEN /\ collector' = "sending"
            /\ UNCHANGED holder
       ELSE /\ collector' = "idle"
            /\ DBUnlock
    /\ UNCHANGED <<np, generator, relevance, pool, sent, chain, process, late>>

\* Mutant: the relevance goroutine takes no token while the node is paused.
TokenRefused ==
    /\ up
    /\ collector = "sending"
    /\ relevance.at = "wait" /\ ~ IsNodePaused
    /\ collector' = "idle"
    /\ DBUnlock
    /\ relevance' = Start
    /\ UNCHANGED <<np, generator, pool, sent, chain, process, late>>

\* The token on updatingEndWhilePaused.
UpdatingEndWhilePaused ==
    /\ up
    /\ collector = "sending"
    /\ relevance.at = "wait"
    /\ collector' = "idle"
    /\ DBUnlock
    /\ relevance' = Start
    /\ UNCHANGED <<np, generator, pool, sent, chain, process, late>>

\* QueueParserBlocks updates under DBLock too, but sends no token.
QueueParserBlocks ==
    /\ up
    /\ holder = None
    /\ hosts # "silent"
    /\ height' \in Heights
    /\ UNCHANGED <<np, holder, generator, collector, relevance, pool, sent, network, hosts,
                   services, process, late>>

-----------------------------------------------------------------------------
(* The relevance goroutine.                                                  *)

ReadInfoBlock ==
    /\ up
    /\ relevance.at = "start"
    /\ relevance' = [at |-> "info", cur |-> height]
    /\ UNCHANGED <<np, holder, generator, collector, pool, sent, chain, process, late>>

\* What Run does with the outcome of checkNodeRelevance.
Decide(relevant) ==
    relevance' = [relevance EXCEPT !.at =
        CASE ~ relevant /\ ~ IsNodePaused -> "pause"
          [] relevant /\ IsNodePaused -> "resume"
          [] OTHER -> "wait"]

\* Mutant: the stop-network transaction is not looked for.
StopNetworkIgnored ==
    /\ up
    /\ relevance.at = "info"
    /\ relevance' = [relevance EXCEPT !.at = "hosts"]
    /\ UNCHANGED <<np, holder, generator, collector, pool, sent, chain, process, late>>

\* A failure to read the pool counts as a stop-network transaction.
GetStopNetwork ==
    /\ up
    /\ relevance.at = "info"
    /\ \/ pool # {} /\ Decide(FALSE)
       \/ pool = {} /\ relevance' = [relevance EXCEPT !.at = "hosts"]
       \/ services = "fail" /\ Decide(FALSE)
    /\ UNCHANGED <<np, holder, generator, collector, pool, sent, chain, process, late>>

\* Mutant: the node must be ahead of its hosts.
RelevantAhead(cur) == hosts = "banned" \/ (hosts = "answer" /\ cur > network + Gap)

\* The outcome of a check that found no stop-network transaction: a node without hosts is
\* alone and relevant, one whose hosts do not answer is not.
Relevant(cur) == hosts = "banned" \/ (hosts = "answer" /\ cur + Gap >= network)

HostWithMaxBlock ==
    /\ up
    /\ relevance.at = "hosts"
    /\ Decide(Relevant(relevance.cur))
    /\ UNCHANGED <<np, holder, generator, collector, pool, sent, chain, process, late>>

PauseForUpdate ==
    /\ up
    /\ relevance.at = "pause"
    /\ np' = UpdatingBlockchain
    /\ relevance' = [relevance EXCEPT !.at = "wait"]
    /\ UNCHANGED <<holder, generator, collector, pool, sent, chain, process, late>>

ResumeNodeActivity ==
    /\ up
    /\ relevance.at = "resume"
    /\ np' = NoPause
    /\ late' = 0
    /\ relevance' = [relevance EXCEPT !.at = "wait"]
    /\ UNCHANGED <<holder, generator, collector, pool, sent, chain, process>>

CheckingInterval ==
    /\ up
    /\ relevance.at = "wait"
    /\ relevance' = Start
    /\ UNCHANGED <<np, holder, generator, collector, pool, sent, chain, process, late>>

\* The goroutine returns if info_block cannot be read or the ban service fails.
RelevanceFails ==
    /\ up
    /\ services = "fail"
    /\ relevance.at \in {"start", "hosts"}
    /\ relevance' = [relevance EXCEPT !.at = "ended"]
    /\ UNCHANGED <<np, holder, generator, collector, pool, sent, chain, process, late>>

-----------------------------------------------------------------------------
(* The stop-network request, the end of the process, the hosts.              *)

\* Type3, which a paused node serves too.
ProcessStopNetwork(t) ==
    /\ up
    /\ t \notin sent
    /\ sent' = sent \cup {t}
    /\ pool' = pool \cup {t}
    /\ UNCHANGED <<np, holder, generator, collector, relevance, chain, process, late>>

EndOfProcess ==
    /\ up /\ run' = "ended"
    /\ StartProcess
    /\ UNCHANGED <<pool, sent, chain, restarts>>

\* The queue parser reads the TxSmart of a stop-network transaction, which has none.
QueueParserTx == holder = None /\ pool # {} /\ EndOfProcess

Crash == EndOfProcess

Restart ==
    /\ ~ up /\ restarts < MaxRestarts
    /\ run' = "running"
    /\ restarts' = restarts + 1
    /\ UNCHANGED <<np, holder, generator, collector, relevance, pool, sent, chain, late>>

Hosts ==
    /\ \/ network < MaxHeight /\ network' = network + 1 /\ UNCHANGED <<hosts, services>>
       \/ hosts' \in {"answer", "silent", "banned"} /\ UNCHANGED <<network, services>>
       \/ services' \in {"work", "fail"} /\ UNCHANGED <<network, hosts>>
    /\ UNCHANGED <<np, holder, generator, collector, relevance, pool, sent, height, process, late>>

BlockGenerator ==
    \/ StartGenerator \/ LockGenerator \/ InsertBlock \/ GiveUp \/ PauseNodeActivity
    \/ \E t \in StopTxs : MarkTransactionBad(t)
BlocksCollection ==
    LookForMaxBlock \/ LockCollector \/ UpdateChain \/ NodeDoneUpdatingBlockchain
Check ==
    \/ ReadInfoBlock \/ GetStopNetwork \/ HostWithMaxBlock \/ PauseForUpdate
    \/ ResumeNodeActivity \/ CheckingInterval

Next ==
    \/ BlockGenerator \/ BlocksCollection \/ Check
    \/ UpdatingEndWhilePaused \/ RelevanceFails
    \/ QueueParserBlocks \/ QueueParserTx
    \/ \E t \in StopTxs : ProcessStopNetwork(t)
    \/ Crash \/ Restart \/ Hosts

Spec == Init /\ [][Next]_vars

\* A daemon that holds the lock gets on with its work, the relevance goroutine goes on
\* as long as it has not returned, and its select takes the token of a waiting sender
\* sooner or later when it competes with the timer.  Nothing is said of the start of a
\* daemon, of the hosts, or of the end of the process.
Fairness ==
    /\ WF_vars(GiveUp \/ \E t \in StopTxs : MarkTransactionBad(t))
    /\ WF_vars(NodeDoneUpdatingBlockchain)
    /\ WF_vars(Check)
    /\ SF_vars(UpdatingEndWhilePaused)

FairSpec == Spec /\ Fairness

-----------------------------------------------------------------------------
(* Properties.                                                               *)

Pauses == {NoPause, UpdatingBlockchain, StopingNetwork}

\* The types of the variables.
TypeOK ==
    /\ np \in Pauses
    /\ holder \in {None, "BlockGenerator", "BlocksCollection"}
    /\ generator \in {"idle", "unpaused", "generating", "stopped"}
    /\ collector \in {"idle", "behind", "updating", "sending"}
    /\ relevance \in [at : {"start", "info", "hosts", "pause", "resume", "wait", "ended"},
                     cur : 0..MaxHeight]
    /\ pool \subseteq sent /\ sent \subseteq StopTxs
    /\ height \in 1..MaxHeight /\ network \in 1..MaxHeight
    /\ hosts \in {"answer", "silent", "banned"} /\ services \in {"work", "fail"}
    /\ run \in {"running", "ended"} /\ restarts \in 0..MaxRestarts
    /\ late \in Nat

\* DBLock is held by the daemon that is between its DBLock and DBUnlock, and by no other.
LockHeld ==
    /\ holder = "BlockGenerator" <=> generator \in {"generating", "stopped"}
    /\ holder = "BlocksCollection" <=> collector \in {"updating", "sending"}

\* A node generates at most one block during a pause, the one it had begun, or was about
\* to begin, when the pause was set.
OneBlockPerPause == late <= 1

\* Why: the block is the last one until the pause is over.
LateBlock ==
    /\ ~ IsNodePaused => late = 0
    /\ late > 0 => generator = "idle"

IInv == TypeOK /\ LockHeld /\ LateBlock /\ OneBlockPerPause

\* A node that was paused by a stop-network transaction is not resumed as long as its
\* process runs.
StaysStopped == [][np = StopingNetwork /\ up' => IsNodePaused']_vars

\* DBLock is released by whoever holds it, unless the relevance goroutine has returned:
\* nobody then takes the token of a sender that holds the lock.
LockReleased == holder # None ~> (holder = None \/ relevance.at = "ended")

Listening == up /\ relevance.at # "ended"
CaughtUp == height + Gap >= network

\* A pause ends when its reasons have gone for good: no stop-network transaction waits,
\* nothing fails, the hosts answer or are all banned, and the node is no longer behind them.
PauseEnds ==
    <>[](Listening /\ pool = {} /\ services = "work" /\ hosts # "silent" /\ CaughtUp)
        => <>[] ~ IsNodePaused

\* A node that has a stop-network transaction waiting, whose hosts do not answer, or that
\* stays behind hosts that do, is paused for as long as that lasts.
PauseBegins ==
    /\ <>[](Listening /\ pool # {}) => <>[] IsNodePaused
    /\ <>[](Listening /\ hosts = "silent") => <>[] IsNodePaused
    /\ <>[](Listening /\ hosts = "answer" /\ ~ CaughtUp) => <>[] IsNodePaused
=============================================================================
