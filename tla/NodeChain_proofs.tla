-------------------------- MODULE NodeChain_proofs --------------------------
(***************************************************************************)
(* Proofs about NodeChain: its type invariant, that every committed state  *)
(* of the database holds a linked chain with its info_block and one block  *)
(* in a slot of a position, and that log_transactions has the transactions *)
(* of that chain, each executed in its time and in one block.              *)
(*                                                                         *)
(* The inductive invariant is IInv of NodeChain.  First the lemmas about   *)
(* the procedures of ChainDB, each of which takes a database with Tables,  *)
(* ChainOK and LogOK to another; then those about the blocks on their way  *)
(* from a host; then one lemma for each action.                            *)
(*                                                                         *)
(* The second half proves the refinement of Ledger.  To the invariant it   *)
(* adds Replayed, that the contract tables and rollback_tx are what the    *)
(* blocks of the chain come to; the lemma it turns on is BlockUndone, that *)
(* a block that is rolled back right after it was executed leaves both as  *)
(* they were before.                                                       *)
(***************************************************************************)
EXTENDS NodeChain, SequencesExt, SequenceTheorems, WellFoundedInduction, TLAPS

-----------------------------------------------------------------------------
(* Recursive functions.  The induction is by the least counterexample in a   *)
(* well-founded order: the library's induction theorems take an operator,    *)
(* which the provers cannot instantiate.                                     *)

\* Induction on numbers, without an operator: a set that has 0 and with a number its
\* successor, up to n.
LEMMA UpTo ==
    ASSUME NEW n \in Nat, NEW P, 0 \in P, \A i \in 0..n-1 : i \in P => i + 1 \in P
    PROVE  n \in P
<1> DEFINE T == {i \in 0..n : i \notin P}
           R == OpToRel(<, Nat)
<1>1. IsWellFoundedOn(R, Nat)
  BY NatLessThanWellFounded
<1>2. \A x, y \in Nat : y < x => <<y, x>> \in R
  BY DEF OpToRel
<1> HIDE DEF R
<1>3. ASSUME T # {} PROVE FALSE
  <2>1. T \subseteq Nat
    OBVIOUS
  <2> HIDE DEF T
  <2>2. PICK i \in T : \A y \in T : ~ (<<y, i>> \in R)
    BY <1>1, <1>3, <2>1, WFMin
  <2>3. \A y \in T : ~ (y < i)
    BY <1>2, <2>1, <2>2
  <2>4. i \in 0..n /\ i \notin P /\ i # 0
    BY DEF T
  <2>5. i - 1 \in 0..n-1 /\ i - 1 \notin P
    BY <2>4
  <2>6. i - 1 \in T
    BY <2>4, <2>5 DEF T
  <2> QED
    BY <2>3, <2>4, <2>6
<1> QED
  BY <1>3

\* The function defined by recursion on a number up to n, from b, with a step for each number.
Recurs(f, S, n, b, step) ==
    /\ f \in [0..n -> S]
    /\ f[0] = b
    /\ \A i \in 1..n : f[i] = step[i][f[i-1]]

\* Such a function exists.
LEMMA Recursion ==
    ASSUME NEW S, NEW n \in Nat, NEW b \in S, NEW step \in [1..n -> [S -> S]]
    PROVE  \E f : Recurs(f, S, n, b, step)
<1> DEFINE Ok(f, m) == f[0] = b /\ \A i \in 1..m : f[i] = step[i][f[i-1]]
           P == {m \in 0..n : \E f \in [0..m -> S] : Ok(f, m)}
<1>1. 0 \in P
  <2> DEFINE f == [i \in 0..0 |-> b]
  <2>1. f \in [0..0 -> S] /\ f[0] = b /\ \A i \in 1..0 : FALSE
    OBVIOUS
  <2> HIDE DEF f
  <2>2. Ok(f, 0)
    BY <2>1
  <2> HIDE DEF Ok
  <2> QED
    BY <2>1, <2>2
<1>2. ASSUME NEW m \in 0..n-1, m \in P PROVE m + 1 \in P
  <2>1. PICK f \in [0..m -> S] : Ok(f, m)
    BY <1>2
  <2>2. /\ m \in Nat /\ m + 1 \in 1..n /\ m \in 0..m /\ m + 1 \in 0..n
        /\ \A i \in 0..m+1 : i \in 0..m \/ i = m + 1
        /\ m + 1 \notin 0..m
        /\ \A i \in 1..m : i \in 0..m /\ i - 1 \in 0..m /\ i \in 0..m+1 /\ i - 1 \in 0..m+1
    OBVIOUS
  <2> DEFINE next == step[m+1][f[m]]
  <2>3. next \in S
    BY <2>2
  <2> HIDE DEF next
  <2> DEFINE g == [i \in 0..m+1 |-> IF i = m + 1 THEN next ELSE f[i]]
  <2>4. g \in [0..m+1 -> S]
    BY <2>2, <2>3
  <2>5. g[m+1] = next /\ \A i \in 0..m : g[i] = f[i]
    BY <2>2
  <2> HIDE DEF g
  <2>6. g[0] = b
    BY <2>1, <2>2, <2>5
  <2>7. \A i \in 1..m+1 : g[i] = step[i][g[i-1]]
    <3> TAKE i \in 1..m+1
    <3>1. CASE i = m + 1
      <4>1. i - 1 = m
        BY <2>2, <3>1
      <4> QED
        BY <2>2, <2>5, <3>1, <4>1 DEF next
    <3>2. CASE i \in 1..m
      BY <2>1, <2>2, <2>5, <3>2
    <3> QED
      BY <2>2, <3>1, <3>2
  <2>8. Ok(g, m + 1)
    BY <2>6, <2>7
  <2> HIDE DEF Ok
  <2> QED
    BY <2>2, <2>4, <2>8
<1> HIDE DEF P, Ok
<1>3. n \in P
  BY <1>1, <1>2, UpTo
<1> QED
  BY <1>3 DEF P, Ok, Recurs

\* The selection, element by element.
LEMMA OnlySteps ==
    ASSUME NEW S, NEW s \in Seq(S), NEW T
    PROVE  \E only : /\ Only(s, T) = only[Len(s)]
                     /\ only[0] = <<>>
                     /\ \A i \in 1..Len(s) :
                          only[i] = IF s[i] \in T THEN Append(only[i-1], s[i]) ELSE only[i-1]
<1> DEFINE D(h, i) == IF i = 0 THEN <<>>
                      ELSE IF s[i] \in T THEN Append(h[i-1], s[i]) ELSE h[i-1]
           only == CHOOSE g : g = [i \in 0..Len(s) |-> D(g, i)]
<1>1. Only(s, T) = only[Len(s)]
  BY DEF Only
<1>2. Len(s) \in Nat
  OBVIOUS
<1>3. only = [i \in 0..Len(s) |-> D(only, i)]
  <2> DEFINE n == Len(s)
             step == [i \in 1..n |->
                        [q \in Seq(S) |-> IF s[i] \in T THEN Append(q, s[i]) ELSE q]]
  <2>1. step \in [1..n -> [Seq(S) -> Seq(S)]] /\ <<>> \in Seq(S)
    <3>1. ASSUME NEW i \in 1..n, NEW q \in Seq(S)
          PROVE  (IF s[i] \in T THEN Append(q, s[i]) ELSE q) \in Seq(S)
      <4>1. s[i] \in S
        OBVIOUS
      <4> QED
        BY <4>1
    <3> QED
      BY <3>1
  <2>2. \A q \in Seq(S), i \in 1..n :
           step[i][q] = IF s[i] \in T THEN Append(q, s[i]) ELSE q
    OBVIOUS
  <2> HIDE DEF step, n
  <2>3. n \in Nat
    BY <1>2 DEF n
  <2>4. PICK f \in [0..n -> Seq(S)] : f[0] = <<>> /\ \A i \in 1..n : f[i] = step[i][f[i-1]]
    <3> DEFINE Q == Seq(S)
    <3>1. PICK b \in Q : b = <<>>
      BY <2>1
    <3>2. step \in [1..n -> [Q -> Q]]
      BY <2>1
    <3> HIDE DEF Q
    <3>3. PICK f : Recurs(f, Q, n, b, step)
      BY <2>3, <3>1, <3>2, Recursion
    <3> QED
      BY <3>1, <3>3 DEF Q, Recurs
  <2>5. \A i \in 0..n : f[i] = D(f, i)
    <3> TAKE i \in 0..n
    <3>1. CASE i = 0
      BY <2>4, <3>1
    <3>2. CASE i # 0
      <4>1. i \in 1..n /\ i - 1 \in 0..n
        BY <2>3, <3>2
      <4>2. f[i-1] \in Seq(S) /\ f[i] = step[i][f[i-1]]
        BY <2>4, <4>1
      <4>3. f[i] = IF s[i] \in T THEN Append(f[i-1], s[i]) ELSE f[i-1]
        BY <2>2, <4>1, <4>2
      <4> QED
        BY <3>2, <4>3
    <3> QED
      BY <3>1, <3>2
  <2> HIDE DEF D
  <2>6. f = [i \in 0..n |-> D(f, i)]
    BY <2>4, <2>5
  <2>7. \E g : g = [i \in 0..Len(s) |-> D(g, i)]
    BY <2>6 DEF n
  <2> QED
    BY <2>7
<1> HIDE DEF only
<1>4. only[0] = <<>>
  BY <1>2, <1>3
<1>5. \A i \in 1..Len(s) :
         only[i] = IF s[i] \in T THEN Append(only[i-1], s[i]) ELSE only[i-1]
  <2> TAKE i \in 1..Len(s)
  <2>1. i \in 0..Len(s) /\ i # 0
    BY <1>2
  <2>2. only[i] = D(only, i)
    BY <1>3, <2>1
  <2> QED
    BY <2>1, <2>2
<1> QED
  BY <1>1, <1>4, <1>5

\* Only the elements in T are left, and all of them.
LEMMA OnlyElements ==
    ASSUME NEW S, NEW s \in Seq(S), NEW T
    PROVE  Only(s, T) \in Seq(S) /\ ToSet(Only(s, T)) = ToSet(s) \cap T
<1>2. Len(s) \in Nat /\ DOMAIN s = 1..Len(s) /\ \A i \in 1..Len(s) : s[i] \in S
  OBVIOUS
<1>1. PICK only : /\ Only(s, T) = only[Len(s)]
                  /\ only[0] = <<>>
                  /\ \A i \in 1..Len(s) :
                       only[i] = IF s[i] \in T THEN Append(only[i-1], s[i]) ELSE only[i-1]
  BY OnlySteps
<1> DEFINE P == {i \in 0..Len(s) : /\ only[i] \in Seq(S)
                                   /\ ToSet(only[i]) = {s[j] : j \in 1..i} \cap T}
<1>4. 0 \in P
  <2>1. only[0] = <<>>
    BY <1>1
  <2>2. {s[j] : j \in 1..0} \cap T = {} /\ ToSet(<<>>) = {}
    BY DEF ToSet
  <2>3. <<>> \in Seq(S) /\ 0 \in 0..Len(s)
    BY <1>2
  <2>4. only[0] \in Seq(S) /\ ToSet(only[0]) = {s[j] : j \in 1..0} \cap T
    BY <2>1, <2>2, <2>3
  <2> QED
    BY <2>3, <2>4
<1>5. ASSUME NEW i \in 0..Len(s)-1, i \in P PROVE i + 1 \in P
  <2>1. /\ i + 1 \in 1..Len(s) /\ i + 1 # 0 /\ (i + 1) - 1 = i
        /\ i + 1 \in 0..Len(s) /\ i \in 0..Len(s)
    BY <1>2
  <2>2. only[i+1] = IF s[i+1] \in T THEN Append(only[i], s[i+1]) ELSE only[i]
    BY <1>1, <2>1
  <2>3. only[i] \in Seq(S) /\ ToSet(only[i]) = {s[j] : j \in 1..i} \cap T
    BY <1>5
  <2>4. {s[j] : j \in 1..i+1} = {s[j] : j \in 1..i} \cup {s[i+1]}
    <3>1. \A j \in 1..i+1 : j \in 1..i \/ j = i + 1
      BY <1>2
    <3>2. \A j \in 1..i : j \in 1..i+1
      BY <1>2
    <3>3. i + 1 \in 1..i+1
      BY <1>2
    <3> QED
      BY <3>1, <3>2, <3>3
  <2>5. s[i+1] \in S
    BY <1>2, <2>1
  <2>6. CASE s[i+1] \in T
    <3> DEFINE q == only[i]
               r == Append(q, s[i+1])
    <3>1. q \in Seq(S) /\ Len(q) \in Nat /\ DOMAIN q = 1..Len(q)
      BY <2>3
    <3> HIDE DEF q
    <3>2. /\ r \in Seq(S) /\ DOMAIN r = 1..Len(q)+1
          /\ \A j \in 1..Len(q) : r[j] = q[j]
          /\ r[Len(q)+1] = s[i+1]
      BY <2>5, <3>1
    <3> HIDE DEF r
    <3>3. ToSet(r) = ToSet(q) \cup {s[i+1]}
      <4>1. \A j \in DOMAIN r : r[j] \in ToSet(q) \cup {s[i+1]}
        <5> TAKE j \in DOMAIN r
        <5>1. j \in 1..Len(q) \/ j = Len(q) + 1
          BY <3>1, <3>2
        <5> QED
          BY <3>1, <3>2, <5>1 DEF ToSet
      <4>2. \A j \in DOMAIN q : j \in DOMAIN r /\ r[j] = q[j]
        BY <3>1, <3>2
      <4>3. Len(q) + 1 \in DOMAIN r
        BY <3>1, <3>2
      <4> QED
        BY <3>2, <4>1, <4>2, <4>3 DEF ToSet
    <3>4. only[i+1] = r /\ ToSet(q) = {s[j] : j \in 1..i} \cap T
      BY <2>2, <2>3, <2>6 DEF q, r
    <3>5. ToSet(only[i+1]) = {s[j] : j \in 1..i+1} \cap T
      BY <2>4, <2>6, <3>3, <3>4
    <3> QED
      BY <2>1, <3>2, <3>4, <3>5
  <2>7. CASE s[i+1] \notin T
    <3>1. ToSet(only[i+1]) = {s[j] : j \in 1..i+1} \cap T
      BY <2>2, <2>3, <2>4, <2>7
    <3> QED
      BY <2>1, <2>2, <2>3, <2>7, <3>1
  <2> QED
    BY <2>6, <2>7
<1> HIDE DEF P
<1>6. Len(s) \in P
  BY <1>2, <1>4, <1>5, UpTo
<1>7. ToSet(s) = {s[j] : j \in 1..Len(s)}
  BY <1>2 DEF ToSet
<1> QED
  BY <1>1, <1>6, <1>7 DEF P

-----------------------------------------------------------------------------
(* The database.                                                             *)

Sound(d) == Tables(d) /\ ChainOK(d) /\ LogOK(d)

\* MaxBlockID is the id in info_block.
LEMMA HeightIsInfoID ==
    ASSUME NEW d, ChainOK(d)
    PROVE  Height(d) = d.info.id /\ MaxBlockID(d) = d.info.id
<1>1. DOMAIN d.chain = 1..d.info.id /\ d.info.id \in Nat \ {0}
  BY DEF ChainOK
<1>2. \A n \in 1..d.info.id : (\A j \in 1..d.info.id : j <= n) => n = d.info.id
  BY <1>1
<1>3. d.info.id \in 1..d.info.id /\ \A j \in 1..d.info.id : j <= d.info.id
  BY <1>1
<1> QED
  BY <1>1, <1>2, <1>3 DEF Height, MaxBlockID

\* The parts of ChainOK, over intervals.
LEMMA ChainParts ==
    ASSUME NEW d, Sound(d)
    PROVE  LET n == d.info.id
           IN  /\ n \in Nat /\ n >= 1
               /\ DOMAIN d.chain = 1..n
               /\ \A i \in 1..n : d.chain[i].blk.id = i /\ d.chain[i].rb # NoHash
               /\ \A i \in 2..n : SignOK(d.chain[i].blk, HeaderOf(d.chain[i-1]))
               /\ \A i, j \in 2..n : /\ d.chain[i].blk.time = d.chain[j].blk.time
                                     /\ d.chain[i].blk.pos = d.chain[j].blk.pos
                                     => i = j
<1> DEFINE n == d.info.id
<1>1. n \in Nat /\ n >= 1 /\ DOMAIN d.chain = 1..n
  BY DEF Sound, ChainOK
<1>2. \A i \in 1..n : d.chain[i].blk.id = i /\ d.chain[i].rb # NoHash
  BY <1>1 DEF Sound, ChainOK
<1>3. \A i \in 2..n : i \in DOMAIN d.chain \ {1}
  BY <1>1
<1>4. \A i \in 2..n : SignOK(d.chain[i].blk, HeaderOf(d.chain[i-1]))
  BY <1>3 DEF Sound, ChainOK
<1>5. ASSUME NEW i \in 2..n, NEW j \in 2..n,
             d.chain[i].blk.time = d.chain[j].blk.time, d.chain[i].blk.pos = d.chain[j].blk.pos
      PROVE  i = j
  BY <1>3, <1>5 DEF Sound, ChainOK
<1> QED
  BY <1>1, <1>2, <1>4, <1>5

\* The database of a new node.
LEMMA GenesisSound == Sound(GenesisDB) /\ GenesisDB.info.id = 1
<1> USE DEF GenesisDB, Genesis, HashOf, NoHash
<1>1. Tables(GenesisDB)
  BY DEF Tables
<1>2. GenesisDB.info.id = 1 /\ DOMAIN GenesisDB.chain = 1..1
  OBVIOUS
<1>3. ChainOK(GenesisDB)
  <2>1. GenesisDB.chain[1] = [blk |-> Genesis, rb |-> HashOf(<<>>)]
    OBVIOUS
  <2> QED
    BY <1>2, <2>1 DEF ChainOK, HeaderOf
<1>4. LogOK(GenesisDB)
  <2> DEFINE g == GenesisDB
  <2>1. /\ DOMAIN g.chain = {1} /\ g.chain[1].blk.txs = <<>>
        /\ \A t \in Tx : g.log[t] = 0
    OBVIOUS
  <2>2. <<>> \in Seq(Tx) /\ ToSet(<<>>) = {}
    BY DEF ToSet
  <2> HIDE DEF g
  <2>3. /\ \A i \in DOMAIN g.chain : g.chain[i].blk.txs \in Seq(Tx)
        /\ \A i \in DOMAIN g.chain : \A t \in ToSet(g.chain[i].blk.txs) :
             CheckTime(t, g.chain[i].blk.time)
    BY <2>1, <2>2
  <2>4. \A t \in Tx : \A i \in DOMAIN g.chain : t \in ToSet(g.chain[i].blk.txs) <=> g.log[t] = i
    <3>1. ASSUME NEW t \in Tx, NEW i \in DOMAIN g.chain
          PROVE  t \notin ToSet(g.chain[i].blk.txs) /\ g.log[t] # i
      BY <2>1, <2>2, <3>1
    <3> QED
      BY <3>1
  <2>5. \A t \in Tx : g.log[t] \in DOMAIN g.chain \cup {0}
    BY <2>1
  <2>6. LogOK(g)
    BY ONLY <2>3, <2>4, <2>5 DEF LogOK
  <2> QED
    BY ONLY <2>6 DEF g
<1> QED
  BY <1>1, <1>2, <1>3, <1>4 DEF Sound

\* What Check establishes of a block it accepts.
LEMMA CheckAccepts ==
    ASSUME NEW d, NEW blk, NEW prev, NEW t, Check(d, blk, prev, t) = "ok"
    PROVE  /\ SignOK(blk, prev) /\ ~ BlockForTimeExists(d, blk.time, blk.pos)
           /\ \A u \in ToSet(blk.txs) : CheckTime(u, blk.time)
BY DEF Check, ToSet

\* LogOK is about the chain and the log.
LEMMA SameLog ==
    ASSUME NEW d, Sound(d), NEW e, e.chain = d.chain, e.log = d.log
    PROVE  LogOK(e)
<1>1. LogOK(d)
  BY DEF Sound
<1> QED
  BY <1>1 DEF LogOK

\* Marking transactions bad changes no block.
LEMMA MarkTransactionsBadSound ==
    ASSUME NEW d, Sound(d), NEW bad
    PROVE  /\ Sound(MarkTransactionsBad(d, bad))
           /\ MarkTransactionsBad(d, bad).info = d.info
<1> DEFINE e == MarkTransactionsBad(d, bad)
<1>1. /\ DOMAIN e = DOMAIN d
      /\ e.chain = d.chain /\ e.info = d.info /\ e.log = d.log /\ e.status = d.status
      /\ e.pool = d.pool \ bad /\ e.verified = d.verified \ bad /\ e.queue = d.queue \ bad
  BY DEF MarkTransactionsBad, Sound, Tables
<1> HIDE DEF e
<1>2. Tables(e)
  BY <1>1 DEF Sound, Tables
<1>3. ChainOK(e)
  BY <1>1 DEF Sound, ChainOK
<1>4. LogOK(e)
  BY <1>1, SameLog
<1> QED
  BY <1>1, <1>2, <1>3, <1>4 DEF Sound, e

\* The tables after a block.
LEMMA ExtendTables ==
    ASSUME NEW d, Sound(d), NEW m, NEW blk, blk.id \in Nat,
           NEW e, e = Extend(d, m, <<blk>>)
    PROVE  /\ Tables(e)
           /\ \A t \in Tx : e.log[t] = IF t \in ToSet(blk.txs) THEN blk.id ELSE d.log[t]
           /\ e.info = HeaderOf(e.chain[blk.id])
           /\ DOMAIN e.chain = DOMAIN d.chain \cup {blk.id}
           /\ e.chain[blk.id].blk = blk /\ e.chain[blk.id].rb # NoHash
           /\ \A n \in DOMAIN d.chain \ {blk.id} : e.chain[n] = d.chain[n]
<1> DEFINE one == <<blk>>
           a == AfterPlayTxs(d, m, one)
           u == UpdBlockInfo(a, one)
           f == InsertIntoBlockchain(u, one)
           rb == RollbacksHash(a.undo, blk.id)
<1>1. one[1] = blk /\ DOMAIN one = {1} /\ Len(one) = 1
  OBVIOUS
<1>2. {one[i].id : i \in DOMAIN one} = {blk.id}
  BY <1>1
<1> HIDE DEF one
<1>3. /\ DOMAIN a = DOMAIN d
      /\ a.chain = d.chain
      /\ a.pool = d.pool \ TxsOf(one) /\ a.verified = d.verified \ TxsOf(one)
      /\ a.queue = d.queue
  BY DEF AfterPlayTxs, Sound, Tables
<1>0. TxsOf(one) = ToSet(blk.txs)
  BY <1>1 DEF TxsOf
<1>4. /\ a.log \in [Tx -> Nat]
      /\ a.log = [t \in Tx |-> IF t \in ToSet(blk.txs) THEN blk.id ELSE d.log[t]]
  <2> DEFINE blockOf(t) == CHOOSE n \in {one[i].id : i \in DOMAIN one} :
                             \E i \in DOMAIN one : one[i].id = n /\ t \in ToSet(one[i].txs)
  <2>1. a.log = [t \in Tx |-> IF t \in TxsOf(one) THEN blockOf(t) ELSE d.log[t]]
    BY DEF AfterPlayTxs, Sound, Tables
  <2>2. \A t \in TxsOf(one) : blockOf(t) = blk.id
    BY <1>1, <1>2 DEF TxsOf
  <2> HIDE DEF blockOf
  <2>3. a.log = [t \in Tx |-> IF t \in ToSet(blk.txs) THEN blk.id ELSE d.log[t]]
    BY <1>0, <2>1, <2>2
  <2> QED
    BY <2>3 DEF Sound, Tables
<1>5. a.status \in [Tx -> Nat]
  <2> DEFINE blockOf(t) == CHOOSE n \in {one[i].id : i \in DOMAIN one} :
                             \E i \in DOMAIN one : one[i].id = n /\ t \in ToSet(one[i].txs)
  <2>1. a.status = [t \in Tx |-> IF t \in TxsOf(one) THEN blockOf(t)
                                 ELSE IF t \in m THEN one[1].id ELSE d.status[t]]
    BY DEF AfterPlayTxs, Sound, Tables
  <2>2. \A t \in TxsOf(one) : blockOf(t) = blk.id
    BY <1>1, <1>2 DEF TxsOf
  <2> HIDE DEF blockOf
  <2> QED
    BY <1>1, <2>1, <2>2 DEF Sound, Tables
<1> HIDE DEF a
<1>6. /\ DOMAIN u = DOMAIN a
      /\ u.chain = a.chain /\ u.undo = a.undo /\ u.log = a.log /\ u.status = a.status
      /\ u.pool = a.pool /\ u.verified = a.verified /\ u.queue = a.queue
      /\ u.info = [id |-> blk.id, hash |-> HashOf(blk), rb |-> rb]
  BY <1>1, <1>3 DEF UpdBlockInfo, Sound, Tables
<1> HIDE DEF u
<1>7. /\ DOMAIN f = DOMAIN u
      /\ f.undo = u.undo /\ f.log = u.log /\ f.status = u.status /\ f.info = u.info
      /\ f.pool = u.pool /\ f.verified = u.verified /\ f.queue = u.queue
  BY <1>3, <1>6 DEF InsertIntoBlockchain, Sound, Tables
<1>8. f.chain = [n \in DOMAIN d.chain \cup {blk.id} |->
                   IF n = blk.id THEN [blk |-> blk, rb |-> rb] ELSE d.chain[n]]
  <2> DEFINE block(n) == one[CHOOSE i \in DOMAIN one : one[i].id = n]
  <2>1. f.chain = [n \in DOMAIN u.chain \cup {one[i].id : i \in DOMAIN one} |->
                     IF n \in {one[i].id : i \in DOMAIN one}
                     THEN [blk |-> block(n), rb |-> RollbacksHash(u.undo, n)]
                     ELSE u.chain[n]]
    BY <1>3, <1>6 DEF InsertIntoBlockchain, Sound, Tables
  <2>2. block(blk.id) = blk
    BY <1>1
  <2> HIDE DEF block
  <2> QED
    BY ZenonT(30), <1>2, <1>3, <1>6, <2>1, <2>2
<1> HIDE DEF f
<1>9. Tables(f)
  BY <1>3, <1>4, <1>5, <1>6, <1>7 DEF Sound, Tables
<1>10. f = Extend(d, m, <<blk>>)
  BY DEF f, u, a, one, Extend
<1>11. /\ \A t \in Tx : f.log[t] = IF t \in ToSet(blk.txs) THEN blk.id ELSE d.log[t]
       /\ f.info = [id |-> blk.id, hash |-> HashOf(blk), rb |-> rb]
       /\ DOMAIN f.chain = DOMAIN d.chain \cup {blk.id}
       /\ f.chain[blk.id] = [blk |-> blk, rb |-> rb]
       /\ \A n \in DOMAIN d.chain \ {blk.id} : f.chain[n] = d.chain[n]
  BY <1>4, <1>6, <1>7, <1>8
<1> HIDE DEF rb
<1>12. /\ f.info = HeaderOf(f.chain[blk.id])
       /\ f.chain[blk.id].blk = blk /\ f.chain[blk.id].rb = rb
  BY <1>11 DEF HeaderOf
<1>13. rb # NoHash
  BY DEF rb, RollbacksHash, HashOf, NoHash
<1> QED
  BY <1>9, <1>10, <1>11, <1>12, <1>13

\* A block that fits the last one, the slots and the log extends the chain.
LEMMA ExtendSound ==
    ASSUME NEW d, Sound(d), NEW m, NEW blk,
           blk.id = d.info.id + 1, SignOK(blk, HeaderOf(d.chain[d.info.id])),
           ~ BlockForTimeExists(d, blk.time, blk.pos),
           blk.txs \in Seq(Tx), \A t \in ToSet(blk.txs) : CheckTime(t, blk.time) /\ d.log[t] = 0
    PROVE  Sound(Extend(d, m, <<blk>>)) /\ Extend(d, m, <<blk>>).info.id = d.info.id + 1
<1> DEFINE n == d.info.id
<1>13. PICK e : e = Extend(d, m, <<blk>>)
  OBVIOUS
<1>1. /\ n \in Nat /\ n >= 1
      /\ DOMAIN d.chain = 1..n
      /\ \A i \in 1..n : d.chain[i].blk.id = i /\ d.chain[i].rb # NoHash
      /\ \A i \in 2..n : SignOK(d.chain[i].blk, HeaderOf(d.chain[i-1]))
  BY ChainParts
<1>0. \A i, j \in 2..n : /\ d.chain[i].blk.time = d.chain[j].blk.time
                          /\ d.chain[i].blk.pos = d.chain[j].blk.pos
                          => i = j
  BY ChainParts
<1>2. blk.id = n + 1 /\ blk.id \in Nat /\ d.info.id = n
  BY <1>1
<1>3. /\ Tables(e)
      /\ \A t \in Tx : e.log[t] = IF t \in ToSet(blk.txs) THEN blk.id ELSE d.log[t]
      /\ e.info = HeaderOf(e.chain[blk.id])
      /\ DOMAIN e.chain = DOMAIN d.chain \cup {blk.id}
      /\ e.chain[blk.id].blk = blk /\ e.chain[blk.id].rb # NoHash
      /\ \A k \in DOMAIN d.chain \ {blk.id} : e.chain[k] = d.chain[k]
  BY <1>2, <1>13, ExtendTables
<1> HIDE DEF n
<1>5. DOMAIN e.chain = 1..n+1
  BY <1>1, <1>2, <1>3
<1>6. /\ e.chain[n+1].blk = blk /\ e.chain[n+1].rb # NoHash
      /\ \A k \in 1..n : e.chain[k] = d.chain[k]
  BY <1>1, <1>2, <1>3
<1>7. e.info = HeaderOf(e.chain[n+1]) /\ e.info.id = n + 1
  <2>1. HeaderOf(e.chain[n+1]).id = blk.id
    BY <1>6 DEF HeaderOf
  <2> QED
    BY <1>2, <1>3, <2>1
<1>8. \A i \in 1..n+1 : e.chain[i].blk.id = i /\ e.chain[i].rb # NoHash
  <2> TAKE i \in 1..n+1
  <2>1. CASE i = n + 1
    BY <1>2, <1>6, <2>1
  <2>2. CASE i \in 1..n
    BY <1>1, <1>6, <2>2
  <2> QED
    BY <1>1, <2>1, <2>2
<1>9. \A i \in 2..n+1 : SignOK(e.chain[i].blk, HeaderOf(e.chain[i-1]))
  <2> TAKE i \in 2..n+1
  <2>1. CASE i = n + 1
    <3>1. i - 1 = n /\ n \in 1..n
      BY <1>1, <2>1
    <3>2. e.chain[i-1] = d.chain[n] /\ e.chain[i].blk = blk
      BY <1>6, <2>1, <3>1
    <3> QED
      BY <1>2, <3>2
  <2>2. CASE i \in 2..n
    <3>1. e.chain[i-1] = d.chain[i-1] /\ e.chain[i] = d.chain[i]
      BY <1>1, <1>6, <2>2
    <3> QED
      BY <1>1, <2>2, <3>1
  <2> QED
    BY <1>1, <2>1, <2>2
<1>10. \A i, j \in 2..n+1 : /\ e.chain[i].blk.time = e.chain[j].blk.time
                            /\ e.chain[i].blk.pos = e.chain[j].blk.pos
                            => i = j
  <2> SUFFICES ASSUME NEW i \in 2..n+1, NEW j \in 2..n+1, i # j
               PROVE  ~ (/\ e.chain[i].blk.time = e.chain[j].blk.time
                         /\ e.chain[i].blk.pos = e.chain[j].blk.pos)
    OBVIOUS
  <2>1. \A k \in 2..n : /\ ~ (d.chain[k].blk.pos = blk.pos /\ d.chain[k].blk.time = blk.time)
                        /\ e.chain[k].blk = d.chain[k].blk
    <3>1. \A k \in 2..n : k \in DOMAIN d.chain /\ k > 1 /\ k \in 1..n
      BY <1>1
    <3> QED
      BY <1>6, <3>1 DEF BlockForTimeExists
  <2>2. e.chain[n+1].blk = blk
    BY <1>6
  <2>3. CASE i = n + 1
    <3>1. j \in 2..n
      BY <1>1, <2>3
    <3> QED
      BY <2>1, <2>2, <2>3, <3>1
  <2>4. CASE j = n + 1
    <3>1. i \in 2..n
      BY <1>1, <2>4
    <3> QED
      BY <2>1, <2>2, <2>4, <3>1
  <2>5. CASE i \in 2..n /\ j \in 2..n
    BY <1>0, <2>1, <2>5
  <2>6. i = n + 1 \/ j = n + 1 \/ (i \in 2..n /\ j \in 2..n)
    BY <1>1
  <2> QED
    BY <2>3, <2>4, <2>5, <2>6
<1>11. \A i \in DOMAIN e.chain \ {1} : i \in 2..n+1
  BY <1>1, <1>5
<1>12. ChainOK(e)
  <2>1. e.info.id \in Nat \ {0} /\ DOMAIN e.chain = 1..e.info.id
    BY <1>1, <1>5, <1>7
  <2> QED
    BY <1>5, <1>7, <1>8, <1>9, <1>10, <1>11, <2>1 DEF ChainOK
<1>14. LogOK(e)
  <2>1. \A k \in 1..n+1 : k = n + 1 \/ (k \in 1..n /\ k # n + 1)
    BY <1>1
  <2>2. \A t \in ToSet(blk.txs) : t \in Tx
    BY DEF ToSet
  <2>3. \A k \in 1..n+1 : /\ e.chain[k].blk.txs \in Seq(Tx)
                           /\ \A t \in ToSet(e.chain[k].blk.txs) : CheckTime(t, e.chain[k].blk.time)
    <3> TAKE k \in 1..n+1
    <3>1. CASE k = n + 1
      <4>1. e.chain[k].blk = blk
        BY <1>6, <3>1
      <4> QED
        BY <4>1
    <3>2. CASE k \in 1..n
      <4>1. e.chain[k] = d.chain[k] /\ k \in DOMAIN d.chain
        BY <1>1, <1>6, <3>2
      <4> QED
        BY <4>1 DEF Sound, LogOK
    <3> QED
      BY <2>1, <3>1, <3>2
  <2>4. ASSUME NEW t \in Tx
        PROVE  /\ \A k \in 1..n+1 : t \in ToSet(e.chain[k].blk.txs) <=> e.log[t] = k
               /\ e.log[t] \in (1..n+1) \cup {0}
    <3>1. \A k \in 1..n : t \in ToSet(d.chain[k].blk.txs) <=> d.log[t] = k
      BY <1>1 DEF Sound, LogOK
    <3>2. d.log[t] \in (1..n) \cup {0} /\ d.log[t] # n + 1
      <4>1. d.log[t] \in (1..n) \cup {0}
        BY <1>1 DEF Sound, LogOK
      <4> QED
        BY <1>1, <4>1
    <3>3. CASE t \in ToSet(blk.txs)
      <4>1. e.log[t] = n + 1 /\ d.log[t] = 0
        BY <1>2, <1>3, <3>3
      <4>2. \A k \in 1..n : t \notin ToSet(e.chain[k].blk.txs)
        BY <1>1, <1>6, <3>1, <4>1
      <4>3. n + 1 \in 1..n+1
        BY <1>1
      <4> QED
        BY <1>6, <2>1, <3>3, <4>1, <4>2, <4>3
    <3>4. CASE t \notin ToSet(blk.txs)
      <4>1. e.log[t] = d.log[t]
        BY <1>3, <3>4
      <4>2. \A k \in 1..n : t \in ToSet(e.chain[k].blk.txs) <=> e.log[t] = k
        BY <1>6, <3>1, <4>1
      <4>3. e.log[t] \in (1..n+1) \cup {0}
        BY <1>1, <3>2, <4>1
      <4> QED
        BY <1>6, <2>1, <3>2, <3>4, <4>1, <4>2, <4>3
    <3> QED
      BY <3>3, <3>4
  <2> QED
    BY <1>5, <2>3, <2>4 DEF LogOK
<1> QED
  BY <1>3, <1>7, <1>12, <1>13, <1>14, <1>2 DEF Sound

\* Rolling the last block back, but not the first, leaves the chain before it.
LEMMA RollbackBlockSound ==
    ASSUME NEW d, Sound(d), d.info.id > 1
    PROVE  Sound(RollbackBlock(d)) /\ RollbackBlock(d).info.id = d.info.id - 1
<1> DEFINE e == RollbackBlock(d)
           n == d.info.id
           gone == ToSet(d.chain[n].blk.txs)
<1>1. /\ n \in Nat /\ n >= 2
      /\ DOMAIN d.chain = 1..n
      /\ \A i \in 1..n : d.chain[i].blk.id = i /\ d.chain[i].rb # NoHash
      /\ \A i \in 2..n : SignOK(d.chain[i].blk, HeaderOf(d.chain[i-1]))
  BY ChainParts
<1>0. \A i, j \in 2..n : /\ d.chain[i].blk.time = d.chain[j].blk.time
                          /\ d.chain[i].blk.pos = d.chain[j].blk.pos
                          => i = j
  BY ChainParts
<1>2. MaxBlockID(d) = n /\ d.info.id = n
  BY HeightIsInfoID DEF Sound
<1>3. /\ DOMAIN e = DOMAIN d
      /\ e.pool = d.pool /\ e.verified = d.verified \ gone /\ e.queue = d.queue \ gone
      /\ e.log = [t \in Tx |-> IF t \in gone THEN 0 ELSE d.log[t]]
      /\ e.status = [t \in Tx |-> IF t \in gone THEN 0 ELSE d.status[t]]
      /\ e.chain = [i \in DOMAIN d.chain \ {n} |-> d.chain[i]]
      /\ e.info = HeaderOf(d.chain[n - 1])
  BY <1>2 DEF RollbackBlock, Sound, Tables
<1> HIDE DEF e, n
<1>4. Tables(e)
  BY <1>3 DEF Sound, Tables
<1>5. DOMAIN e.chain = 1..n-1 /\ \A i \in 1..n-1 : e.chain[i] = d.chain[i]
  BY <1>1, <1>3
<1>6. e.info = HeaderOf(e.chain[n-1]) /\ e.info.id = n - 1
  <2>1. n - 1 \in 1..n-1 /\ n - 1 \in 1..n
    BY <1>1
  <2>2. d.chain[n-1].blk.id = n - 1 /\ e.chain[n-1] = d.chain[n-1]
    BY <1>1, <1>5, <2>1
  <2>3. e.info = HeaderOf(e.chain[n-1])
    BY <1>3, <2>2
  <2> QED
    BY <2>2, <2>3 DEF HeaderOf
<1>7. ChainOK(e)
  <2>1. \A i \in DOMAIN e.chain : e.chain[i].blk.id = i /\ e.chain[i].rb # NoHash
    <3>1. \A i \in 1..n-1 : i \in 1..n
      BY <1>1
    <3> QED
      BY <1>1, <1>5, <3>1
  <2>2. \A i \in DOMAIN e.chain \ {1} : SignOK(e.chain[i].blk, HeaderOf(e.chain[i-1]))
    <3> TAKE i \in DOMAIN e.chain \ {1}
    <3>1. i \in 2..n /\ i \in 1..n-1 /\ i - 1 \in 1..n-1
      BY <1>1, <1>5
    <3> QED
      BY <1>1, <1>5, <3>1
  <2>3. \A i, j \in DOMAIN e.chain \ {1} :
          /\ e.chain[i].blk.time = e.chain[j].blk.time
          /\ e.chain[i].blk.pos = e.chain[j].blk.pos
          => i = j
    <3>1. \A i \in DOMAIN e.chain \ {1} : i \in 2..n /\ e.chain[i] = d.chain[i]
      BY <1>1, <1>5
    <3> QED
      BY <1>0, <3>1
  <2>4. e.info.id \in Nat \ {0}
    BY <1>1, <1>6
  <2> QED
    BY <1>1, <1>5, <1>6, <2>1, <2>2, <2>3, <2>4 DEF ChainOK
<1>8. LogOK(e)
  <2>1. \A k \in 1..n-1 : k \in 1..n /\ k # n
    BY <1>1
  <2>2. n \in 1..n /\ \A k \in 1..n : k = n \/ k \in 1..n-1
    BY <1>1
  <2>3. \A k \in 1..n-1 : /\ e.chain[k].blk.txs \in Seq(Tx)
                           /\ \A t \in ToSet(e.chain[k].blk.txs) : CheckTime(t, e.chain[k].blk.time)
    BY <1>1, <1>5, <2>1 DEF Sound, LogOK
  <2>4. ASSUME NEW t \in Tx
        PROVE  /\ \A k \in 1..n-1 : t \in ToSet(e.chain[k].blk.txs) <=> e.log[t] = k
               /\ e.log[t] \in (1..n-1) \cup {0}
    <3>1. \A k \in 1..n : t \in ToSet(d.chain[k].blk.txs) <=> d.log[t] = k
      BY <1>1 DEF Sound, LogOK
    <3>2. d.log[t] \in (1..n) \cup {0}
      BY <1>1 DEF Sound, LogOK
    <3>3. t \in gone <=> d.log[t] = n
      BY <1>2, <2>2, <3>1 DEF n
    <3>4. e.log[t] = IF t \in gone THEN 0 ELSE d.log[t]
      BY <1>3
    <3> HIDE DEF gone
    <3>5. \A k \in 1..n-1 : t \in ToSet(e.chain[k].blk.txs) <=> d.log[t] = k
      BY <1>5, <2>1, <3>1
    <3>6. \A k \in 1..n-1 : d.log[t] = k <=> e.log[t] = k
      BY <1>1, <2>1, <3>3, <3>4
    <3>7. e.log[t] \in (1..n-1) \cup {0}
      BY <2>2, <3>2, <3>3, <3>4
    <3> QED
      BY <3>5, <3>6, <3>7
  <2> QED
    BY <1>5, <2>3, <2>4 DEF LogOK
<1> QED
  BY <1>2, <1>4, <1>6, <1>7, <1>8 DEF Sound, e

\* The first number of a set up to a bound, or the bound.
LEMMA FirstUpTo ==
    ASSUME NEW most \in Nat, NEW F
    PROVE  \E i \in 0..most : /\ i < most => i > 0 /\ i \in F
                              /\ \A j \in 1..i-1 : j \notin F
<1>1. CASE most = 0
  BY <1>1
<1>2. CASE most # 0
  <2> DEFINE T == {i \in 1..most : i \in F \/ i = most}
  <2>1. T \subseteq Nat /\ T # {}
    BY <1>2
  <2> DEFINE R == OpToRel(<, Nat)
  <2>a. IsWellFoundedOn(R, Nat)
    BY NatLessThanWellFounded
  <2>b. \A x, y \in Nat : y < x => <<y, x>> \in R
    BY DEF OpToRel
  <2> HIDE DEF R, T
  <2>2. PICK i \in T : \A y \in T : ~ (<<y, i>> \in R)
    BY <2>1, <2>a, WFMin
  <2>3. \A y \in T : ~ (y < i)
    BY <2>1, <2>2, <2>b
  <2> USE DEF T
  <2>c. i \in 1..most /\ (i \in F \/ i = most)
    BY <2>2
  <2>4. i \in 0..most /\ (i < most => i > 0 /\ i \in F)
    BY <2>c
  <2>5. \A j \in 1..i-1 : j \notin F
    BY <2>3, <2>4
  <2> QED
    BY <2>4, <2>5
<1> QED
  BY <1>1, <1>2

\* What is played is in no other block: a block that fails on nothing has no transaction
\* of the log, and a generated one keeps only transactions of the list it was made from.
LEMMA PlayedAreNew ==
    ASSUME NEW logged, NEW blk, blk.txs \in Seq(Tx), NEW gen \in BOOLEAN,
           NEW cut \in 0..Len(blk.txs), ~ gen => cut = Len(blk.txs),
           ~ Play(logged, blk, gen, cut).fails
    PROVE  LET done == Play(logged, blk, gen, cut).done
           IN  /\ gen => /\ done \in Seq(Tx)
                         /\ \A t \in ToSet(done) : t \in ToSet(blk.txs) /\ t \notin logged
               /\ ~ gen => \A t \in ToSet(blk.txs) : t \notin logged
<1> DEFINE n == Len(blk.txs)
           B == {i \in Nat : blk.txs[i] \in Rejected}
           isFirst(i) == /\ i <= Len(blk.txs) => blk.txs[i] \in Rejected
                         /\ \A j \in 1..i-1 : blk.txs[j] \notin Rejected
           firstBad == CHOOSE i \in 1..n + 1 : isFirst(i)
           seen == SubSeq(blk.txs, 1, IF gen \/ firstBad > n THEN cut ELSE firstBad)
           played == {t \in Tx \ Rejected : t \in ToSet(seen)}
           p == Play(logged, blk, gen, cut)
<1>1. /\ p.done = Only(seen, Tx \ Rejected)
      /\ p.fails <=> \/ played \cap logged # {}
                     \/ gen /\ cut = 0
                     \/ ~ gen /\ firstBad <= n
  BY DEF Play
<1>2. played \cap logged = {} /\ (~ gen => ~ (firstBad <= n))
  BY <1>1
<1>3. n \in Nat /\ DOMAIN blk.txs = 1..n /\ \A i \in 1..n : blk.txs[i] \in Tx
  OBVIOUS
<1> DEFINE s == SubSeq(blk.txs, 1, cut)
<1>4. /\ s \in Seq(Tx) /\ DOMAIN s = 1..cut
      /\ \A i \in 1..cut : i \in 1..n /\ s[i] = blk.txs[i]
  <2>1. cut \in Nat /\ \A i \in 1..cut : i \in 1..n
    BY <1>3
  <2>2. /\ s \in Seq(Tx)
        /\ Len(s) = IF 1 <= cut THEN cut - 1 + 1 ELSE 0
        /\ \A i \in 1..cut - 1 + 1 : s[i] = blk.txs[1 + i - 1]
    BY <1>3, <2>1, SubSeqProperties
  <2> HIDE DEF s
  <2>3. Len(s) = cut /\ \A i \in 1..cut : s[i] = blk.txs[i]
    BY <2>1, <2>2
  <2> QED
    BY <2>1, <2>2, <2>3, LenProperties
<1>5. ToSet(s) \subseteq ToSet(blk.txs)
  BY <1>3, <1>4 DEF ToSet
<1>6. CASE gen
  <2>1. seen = s
    BY <1>6
  <2> HIDE DEF seen, s
  <2>2. p.done \in Seq(Tx) /\ ToSet(p.done) = ToSet(s) \cap (Tx \ Rejected)
    BY <1>1, <1>4, <2>1, OnlyElements
  <2> HIDE DEF p
  <2>3. \A t \in ToSet(p.done) : t \in played
    BY <2>1, <2>2
  <2> QED
    BY <1>2, <1>5, <1>6, <2>2, <2>3 DEF p
<1>7. CASE ~ gen
  <2>1. firstBad \in 1..n+1 /\ isFirst(firstBad)
    <3>1. n + 1 \in Nat
      BY <1>3
    <3>2. PICK i \in 0..n+1 : /\ i < n + 1 => i > 0 /\ i \in B
                              /\ \A j \in 1..i-1 : j \notin B
      BY <3>1, FirstUpTo
    <3>3. i \in 1..n+1
      BY <1>3, <3>2
    <3>4. i <= n => i \in B
      BY <1>3, <3>2, <3>3
    <3>5. \A j \in 1..i-1 : blk.txs[j] \notin Rejected
      BY <3>2, <3>3
    <3>6. isFirst(i)
      BY <3>4, <3>5
    <3> HIDE DEF isFirst
    <3> QED
      BY <3>3, <3>6
  <2> HIDE DEF firstBad
  <2>2. firstBad = n + 1 /\ firstBad > n
    BY <1>2, <1>3, <1>7, <2>1
  <2>3. \A i \in 1..n : blk.txs[i] \notin Rejected
    BY <1>3, <2>1, <2>2
  <2>4. seen = s /\ cut = n
    BY <1>7, <2>2
  <2> HIDE DEF seen, s
  <2>5. \A t \in ToSet(blk.txs) : t \in played
    <3> TAKE t \in ToSet(blk.txs)
    <3>1. PICK i \in 1..n : t = blk.txs[i]
      BY <1>3 DEF ToSet
    <3>2. t \in Tx \ Rejected
      BY <1>3, <2>3, <3>1
    <3>3. t \in ToSet(s)
      BY <1>4, <2>4, <3>1 DEF ToSet
    <3> QED
      BY <2>4, <3>2, <3>3
  <2> QED
    BY <1>2, <1>7, <2>5
<1> QED
  BY <1>6, <1>7

\* PlaySafe of a block that fits the last one: it joins the chain or the chain stays.
LEMMA PlaySafeSound ==
    ASSUME NEW d, Sound(d), NEW m \in SUBSET Tx, NEW blk, NEW gen \in BOOLEAN,
           blk.id = d.info.id + 1, SignOK(blk, HeaderOf(d.chain[d.info.id])),
           blk.txs \in Seq(Tx), \A t \in ToSet(blk.txs) : CheckTime(t, blk.time),
           NEW cut \in 0..Len(blk.txs), ~ gen => cut = Len(blk.txs),
           gen => DOMAIN blk = {"id", "time", "pos", "txs", "prev", "prevRb"}
    PROVE  LET r == PlaySafe(d, m, blk, gen, cut)
           IN  /\ Sound(r.db)
               /\ r.db.info.id = d.info.id + (IF r.ok THEN 1 ELSE 0)
               /\ r.msgs \in SUBSET Tx
<1> DEFINE p == Play(LoggedIn(d), blk, gen, cut)
           new == IF gen THEN [blk EXCEPT !.txs = p.done] ELSE blk
           ok == /\ ~ p.fails
                 /\ gen => p.done # <<>>
                 /\ ~ BlockForTimeExists(d, blk.time, blk.pos)
           bad == p.bad \cup {t \in ToSet(blk.txs) :
                                gen /\ p.fails /\ p.done = <<>> /\ t = blk.txs[1]}
           after == IF ok THEN Extend(d, m, <<new>>) ELSE d
           r == PlaySafe(d, m, blk, gen, cut)
<1>1. p.played \in SUBSET Tx
  BY DEF Play
<1>2. r = [ok |-> ok, db |-> MarkTransactionsBad(after, bad),
           msgs |-> IF p.dup THEN m \cup p.played ELSE {}]
  BY DEF PlaySafe
<1>0. ASSUME ~ p.fails
      PROVE  /\ gen => /\ p.done \in Seq(Tx)
                       /\ \A t \in ToSet(p.done) : t \in ToSet(blk.txs) /\ t \notin LoggedIn(d)
             /\ ~ gen => \A t \in ToSet(blk.txs) : t \notin LoggedIn(d)
  BY <1>0, PlayedAreNew
<1> HIDE DEF p
<1>3. /\ new.id = blk.id /\ new.time = blk.time /\ new.pos = blk.pos
      /\ new.prev = blk.prev /\ new.prevRb = blk.prevRb
      /\ new.txs = IF gen THEN p.done ELSE blk.txs
  <2>1. CASE gen
    BY <2>1
  <2>2. CASE ~ gen
    BY <2>2
  <2> QED
    BY <2>1, <2>2
<1> HIDE DEF new, bad
<1>4. Sound(after) /\ after.info.id = d.info.id + (IF ok THEN 1 ELSE 0)
  <2>1. CASE ok
    <3>1. SignOK(new, HeaderOf(d.chain[d.info.id]))
      BY <1>3 DEF SignOK
    <3>2. ~ BlockForTimeExists(d, new.time, new.pos)
      BY <1>3, <2>1
    <3>4. /\ new.txs \in Seq(Tx)
          /\ \A t \in ToSet(new.txs) : t \in ToSet(blk.txs) /\ t \notin LoggedIn(d)
      BY <1>0, <1>3, <2>1
    <3>5. \A t \in ToSet(new.txs) : CheckTime(t, new.time) /\ d.log[t] = 0
      <4>1. \A t \in ToSet(new.txs) : t \in Tx
        BY <3>4 DEF ToSet
      <4> QED
        BY <1>3, <3>4, <4>1 DEF LoggedIn
    <3>3. Sound(Extend(d, m, <<new>>)) /\ Extend(d, m, <<new>>).info.id = d.info.id + 1
      BY <1>3, <3>1, <3>2, <3>4, <3>5, ExtendSound
    <3> QED
      BY <2>1, <3>3
  <2>2. CASE ~ ok
    <3>1. d.info.id \in Nat
      BY ChainParts
    <3> QED
      BY <2>2, <3>1
  <2> QED
    BY <2>1, <2>2
<1> HIDE DEF ok, after
<1>5. /\ Sound(MarkTransactionsBad(after, bad))
      /\ MarkTransactionsBad(after, bad).info = after.info
  BY <1>4, MarkTransactionsBadSound
<1>6. r.ok = ok /\ r.db = MarkTransactionsBad(after, bad) /\ r.msgs \in SUBSET Tx
  BY <1>1, <1>2
<1> QED
  BY <1>4, <1>5, <1>6

\* Received blocks after the first never fit their copied header, for nothing has set the
\* rollbacks hash in it: a list of blocks that processBlocks plays has at most one.
LEMMA ProcessBlocksSound ==
    ASSUME NEW d, Sound(d), NEW m \in SUBSET Tx, NEW blocks, NEW t,
           Received(blocks),
           \A i \in DOMAIN blocks : blocks[i].id = d.info.id + i
    PROVE  LET r == ProcessBlocks(d, m, blocks, t)
           IN  /\ Sound(r.db)
               /\ r.db.info.id \in {d.info.id, d.info.id + 1}
               /\ r.msgs \in SUBSET Tx
<1> DEFINE n == d.info.id
           prev(i) == IF i = 1 THEN HeaderOf(d.chain[blocks[1].id - 1])
                      ELSE [id |-> blocks[i-1].id, hash |-> HashOf(blocks[i-1]), rb |-> NoHash]
           checked(i) == Check(d, blocks[i], prev(i), t) = "ok"
           play(i) == Play(LoggedIn(d) \cup TxsOf(SubSeq(blocks, 1, i-1)), blocks[i], FALSE,
                           Len(blocks[i].txs))
           passes(i) == checked(i) /\ ~ play(i).fails
           stop == CHOOSE i \in 1..Len(blocks) + 1 :
                     /\ i <= Len(blocks) => ~ passes(i)
                     /\ \A j \in 1..i-1 : passes(j)
           left == IF stop = 1 THEN m ELSE {}
           r == ProcessBlocks(d, m, blocks, t)
<1> SUFFICES /\ Sound(r.db)
             /\ r.db.info.id \in {n, n + 1}
             /\ r.msgs \in SUBSET Tx
  OBVIOUS
<1>1. n \in Nat /\ n >= 1
  BY ChainParts
<1>2. Len(blocks) \in Nat /\ DOMAIN blocks = 1..Len(blocks)
  BY LenProperties DEF Received
<1>3. play(stop).played \in SUBSET Tx /\ left \in SUBSET Tx
  BY DEF Play
<1>4. r = IF blocks = <<>> THEN [ok |-> TRUE, db |-> d, msgs |-> m]
          ELSE IF \A i \in DOMAIN blocks : passes(i)
               THEN [ok |-> TRUE, db |-> Extend(d, m, blocks), msgs |-> {}]
          ELSE IF ~ checked(stop) THEN [ok |-> FALSE, db |-> d, msgs |-> left]
          ELSE [ok |-> FALSE, db |-> MarkTransactionsBad(d, play(stop).bad),
                msgs |-> IF play(stop).dup THEN left \cup play(stop).played ELSE {}]
  BY DEF ProcessBlocks
<1> HIDE DEF play, stop, left, r
<1>5. CASE blocks = <<>>
  BY <1>1, <1>4, <1>5
<1>6. CASE blocks # <<>> /\ \A i \in DOMAIN blocks : passes(i)
  <2>1. Len(blocks) >= 1
    BY <1>2, <1>6, EmptySeq DEF Received
  <2>2. ASSUME Len(blocks) > 1 PROVE FALSE
    <3>1. 2 \in DOMAIN blocks
      BY <1>2, <2>2
    <3>2. SignOK(blocks[2], prev(2))
      BY <1>6, <3>1, CheckAccepts
    <3>3. blocks[2].prevRb = NoHash
      BY <3>2 DEF SignOK
    <3>4. blocks[2].id > 1
      BY <1>1, <3>1
    <3> QED
      BY <3>1, <3>3, <3>4 DEF Received
  <2>3. Len(blocks) = 1
    BY <1>2, <2>1, <2>2
  <2>4. blocks = <<blocks[1]>>
    BY <1>2, <2>3 DEF Received
  <2>5. /\ SignOK(blocks[1], HeaderOf(d.chain[n]))
        /\ ~ BlockForTimeExists(d, blocks[1].time, blocks[1].pos)
        /\ \A u \in ToSet(blocks[1].txs) : CheckTime(u, blocks[1].time)
    <3>1. 1 \in DOMAIN blocks
      BY <1>2, <2>3
    <3>2. blocks[1].id - 1 = n
      BY <1>1, <3>1
    <3>3. Check(d, blocks[1], HeaderOf(d.chain[n]), t) = "ok"
      BY <1>6, <3>1, <3>2
    <3> QED
      BY <3>3, CheckAccepts
  <2>6. blocks[1].id = d.info.id + 1
    BY <1>2, <2>3
  <2>9. /\ blocks[1].txs \in Seq(Tx)
        /\ \A u \in ToSet(blocks[1].txs) : d.log[u] = 0
    <3>1. 1 \in DOMAIN blocks
      BY <1>2, <2>3
    <3>2. blocks[1].txs \in Seq(Tx) /\ ~ play(1).fails
      BY <1>6, <3>1 DEF Received
    <3> DEFINE logged == LoggedIn(d) \cup TxsOf(SubSeq(blocks, 1, 1-1))
    <3>3. play(1) = Play(logged, blocks[1], FALSE, Len(blocks[1].txs))
      BY DEF play
    <3> HIDE DEF logged
    <3>4. PICK blk : blk = blocks[1]
      OBVIOUS
    <3>5. blk.txs \in Seq(Tx) /\ ~ Play(logged, blk, FALSE, Len(blk.txs)).fails
      BY <3>2, <3>3, <3>4
    <3>7. PICK cut \in 0..Len(blk.txs) : cut = Len(blk.txs)
      <4>1. Len(blk.txs) \in Nat
        BY <3>5, LenProperties
      <4> QED
        BY <4>1
    <3>8. \A u \in ToSet(blk.txs) : u \notin logged
      <4>1. FALSE \in BOOLEAN
        OBVIOUS
      <4>2. ~ Play(logged, blk, FALSE, cut).fails
        BY <3>5, <3>7
      <4>3. ~ FALSE => \A u \in ToSet(blk.txs) : u \notin logged
        BY <3>5, <3>7, <4>1, <4>2, PlayedAreNew
      <4> QED
        BY <4>3
    <3>9. \A u \in ToSet(blocks[1].txs) : u \notin logged
      BY <3>4, <3>8
    <3>6. \A u \in ToSet(blocks[1].txs) : u \in Tx
      BY <3>2 DEF ToSet
    <3> QED
      BY <3>2, <3>6, <3>9 DEF logged, LoggedIn
  <2>7. Sound(Extend(d, m, <<blocks[1]>>)) /\ Extend(d, m, <<blocks[1]>>).info.id = n + 1
    BY <2>5, <2>6, <2>9, ExtendSound
  <2>8. r.db = Extend(d, m, <<blocks[1]>>) /\ r.msgs = {}
    BY <1>4, <1>6, <2>4
  <2> QED
    BY <2>7, <2>8
<1>7. CASE blocks # <<>> /\ ~ (\A i \in DOMAIN blocks : passes(i)) /\ ~ checked(stop)
  BY <1>1, <1>3, <1>4, <1>7
<1>8. CASE blocks # <<>> /\ ~ (\A i \in DOMAIN blocks : passes(i)) /\ checked(stop)
  <2>1. r.db = MarkTransactionsBad(d, play(stop).bad) /\ r.msgs \in SUBSET Tx
    BY <1>3, <1>4, <1>8
  <2> QED
    BY <2>1, MarkTransactionsBadSound
<1> QED
  BY <1>5, <1>6, <1>7, <1>8

-----------------------------------------------------------------------------
(* Blocks on their way.                                                      *)

\* A function on an interval that begins at 1 is a sequence of its values.
LEMMA FcnIsSeq ==
    ASSUME NEW S, NEW m \in Int, NEW s, s \in [1..m -> S]
    PROVE  s \in Seq(ToSet(s))
<1>1. \A i \in 1..m : s[i] \in ToSet(s)
  BY DEF ToSet
<1>2. s \in [1..m -> ToSet(s)]
  BY <1>1
<1>3. CASE m >= 0
  <2>1. m \in Nat
    BY <1>3
  <2> QED
    BY <1>2, <2>1, SeqDef
<1>4. CASE m < 0
  <2>1. 1..m = 1..0
    BY <1>4
  <2>2. s \in [1..0 -> ToSet(s)]
    BY <1>2, <2>1
  <2> QED
    BY <2>2, SeqDef
<1>5. m >= 0 \/ m < 0
  OBVIOUS
<1> QED
  BY <1>3, <1>4, <1>5

\* A prefix of received blocks.
LEMMA ReceivedPrefix ==
    ASSUME NEW s, Received(s), NEW k \in 0..Len(s)
    PROVE  /\ Received(SubSeq(s, 1, k))
           /\ Len(SubSeq(s, 1, k)) = k
           /\ \A i \in 1..k : SubSeq(s, 1, k)[i] = s[i]
<1> DEFINE p == SubSeq(s, 1, k)
<1>1. Len(s) \in Nat /\ DOMAIN s = 1..Len(s) /\ \A i \in 1..Len(s) : s[i] \in ToSet(s)
  BY LenProperties, ElementOfSeq DEF Received
<1>2. k \in Nat /\ \A i \in 1..k : i \in 1..Len(s)
  BY <1>1
<1>3. /\ p \in Seq(ToSet(s))
      /\ Len(p) = IF 1 <= k THEN k - 1 + 1 ELSE 0
      /\ \A i \in 1..k - 1 + 1 : p[i] = s[1 + i - 1]
  BY <1>1, <1>2, SubSeqProperties
<1>4. Len(p) = k /\ \A i \in 1..k : p[i] = s[i]
  BY <1>2, <1>3
<1>5. DOMAIN p = 1..k /\ p \in [1..k -> ToSet(s)]
  BY <1>3, <1>4, LenProperties
<1> HIDE DEF p
<1>6. p \in Seq(ToSet(p))
  <2>1. k \in Int
    BY <1>2
  <2> QED
    BY <1>5, <2>1, FcnIsSeq
<1>7. Received(p)
  BY <1>1, <1>2, <1>4, <1>5, <1>6 DEF Received
<1> QED
  BY <1>4, <1>7 DEF p

\* What is left when the first of the received blocks is played.
LEMMA ReceivedTail ==
    ASSUME NEW s, Received(s), s # <<>>, \A i \in DOMAIN s : s[i].id > 1
    PROVE  /\ Received(Tail(s))
           /\ \A i \in DOMAIN Tail(s) : Tail(s)[i].id > 1
           /\ Len(s) # 1 => Tail(s) # <<>>
           /\ Head(s) = s[1] /\ 1 \in DOMAIN s
<1>1. Len(s) \in Nat /\ DOMAIN s = 1..Len(s) /\ Len(s) # 0
  BY LenProperties, EmptySeq DEF Received
<1>2. /\ Tail(s) \in Seq(ToSet(s))
      /\ Len(Tail(s)) = Len(s) - 1
      /\ \A i \in 1..Len(Tail(s)) : Tail(s)[i] = s[i+1]
  BY HeadTailProperties DEF Received
<1> DEFINE p == Tail(s)
           k == Len(s) - 1
<1>3. k \in Nat /\ DOMAIN p = 1..k /\ p \in [1..k -> ToSet(s)]
  BY <1>1, <1>2, LenProperties
<1>4. \A i \in 1..k : p[i] = s[i+1] /\ i + 1 \in DOMAIN s
  BY <1>1, <1>2
<1>5. Head(s) = s[1] /\ 1 \in DOMAIN s
  BY <1>1
<1>6. k # 0 => p # <<>>
  BY <1>2, <1>3
<1> HIDE DEF p
<1>7. p \in Seq(ToSet(p))
  <2>1. k \in Int
    BY <1>3
  <2> QED
    BY <1>3, <2>1, FcnIsSeq
<1>8. Received(p) /\ \A i \in DOMAIN p : p[i].id > 1
  BY <1>3, <1>4, <1>7 DEF Received
<1> QED
  BY <1>1, <1>5, <1>6, <1>8 DEF p

\* Received blocks, last first.
LEMMA ReceivedReverse ==
    ASSUME NEW s, Received(s)
    PROVE  /\ Received(Reverse(s))
           /\ DOMAIN Reverse(s) = 1..Len(s)
           /\ \A i \in 1..Len(s) : Reverse(s)[i] = s[Len(s) - i + 1]
<1> DEFINE p == Reverse(s)
<1>1. Len(s) \in Nat /\ DOMAIN s = 1..Len(s)
  BY LenProperties DEF Received
<1>2. p = [i \in 1..Len(s) |-> s[(Len(s) - i) + 1]]
  BY DEF Reverse
<1>3. DOMAIN p = 1..Len(s) /\ \A i \in 1..Len(s) : p[i] = s[Len(s) - i + 1]
  BY <1>2
<1>4. \A i \in 1..Len(s) : Len(s) - i + 1 \in DOMAIN s
  BY <1>1
<1>5. p \in [1..Len(s) -> ToSet(s)]
  BY <1>2, <1>4 DEF ToSet
<1> HIDE DEF p
<1>6. p \in Seq(ToSet(p))
  <2>1. Len(s) \in Int
    BY <1>1
  <2> QED
    BY <1>5, <2>1, FcnIsSeq
<1>7. Received(p)
  BY <1>3, <1>4, <1>6 DEF Received
<1> QED
  BY <1>3, <1>7 DEF p

\* A block of a sound chain after the first is signed over some rollbacks hash.
LEMMA ChainBlocks ==
    ASSUME NEW d, Sound(d), NEW i \in 1..d.info.id
    PROVE  /\ d.chain[i].blk.id = i /\ (i > 1 => d.chain[i].blk.prevRb # NoHash)
           /\ d.chain[i].blk.txs \in Seq(Tx)
<1>1. d.info.id \in Nat /\ d.chain[i].blk.id = i
  BY ChainParts
<1>2. ASSUME i > 1 PROVE d.chain[i].blk.prevRb # NoHash
  <2>1. i \in 2..d.info.id /\ i - 1 \in 1..d.info.id
    BY <1>1, <1>2
  <2>2. SignOK(d.chain[i].blk, HeaderOf(d.chain[i-1])) /\ d.chain[i-1].rb # NoHash
    BY <2>1, ChainParts
  <2> QED
    BY <2>2 DEF SignOK, HeaderOf
<1>3. d.chain[i].blk.txs \in Seq(Tx)
  <2>1. i \in DOMAIN d.chain
    BY ChainParts
  <2> QED
    BY <2>1 DEF Sound, LogOK
<1> QED
  BY <1>1, <1>2, <1>3

\* The blocks a host sends upwards.
LEMMA BlocksUpReceived ==
    ASSUME NEW d, Sound(d), NEW id \in Nat, id > 1
    PROVE  /\ Received(BlocksUp(d, id))
           /\ \A i \in DOMAIN BlocksUp(d, id) : BlocksUp(d, id)[i].id > 1
<1> DEFINE n == d.info.id - id + 1
           m == IF n < BlocksPerRequest THEN n ELSE BlocksPerRequest
           s == BlocksUp(d, id)
<1>1. d.info.id \in Nat /\ Height(d) = d.info.id
  BY ChainParts, HeightIsInfoID DEF Sound
<1>2. s = [i \in 1..m |-> d.chain[id + i - 1].blk]
  BY <1>1 DEF BlocksUp
<1>3. m \in Int /\ m <= n
  BY <1>1, NodeAssumption
<1>4. \A i \in 1..m : id + i - 1 \in 1..d.info.id /\ id + i - 1 > 1
  BY <1>1, <1>3
<1>5. DOMAIN s = 1..m /\ s \in [1..m -> {d.chain[id + i - 1].blk : i \in 1..m}]
  BY <1>2
<1>6. \A i \in 1..m : s[i] = d.chain[id + i - 1].blk
  BY <1>2
<1> HIDE DEF s, m
<1>7. \A i \in 1..m : /\ s[i].id \in Nat /\ s[i].id > 1 /\ s[i].prevRb # NoHash
                      /\ s[i].txs \in Seq(Tx)
  <2> TAKE i \in 1..m
  <2> DEFINE k == id + i - 1
  <2>1. k \in 1..d.info.id /\ k > 1
    BY <1>4
  <2>2. s[i].id = k /\ s[i].prevRb # NoHash /\ s[i].txs \in Seq(Tx)
    BY <1>6, <2>1, ChainBlocks
  <2> QED
    BY <1>1, <2>1, <2>2
<1>8. s \in Seq(ToSet(s))
  BY <1>3, <1>5, FcnIsSeq
<1> QED
  BY <1>5, <1>7, <1>8 DEF Received, s

\* The blocks a host sends downwards.
LEMMA BlocksDownReceived ==
    ASSUME NEW d, Sound(d), NEW id \in Nat, id >= 1
    PROVE  LET s == BlocksDown(d, id)
           IN  /\ Received(s)
               /\ 1 \in DOMAIN s
               /\ \A i \in DOMAIN s : s[i].id = s[1].id - i + 1 /\ s[i].id # 0
<1> DEFINE top == IF id < d.info.id THEN id ELSE d.info.id
           m == IF top < BlocksPerRequest THEN top ELSE BlocksPerRequest
           s == BlocksDown(d, id)
<1>1. d.info.id \in Nat /\ d.info.id >= 1 /\ Height(d) = d.info.id
  BY ChainParts, HeightIsInfoID DEF Sound
<1>2. s = [i \in 1..m |-> d.chain[top - i + 1].blk]
  BY <1>1 DEF BlocksDown
<1>3. top \in 1..d.info.id /\ m \in 1..top
  BY <1>1, NodeAssumption
<1>4. /\ DOMAIN s = 1..m /\ s \in [1..m -> {d.chain[top - i + 1].blk : i \in 1..m}]
      /\ \A i \in 1..m : s[i] = d.chain[top - i + 1].blk
  BY <1>2
<1> HIDE DEF s, m, top
<1>5. \A i \in 1..m : /\ s[i].id = top - i + 1 /\ s[i].id \in Nat
                      /\ s[i].id > 1 => s[i].prevRb # NoHash
                      /\ s[i].txs \in Seq(Tx)
  <2> TAKE i \in 1..m
  <2> DEFINE k == top - i + 1
  <2>1. k \in 1..d.info.id
    BY <1>1, <1>3
  <2>2. s[i].id = k /\ (k > 1 => s[i].prevRb # NoHash) /\ s[i].txs \in Seq(Tx)
    BY <1>4, <2>1, ChainBlocks
  <2> QED
    BY <1>1, <2>1, <2>2
<1>6. s \in Seq(ToSet(s))
  <2>1. m \in Int
    BY <1>1, <1>3
  <2> QED
    BY <1>4, <2>1, FcnIsSeq
<1>7. 1 \in 1..m /\ s[1].id = top
  BY <1>1, <1>3, <1>5
<1>8. \A i \in 1..m : s[i].id = s[1].id - i + 1 /\ s[i].id # 0
  BY <1>1, <1>3, <1>5, <1>7
<1> QED
  BY <1>4, <1>5, <1>6, <1>7, <1>8 DEF Received, s

\* getBlocks keeps the blocks down to one of those it received.
LEMMA KeptIsPrefix ==
    ASSUME NEW s, Received(s)
    PROVE  \E k \in 0..Len(s) : k <= RbBlocks1 /\ Kept(s) = SubSeq(s, 1, k)
<1> DEFINE fits(i) == /\ s[i].id > 1
                      /\ SignOK(s[i], HeaderOf(db.chain[s[i].id - 1]))
                      /\ i >= sync.count
           most == IF Len(s) < RbBlocks1 THEN Len(s) ELSE RbBlocks1
           first(i) == /\ i < most => i > 0 /\ fits(i)
                       /\ \A j \in 1..i-1 : ~ fits(j)
           last == CHOOSE i \in 0..most : first(i)
           F == {i \in 1..most : fits(i)}
<1>1. Len(s) \in Nat /\ most \in Nat /\ most <= Len(s) /\ most <= RbBlocks1
  BY LenProperties, NodeAssumption DEF Received
<1>2. Kept(s) = SubSeq(s, 1, last)
  BY DEF Kept
<1> HIDE DEF fits, most
<1>3. PICK i \in 0..most : (i < most => i > 0 /\ i \in F) /\ \A j \in 1..i-1 : j \notin F
  BY <1>1, FirstUpTo
<1>4. first(i)
  <2>1. \A j \in 1..i-1 : j \in 1..most
    BY <1>1
  <2> QED
    BY <1>3, <2>1
<1> HIDE DEF first
<1>5. last \in 0..most
  BY <1>4
<1> HIDE DEF last
<1>6. last \in 0..Len(s) /\ last <= RbBlocks1
  BY <1>1, <1>5, NodeAssumption
<1> QED
  BY <1>2, <1>6

-----------------------------------------------------------------------------
(* The actions.                                                              *)

\* The lock is free exactly when no update of the chain is in progress.
LEMMA FreeIsIdle == ASSUME IInv, holder = None PROVE sync.at = "idle"
BY DEF IInv, TypeOK

\* Whoever takes the lock is a daemon.
LEMMA DaemonIsNotNone == ASSUME NEW x \in Daemons PROVE x # None
BY NodeAssumption DEF None

\* The databases of all nodes are sound.
LEMMA DatabasesSound == ASSUME IInv PROVE Sound(db) /\ \A h \in Hosts : Sound(remote[h])
BY DEF IInv, TypeOK, Sound

\* The invariant at the start.
LEMMA InitInv == Init => IInv
<1> SUFFICES ASSUME Init PROVE IInv
  OBVIOUS
<1>1. Sound(db) /\ \A h \in Hosts : Sound(remote[h])
  BY GenesisSound DEF Init
<1>2. DOMAIN remote = Hosts
  BY DEF Init
<1>3. SyncOK
  BY DEF Init, SyncOK, Idle
<1>4. 1 \in 1..MaxSlot /\ 0 \in 0..MaxCrashes
  BY NodeAssumption
<1>5. TypeOK
  BY <1>1, <1>4 DEF Init, TypeOK, Sound, Idle, NotLooking
<1> QED
  BY <1>1, <1>2, <1>3, <1>5 DEF IInv, Sound

\* A generated block is made of transactions.
LEMMA ProcessTransactionsTx == ASSUME NEW d PROVE ProcessTransactions(d) \in Seq(Tx)
<1> DEFINE trs == UnusedTransactions(d)
           k == IF Len(trs) < MaxTxCount THEN Len(trs) ELSE MaxTxCount - 1
<1>1. trs \in Seq(Tx)
  BY NodeAssumption, OnlyElements DEF UnusedTransactions
<1> HIDE DEF trs
<1>2. k \in 0..Len(trs) /\ Len(trs) \in Nat
  BY <1>1, LenProperties, NodeAssumption
<1>3. \A i \in 1..k : trs[i] \in Tx
  BY <1>1, <1>2, ElementOfSeq
<1>4. SubSeq(trs, 1, k) \in Seq(Tx)
  BY <1>1, <1>2, <1>3, SubSeqProperties
<1> QED
  BY <1>4 DEF ProcessTransactions, trs

LEMMA BlockGeneratorInv == ASSUME IInv, BlockGenerator PROVE IInv'
<1> DEFINE txs == ProcessTransactions(db)
           blk == NewBlock(db, now, Self, txs)
<1>1. sync.at = "idle"
  BY FreeIsIdle DEF BlockGenerator
<1>2. PICK cut \in 0..Len(txs) :
         LET r == PlaySafe(db, msgs, blk, TRUE, cut) IN db' = r.db /\ msgs' = r.msgs
  BY DEF BlockGenerator
<1>9. Check(db, blk, HeaderOf(db.chain[blk.id - 1]), now) = "ok"
  BY DEF BlockGenerator
<1>10. txs \in Seq(Tx)
  BY ProcessTransactionsTx
<1>3. Sound(db) /\ msgs \in SUBSET Tx
  BY DEF IInv, TypeOK, Sound
<1>4. /\ blk.id = db.info.id + 1
      /\ SignOK(blk, HeaderOf(db.chain[db.info.id]))
      /\ DOMAIN blk = {"id", "time", "pos", "txs", "prev", "prevRb"}
  BY <1>3 DEF NewBlock, SignOK, Sound, ChainOK
<1>11. blk.txs = txs
  BY DEF NewBlock
<1> HIDE DEF blk, txs
<1>12. blk.txs \in Seq(Tx) /\ cut \in 0..Len(blk.txs)
  BY <1>2, <1>10, <1>11
<1>13. \A t \in ToSet(blk.txs) : CheckTime(t, blk.time)
  BY <1>9, CheckAccepts
<1>14. TRUE \in BOOLEAN /\ (~ TRUE => cut = Len(blk.txs))
  OBVIOUS
<1>5. Sound(db') /\ msgs' \in SUBSET Tx
  BY <1>2, <1>3, <1>4, <1>12, <1>13, <1>14, PlaySafeSound
<1>6. UNCHANGED <<holder, coll, sync, blocksQ, wanted, remote, now, crashes>>
  BY DEF BlockGenerator
<1>7. SyncOK'
  BY <1>1, <1>6 DEF IInv, SyncOK
<1>8. TypeOK'
  BY <1>5, <1>6 DEF IInv, TypeOK, Sound
<1> QED
  BY <1>5, <1>6, <1>7, <1>8 DEF IInv, Sound

\* A change of the queue and of the pool only.
LEMMA PoolChangeSound ==
    ASSUME NEW d, Sound(d), NEW e,
           DOMAIN e = DOMAIN d,
           e.chain = d.chain, e.info = d.info, e.log = d.log, e.status = d.status,
           e.pool \subseteq Tx, e.verified \subseteq e.pool, e.queue \subseteq Tx
    PROVE  Sound(e)
<1>1. Tables(e)
  BY DEF Sound, Tables
<1>2. ChainOK(e)
  BY DEF Sound, ChainOK
<1>3. LogOK(e)
  BY SameLog
<1> QED
  BY <1>1, <1>2, <1>3 DEF Sound

LEMMA AskTransactionInv == ASSUME IInv, NEW t \in Tx, AskTransaction(t) PROVE IInv'
<1>1. UNCHANGED <<db, msgs, holder, coll, sync, blocksQ, remote, now, crashes>>
  BY DEF AskTransaction
<1>2. TypeOK'
  BY <1>1 DEF AskTransaction, IInv, TypeOK
<1>3. SyncOK'
  BY <1>1 DEF IInv, SyncOK
<1> QED
  BY <1>1, <1>2, <1>3 DEF IInv

LEMMA SaveTransactionInv == ASSUME IInv, NEW t \in Tx, SaveTransaction(t) PROVE IInv'
<1>1. Sound(db)
  BY DatabasesSound
<1>2. /\ DOMAIN db' = DOMAIN db
      /\ db'.chain = db.chain /\ db'.info = db.info
      /\ db'.log = db.log /\ db'.status = db.status
      /\ db'.pool = db.pool /\ db'.verified = db.verified
      /\ db'.queue = db.queue \cup {t}
  BY <1>1 DEF SaveTransaction, Sound, Tables
<1>3. Sound(db')
  <2>1. db.pool \subseteq Tx /\ db.verified \subseteq db.pool /\ db.queue \subseteq Tx
    BY <1>1 DEF Sound, Tables
  <2> QED
    BY <1>1, <1>2, <2>1, PoolChangeSound
<1>4. UNCHANGED <<msgs, holder, coll, sync, blocksQ, remote, now, crashes>>
  BY DEF SaveTransaction
<1>5. TypeOK'
  BY <1>3, <1>4 DEF SaveTransaction, IInv, TypeOK, Sound
<1>6. SyncOK'
  BY <1>2, <1>4 DEF IInv, SyncOK
<1> QED
  BY <1>3, <1>4, <1>5, <1>6 DEF IInv, Sound

LEMMA AnnounceBlockInv == ASSUME IInv, NEW h \in Hosts, AnnounceBlock(h) PROVE IInv'
<1>1. UNCHANGED <<db, msgs, holder, coll, sync, wanted, remote, now, crashes>>
  BY DEF AnnounceBlock
<1>2. Height(remote[h]) \in Nat
  BY DatabasesSound, ChainParts, HeightIsInfoID DEF Sound
<1>3. TypeOK'
  BY <1>1, <1>2 DEF AnnounceBlock, IInv, TypeOK
<1>4. SyncOK'
  BY <1>1 DEF IInv, SyncOK
<1> QED
  BY <1>1, <1>3, <1>4 DEF IInv

LEMMA QueueParserTxInv == ASSUME IInv, QueueParserTx PROVE IInv'
<1> DEFINE batch == Batch(db.queue \cup (db.pool \ db.verified))
<1>1. Sound(db) /\ sync.at = "idle"
  BY DatabasesSound, FreeIsIdle DEF QueueParserTx
<1>2. db.pool \subseteq Tx /\ db.verified \subseteq db.pool /\ db.queue \subseteq Tx
  BY <1>1 DEF Sound, Tables
<1>3. batch \subseteq Tx
  BY <1>2 DEF Batch
<1>4. \/ \E t : db' = MarkTransactionsBad(db, {t})
      \/ db' = [db EXCEPT !.pool = @ \cup batch,
                          !.verified = @ \cup (batch \ db.pool),
                          !.queue = @ \ batch]
  BY DEF QueueParserTx
<1> HIDE DEF batch
<1>5. Sound(db')
  <2>1. CASE \E t : db' = MarkTransactionsBad(db, {t})
    BY <1>1, <2>1, MarkTransactionsBadSound
  <2>2. CASE db' = [db EXCEPT !.pool = @ \cup batch,
                              !.verified = @ \cup (batch \ db.pool),
                              !.queue = @ \ batch]
    <3>1. /\ DOMAIN db' = DOMAIN db
          /\ db'.chain = db.chain /\ db'.info = db.info
          /\ db'.log = db.log /\ db'.status = db.status
          /\ db'.pool = db.pool \cup batch
          /\ db'.verified = db.verified \cup (batch \ db.pool)
          /\ db'.queue = db.queue \ batch
      BY <1>1, <2>2 DEF Sound, Tables
    <3>2. db'.pool \subseteq Tx /\ db'.verified \subseteq db'.pool /\ db'.queue \subseteq Tx
      BY <1>2, <1>3, <3>1
    <3> QED
      BY <1>1, <3>1, <3>2, PoolChangeSound
  <2> QED
    BY <1>4, <2>1, <2>2
<1>6. UNCHANGED <<msgs, holder, coll, sync, blocksQ, wanted, remote, now, crashes>>
  BY DEF QueueParserTx
<1>7. SyncOK'
  BY <1>1, <1>6 DEF IInv, SyncOK
<1>8. TypeOK'
  BY <1>5, <1>6 DEF IInv, TypeOK, Sound
<1> QED
  BY <1>5, <1>6, <1>7, <1>8 DEF IInv, Sound

\* UpdateChain begins for a daemon, with a host.
LEMMA StartUpdateInv ==
    ASSUME IInv, NEW daemon \in Daemons, NEW host \in Hosts, NEW max, StartUpdate(daemon, host, max),
           UNCHANGED <<db, msgs, wanted, remote, now, crashes>>,
           coll' \in {coll, NotLooking}, blocksQ' = blocksQ
    PROVE  IInv'
<1>1. Sound(db)
  BY DatabasesSound
<1>2. db.info.id \in Nat /\ db.info.id >= 1
  BY <1>1, ChainParts
<1>3. /\ sync'.at = "fetch" /\ sync'.host = host /\ sync'.next = db.info.id + 1
      /\ DOMAIN sync' = {"at", "host", "next", "max", "raw", "from", "count", "blocks"}
      /\ holder' = daemon
  BY DEF StartUpdate, Idle
<1>4. SyncOK'
  BY <1>2, <1>3 DEF SyncOK
<1>5. daemon # None
  BY DaemonIsNotNone
<1>6. /\ coll'.found \in BOOLEAN
      /\ coll'.found => coll'.host \in Hosts /\ "BlocksCollection" \in Daemons
  <2>1. CASE coll' = coll
    BY <2>1 DEF IInv, TypeOK
  <2>2. CASE coll' = NotLooking
    BY <2>2 DEF NotLooking
  <2> QED
    BY <2>1, <2>2
<1>7. TypeOK'
  BY <1>3, <1>5, <1>6 DEF IInv, TypeOK
<1> QED
  BY <1>4, <1>7 DEF IInv

LEMMA LookForMaxBlockInv == ASSUME IInv, LookForMaxBlock PROVE IInv'
<1>1. UNCHANGED <<db, msgs, holder, sync, blocksQ, wanted, remote, now, crashes>>
  BY DEF LookForMaxBlock
<1>2. coll'.found = TRUE /\ coll'.host \in Hosts /\ "BlocksCollection" \in Daemons
  BY DEF LookForMaxBlock
<1>3. TypeOK'
  BY <1>1, <1>2 DEF IInv, TypeOK
<1>4. SyncOK'
  BY <1>1 DEF IInv, SyncOK
<1> QED
  BY <1>1, <1>3, <1>4 DEF IInv

LEMMA BlocksCollectionInv == ASSUME IInv, BlocksCollection PROVE IInv'
<1>1. coll.host \in Hosts /\ coll' = NotLooking /\ "BlocksCollection" \in Daemons
  BY DEF BlocksCollection, IInv, TypeOK
<1>2. /\ StartUpdate("BlocksCollection", coll.host, coll.max)
      /\ UNCHANGED <<db, msgs, blocksQ, wanted, remote, now, crashes>>
  BY DEF BlocksCollection
<1> QED
  BY <1>1, <1>2, StartUpdateInv

LEMMA QueueParserBlocksInv == ASSUME IInv, QueueParserBlocks PROVE IInv'
<1>1. UNCHANGED <<db, msgs, coll, wanted, remote, now, crashes>>
  BY DEF QueueParserBlocks
<1>2. PICK q \in blocksQ :
        \/ /\ blocksQ' = {r \in blocksQ : r.id > q.id}
           /\ UNCHANGED <<holder, sync>>
        \/ /\ StartUpdate("QueueParserBlocks", q.host, q.id)
           /\ UNCHANGED blocksQ
  BY DEF QueueParserBlocks
<1>3. CASE blocksQ' = {r \in blocksQ : r.id > q.id} /\ UNCHANGED <<holder, sync>>
  <2>1. TypeOK'
    BY <1>1, <1>3 DEF IInv, TypeOK
  <2>2. SyncOK'
    BY <1>1, <1>3 DEF IInv, SyncOK
  <2> QED
    BY <1>1, <2>1, <2>2 DEF IInv
<1>4. CASE StartUpdate("QueueParserBlocks", q.host, q.id) /\ UNCHANGED blocksQ
  <2>1. q.host \in Hosts /\ "QueueParserBlocks" \in Daemons
    BY DEF IInv, TypeOK, QueueParserBlocks
  <2> QED
    BY <1>1, <1>4, <2>1, StartUpdateInv
<1> QED
  BY <1>2, <1>3, <1>4

\* UpdateChain returns: the lock is free and the database the one the last step left.
LEMMA EndUpdateInv ==
    ASSUME IInv, EndUpdate, Sound(db'), msgs' \in SUBSET Tx,
           UNCHANGED <<coll, blocksQ, wanted, remote, now, crashes>>
    PROVE  IInv'
<1>1. holder' = None /\ sync' = Idle
  BY DEF EndUpdate
<1>2. SyncOK'
  BY <1>1 DEF SyncOK, Idle
<1>3. TypeOK'
  BY <1>1 DEF IInv, TypeOK, Sound, Idle
<1> QED
  BY <1>2, <1>3 DEF IInv, Sound

\* The daemon that holds the lock goes on.
LEMMA GoOnInv ==
    ASSUME IInv, sync.at # "idle", sync'.at \in {"fetch", "play", "getblocks", "rollback"},
           sync'.host = sync.host, SyncOK', Sound(db'), msgs' \in SUBSET Tx,
           UNCHANGED <<holder, coll, blocksQ, wanted, remote, now, crashes>>
    PROVE  IInv'
<1>1. TypeOK'
  BY DEF IInv, TypeOK, Sound
<1> QED
  BY <1>1 DEF IInv, Sound

LEMMA FetchBlocksInv == ASSUME IInv, FetchBlocks PROVE IInv'
<1> DEFINE sent == BlocksUp(remote[sync.host], sync.next)
<1>1. /\ sync.at = "fetch"
      /\ UNCHANGED <<db, msgs, coll, blocksQ, wanted, remote, now, crashes>>
  BY DEF FetchBlocks
<1>2. Sound(db') /\ msgs' \in SUBSET Tx
  BY <1>1, DatabasesSound DEF IInv, TypeOK
<1>3. \/ EndUpdate
      \/ /\ UNCHANGED holder
         /\ \E n \in 0..Len(sent) :
              sync' = [sync EXCEPT !.at = IF n = 0 THEN "fetch" ELSE "play",
                                   !.raw = SubSeq(sent, 1, n),
                                   !.next = @ + BlocksPerRequest]
  BY DEF FetchBlocks
<1>4. CASE EndUpdate
  BY <1>1, <1>2, <1>4, EndUpdateInv
<1>5. ASSUME UNCHANGED holder, NEW n \in 0..Len(sent),
             sync' = [sync EXCEPT !.at = IF n = 0 THEN "fetch" ELSE "play",
                                  !.raw = SubSeq(sent, 1, n),
                                  !.next = @ + BlocksPerRequest]
      PROVE  IInv'
  <2>1. sync.host \in Hosts /\ sync.next \in Nat /\ sync.next > 1
    BY <1>1 DEF IInv, TypeOK, SyncOK
  <2>2. Received(sent) /\ \A i \in DOMAIN sent : sent[i].id > 1
    BY <2>1, DatabasesSound, BlocksUpReceived
  <2> HIDE DEF sent
  <2>3. Len(sent) \in Nat /\ DOMAIN sent = 1..Len(sent)
    BY <2>2, LenProperties DEF Received
  <2> DEFINE p == SubSeq(sent, 1, n)
  <2>4. Received(p) /\ Len(p) = n /\ \A i \in 1..n : p[i] = sent[i]
    BY <2>2, ReceivedPrefix
  <2>5. DOMAIN p = 1..n
    BY <2>4, LenProperties DEF Received
  <2> HIDE DEF p
  <2>6. \A i \in DOMAIN p : p[i].id > 1
    BY <2>2, <2>3, <2>4, <2>5
  <2>7. n # 0 => p # <<>>
    BY <2>4
  <2>8. /\ DOMAIN sync' = DOMAIN sync
        /\ sync'.at = IF n = 0 THEN "fetch" ELSE "play"
        /\ sync'.host = sync.host /\ sync'.raw = p
        /\ sync'.next = sync.next + BlocksPerRequest
    BY <1>5 DEF IInv, SyncOK, p
  <2>9. sync'.next \in Nat \ {0, 1}
    BY <2>1, <2>8, NodeAssumption
  <2>10. SyncOK'
    BY <2>4, <2>6, <2>7, <2>8, <2>9 DEF IInv, SyncOK
  <2> QED
    BY <1>1, <1>2, <1>5, <2>8, <2>10, GoOnInv
<1> QED
  BY <1>3, <1>4, <1>5

LEMMA PlayRawBlockInv == ASSUME IInv, PlayRawBlock PROVE IInv'
<1> DEFINE blk == Head(sync.raw)
           prev == HeaderOf(db.chain[blk.id - 1])
           outcome == Check(db, blk, prev, now)
           r == PlaySafe(db, msgs, blk, FALSE, Len(blk.txs))
           rest == [sync EXCEPT !.raw = Tail(@),
                                !.at = IF Len(sync.raw) = 1 THEN "fetch" ELSE "play"]
<1>1. /\ sync.at = "play"
      /\ UNCHANGED <<coll, blocksQ, wanted, remote, now, crashes>>
  BY DEF PlayRawBlock
<1>2. \/ EndUpdate /\ UNCHANGED <<db, msgs>>
      \/ /\ db.info.id = blk.id - 1 /\ outcome = "ok"
         /\ db' = r.db /\ msgs' = r.msgs
         /\ IF r.ok THEN sync' = rest /\ UNCHANGED holder ELSE EndUpdate
      \/ /\ db.info.id = blk.id - 1
         /\ sync' = [sync EXCEPT !.at = "getblocks", !.from = blk.id - 1,
                                 !.count = IF outcome = "rollback hash" THEN 2 ELSE 1]
         /\ UNCHANGED <<db, msgs, holder>>
  BY DEF PlayRawBlock
<1>3. Sound(db) /\ msgs \in SUBSET Tx /\ db.info.id \in Nat
  BY DatabasesSound, ChainParts DEF IInv, TypeOK
<1>4. /\ Received(sync.raw) /\ sync.raw # <<>>
      /\ \A i \in DOMAIN sync.raw : sync.raw[i].id > 1
      /\ sync.next \in Nat \ {0, 1}
      /\ DOMAIN sync = {"at", "host", "next", "max", "raw", "from", "count", "blocks"}
  BY <1>1 DEF IInv, SyncOK
<1>5. /\ Received(Tail(sync.raw))
      /\ \A i \in DOMAIN Tail(sync.raw) : Tail(sync.raw)[i].id > 1
      /\ Len(sync.raw) # 1 => Tail(sync.raw) # <<>>
      /\ blk = sync.raw[1] /\ 1 \in DOMAIN sync.raw
  BY <1>4, ReceivedTail
<1>6. blk.id \in Nat /\ blk.txs \in Seq(Tx)
  BY <1>4, <1>5 DEF Received
<1> HIDE DEF blk
<1>7. CASE EndUpdate /\ UNCHANGED <<db, msgs>>
  BY <1>1, <1>3, <1>7, EndUpdateInv
<1>8. CASE /\ db.info.id = blk.id - 1 /\ outcome = "ok"
           /\ db' = r.db /\ msgs' = r.msgs
           /\ IF r.ok THEN sync' = rest /\ UNCHANGED holder ELSE EndUpdate
  <2>1. blk.id = db.info.id + 1
    BY <1>3, <1>6, <1>8
  <2>2. /\ SignOK(blk, HeaderOf(db.chain[db.info.id]))
        /\ \A t \in ToSet(blk.txs) : CheckTime(t, blk.time)
    BY <1>8, CheckAccepts
  <2>3. Sound(r.db) /\ r.msgs \in SUBSET Tx
    <3>1. PICK cut \in 0..Len(blk.txs) : cut = Len(blk.txs)
      <4>1. Len(blk.txs) \in Nat
        BY <1>6, LenProperties
      <4> QED
        BY <4>1
    <3>2. FALSE \in BOOLEAN /\ (~ FALSE => cut = Len(blk.txs))
      BY <3>1
    <3>3. /\ Sound(PlaySafe(db, msgs, blk, FALSE, cut).db)
          /\ PlaySafe(db, msgs, blk, FALSE, cut).msgs \in SUBSET Tx
      BY <1>3, <1>6, <2>1, <2>2, <3>2, PlaySafeSound
    <3> QED
      BY <3>1, <3>3
  <2>4. CASE sync' = rest /\ UNCHANGED holder
    <3>1. /\ DOMAIN sync' = DOMAIN sync
          /\ sync'.at = IF Len(sync.raw) = 1 THEN "fetch" ELSE "play"
          /\ sync'.raw = Tail(sync.raw)
          /\ sync'.host = sync.host /\ sync'.next = sync.next
      BY <1>4, <2>4
    <3>2. SyncOK'
      BY <1>4, <1>5, <3>1 DEF SyncOK
    <3> QED
      BY <1>1, <1>8, <2>3, <2>4, <3>1, <3>2, GoOnInv
  <2>5. CASE EndUpdate
    BY <1>1, <1>8, <2>3, <2>5, EndUpdateInv
  <2> QED
    BY <1>8, <2>4, <2>5
<1>9. CASE /\ db.info.id = blk.id - 1
           /\ sync' = [sync EXCEPT !.at = "getblocks", !.from = blk.id - 1,
                                   !.count = IF outcome = "rollback hash" THEN 2 ELSE 1]
           /\ UNCHANGED <<db, msgs, holder>>
  <2>1. /\ DOMAIN sync' = DOMAIN sync
        /\ sync'.at = "getblocks" /\ sync'.from = blk.id - 1
        /\ sync'.raw = sync.raw /\ sync'.host = sync.host
    BY <1>4, <1>9
  <2>2. sync'.from = db'.info.id /\ Head(sync'.raw).id = sync'.from + 1
    BY <1>3, <1>6, <1>9, <2>1 DEF blk
  <2>3. SyncOK'
    BY <1>4, <2>1, <2>2 DEF SyncOK
  <2> QED
    BY <1>1, <1>3, <1>9, <2>1, <2>3, GoOnInv
<1> QED
  BY <1>2, <1>7, <1>8, <1>9

\* The pool is marked unverified.
LEMMA UnverifiedSound ==
    ASSUME NEW d, Sound(d)
    PROVE  LET e == [d EXCEPT !.verified = {}] IN Sound(e) /\ e.info = d.info
<1> DEFINE e == [d EXCEPT !.verified = {}]
<1>1. /\ DOMAIN e = DOMAIN d
      /\ e.chain = d.chain /\ e.info = d.info /\ e.log = d.log /\ e.status = d.status
      /\ e.pool = d.pool /\ e.verified = {} /\ e.queue = d.queue
  BY DEF Sound, Tables
<1>2. d.pool \subseteq Tx /\ d.queue \subseteq Tx
  BY DEF Sound, Tables
<1> HIDE DEF e
<1>3. Sound(e)
  BY <1>1, <1>2, PoolChangeSound
<1> QED
  BY <1>1, <1>3 DEF e

\* The blocks kept of the first n that a host sends down from our last block: they end
\* with the block before the one that did not fit, and are at most rb_blocks_1.
LEMMA KeptBlocks ==
    ASSUME NEW d, Sound(d), NEW from \in Nat, from >= 1, BlocksDown(d, from)[1].id = from,
           NEW n \in 0..Len(BlocksDown(d, from)), NEW kept,
           kept = IF from < 2 THEN <<>> ELSE Kept(SubSeq(BlocksDown(d, from), 1, n))
    PROVE  LET low == IF kept = <<>> THEN from ELSE kept[Len(kept)].id
               up == Reverse(kept)
           IN  /\ low \in Nat \ {0}
               /\ low <= from /\ from + 1 <= low + (IF up = <<>> THEN 1 ELSE RbBlocks1)
               /\ Received(up)
               /\ \A i \in DOMAIN up : up[i].id = low + i - 1
<1> DEFINE sent == BlocksDown(d, from)
           low == IF kept = <<>> THEN from ELSE kept[Len(kept)].id
           up == Reverse(kept)
<1>1. Received(sent) /\ \A i \in DOMAIN sent : sent[i].id = from - i + 1 /\ sent[i].id # 0
  BY BlocksDownReceived
<1>2. \E k \in Nat : /\ k <= RbBlocks1 /\ Received(kept) /\ Len(kept) = k
                     /\ \A i \in 1..k : kept[i].id = from - i + 1 /\ kept[i].id \in Nat \ {0}
  <2>1. CASE from < 2
    <3>1. kept = <<>>
      BY <2>1
    <3>2. kept \in Seq(ToSet(kept)) /\ Len(kept) = 0
      BY <3>1, EmptySeq
    <3>3. DOMAIN kept = 1..0
      BY <3>2, LenProperties
    <3>4. Received(kept)
      BY <3>2, <3>3 DEF Received
    <3> QED
      BY <3>2, <3>4, NodeAssumption
  <2>2. CASE ~ (from < 2)
    <3> DEFINE p == SubSeq(sent, 1, n)
    <3>1. Received(p) /\ Len(p) = n /\ \A i \in 1..n : p[i] = sent[i]
      BY <1>1, ReceivedPrefix
    <3>2. DOMAIN sent = 1..Len(sent) /\ Len(sent) \in Nat
      BY <1>1, LenProperties DEF Received
    <3>3. \A i \in 1..n : sent[i].id = from - i + 1 /\ sent[i].id \in Nat \ {0}
      <4>1. \A i \in 1..n : i \in DOMAIN sent
        BY <3>2
      <4> QED
        BY <1>1, <4>1 DEF Received
    <3> HIDE DEF p
    <3>4. PICK k \in 0..Len(p) : k <= RbBlocks1 /\ Kept(p) = SubSeq(p, 1, k)
      BY <3>1, KeptIsPrefix
    <3>5. kept = SubSeq(p, 1, k)
      BY <2>2, <3>4 DEF p
    <3>6. Received(kept) /\ Len(kept) = k /\ \A i \in 1..k : kept[i] = p[i]
      BY <3>1, <3>4, <3>5, ReceivedPrefix
    <3>7. k \in Nat /\ \A i \in 1..k : i \in 1..n
      BY <3>1, <3>2, <3>4
    <3>8. \A i \in 1..k : kept[i].id = from - i + 1 /\ kept[i].id \in Nat \ {0}
      <4> TAKE i \in 1..k
      <4>1. i \in 1..n /\ kept[i] = p[i]
        BY <3>6, <3>7
      <4>2. p[i] = sent[i]
        BY <3>1, <4>1
      <4> HIDE DEF sent
      <4> QED
        BY <3>3, <4>1, <4>2
    <3>9. k \in Nat /\ k <= RbBlocks1
      BY <3>4, <3>7
    <3> HIDE DEF sent
    <3> QED
      BY <3>6, <3>8, <3>9
  <2> QED
    BY <2>1, <2>2
<1> HIDE DEF sent
<1>3. PICK k \in Nat : /\ k <= RbBlocks1 /\ Received(kept) /\ Len(kept) = k
                       /\ \A i \in 1..k : kept[i].id = from - i + 1 /\ kept[i].id \in Nat \ {0}
  BY <1>2
<1>4. /\ Received(up) /\ DOMAIN up = 1..k
      /\ \A i \in 1..k : up[i] = kept[k - i + 1]
  <2> HIDE DEF up
  <2>1. up = Reverse(kept) /\ Received(kept) /\ Len(kept) = k
    BY <1>3 DEF up
  <2>2. /\ Received(Reverse(kept))
        /\ DOMAIN Reverse(kept) = 1..Len(kept)
        /\ \A i \in 1..Len(kept) : Reverse(kept)[i] = kept[Len(kept) - i + 1]
    BY <2>1, ReceivedReverse
  <2> QED
    BY <2>1, <2>2
<1>5. CASE k = 0
  <2>1. kept = <<>>
    BY <1>3, <1>5, EmptySeq DEF Received
  <2>2. low = from
    BY <2>1
  <2>3. up = <<>>
    <3>1. up = [i \in 1..Len(kept) |-> kept[Len(kept) - i + 1]]
      BY DEF Reverse
    <3>2. Len(up) = 0
      BY <1>3, <1>4, <1>5, LenProperties DEF Received
    <3> QED
      BY <1>4, <3>2, EmptySeq DEF Received
  <2>4. \A i \in DOMAIN up : up[i].id = low + i - 1
    BY <1>4, <1>5
  <2> QED
    BY <1>4, <2>2, <2>3, <2>4
<1>6. CASE k # 0
  <2>1. kept # <<>> /\ k \in 1..k
    BY <1>3, <1>6, EmptySeq
  <2>2. low = from - k + 1 /\ low \in Nat \ {0}
    BY <1>3, <2>1
  <2>3. up # <<>>
    <3>1. 1 \in DOMAIN up
      BY <1>4, <1>6
    <3>2. Len(up) # 0
      BY <1>4, <1>6, LenProperties DEF Received
    <3> QED
      BY <3>2, EmptySeq
  <2> HIDE DEF up, low
  <2>4. \A i \in DOMAIN up : up[i].id = low + i - 1
    <3> TAKE i \in DOMAIN up
    <3> DEFINE j == k - i + 1
    <3>1. i \in 1..k /\ j \in 1..k
      BY <1>4
    <3>2. up[i] = kept[j] /\ kept[j].id = from - j + 1
      BY <1>3, <1>4, <3>1
    <3> QED
      BY <2>2, <3>1, <3>2
  <2>5. low <= from /\ from + 1 <= low + RbBlocks1
    BY <1>3, <1>6, <2>2, NodeAssumption
  <2> QED
    BY <1>4, <2>2, <2>3, <2>4, <2>5 DEF up, low
<1> QED
  BY <1>3, <1>5, <1>6

LEMMA GetBlocksInv == ASSUME IInv, GetBlocks PROVE IInv'
<1> DEFINE sent == BlocksDown(remote[sync.host], sync.from)
           kept(n) == IF sync.from < 2 THEN <<>> ELSE Kept(SubSeq(sent, 1, n))
<1>1. /\ sync.at = "getblocks"
      /\ UNCHANGED <<msgs, coll, blocksQ, wanted, remote, now, crashes>>
  BY DEF GetBlocks
<1>2. /\ sync.host \in Hosts /\ msgs \in SUBSET Tx
      /\ sync.from = db.info.id /\ Head(sync.raw).id = sync.from + 1
      /\ DOMAIN sync = {"at", "host", "next", "max", "raw", "from", "count", "blocks"}
  BY <1>1 DEF IInv, TypeOK, SyncOK
<1>3. Sound(db) /\ Sound(remote[sync.host]) /\ db.info.id \in Nat /\ db.info.id >= 1
  <2>1. Sound(db) /\ \A h \in Hosts : Sound(remote[h])
    BY DatabasesSound
  <2>2. Sound(db) => db.info.id \in Nat /\ db.info.id >= 1
    BY DEF Sound, ChainOK
  <2> QED
    BY <1>2, <2>1, <2>2
<1>4. \/ /\ EndUpdate
         /\ UNCHANGED db
      \/ /\ sent[1].id = sync.from
         /\ \E n \in 0..Len(sent) :
              sync' = [sync EXCEPT !.at = "rollback",
                                   !.from = IF kept(n) = <<>> THEN @ ELSE kept(n)[Len(kept(n))].id,
                                   !.blocks = Reverse(kept(n))]
         /\ db' = [db EXCEPT !.verified = {}]
         /\ UNCHANGED holder
  BY DEF GetBlocks
<1>5. CASE EndUpdate /\ UNCHANGED db
  BY <1>1, <1>2, <1>3, <1>5, EndUpdateInv
<1>6. ASSUME sent[1].id = sync.from, NEW n \in 0..Len(sent),
             sync' = [sync EXCEPT !.at = "rollback",
                                  !.from = IF kept(n) = <<>> THEN @ ELSE kept(n)[Len(kept(n))].id,
                                  !.blocks = Reverse(kept(n))],
             db' = [db EXCEPT !.verified = {}], UNCHANGED holder
      PROVE  IInv'
  <2> DEFINE k == kept(n)
             low == IF k = <<>> THEN sync.from ELSE k[Len(k)].id
             up == Reverse(k)
  <2>1. /\ low \in Nat \ {0}
        /\ low <= sync.from /\ sync.from + 1 <= low + (IF up = <<>> THEN 1 ELSE RbBlocks1)
        /\ Received(up)
        /\ \A i \in DOMAIN up : up[i].id = low + i - 1
    <3>1. sync.from \in Nat /\ sync.from >= 1
      BY <1>2, <1>3
    <3>2. k = IF sync.from < 2 THEN <<>> ELSE Kept(SubSeq(BlocksDown(remote[sync.host], sync.from), 1, n))
      OBVIOUS
    <3> HIDE DEF k
    <3> QED
      BY <1>3, <1>6, <3>1, <3>2, KeptBlocks
  <2>2. /\ DOMAIN sync' = DOMAIN sync
        /\ sync'.at = "rollback" /\ sync'.from = low /\ sync'.blocks = up
        /\ sync'.host = sync.host /\ sync'.raw = sync.raw
    BY <1>2, <1>6
  <2> HIDE DEF k, low, up, sent
  <2>3. Sound(db') /\ db'.info = db.info
    BY <1>3, <1>6, UnverifiedSound
  <2>4. /\ Head(sync'.raw).id = sync.from + 1 /\ sync.from \in Nat
        /\ db'.info.id = sync.from
    BY <1>2, <1>3, <2>2, <2>3
  <2>5. SyncOK'
    <3>1. sync'.from \in Nat \ {0} /\ db'.info.id >= sync'.from - 1
      BY <2>1, <2>2, <2>4
    <3>2. /\ Head(sync'.raw).id \in Int
          /\ Head(sync'.raw).id <= sync'.from + (IF sync'.blocks = <<>> THEN 1 ELSE RbBlocks1)
      BY <2>1, <2>2, <2>4
    <3>3. Received(sync'.blocks) /\ \A i \in DOMAIN sync'.blocks : sync'.blocks[i].id = sync'.from + i - 1
      BY <2>1, <2>2
    <3> QED
      BY <1>2, <2>2, <3>1, <3>2, <3>3 DEF SyncOK, Received
  <2> QED
    BY <1>1, <1>2, <1>6, <2>2, <2>3, <2>5, GoOnInv
<1> QED
  BY <1>4, <1>5, <1>6

\* A rollback leaves the blocks that wait to replace it one block nearer to their place.
LEMMA RollbackOurBlockInv == ASSUME IInv, RollbackOurBlock PROVE IInv'
<1>1. /\ sync.at = "rollback" /\ Height(db) >= sync.from
      /\ UNCHANGED <<msgs, coll, blocksQ, wanted, remote, now, crashes>>
      /\ IF Height(db) = 1
         THEN EndUpdate /\ UNCHANGED db
         ELSE db' = RollbackBlock(db) /\ UNCHANGED <<holder, sync>>
  BY DEF RollbackOurBlock
<1>2. Sound(db) /\ Height(db) = db.info.id /\ db.info.id \in Nat /\ db.info.id >= 1 /\ msgs \in SUBSET Tx
  <2>1. Sound(db) /\ msgs \in SUBSET Tx
    BY DatabasesSound DEF IInv, TypeOK
  <2>2. ChainOK(db) /\ db.info.id \in Nat \ {0}
    BY <2>1 DEF Sound, ChainOK
  <2> QED
    BY <2>1, <2>2, HeightIsInfoID
<1>3. CASE EndUpdate /\ UNCHANGED db
  BY <1>1, <1>2, <1>3, EndUpdateInv
<1>4. CASE db.info.id # 1 /\ db' = RollbackBlock(db) /\ UNCHANGED <<holder, sync>>
  <2>1. Sound(db') /\ db'.info.id = db.info.id - 1
    BY <1>2, <1>4, RollbackBlockSound
  <2>2. sync.from \in Nat /\ db'.info.id >= sync.from - 1
    BY <1>1, <1>2, <2>1 DEF IInv, SyncOK
  <2>3. SyncOK'
    BY <1>1, <1>4, <2>2 DEF IInv, SyncOK, Received
  <2> QED
    BY <1>1, <1>2, <1>4, <2>1, <2>3, GoOnInv
<1> QED
  BY <1>1, <1>2, <1>3, <1>4

LEMMA PlayNewBlocksInv == ASSUME IInv, PlayNewBlocks PROVE IInv'
<1> DEFINE r == ProcessBlocks(db, msgs, sync.blocks, now)
<1>1. /\ sync.at = "rollback" /\ Height(db) < sync.from
      /\ db' = r.db /\ msgs' = r.msgs /\ EndUpdate
      /\ UNCHANGED <<coll, blocksQ, wanted, remote, now, crashes>>
  BY DEF PlayNewBlocks
<1>2. Sound(db) /\ Height(db) = db.info.id /\ db.info.id \in Nat /\ msgs \in SUBSET Tx
  BY DatabasesSound, HeightIsInfoID DEF Sound, ChainOK, IInv, TypeOK
<1>3. /\ sync.from \in Nat /\ db.info.id >= sync.from - 1
      /\ Received(sync.blocks)
      /\ \A i \in DOMAIN sync.blocks : sync.blocks[i].id = sync.from + i - 1
  BY <1>1 DEF IInv, SyncOK
<1>4. sync.from = db.info.id + 1
  BY <1>1, <1>2, <1>3
<1>5. DOMAIN sync.blocks = 1..Len(sync.blocks)
  BY <1>3, LenProperties DEF Received
<1>6. \A i \in DOMAIN sync.blocks : sync.blocks[i].id = db.info.id + i
  BY <1>2, <1>3, <1>4, <1>5
<1>7. Sound(r.db) /\ r.msgs \in SUBSET Tx
  BY <1>2, <1>3, <1>6, ProcessBlocksSound
<1> QED
  BY <1>1, <1>7, EndUpdateInv

-----------------------------------------------------------------------------
(* The environment.                                                          *)

\* A crash leaves what is committed.
LEMMA CrashInv == ASSUME IInv, Crash PROVE IInv'
<1>1. /\ crashes < MaxCrashes /\ crashes' = crashes + 1 /\ msgs' = {}
      /\ holder' = None /\ coll' = NotLooking /\ sync' = Idle /\ wanted' = {}
      /\ UNCHANGED <<db, blocksQ, remote, now>>
  BY DEF Crash
<1>2. SyncOK'
  BY <1>1 DEF SyncOK, Idle
<1>3. TypeOK'
  BY <1>1, NodeAssumption DEF IInv, TypeOK, Idle, NotLooking
<1> QED
  BY <1>1, <1>2, <1>3 DEF IInv

LEMMA TickInv == ASSUME IInv, Tick PROVE IInv'
<1>1. now < MaxSlot /\ now' = now + 1
      /\ UNCHANGED <<db, msgs, holder, coll, sync, blocksQ, wanted, remote, crashes>>
  BY DEF Tick
<1>2. SyncOK'
  BY <1>1 DEF IInv, SyncOK, Received
<1>3. TypeOK'
  BY <1>1, NodeAssumption DEF IInv, TypeOK
<1> QED
  BY <1>1, <1>2, <1>3 DEF IInv

\* Only the database of host h changes.
LEMMA RemoteChangeInv ==
    ASSUME IInv, NEW h \in Hosts, NEW e, Sound(e),
           remote' = [remote EXCEPT ![h] = e],
           UNCHANGED <<db, msgs, holder, coll, sync, blocksQ, wanted, now, crashes>>
    PROVE  IInv'
<1>1. DOMAIN remote' = Hosts /\ \A g \in Hosts : Sound(remote'[g])
  BY DatabasesSound DEF IInv
<1>2. SyncOK' /\ TypeOK'
  BY DEF IInv, SyncOK, Received, TypeOK
<1> QED
  BY <1>1, <1>2 DEF IInv, Sound

LEMMA RemoteGeneratesInv == ASSUME IInv, NEW h \in Hosts, RemoteGenerates(h) PROVE IInv'
<1> DEFINE d == remote[h]
<1>1. PICK slot \in now..now + Skew, t \in Tx :
        /\ CheckTime(t, slot)
        /\ remote' = [remote EXCEPT ![h] = PlaySafe(d, {}, NewBlock(d, slot, h, <<t>>), FALSE, 1).db]
  BY DEF RemoteGenerates
<1> DEFINE blk == NewBlock(d, slot, h, <<t>>)
<1>2. Sound(d)
  BY DatabasesSound
<1>3. blk.id = d.info.id + 1 /\ SignOK(blk, HeaderOf(d.chain[d.info.id]))
  BY <1>2 DEF NewBlock, SignOK, Sound, ChainOK
<1>4. {} \in SUBSET Tx /\ FALSE \in BOOLEAN
  OBVIOUS
<1>5. remote' = [remote EXCEPT ![h] = PlaySafe(d, {}, blk, FALSE, 1).db]
  BY <1>1
<1>8. /\ blk.txs \in Seq(Tx) /\ Len(blk.txs) = 1 /\ 1 \in 0..Len(blk.txs)
      /\ \A u \in ToSet(blk.txs) : CheckTime(u, blk.time)
  BY <1>1 DEF NewBlock, ToSet
<1> HIDE DEF blk, d
<1>6. Sound(PlaySafe(d, {}, blk, FALSE, 1).db)
  BY <1>2, <1>3, <1>4, <1>8, PlaySafeSound
<1>7. UNCHANGED <<db, msgs, holder, coll, sync, blocksQ, wanted, now, crashes>>
  BY DEF RemoteGenerates
<1> QED
  BY <1>5, <1>6, <1>7, RemoteChangeInv

LEMMA RemoteFollowsInv == ASSUME IInv, NEW h \in Hosts, RemoteFollows(h) PROVE IInv'
<1> DEFINE e(d) == [GenesisDB EXCEPT !.chain = d.chain, !.info = d.info,
                      !.log = d.log, !.undo = d.undo, !.data = d.data]
<1>1. PICK d \in {db} \cup {remote[g] : g \in Hosts} : remote' = [remote EXCEPT ![h] = e(d)]
  BY DEF RemoteFollows
<1>2. Sound(d)
  BY <1>1, DatabasesSound
<1>3. /\ DOMAIN e(d) = {"chain", "info", "log", "status", "pool", "verified", "queue", "undo", "data"}
      /\ e(d).chain = d.chain /\ e(d).info = d.info /\ e(d).log = d.log
      /\ e(d).status = [t \in Tx |-> 0]
      /\ e(d).pool = {} /\ e(d).verified = {} /\ e(d).queue = {}
  BY DEF GenesisDB
<1> HIDE DEF e
<1>4. Tables(e(d))
  BY <1>2, <1>3 DEF Sound, Tables
<1>5. ChainOK(e(d))
  BY <1>2, <1>3 DEF Sound, ChainOK
<1>7. LogOK(e(d))
  BY <1>2, <1>3, SameLog
<1>6. UNCHANGED <<db, msgs, holder, coll, sync, blocksQ, wanted, now, crashes>>
  BY DEF RemoteFollows
<1> QED
  BY <1>1, <1>4, <1>5, <1>6, <1>7, RemoteChangeInv DEF Sound

-----------------------------------------------------------------------------
(* The theorems.                                                             *)

LEMMA NextInv == IInv /\ [Next]_vars => IInv'
<1> SUFFICES ASSUME IInv, [Next]_vars PROVE IInv'
  OBVIOUS
<1>1. CASE BlockGenerator
  BY <1>1, BlockGeneratorInv
<1>2. CASE QueueParserTx
  BY <1>2, QueueParserTxInv
<1>3. CASE LookForMaxBlock
  BY <1>3, LookForMaxBlockInv
<1>4. CASE BlocksCollection
  BY <1>4, BlocksCollectionInv
<1>5. CASE QueueParserBlocks
  BY <1>5, QueueParserBlocksInv
<1>6. CASE Sync
  BY <1>6, FetchBlocksInv, PlayRawBlockInv, GetBlocksInv, RollbackOurBlockInv, PlayNewBlocksInv DEF Sync
<1>7. CASE Environment
  <2>1. CASE \E t \in Tx : AskTransaction(t) \/ SaveTransaction(t)
    BY <2>1, AskTransactionInv, SaveTransactionInv
  <2>2. CASE \E h \in Hosts : AnnounceBlock(h) \/ RemoteGenerates(h) \/ RemoteFollows(h)
    BY <2>2, AnnounceBlockInv, RemoteGeneratesInv, RemoteFollowsInv
  <2>3. CASE Tick
    BY <2>3, TickInv
  <2>4. CASE Crash
    BY <2>4, CrashInv
  <2> QED
    BY <1>7, <2>1, <2>2, <2>3, <2>4 DEF Environment
<1>8. CASE UNCHANGED vars
  BY <1>8 DEF vars, IInv, TypeOK, SyncOK, Received
<1> QED
  BY <1>1, <1>2, <1>3, <1>4, <1>5, <1>6, <1>7, <1>8 DEF Next

\* The inductive invariant: the node, the hosts and the blocks on their way between them
\* are sound in every state, for any number of hosts, transactions, slots and crashes.
THEOREM Invariant == Spec => []IInv
<1> QED
  BY InitInv, NextInv, PTL DEF Spec

\* Every variable keeps its type, and DBLock is held exactly while an update of the chain
\* is in progress: no return of UpdateChain and ReplaceBlocksFromHost leaves it locked.
THEOREM TypeCorrect == Spec => []TypeOK
<1>1. IInv => TypeOK
  BY DEF IInv
<1> QED
  BY <1>1, Invariant, PTL

\* info_block is the header of the last block and the ids have no gap, between the steps of
\* a replacement and after a crash as well.
THEOREM InfoFollowsChain == Spec => []InfoIsLastBlock
<1>1. IInv => InfoIsLastBlock
  BY DEF IInv, ChainOK, InfoIsLastBlock
<1> QED
  BY <1>1, Invariant, PTL

\* Every block of the chain is signed over its predecessor and the predecessor's rollbacks
\* hash, however many forks, replacements and crashes have made it.
THEOREM ChainStaysLinked == Spec => []ChainLinked
<1>1. IInv => ChainLinked
  BY DEF IInv, ChainOK, ChainLinked
<1> QED
  BY <1>1, Invariant, PTL

\* Two blocks of one position never share a slot: the table is looked at again by PlaySafe
\* just before the block is inserted, and the rest of processBlocks adds one block at most.
THEOREM OneBlockEach == Spec => []OneBlockForTime
<1>1. IInv => OneBlockForTime
  BY DEF IInv, ChainOK, OneBlockForTime
<1> QED
  BY <1>1, Invariant, PTL

\* log_transactions and the chain agree on every transaction, so no transaction is in two
\* blocks: a block that brings one of the log is refused by the primary key, a generated
\* block holds only what was played, and a block that leaves takes its rows with it.
THEOREM LogFollowsChain == Spec => []LogIsChain
<1>1. IInv => LogIsChain
  BY DEF IInv, LogOK, LogIsChain
<1> QED
  BY <1>1, Invariant, PTL

\* No transaction was executed in a slot outside its time, in the blocks the node made and
\* in those it took over from a host.
THEOREM TransactionsInTime == Spec => []TxInTime
<1>1. IInv => TxInTime
  BY DEF IInv, LogOK, TxInTime
<1> QED
  BY <1>1, Invariant, PTL

\* No replacement takes more than rb_blocks_1 of our blocks off the chain.
THEOREM ReplacementStaysBounded == Spec => []ReplacementBounded
<1>1. IInv => ReplacementBounded
  <2>1. ASSUME IInv, sync.at = "rollback"
        PROVE  db.info.id >= Head(sync.raw).id - 1 - (IF sync.blocks = <<>> THEN 1 ELSE RbBlocks1)
    <3>1. /\ sync.from \in Nat /\ db.info.id >= sync.from - 1 /\ db.info.id \in Nat
          /\ Head(sync.raw).id \in Int
          /\ Head(sync.raw).id <= sync.from + (IF sync.blocks = <<>> THEN 1 ELSE RbBlocks1)
      BY <2>1 DEF IInv, SyncOK, ChainOK
    <3> QED
      BY SMTT(30), <3>1, NodeAssumption
  <2> QED
    BY <2>1 DEF ReplacementBounded
<1> QED
  BY <1>1, Invariant, PTL

-----------------------------------------------------------------------------
(* The contract tables and rollback_tx: what executing a block adds to them  *)
(* and what rolling it back leaves.                                          *)

Values == {<<>>} \cup (Tx \X Nat)
Rows == [id : Nat, block : Nat, tx : Tx, key : Key, old : Values]
States == [data : [Key -> Values], undo : Seq(Rows)]

\* The blocks that can be executed.
Playable(blk) == blk.id \in Nat /\ blk.txs \in Seq(Tx)

\* What holds at 0 and of a number with its predecessor holds up to n.
LEMMA AllOf ==
    ASSUME NEW S, NEW n \in Nat, NEW w, w[0] \in S,
           \A i \in 1..n : w[i-1] \in S => w[i] \in S
    PROVE  \A i \in 0..n : w[i] \in S
<1> DEFINE P == {i \in 0..n : w[i] \in S}
<1>1. 0 \in P
  OBVIOUS
<1>2. ASSUME NEW i \in 0..n-1, i \in P PROVE i + 1 \in P
  <2>1. i + 1 \in 1..n /\ (i + 1) - 1 = i /\ i + 1 \in 0..n
    OBVIOUS
  <2> QED
    BY <1>2, <2>1
<1> HIDE DEF P
<1>3. ASSUME NEW i \in 0..n PROVE w[i] \in S
  <2>1. i \in Nat /\ \A j \in 0..i-1 : j \in 0..n-1
    OBVIOUS
  <2>2. i \in P
    BY <1>1, <1>2, <2>1, UpTo
  <2> QED
    BY <2>2 DEF P
<1> QED
  BY <1>3

LEMMA WriteType ==
    ASSUME NEW s \in States, NEW id \in Nat, NEW t \in Tx, NEW j \in 1..Len(Writes[t])
    PROVE  Write(s, id, t, j) \in States
<1>1. Writes[t] \in Seq(Key) /\ j \in Nat
  BY TxAssumption
<1> DEFINE k == Writes[t][j]
           r == [id |-> Len(s.undo) + 1, block |-> id, tx |-> t, key |-> k, old |-> s.data[k]]
<1>2. k \in Key
  BY <1>1
<1>3. s.data \in [Key -> Values] /\ s.undo \in Seq(Rows) /\ <<t, j>> \in Values
  BY <1>1 DEF States, Values
<1>4. r \in Rows
  BY <1>2, <1>3 DEF Rows
<1>5. Write(s, id, t, j) = [data |-> [s.data EXCEPT ![k] = <<t, j>>], undo |-> Append(s.undo, r)]
  BY DEF Write
<1> HIDE DEF k, r
<1> QED
  BY <1>2, <1>3, <1>4, <1>5 DEF States

\* A transaction, write by write.
LEMMA ExecuteTxSteps ==
    ASSUME NEW s \in States, NEW id \in Nat, NEW t \in Tx
    PROVE  \E w : /\ ExecuteTx(s, id, t) = w[Len(Writes[t])]
                  /\ w[0] = s
                  /\ \A j \in 0..Len(Writes[t]) : w[j] \in States
                  /\ \A j \in 1..Len(Writes[t]) : w[j] = Write(w[j-1], id, t, j)
<1> DEFINE n == Len(Writes[t])
           step == [j \in 1..n |-> [x \in States |-> Write(x, id, t, j)]]
<1>1. n \in Nat
  BY TxAssumption
<1>2. step \in [1..n -> [States -> States]]
  BY <1>1, WriteType
<1>3. \A j \in 1..n, x \in States : step[j][x] = Write(x, id, t, j)
  OBVIOUS
<1> HIDE DEF step, n
<1>4. PICK f : Recurs(f, States, n, s, step)
  BY <1>1, <1>2, Recursion
<1>5. /\ f \in [0..n -> States] /\ f[0] = s
      /\ \A j \in 1..n : f[j] = Write(f[j-1], id, t, j)
  <2>1. ASSUME NEW j \in 1..n PROVE f[j] = Write(f[j-1], id, t, j)
    <3>1. j - 1 \in 0..n
      BY <1>1
    <3> QED
      BY <1>3, <1>4, <3>1 DEF Recurs
  <2> QED
    BY <1>4, <2>1 DEF Recurs
<1> DEFINE Is(g) == g = [j \in 0..n |-> IF j = 0 THEN s ELSE Write(g[j-1], id, t, j)]
<1>6. Is(f)
  <2>1. \A j \in 0..n : f[j] = IF j = 0 THEN s ELSE Write(f[j-1], id, t, j)
    BY <1>1, <1>5
  <2> QED
    BY <1>5, <2>1
<1> HIDE DEF Is
<1> DEFINE w == CHOOSE g : Is(g)
<1>7. Is(w)
  BY <1>6
<1>8. ExecuteTx(s, id, t) = w[n]
  BY DEF ExecuteTx, n, Is
<1> HIDE DEF w
<1>9. w[0] = s /\ \A j \in 1..n : w[j] = Write(w[j-1], id, t, j)
  BY <1>1, <1>7 DEF Is
<1>10. ASSUME NEW j \in 1..n, w[j-1] \in States PROVE w[j] \in States
  BY <1>9, <1>10, WriteType DEF n
<1>11. \A j \in 0..n : w[j] \in States
  BY <1>1, <1>9, <1>10, AllOf
<1> QED
  BY <1>8, <1>9, <1>11 DEF n

LEMMA ExecuteTxType ==
    ASSUME NEW s \in States, NEW id \in Nat, NEW t \in Tx
    PROVE  ExecuteTx(s, id, t) \in States
<1>1. Len(Writes[t]) \in 0..Len(Writes[t])
  BY TxAssumption
<1> QED
  BY <1>1, ExecuteTxSteps

\* A block, transaction by transaction.
LEMMA ExecuteBlockSteps ==
    ASSUME NEW s \in States, NEW blk, Playable(blk)
    PROVE  \E w : /\ ExecuteBlock(s, blk) = w[Len(blk.txs)]
                  /\ w[0] = s
                  /\ \A i \in 0..Len(blk.txs) : w[i] \in States
                  /\ \A i \in 1..Len(blk.txs) : w[i] = ExecuteTx(w[i-1], blk.id, blk.txs[i])
<1> DEFINE n == Len(blk.txs)
           step == [i \in 1..n |-> [x \in States |-> ExecuteTx(x, blk.id, blk.txs[i])]]
<1>1. n \in Nat /\ blk.id \in Nat /\ \A i \in 1..n : blk.txs[i] \in Tx
  BY DEF Playable
<1>2. step \in [1..n -> [States -> States]]
  BY <1>1, ExecuteTxType
<1>3. \A i \in 1..n, x \in States : step[i][x] = ExecuteTx(x, blk.id, blk.txs[i])
  OBVIOUS
<1> HIDE DEF step, n
<1>4. PICK f : Recurs(f, States, n, s, step)
  BY <1>1, <1>2, Recursion
<1>5. /\ f \in [0..n -> States] /\ f[0] = s
      /\ \A i \in 1..n : f[i] = ExecuteTx(f[i-1], blk.id, blk.txs[i])
  <2>1. ASSUME NEW i \in 1..n PROVE f[i] = ExecuteTx(f[i-1], blk.id, blk.txs[i])
    <3>1. i - 1 \in 0..n
      BY <1>1
    <3> QED
      BY <1>3, <1>4, <3>1 DEF Recurs
  <2> QED
    BY <1>4, <2>1 DEF Recurs
<1> DEFINE Is(g) == g = [i \in 0..n |->
                           IF i = 0 THEN s ELSE ExecuteTx(g[i-1], blk.id, blk.txs[i])]
<1>6. Is(f)
  <2>1. \A i \in 0..n : f[i] = IF i = 0 THEN s ELSE ExecuteTx(f[i-1], blk.id, blk.txs[i])
    BY <1>1, <1>5
  <2> QED
    BY <1>5, <2>1
<1> HIDE DEF Is
<1> DEFINE w == CHOOSE g : Is(g)
<1>7. Is(w)
  BY <1>6
<1>8. ExecuteBlock(s, blk) = w[n]
  BY DEF ExecuteBlock, n, Is
<1> HIDE DEF w
<1>9. w[0] = s /\ \A i \in 1..n : w[i] = ExecuteTx(w[i-1], blk.id, blk.txs[i])
  BY <1>1, <1>7 DEF Is
<1>10. ASSUME NEW i \in 1..n, w[i-1] \in States PROVE w[i] \in States
  BY <1>1, <1>9, <1>10, ExecuteTxType
<1>11. \A i \in 0..n : w[i] \in States
  BY <1>1, <1>9, <1>10, AllOf
<1> QED
  BY <1>8, <1>9, <1>11 DEF n

LEMMA ExecuteBlockType ==
    ASSUME NEW s \in States, NEW blk, Playable(blk)
    PROVE  ExecuteBlock(s, blk) \in States
<1>1. Len(blk.txs) \in 0..Len(blk.txs)
  BY DEF Playable
<1> QED
  BY <1>1, ExecuteBlockSteps

\* A list of blocks, block by block.
LEMMA ExecuteSteps ==
    ASSUME NEW d, DataAndUndo(d) \in States, NEW n \in Nat, NEW l, Len(l) = n,
           \A i \in 1..n : Playable(l[i])
    PROVE  \E w : /\ Execute(d, l) = w[n]
                  /\ w[0] = DataAndUndo(d)
                  /\ \A i \in 0..n : w[i] \in States
                  /\ \A i \in 1..n : w[i] = ExecuteBlock(w[i-1], l[i])
<1> DEFINE s == DataAndUndo(d)
           step == [i \in 1..n |-> [x \in States |-> ExecuteBlock(x, l[i])]]
<1>2. step \in [1..n -> [States -> States]]
  BY ExecuteBlockType
<1>3. \A i \in 1..n, x \in States : step[i][x] = ExecuteBlock(x, l[i])
  OBVIOUS
<1> HIDE DEF step, s
<1>4. PICK f : Recurs(f, States, n, s, step)
  BY <1>2, Recursion DEF s
<1>5. /\ f \in [0..n -> States] /\ f[0] = s
      /\ \A i \in 1..n : f[i] = ExecuteBlock(f[i-1], l[i])
  <2>1. ASSUME NEW i \in 1..n PROVE f[i] = ExecuteBlock(f[i-1], l[i])
    <3>1. i - 1 \in 0..n
      OBVIOUS
    <3> QED
      BY <1>3, <1>4, <3>1 DEF Recurs
  <2> QED
    BY <1>4, <2>1 DEF Recurs
<1> DEFINE Is(g) == g = [i \in 0..n |-> IF i = 0 THEN s ELSE ExecuteBlock(g[i-1], l[i])]
<1>6. Is(f)
  <2>1. \A i \in 0..n : f[i] = IF i = 0 THEN s ELSE ExecuteBlock(f[i-1], l[i])
    BY <1>5
  <2> QED
    BY <1>5, <2>1
<1> HIDE DEF Is
<1> DEFINE w == CHOOSE g : Is(g)
<1>7. Is(w)
  BY <1>6
<1>8. Execute(d, l) = w[n]
  BY DEF Execute, Is, s, DataAndUndo
<1> HIDE DEF w
<1>9. w[0] = s /\ \A i \in 1..n : w[i] = ExecuteBlock(w[i-1], l[i])
  BY <1>7 DEF Is
<1>10. ASSUME NEW i \in 1..n, w[i-1] \in States PROVE w[i] \in States
  BY <1>9, <1>10, ExecuteBlockType
<1>11. \A i \in 0..n : w[i] \in States
  BY <1>9, <1>10, AllOf DEF s
<1> QED
  BY <1>8, <1>9, <1>11 DEF s

LEMMA UndoRowType ==
    ASSUME NEW x \in [Key -> Values], NEW r \in Rows
    PROVE  UndoRow(x, r) \in [Key -> Values]
BY DEF UndoRow, Rows

\* The rollback of t over the n rows of u, row by row, the last first.
TakenBack(g, u, n, t) ==
    \A k \in 1..n :
      g[k] = IF u[n+1-k].tx = t THEN UndoRow(g[k-1], u[n+1-k]) ELSE g[k-1]

LEMMA RollbackSteps ==
    ASSUME NEW s \in States, NEW t
    PROVE  \E g : /\ rollbackTransaction(s, t).data = g[Len(s.undo)]
                  /\ g[0] = s.data
                  /\ TakenBack(g, s.undo, Len(s.undo), t)
<1> DEFINE n == Len(s.undo)
           D == [Key -> Values]
           row(k) == s.undo[n+1-k]
           step == [k \in 1..n |->
                      [x \in D |-> IF row(k).tx = t THEN UndoRow(x, row(k)) ELSE x]]
<1>1. s.data \in D /\ s.undo \in Seq(Rows) /\ n \in Nat
  BY DEF States
<1>2. \A k \in 1..n : row(k) \in Rows
  <2>1. \A k \in 1..n : n+1-k \in 1..n
    BY <1>1
  <2> QED
    BY <1>1, <2>1
<1>3. step \in [1..n -> [D -> D]]
  BY <1>2, UndoRowType
<1>4. \A k \in 1..n, x \in D : step[k][x] = IF row(k).tx = t THEN UndoRow(x, row(k)) ELSE x
  OBVIOUS
<1> HIDE DEF step, D, n, row
<1>5. PICK f : Recurs(f, D, n, s.data, step)
  BY <1>1, <1>3, Recursion
<1>6. /\ f \in [0..n -> D] /\ f[0] = s.data
      /\ \A k \in 1..n : f[k] = IF row(k).tx = t THEN UndoRow(f[k-1], row(k)) ELSE f[k-1]
  <2>1. ASSUME NEW k \in 1..n
        PROVE  f[k] = IF row(k).tx = t THEN UndoRow(f[k-1], row(k)) ELSE f[k-1]
    <3>1. k - 1 \in 0..n
      BY <1>1
    <3> QED
      BY <1>4, <1>5, <3>1 DEF Recurs
  <2> QED
    BY <1>5, <2>1 DEF Recurs
<1> DEFINE Is(g) == g = [k \in 0..n |->
                          IF k = 0 THEN s.data
                          ELSE IF row(k).tx = t THEN UndoRow(g[k-1], row(k)) ELSE g[k-1]]
<1>7. Is(f)
  <2>1. \A k \in 0..n : f[k] = IF k = 0 THEN s.data
                               ELSE IF row(k).tx = t THEN UndoRow(f[k-1], row(k)) ELSE f[k-1]
    BY <1>1, <1>6
  <2> QED
    BY <1>6, <2>1
<1> HIDE DEF Is
<1> DEFINE g == CHOOSE h : Is(h)
<1>8. Is(g)
  BY <1>7
<1>9. rollbackTransaction(s, t).data = g[n]
  BY DEF rollbackTransaction, n, Is, row
<1> HIDE DEF g
<1>10. g[0] = s.data /\ \A k \in 1..n : g[k] = IF row(k).tx = t THEN UndoRow(g[k-1], row(k)) ELSE g[k-1]
  BY <1>1, <1>8 DEF Is
<1> QED
  BY <1>9, <1>10 DEF n, row, TakenBack

\* Deleting the rows of t that are all at the end.
LEMMA RowsDeleted ==
    ASSUME NEW s \in States, NEW t, NEW q \in Seq(Rows), Len(q) <= Len(s.undo),
           \A i \in 1..Len(q) : s.undo[i] = q[i] /\ q[i].tx # t,
           \A i \in Len(q)+1..Len(s.undo) : s.undo[i].tx = t
    PROVE  rollbackTransaction(s, t).undo = q
<1> DEFINE u == s.undo
           T == {r \in ToSet(u) : r.tx # t}
           m == Len(q)
           n == Len(u)
<1>1. u \in Seq(Rows) /\ m \in Nat /\ n \in Nat /\ m <= n
  BY DEF States
<1>2. rollbackTransaction(s, t).undo = Only(u, T)
  BY DEF rollbackTransaction
<1>3. \A i \in 1..n : u[i] \in T <=> i \in 1..m
  <2>1. \A i \in 1..n : u[i] \in ToSet(u)
    BY <1>1 DEF ToSet
  <2>2. \A i \in 1..n : i \in 1..m \/ i \in m+1..n
    BY <1>1
  <2>3. \A i \in m+1..n : i \notin 1..m
    BY <1>1
  <2> QED
    BY <2>1, <2>2, <2>3
<1>4. \A i \in 1..m : u[i] = q[i]
  OBVIOUS
<1>5. PICK only : /\ Only(u, T) = only[n]
                  /\ only[0] = <<>>
                  /\ \A i \in 1..n :
                       only[i] = IF u[i] \in T THEN Append(only[i-1], u[i]) ELSE only[i-1]
  <2> HIDE DEF u, T
  <2> QED
    BY <1>1, OnlySteps DEF n
<1>11. \A i \in 1..m : q[i] \in Rows
  OBVIOUS
<1> HIDE DEF u, T, m, n
<1> DEFINE P == {i \in 0..n : /\ only[i] \in Seq(Rows)
                              /\ Len(only[i]) = IF i < m THEN i ELSE m
                              /\ \A j \in 1..Len(only[i]) : only[i][j] = q[j]}
<1>6. 0 \in P
  <2>1. only[0] \in Seq(Rows) /\ Len(only[0]) = 0 /\ 0 \in 0..n
    BY <1>1, <1>5
  <2> QED
    BY <1>1, <2>1
<1>7. ASSUME NEW i \in 0..n-1, i \in P PROVE i + 1 \in P
  <2>1. i + 1 \in 1..n /\ (i + 1) - 1 = i /\ i + 1 \in 0..n /\ i \in Nat
    BY <1>1
  <2>2. only[i] \in Seq(Rows) /\ \A j \in 1..Len(only[i]) : only[i][j] = q[j]
    BY <1>7
  <2>3. CASE i + 1 \in 1..m
    <3>1. only[i+1] = Append(only[i], q[i+1]) /\ q[i+1] \in Rows
      <4>1. u[i+1] \in T /\ u[i+1] = q[i+1] /\ q[i+1] \in Rows
        BY <1>3, <1>4, <1>11, <2>1, <2>3
      <4> QED
        BY <1>5, <2>1, <4>1
    <3>2. Len(only[i]) = i
      BY <1>1, <1>7, <2>1, <2>3
    <3>3. /\ only[i+1] \in Seq(Rows) /\ Len(only[i+1]) = i + 1
          /\ \A j \in 1..i : only[i+1][j] = only[i][j]
          /\ only[i+1][i+1] = q[i+1]
      BY <2>1, <2>2, <3>1, <3>2
    <3>4. \A j \in 1..i+1 : j \in 1..i \/ j = i + 1
      BY <2>1
    <3>5. Len(only[i+1]) = IF i + 1 < m THEN i + 1 ELSE m
      BY <1>1, <2>1, <2>3, <3>3
    <3>6. \A j \in 1..Len(only[i+1]) : only[i+1][j] = q[j]
      BY <2>2, <3>2, <3>3, <3>4
    <3> QED
      BY <2>1, <3>3, <3>5, <3>6
  <2>4. CASE i + 1 \notin 1..m
    <3>1. only[i+1] = only[i]
      BY <1>3, <1>5, <2>1, <2>4
    <3>2. ~ (i < m) /\ ~ (i + 1 < m)
      BY <1>1, <2>1, <2>4
    <3>3. Len(only[i]) = IF i < m THEN i ELSE m
      BY <1>7
    <3> QED
      BY <2>1, <2>2, <3>1, <3>2, <3>3
  <2> QED
    BY <2>3, <2>4
<1> HIDE DEF P
<1>8. n \in P
  BY <1>1, <1>6, <1>7, UpTo
<1>9. only[n] \in Seq(Rows) /\ Len(only[n]) = m /\ \A j \in 1..m : only[n][j] = q[j]
  BY <1>1, <1>8 DEF P
<1>10. only[n] = q
  BY <1>9, SeqEqual DEF m
<1> QED
  BY <1>2, <1>5, <1>10

\* One write, as it is undone.
LEMMA WriteUndone ==
    ASSUME NEW s \in States, NEW id \in Nat, NEW t \in Tx, NEW j \in 1..Len(Writes[t]),
           NEW e, e = Write(s, id, t, j)
    PROVE  /\ e \in States
           /\ Len(s.undo) \in Nat /\ Len(e.undo) = Len(s.undo) + 1
           /\ \A i \in 1..Len(s.undo) : e.undo[i] = s.undo[i]
           /\ e.undo[Len(s.undo)+1].tx = t
           /\ UndoRow(e.data, e.undo[Len(s.undo)+1]) = s.data
<1> DEFINE k == Writes[t][j]
           r == [id |-> Len(s.undo) + 1, block |-> id, tx |-> t, key |-> k, old |-> s.data[k]]
<1>1. Writes[t] \in Seq(Key)
  BY TxAssumption
<1>2. k \in Key
  BY <1>1
<1>3. s.data \in [Key -> Values] /\ s.undo \in Seq(Rows)
  BY DEF States
<1>4. e \in States
  BY WriteType
<1>5. e.data = [s.data EXCEPT ![k] = <<t, j>>] /\ e.undo = Append(s.undo, r)
  BY DEF Write
<1>6. r.tx = t /\ r.key = k /\ r.old = s.data[k]
  OBVIOUS
<1> HIDE DEF k, r
<1>7. /\ Len(s.undo) \in Nat /\ Len(e.undo) = Len(s.undo) + 1
      /\ \A i \in 1..Len(s.undo) : e.undo[i] = s.undo[i]
      /\ e.undo[Len(s.undo)+1] = r
  BY <1>3, <1>5
<1>8. UndoRow(e.data, r) = s.data
  <2>1. UndoRow(e.data, r) = [e.data EXCEPT ![k] = s.data[k]]
    BY <1>6 DEF UndoRow
  <2>2. [[s.data EXCEPT ![k] = <<t, j>>] EXCEPT ![k] = s.data[k]] = s.data
    BY <1>2, <1>3
  <2> QED
    BY <1>5, <2>1, <2>2
<1> QED
  BY <1>4, <1>6, <1>7, <1>8

\* The states of n writes of t: the m rows of the first, and then one of t for each write.
Wrote(w, m, t, n) ==
    \A j \in 0..n :
      /\ w[j] \in States /\ Len(w[j].undo) = m + j
      /\ \A i \in 1..m : w[j].undo[i] = w[0].undo[i]
      /\ \A i \in 1..j : /\ w[j].undo[m+i].tx = t
                         /\ UndoRow(w[i].data, w[j].undo[m+i]) = w[i-1].data

LEMMA ExecuteTxRows ==
    ASSUME NEW s \in States, NEW id \in Nat, NEW t \in Tx
    PROVE  \E w : /\ ExecuteTx(s, id, t) = w[Len(Writes[t])]
                  /\ w[0] = s
                  /\ Wrote(w, Len(s.undo), t, Len(Writes[t]))
<1> DEFINE n == Len(Writes[t])
           m == Len(s.undo)
<1>1. PICK w : /\ ExecuteTx(s, id, t) = w[n]
               /\ w[0] = s
               /\ \A j \in 0..n : w[j] \in States
               /\ \A j \in 1..n : w[j] = Write(w[j-1], id, t, j)
  BY ExecuteTxSteps
<1>2. n \in Nat /\ m \in Nat
  BY TxAssumption DEF States
<1> DEFINE P == {j \in 0..n : /\ Len(w[j].undo) = m + j
                              /\ \A i \in 1..m : w[j].undo[i] = s.undo[i]
                              /\ \A i \in 1..j :
                                   /\ w[j].undo[m+i].tx = t
                                   /\ UndoRow(w[i].data, w[j].undo[m+i]) = w[i-1].data}
<1>3. 0 \in P
  BY <1>1, <1>2
<1>4. ASSUME NEW j \in 0..n-1, j \in P PROVE j + 1 \in P
  <2>1. j \in 0..n /\ j + 1 \in 1..n /\ (j + 1) - 1 = j /\ j + 1 \in 0..n /\ j \in Nat
    BY <1>2
  <2>2. /\ Len(w[j].undo) = m + j
        /\ \A i \in 1..m : w[j].undo[i] = s.undo[i]
        /\ \A i \in 1..j : /\ w[j].undo[m+i].tx = t
                           /\ UndoRow(w[i].data, w[j].undo[m+i]) = w[i-1].data
    BY <1>4
  <2>3. w[j] \in States /\ w[j+1] = Write(w[j], id, t, j + 1)
    BY <1>1, <2>1
  <2> DEFINE v == w[j]
             e == w[j+1]
  <2>8. v \in States /\ e = Write(v, id, t, j + 1) /\ j + 1 \in 1..Len(Writes[t])
    BY <2>1, <2>3
  <2> HIDE DEF v, e
  <2>9. /\ Len(e.undo) = Len(v.undo) + 1
        /\ \A i \in 1..Len(v.undo) : e.undo[i] = v.undo[i]
        /\ e.undo[Len(v.undo)+1].tx = t
        /\ UndoRow(e.data, e.undo[Len(v.undo)+1]) = v.data
    BY <2>8, WriteUndone
  <2>4. /\ Len(w[j+1].undo) = Len(w[j].undo) + 1
        /\ \A i \in 1..Len(w[j].undo) : w[j+1].undo[i] = w[j].undo[i]
        /\ w[j+1].undo[Len(w[j].undo)+1].tx = t
        /\ UndoRow(w[j+1].data, w[j+1].undo[Len(w[j].undo)+1]) = w[j].data
    BY <2>9 DEF v, e
  <2> HIDE DEF m, n, P
  <2>5. Len(w[j+1].undo) = m + (j + 1) /\ (m + j) + 1 = m + (j + 1)
    BY <1>2, <2>1, <2>2, <2>4
  <2>6. \A i \in 1..m : w[j+1].undo[i] = s.undo[i]
    <3>1. \A i \in 1..m : i \in 1..m+j
      BY <1>2, <2>1
    <3> QED
      BY <2>2, <2>4, <3>1
  <2>7. ASSUME NEW i \in 1..j+1
        PROVE  /\ w[j+1].undo[m+i].tx = t
               /\ UndoRow(w[i].data, w[j+1].undo[m+i]) = w[i-1].data
    <3>1. CASE i \in 1..j
      <4>1. m + i \in 1..m+j
        BY <1>2, <2>1, <3>1
      <4>2. w[j+1].undo[m+i] = w[j].undo[m+i]
        BY <2>2, <2>4, <4>1
      <4> QED
        BY <2>2, <3>1, <4>2
    <3>2. CASE i = j + 1
      BY <2>1, <2>2, <2>4, <2>5, <3>2
    <3>3. i \in 1..j \/ i = j + 1
      BY <2>1
    <3> QED
      BY <3>1, <3>2, <3>3
  <2> QED
    BY <2>1, <2>5, <2>6, <2>7 DEF P
<1> HIDE DEF P
<1>5. ASSUME NEW j \in 0..n PROVE j \in P
  <2>1. j \in Nat /\ \A i \in 0..j-1 : i \in 0..n-1
    BY <1>2
  <2> HIDE DEF n
  <2> QED
    BY <1>3, <1>4, <2>1, UpTo
<1> QED
  BY <1>1, <1>5 DEF P, Wrote

\* Rolling a transaction back right after it restores the tables and leaves no row of it.
LEMMA TransactionUndone ==
    ASSUME NEW s \in States, NEW id \in Nat, NEW t \in Tx,
           \A i \in 1..Len(s.undo) : s.undo[i].tx # t
    PROVE  rollbackTransaction(ExecuteTx(s, id, t), t) = s
<1> DEFINE n == Len(Writes[t])
           m == Len(s.undo)
<1>1. PICK w : /\ ExecuteTx(s, id, t) = w[n]
               /\ w[0] = s
               /\ Wrote(w, m, t, n)
  BY ExecuteTxRows
<1>2. n \in Nat /\ m \in Nat /\ s.undo \in Seq(Rows)
  BY TxAssumption DEF States
<1>14. PICK e : e = w[n]
  OBVIOUS
<1> DEFINE u == e.undo
<1>3. /\ e \in States /\ Len(u) = m + n
      /\ \A i \in 1..m : u[i] = s.undo[i]
      /\ \A i \in 1..n : u[m+i].tx = t /\ UndoRow(w[i].data, u[m+i]) = w[i-1].data
  <2>1. n \in 0..n
    BY <1>2
  <2> QED
    BY <1>1, <1>14, <2>1 DEF Wrote
<1> HIDE DEF n
<1>4. rollbackTransaction(e, t).undo = s.undo
  <2>2. ASSUME NEW i \in m+1..m+n PROVE u[i].tx = t
    <3>1. i - m \in 1..n /\ i = m + (i - m)
      BY <1>2
    <3> QED
      BY <1>3, <3>1
  <2>3. \A i \in 1..m : u[i] = s.undo[i] /\ s.undo[i].tx # t
    BY <1>3
  <2>1. m <= Len(u) /\ \A i \in m+1..Len(u) : u[i].tx = t
    BY <1>2, <1>3, <2>2
  <2> QED
    BY <1>2, <1>3, <2>1, <2>3, RowsDeleted
<1>5. PICK g : /\ rollbackTransaction(e, t).data = g[m + n]
               /\ g[0] = e.data
               /\ TakenBack(g, u, m + n, t)
  BY <1>3, RollbackSteps
<1> HIDE DEF u, m
<1> DEFINE P == {k \in 0..m+n : g[k] = IF k < n THEN w[n-k].data ELSE s.data}
<1>6. 0 \in P
  <2>1. n - 0 = n /\ 0 \in 0..m+n
    BY <1>2
  <2>2. ~ (0 < n) => n = 0
    BY <1>2
  <2> QED
    BY <1>1, <1>5, <1>14, <2>1, <2>2
<1>7. ASSUME NEW k \in 0..m+n-1, k \in P PROVE k + 1 \in P
  <2> DEFINE r == u[m+n+1-(k+1)]
  <2>1. k + 1 \in 1..m+n /\ (k + 1) - 1 = k /\ k + 1 \in 0..m+n /\ m+n+1-(k+1) = m+n-k
    BY <1>2
  <2>2. g[k+1] = IF r.tx = t THEN UndoRow(g[k], r) ELSE g[k]
    BY <1>5, <2>1 DEF TakenBack
  <2>3. g[k] = IF k < n THEN w[n-k].data ELSE s.data
    BY <1>7
  <2>4. CASE k < n
    <3>1. n - k \in 1..n /\ (n - k) - 1 = n - (k + 1) /\ m+n-k = m + (n - k)
      BY <1>2, <2>1, <2>4
    <3>2. r.tx = t /\ UndoRow(w[n-k].data, r) = w[n-(k+1)].data
      BY <1>3, <2>1, <3>1
    <3>3. g[k+1] = w[n-(k+1)].data
      BY <2>2, <2>3, <2>4, <3>2
    <3>4. ~ (k + 1 < n) => n - (k + 1) = 0
      BY <1>2, <2>1, <2>4
    <3> QED
      BY <1>1, <2>1, <3>3, <3>4
  <2>5. CASE ~ (k < n)
    <3>1. m+n-k \in 1..m /\ ~ (k + 1 < n)
      BY <1>2, <2>1, <2>5
    <3>2. r = s.undo[m+n-k] /\ r.tx # t
      BY <1>3, <2>1, <3>1 DEF m
    <3> QED
      BY <2>1, <2>2, <2>3, <2>5, <3>1, <3>2
  <2> QED
    BY <2>4, <2>5
<1> HIDE DEF P
<1>8. m + n \in P
  <2>1. PICK h \in Nat : h = m + n
    BY <1>2
  <2>2. ASSUME NEW k \in 0..h-1, k \in P PROVE k + 1 \in P
    <3>1. k \in 0..m+n-1
      BY <1>2, <2>1
    <3> QED
      BY <1>7, <2>2, <3>1
  <2>3. h \in P
    BY <1>6, <2>2, UpTo
  <2> QED
    BY <2>1, <2>3
<1>9. rollbackTransaction(e, t).data = s.data
  <2>1. ~ (m + n < n)
    BY <1>2
  <2> QED
    BY <1>5, <1>8, <2>1 DEF P
<1>10. PICK r : r = rollbackTransaction(e, t)
  OBVIOUS
<1>11. r = [data |-> r.data, undo |-> r.undo]
  BY <1>10 DEF rollbackTransaction
<1>12. s = [data |-> s.data, undo |-> s.undo]
  BY DEF States
<1>13. r = s
  BY <1>4, <1>9, <1>10, <1>11, <1>12
<1> QED
  BY <1>1, <1>10, <1>13, <1>14

\* The transactions that have a row.
RowTxs(s) == {s.undo[i].tx : i \in 1..Len(s.undo)}

LEMMA ExecuteTxRowTxs ==
    ASSUME NEW s \in States, NEW id \in Nat, NEW t \in Tx
    PROVE  RowTxs(ExecuteTx(s, id, t)) \subseteq RowTxs(s) \cup {t}
<1> DEFINE n == Len(Writes[t])
           m == Len(s.undo)
<1>1. PICK w : ExecuteTx(s, id, t) = w[n] /\ w[0] = s /\ Wrote(w, m, t, n)
  BY ExecuteTxRows
<1>2. n \in Nat /\ m \in Nat
  BY TxAssumption DEF States
<1>3. PICK u : u = w[n].undo
  OBVIOUS
<1>4. /\ Len(u) = m + n
      /\ \A i \in 1..m : u[i] = s.undo[i]
      /\ \A i \in 1..n : u[m+i].tx = t
  <2>1. n \in 0..n
    BY <1>2
  <2> QED
    BY <1>1, <1>3, <2>1 DEF Wrote
<1>5. ASSUME NEW i \in 1..Len(u) PROVE u[i].tx \in RowTxs(s) \cup {t}
  <2>1. CASE i \in 1..m
    BY <1>4, <2>1 DEF RowTxs
  <2>2. CASE i \notin 1..m
    <3> HIDE DEF m, n
    <3>1. i - m \in 1..n /\ i = m + (i - m)
      BY <1>2, <1>4, <2>2
    <3> QED
      BY <1>4, <3>1
  <2> QED
    BY <2>1, <2>2
<1> QED
  BY <1>1, <1>3, <1>5 DEF RowTxs

\* The transactions of a block get rows one after the other.
LEMMA BlockRowTxs ==
    ASSUME NEW s \in States, NEW blk, Playable(blk), NEW n, n = Len(blk.txs), NEW w,
           w[0] = s,
           \A i \in 0..n : w[i] \in States,
           \A i \in 1..n : w[i] = ExecuteTx(w[i-1], blk.id, blk.txs[i])
    PROVE  \A i \in 0..n : RowTxs(w[i]) \subseteq RowTxs(s) \cup {blk.txs[j] : j \in 1..i}
<1>1. n \in Nat /\ blk.id \in Nat /\ \A i \in 1..n : blk.txs[i] \in Tx
  BY DEF Playable
<1> DEFINE P == {i \in 0..n : RowTxs(w[i]) \subseteq RowTxs(s) \cup {blk.txs[j] : j \in 1..i}}
<1>2. 0 \in P
  BY <1>1
<1>3. ASSUME NEW i \in 0..n-1, i \in P PROVE i + 1 \in P
  <2>1. i \in 0..n /\ i + 1 \in 1..n /\ (i + 1) - 1 = i /\ i + 1 \in 0..n
    BY <1>1
  <2>2. RowTxs(w[i+1]) \subseteq RowTxs(w[i]) \cup {blk.txs[i+1]}
    BY <1>1, <2>1, ExecuteTxRowTxs
  <2>3. {blk.txs[j] : j \in 1..i} \cup {blk.txs[i+1]} \subseteq {blk.txs[j] : j \in 1..i+1}
    BY <2>1
  <2> QED
    BY <1>3, <2>1, <2>2, <2>3
<1> HIDE DEF P
<1>4. ASSUME NEW i \in 0..n PROVE i \in P
  <2>1. i \in Nat /\ \A j \in 0..i-1 : j \in 0..n-1
    BY <1>1
  <2> QED
    BY <1>2, <1>3, <2>1, UpTo
<1> QED
  BY <1>4 DEF P

LEMMA RollbackType ==
    ASSUME NEW s \in States, NEW t
    PROVE  rollbackTransaction(s, t) \in States
<1> DEFINE n == Len(s.undo)
           T == {r \in ToSet(s.undo) : r.tx # t}
<1>1. s.data \in [Key -> Values] /\ s.undo \in Seq(Rows) /\ n \in Nat
  BY DEF States
<1>2. PICK g : /\ rollbackTransaction(s, t).data = g[n]
               /\ g[0] = s.data
               /\ TakenBack(g, s.undo, n, t)
  BY RollbackSteps
<1>3. ASSUME NEW k \in 1..n, g[k-1] \in [Key -> Values] PROVE g[k] \in [Key -> Values]
  <2>1. s.undo[n+1-k] \in Rows
    <3>1. n+1-k \in 1..n
      BY <1>1
    <3> QED
      BY <1>1, <3>1
  <2> QED
    BY <1>2, <1>3, <2>1, UndoRowType DEF TakenBack
<1>4. g[n] \in [Key -> Values]
  <2> HIDE DEF n
  <2>1. \A i \in 0..n : g[i] \in [Key -> Values]
    BY <1>1, <1>2, <1>3, AllOf
  <2> QED
    BY <1>1, <2>1
<1>5. rollbackTransaction(s, t).undo \in Seq(Rows)
  <2>1. rollbackTransaction(s, t).undo = Only(s.undo, T)
    BY DEF rollbackTransaction
  <2> HIDE DEF T
  <2> QED
    BY <1>1, <2>1, OnlyElements
<1>6. PICK r : r = rollbackTransaction(s, t)
  OBVIOUS
<1>7. r = [data |-> r.data, undo |-> r.undo]
  BY <1>6 DEF rollbackTransaction
<1>8. r.data \in [Key -> Values] /\ r.undo \in Seq(Rows)
  BY <1>2, <1>4, <1>5, <1>6
<1>9. r \in States
  BY <1>7, <1>8 DEF States
<1> QED
  BY <1>6, <1>9

\* The rollback of a block, transaction by transaction, the last first.
LEMMA RollbackBlockSteps ==
    ASSUME NEW s \in States, NEW txs \in Seq(Tx)
    PROVE  \E w : /\ rollbackBlock(s, txs) = w[Len(txs)]
                  /\ w[0] = s
                  /\ \A k \in 1..Len(txs) : w[k] = rollbackTransaction(w[k-1], txs[Len(txs)+1-k])
<1> DEFINE n == Len(txs)
           step == [k \in 1..n |-> [x \in States |-> rollbackTransaction(x, txs[n+1-k])]]
<1>1. n \in Nat
  OBVIOUS
<1>2. step \in [1..n -> [States -> States]]
  BY RollbackType
<1>3. \A k \in 1..n, x \in States : step[k][x] = rollbackTransaction(x, txs[n+1-k])
  OBVIOUS
<1> HIDE DEF step, n
<1>4. PICK f : Recurs(f, States, n, s, step)
  BY <1>1, <1>2, Recursion
<1>5. /\ f \in [0..n -> States] /\ f[0] = s
      /\ \A k \in 1..n : f[k] = rollbackTransaction(f[k-1], txs[n+1-k])
  <2>1. ASSUME NEW k \in 1..n PROVE f[k] = rollbackTransaction(f[k-1], txs[n+1-k])
    <3>1. k - 1 \in 0..n
      BY <1>1
    <3> QED
      BY <1>3, <1>4, <3>1 DEF Recurs
  <2> QED
    BY <1>4, <2>1 DEF Recurs
<1> DEFINE Is(g) == g = [k \in 0..n |->
                           IF k = 0 THEN s ELSE rollbackTransaction(g[k-1], txs[n+1-k])]
<1>6. Is(f)
  <2>1. \A k \in 0..n : f[k] = IF k = 0 THEN s ELSE rollbackTransaction(f[k-1], txs[n+1-k])
    BY <1>1, <1>5
  <2> QED
    BY <1>5, <2>1
<1> HIDE DEF Is
<1> DEFINE w == CHOOSE g : Is(g)
<1>7. Is(w)
  BY <1>6
<1>8. rollbackBlock(s, txs) = w[n]
  BY DEF rollbackBlock, n, Is
<1> HIDE DEF w
<1>9. w[0] = s /\ \A k \in 1..n : w[k] = rollbackTransaction(w[k-1], txs[n+1-k])
  BY <1>1, <1>7 DEF Is
<1> QED
  BY <1>8, <1>9 DEF n

Distinct(txs) == \A i, j \in 1..Len(txs) : txs[i] = txs[j] => i = j

\* Rolling a block back right after it restores the tables and rollback_tx.
LEMMA BlockUndone ==
    ASSUME NEW s \in States, NEW blk, Playable(blk), Distinct(blk.txs),
           \A i \in 1..Len(blk.txs) : blk.txs[i] \notin RowTxs(s)
    PROVE  rollbackBlock(ExecuteBlock(s, blk), blk.txs) = s
<1>1. PICK n : n = Len(blk.txs)
  OBVIOUS
<1>2. n \in Nat /\ blk.id \in Nat /\ blk.txs \in Seq(Tx) /\ \A i \in 1..n : blk.txs[i] \in Tx
  BY <1>1 DEF Playable
<1>3. PICK w : /\ ExecuteBlock(s, blk) = w[n]
               /\ w[0] = s
               /\ \A i \in 0..n : w[i] \in States
               /\ \A i \in 1..n : w[i] = ExecuteTx(w[i-1], blk.id, blk.txs[i])
  BY <1>1, ExecuteBlockSteps
<1>4. \A i \in 0..n : RowTxs(w[i]) \subseteq RowTxs(s) \cup {blk.txs[j] : j \in 1..i}
  BY <1>1, <1>3, BlockRowTxs
<1>5. ASSUME NEW i \in 1..n PROVE rollbackTransaction(w[i], blk.txs[i]) = w[i-1]
  <2>1. i - 1 \in 0..n /\ \A j \in 1..i-1 : j \in 1..n /\ j # i
    BY <1>2
  <2>2. blk.txs[i] \notin RowTxs(w[i-1])
    <3>1. blk.txs[i] \notin RowTxs(s)
      BY <1>1
    <3>2. ASSUME NEW j \in 1..i-1 PROVE blk.txs[i] # blk.txs[j]
      BY <1>1, <2>1 DEF Distinct
    <3>3. blk.txs[i] \notin {blk.txs[j] : j \in 1..i-1}
      BY <3>2
    <3>4. RowTxs(w[i-1]) \subseteq RowTxs(s) \cup {blk.txs[j] : j \in 1..i-1}
      BY <1>4, <2>1
    <3> QED
      BY <3>1, <3>3, <3>4
  <2>3. PICK v \in States : v = w[i-1]
    BY <1>3, <2>1
  <2>4. \A j \in 1..Len(v.undo) : v.undo[j].tx # blk.txs[i]
    BY <2>2, <2>3 DEF RowTxs
  <2>5. rollbackTransaction(ExecuteTx(v, blk.id, blk.txs[i]), blk.txs[i]) = v
    BY <1>2, <2>4, TransactionUndone
  <2> QED
    BY <1>3, <2>3, <2>5
<1>6. PICK v : /\ rollbackBlock(w[n], blk.txs) = v[n]
               /\ v[0] = w[n]
               /\ \A k \in 1..n : v[k] = rollbackTransaction(v[k-1], blk.txs[n+1-k])
  <2>1. PICK x \in States : x = w[n]
    BY <1>2, <1>3
  <2>2. PICK q \in Seq(Tx) : q = blk.txs
    BY <1>2
  <2>3. PICK v : /\ rollbackBlock(x, q) = v[Len(q)]
                 /\ v[0] = x
                 /\ \A k \in 1..Len(q) : v[k] = rollbackTransaction(v[k-1], q[Len(q)+1-k])
    BY RollbackBlockSteps
  <2>4. Len(q) = n
    BY <1>1, <2>2
  <2> QED
    BY <2>1, <2>2, <2>3, <2>4
<1> DEFINE P == {k \in 0..n : v[k] = w[n-k]}
<1>7. 0 \in P
  BY <1>2, <1>6
<1>8. ASSUME NEW k \in 0..n-1, k \in P PROVE k + 1 \in P
  <2>1. /\ k + 1 \in 1..n /\ (k + 1) - 1 = k /\ k + 1 \in 0..n
        /\ n+1-(k+1) = n-k /\ n-k \in 1..n /\ (n-k)-1 = n-(k+1)
    BY <1>2
  <2>2. v[k+1] = rollbackTransaction(v[k], blk.txs[n-k])
    BY <1>6, <2>1
  <2>3. v[k+1] = w[n-(k+1)]
    BY <1>5, <1>8, <2>1, <2>2
  <2> QED
    BY <2>1, <2>3
<1> HIDE DEF P
<1>9. n \in P
  BY <1>2, <1>7, <1>8, UpTo
<1>10. n - n = 0
  BY <1>2
<1> QED
  BY <1>3, <1>6, <1>9, <1>10 DEF P

-----------------------------------------------------------------------------
(* The data of a chain.                                                      *)

\* No transaction has rows in the database of a new node.
LEMMA GenesisData == DataAndUndo(GenesisDB) \in States /\ RowTxs(DataAndUndo(GenesisDB)) = {}
<1> DEFINE s == DataAndUndo(GenesisDB)
<1>1. s = [data |-> [k \in Key |-> <<>>], undo |-> <<>>]
  BY DEF DataAndUndo, GenesisDB
<1>2. <<>> \in Values /\ <<>> \in Seq(Rows) /\ Len(<<>>) = 0
  BY DEF Values
<1>3. [k \in Key |-> <<>>] \in [Key -> Values]
  BY <1>2
<1>4. s \in States
  BY <1>1, <1>2, <1>3 DEF States
<1>5. Len(s.undo) = 0
  BY <1>1, <1>2
<1> HIDE DEF s
<1>6. RowTxs(s) = {}
  BY <1>5 DEF RowTxs
<1> QED
  BY <1>4, <1>6 DEF s

\* One block more.
LEMMA ExecuteOneMore ==
    ASSUME NEW d, DataAndUndo(d) \in States, NEW n \in Nat,
           NEW l, Len(l) = n + 1, \A i \in 1..n+1 : Playable(l[i]),
           NEW k, Len(k) = n, \A i \in 1..n : k[i] = l[i]
    PROVE  /\ Execute(d, k) \in States
           /\ Execute(d, l) = ExecuteBlock(Execute(d, k), l[n+1])
<1>1. PICK w : /\ Execute(d, l) = w[n+1]
               /\ w[0] = DataAndUndo(d)
               /\ \A i \in 1..n+1 : w[i] = ExecuteBlock(w[i-1], l[i])
  <2>1. PICK h \in Nat : h = n + 1
    OBVIOUS
  <2>2. Len(l) = h /\ \A i \in 1..h : Playable(l[i])
    BY <2>1
  <2>3. PICK w : /\ Execute(d, l) = w[h]
                 /\ w[0] = DataAndUndo(d)
                 /\ \A i \in 1..h : w[i] = ExecuteBlock(w[i-1], l[i])
    BY <2>2, ExecuteSteps
  <2> QED
    BY <2>1, <2>3
<1>2. ASSUME NEW i \in 1..n PROVE Playable(k[i]) /\ i \in 1..n+1
  <2>1. i \in 1..n+1 /\ k[i] = l[i]
    OBVIOUS
  <2> QED
    BY <2>1
<1>3. PICK v : /\ Execute(d, k) = v[n]
               /\ v[0] = DataAndUndo(d)
               /\ \A i \in 0..n : v[i] \in States
               /\ \A i \in 1..n : v[i] = ExecuteBlock(v[i-1], k[i])
  <2>1. DataAndUndo(d) \in States /\ n \in Nat /\ Len(k) = n /\ \A i \in 1..n : Playable(k[i])
    BY <1>2
  <2> QED
    BY ONLY <2>1, ExecuteSteps
<1> DEFINE P == {i \in 0..n : v[i] = w[i]}
<1>4. 0 \in P
  BY <1>1, <1>3
<1>5. ASSUME NEW i \in 0..n-1, i \in P PROVE i + 1 \in P
  <2>1. i + 1 \in 1..n /\ (i + 1) - 1 = i /\ i + 1 \in 0..n /\ i + 1 \in 1..n+1
    OBVIOUS
  <2>2. v[i+1] = ExecuteBlock(v[i], k[i+1]) /\ w[i+1] = ExecuteBlock(w[i], l[i+1]) /\ k[i+1] = l[i+1]
    BY <1>1, <1>3, <2>1
  <2> QED
    BY <1>5, <2>1, <2>2
<1> HIDE DEF P
<1>6. n \in P
  BY <1>4, <1>5, UpTo
<1>7. n \in 0..n /\ n + 1 \in 1..n+1 /\ (n + 1) - 1 = n
  OBVIOUS
<1> QED
  BY <1>1, <1>3, <1>6, <1>7 DEF P

\* A list of one block.
LEMMA ExecuteOne ==
    ASSUME NEW d, DataAndUndo(d) \in States, NEW blk, Playable(blk)
    PROVE  Execute(d, <<blk>>) = ExecuteBlock(DataAndUndo(d), blk)
<1>1. PICK l : l = <<blk>>
  OBVIOUS
<1>2. Len(l) = 1 /\ \A i \in 1..1 : l[i] = blk
  BY <1>1
<1>3. 1 \in Nat /\ 1 \in 1..1 /\ 1 - 1 = 0
  OBVIOUS
<1>4. PICK w : /\ Execute(d, l) = w[1]
               /\ w[0] = DataAndUndo(d)
               /\ \A i \in 1..1 : w[i] = ExecuteBlock(w[i-1], l[i])
  <2>1. PICK n \in Nat : n = 1
    OBVIOUS
  <2>2. Len(l) = n /\ \A i \in 1..n : Playable(l[i])
    BY <1>2, <2>1
  <2>3. PICK w : /\ Execute(d, l) = w[n]
                 /\ w[0] = DataAndUndo(d)
                 /\ \A i \in 1..n : w[i] = ExecuteBlock(w[i-1], l[i])
    BY <2>2, ExecuteSteps
  <2> QED
    BY <2>1, <2>3
<1> QED
  BY <1>1, <1>2, <1>3, <1>4

\* Only transactions of the blocks have rows after them.
LEMMA ExecuteRowTxs ==
    ASSUME NEW d, DataAndUndo(d) \in States, NEW n \in Nat, NEW l, Len(l) = n,
           \A i \in 1..n : Playable(l[i]), NEW t \in RowTxs(Execute(d, l)),
           t \notin RowTxs(DataAndUndo(d))
    PROVE  \E i \in 1..n : t \in ToSet(l[i].txs)
<1>1. PICK w : /\ Execute(d, l) = w[n]
               /\ w[0] = DataAndUndo(d)
               /\ \A i \in 0..n : w[i] \in States
               /\ \A i \in 1..n : w[i] = ExecuteBlock(w[i-1], l[i])
  BY ExecuteSteps
<1> SUFFICES ASSUME \A i \in 1..n : t \notin ToSet(l[i].txs) PROVE FALSE
  OBVIOUS
<1> DEFINE P == {i \in 0..n : t \notin RowTxs(w[i])}
<1>2. 0 \in P
  BY <1>1
<1>3. ASSUME NEW i \in 0..n-1, i \in P PROVE i + 1 \in P
  <2>1. i \in 0..n /\ i + 1 \in 1..n /\ (i + 1) - 1 = i /\ i + 1 \in 0..n
    OBVIOUS
  <2>2. PICK s \in States : s = w[i]
    BY <1>1, <2>1
  <2>3. PICK blk : blk = l[i+1]
    OBVIOUS
  <2>4. PICK m : m = Len(blk.txs)
    OBVIOUS
  <2>5. Playable(blk) /\ t \notin ToSet(blk.txs) /\ w[i+1] = ExecuteBlock(s, blk)
    BY <1>1, <2>1, <2>2, <2>3
  <2>6. PICK v : /\ ExecuteBlock(s, blk) = v[m]
                 /\ v[0] = s
                 /\ \A j \in 0..m : v[j] \in States
                 /\ \A j \in 1..m : v[j] = ExecuteTx(v[j-1], blk.id, blk.txs[j])
    BY <2>4, <2>5, ExecuteBlockSteps
  <2>7. m \in 0..m /\ DOMAIN blk.txs = 1..m
    BY <2>4, <2>5 DEF Playable
  <2>8. RowTxs(v[m]) \subseteq RowTxs(s) \cup {blk.txs[j] : j \in 1..m}
    BY <2>4, <2>5, <2>6, <2>7, BlockRowTxs
  <2>9. t \notin {blk.txs[j] : j \in 1..m}
    BY <2>5, <2>7 DEF ToSet
  <2> QED
    BY <1>3, <2>1, <2>2, <2>5, <2>6, <2>8, <2>9
<1> HIDE DEF P
<1>4. n \in P
  BY <1>2, <1>3, UpTo
<1> QED
  BY <1>1, <1>4 DEF P

\* The blocks of a database, and that its data is what they come to.
LedgerOf(d) == [i \in 1..d.info.id |-> d.chain[i].blk]
Replayed(d) ==
    /\ \A i \in 2..d.info.id : Distinct(d.chain[i].blk.txs)
    /\ DataAndUndo(d) = Execute(GenesisDB, Tail(LedgerOf(d)))

\* The blocks after the first, and that they can be executed.
LEMMA LedgerTail ==
    ASSUME NEW d, Sound(d), NEW n, n = d.info.id
    PROVE  /\ n \in Nat /\ n >= 1
           /\ Len(LedgerOf(d)) = n /\ \A i \in 1..n : LedgerOf(d)[i] = d.chain[i].blk
           /\ Len(Tail(LedgerOf(d))) = n - 1
           /\ \A i \in 1..n-1 : /\ Tail(LedgerOf(d))[i] = d.chain[i+1].blk
                                /\ Playable(Tail(LedgerOf(d))[i])
<1>1. /\ n \in Nat /\ n >= 1
      /\ DOMAIN d.chain = 1..n
      /\ \A i \in 1..n : d.chain[i].blk.id = i
  BY ChainParts
<1>2. \A i \in 1..n : d.chain[i].blk.txs \in Seq(Tx)
  BY <1>1 DEF Sound, LogOK
<1>3. \A i \in 1..n : Playable(d.chain[i].blk)
  BY <1>1, <1>2 DEF Playable
<1> DEFINE B == {d.chain[i].blk : i \in 1..n}
<1>4. LedgerOf(d) = [i \in 1..n |-> d.chain[i].blk]
  BY DEF LedgerOf
<1>5. LedgerOf(d) \in Seq(B) /\ Len(LedgerOf(d)) = n
  BY <1>1, <1>4
<1>6. \A i \in 1..n : LedgerOf(d)[i] = d.chain[i].blk
  BY <1>4
<1>7. PICK l \in Seq(B) : l = LedgerOf(d)
  BY <1>5
<1> HIDE DEF B
<1>8. l # <<>>
  BY <1>1, <1>5, <1>7
<1>9. Len(Tail(l)) = n - 1 /\ \A i \in 1..n-1 : Tail(l)[i] = l[i+1]
  BY <1>1, <1>5, <1>7, <1>8
<1>10. \A i \in 1..n-1 : i + 1 \in 1..n
  BY <1>1
<1>11. \A i \in 1..n-1 : Tail(l)[i] = d.chain[i+1].blk /\ Playable(Tail(l)[i])
  BY <1>3, <1>6, <1>7, <1>9, <1>10
<1> QED
  BY <1>1, <1>5, <1>6, <1>7, <1>9, <1>11

\* How a step changes a database: not at all where the ledger is concerned, by a block more, or by
\* one less.
Stays(d, e) == e.chain = d.chain /\ e.info = d.info /\ e.data = d.data /\ e.undo = d.undo
Joins(d, e) ==
    /\ e.info.id = d.info.id + 1
    /\ \A i \in 1..d.info.id : e.chain[i].blk = d.chain[i].blk
Leaves(d, e) ==
    /\ d.info.id > 1 /\ e.info.id = d.info.id - 1
    /\ \A i \in 1..e.info.id : e.chain[i].blk = d.chain[i].blk

\* A step that leaves the ledger alone leaves it replayed.
LEMMA StaysReplayed ==
    ASSUME NEW d, Replayed(d), NEW e, Stays(d, e)
    PROVE  Replayed(e)
BY DEF Replayed, Stays, LedgerOf, DataAndUndo

\* A block joins with its effects.
LEMMA JoinReplayed ==
    ASSUME NEW d, Sound(d), Replayed(d), NEW e, Sound(e), Joins(d, e), NEW blk,
           blk = e.chain[e.info.id].blk, Distinct(blk.txs), DataAndUndo(e) = Execute(d, <<blk>>)
    PROVE  Replayed(e)
<1>1. PICK n : n = d.info.id
  OBVIOUS
<1>2. PICK k : k = Tail(LedgerOf(d))
  OBVIOUS
<1>3. PICK l : l = Tail(LedgerOf(e))
  OBVIOUS
<1>4. /\ n \in Nat /\ n >= 1 /\ Len(k) = n - 1
      /\ \A i \in 1..n-1 : k[i] = d.chain[i+1].blk /\ Playable(k[i])
  BY <1>1, <1>2, LedgerTail
<1>5. e.info.id = n + 1 /\ \A i \in 1..n : e.chain[i].blk = d.chain[i].blk
  BY <1>1 DEF Joins
<1>6. /\ Len(l) = (n - 1) + 1
      /\ \A i \in 1..(n-1)+1 : l[i] = e.chain[i+1].blk /\ Playable(l[i])
  <2>1. (n + 1) - 1 = (n - 1) + 1
    BY <1>4
  <2> QED
    BY <1>3, <1>5, <2>1, LedgerTail
<1>7. \A i \in 1..n-1 : k[i] = l[i]
  <2>1. \A i \in 1..n-1 : i + 1 \in 1..n /\ i \in 1..(n-1)+1
    BY <1>4
  <2> QED
    BY <1>4, <1>5, <1>6, <2>1
<1>8. l[(n-1)+1] = blk /\ Playable(blk)
  <2>1. (n - 1) + 1 \in 1..(n-1)+1 /\ ((n - 1) + 1) + 1 = n + 1
    BY <1>4
  <2> QED
    BY <1>5, <1>6, <2>1
<1>9. DataAndUndo(GenesisDB) \in States
  BY GenesisData
<1>10. /\ Execute(GenesisDB, k) \in States
       /\ Execute(GenesisDB, l) = ExecuteBlock(Execute(GenesisDB, k), blk)
  <2>1. PICK h \in Nat : h = n - 1
    BY <1>4
  <2>2. Len(l) = h + 1 /\ Len(k) = h /\ l[h+1] = blk
    BY <1>4, <1>6, <1>8, <2>1
  <2>3. \A i \in 1..h+1 : Playable(l[i])
    BY <1>6, <2>1
  <2>4. \A i \in 1..h : k[i] = l[i]
    BY <1>7, <2>1
  <2>5. /\ Execute(GenesisDB, k) \in States
        /\ Execute(GenesisDB, l) = ExecuteBlock(Execute(GenesisDB, k), l[h+1])
    <3>1. PICK g : g = GenesisDB
      OBVIOUS
    <3>2. DataAndUndo(g) \in States /\ h \in Nat
      BY <1>9, <3>1
    <3>3. /\ Execute(g, k) \in States
          /\ Execute(g, l) = ExecuteBlock(Execute(g, k), l[h+1])
      BY ONLY <2>2, <2>3, <2>4, <3>2, ExecuteOneMore
    <3> QED
      BY <3>1, <3>3
  <2> QED
    BY <2>2, <2>5
<1>11. DataAndUndo(d) = Execute(GenesisDB, k)
  BY <1>2 DEF Replayed
<1>12. DataAndUndo(e) = Execute(GenesisDB, l)
  BY <1>8, <1>10, <1>11, ExecuteOne
<1>13. ASSUME NEW i \in 2..e.info.id PROVE Distinct(e.chain[i].blk.txs)
  <2>1. CASE i = n + 1
    BY <1>5, <2>1
  <2>2. CASE i # n + 1
    <3>1. i \in 2..n /\ i \in 1..n
      BY <1>4, <1>5, <2>2
    <3> QED
      BY <1>1, <1>5, <3>1 DEF Replayed
  <2> QED
    BY <2>1, <2>2
<1> QED
  BY <1>3, <1>12, <1>13 DEF Replayed

\* The last block is rolled back.
LEMMA RollbackReplayed ==
    ASSUME NEW d, Sound(d), Replayed(d), d.info.id > 1, NEW e, e = RollbackBlock(d)
    PROVE  Replayed(e) /\ Leaves(d, e)
<1>1. PICK n : n = d.info.id
  OBVIOUS
<1>2. PICK l : l = Tail(LedgerOf(d))
  OBVIOUS
<1>3. PICK k : k = Tail(LedgerOf(e))
  OBVIOUS
<1>4. PICK blk : blk = d.chain[n].blk
  OBVIOUS
<1>5. Sound(e) /\ e.info.id = n - 1 /\ MaxBlockID(d) = n
  BY <1>1, RollbackBlockSound, HeightIsInfoID DEF Sound
<1>6. /\ n \in Nat /\ n > 1 /\ DOMAIN d.chain = 1..n
      /\ Len(l) = n - 1
      /\ \A i \in 1..n-1 : l[i] = d.chain[i+1].blk /\ Playable(l[i])
  BY <1>1, <1>2, LedgerTail, ChainParts
<1>7. /\ Len(k) = (n - 1) - 1
      /\ \A i \in 1..(n-1)-1 : k[i] = e.chain[i+1].blk
  BY <1>3, <1>5, LedgerTail
<1>8. \A i \in 1..n-1 : e.chain[i] = d.chain[i]
  <2>1. e.chain = [i \in DOMAIN d.chain \ {n} |-> d.chain[i]]
    BY <1>5 DEF RollbackBlock, Sound, Tables
  <2> QED
    BY <1>6, <2>1
<1>9. PICK h \in Nat : h = (n - 1) - 1
  BY <1>6
<1>10. /\ Len(l) = h + 1 /\ Len(k) = h /\ l[h+1] = blk
       /\ \A i \in 1..h+1 : Playable(l[i])
       /\ \A i \in 1..h : k[i] = l[i] /\ k[i] = d.chain[i+1].blk
  <2>1. h + 1 = n - 1 /\ h + 1 \in 1..n-1 /\ (h + 1) + 1 = n
    BY <1>6, <1>9
  <2>2. \A i \in 1..h : i \in 1..n-1 /\ i + 1 \in 1..n-1
    BY <1>6, <1>9
  <2> QED
    BY <1>4, <1>6, <1>7, <1>8, <1>9, <2>1, <2>2
<1>11. DataAndUndo(GenesisDB) \in States /\ RowTxs(DataAndUndo(GenesisDB)) = {}
  BY GenesisData
<1>12. PICK s : s = Execute(GenesisDB, k)
  OBVIOUS
<1>13. s \in States /\ DataAndUndo(d) = ExecuteBlock(s, blk)
  <2>1. /\ Execute(GenesisDB, k) \in States
        /\ Execute(GenesisDB, l) = ExecuteBlock(Execute(GenesisDB, k), l[h+1])
    <3>1. PICK g : g = GenesisDB
      OBVIOUS
    <3>2. DataAndUndo(g) \in States /\ h \in Nat
      BY <1>11, <3>1
    <3>3. \A i \in 1..h : k[i] = l[i]
      BY <1>10
    <3>4. Len(l) = h + 1 /\ Len(k) = h /\ \A i \in 1..h+1 : Playable(l[i])
      BY <1>10
    <3>5. /\ Execute(g, k) \in States
          /\ Execute(g, l) = ExecuteBlock(Execute(g, k), l[h+1])
      BY ONLY <3>2, <3>3, <3>4, ExecuteOneMore
    <3> QED
      BY <3>1, <3>5
  <2> QED
    BY <1>2, <1>10, <1>12, <2>1 DEF Replayed
<1>14. Playable(blk) /\ Distinct(blk.txs)
  <2>1. n \in 2..d.info.id /\ h + 1 \in 1..h+1
    BY <1>1, <1>6
  <2> QED
    BY <1>4, <1>10, <2>1 DEF Replayed
<1>15. ASSUME NEW j \in 1..Len(blk.txs) PROVE blk.txs[j] \notin RowTxs(s)
  <2>1. PICK t : t = blk.txs[j]
    OBVIOUS
  <2>2. t \in Tx /\ t \in ToSet(d.chain[n].blk.txs)
    BY <1>4, <1>14, <2>1 DEF Playable, ToSet
  <2>3. ASSUME t \in RowTxs(s) PROVE FALSE
    <3>1. \A i \in 1..h : Playable(k[i])
      <4>1. \A i \in 1..h : i \in 1..h+1
        OBVIOUS
      <4> QED
        BY <1>10, <4>1
    <3>2. PICK i \in 1..h : t \in ToSet(k[i].txs)
      BY <1>10, <1>11, <1>12, <2>3, <3>1, ExecuteRowTxs
    <3>3. i + 1 \in 1..n /\ n \in 1..n /\ i + 1 # n
      BY <1>6, <1>9
    <3>4. t \in ToSet(d.chain[i+1].blk.txs)
      BY <1>10, <3>2
    <3>5. d.log[t] = i + 1 /\ d.log[t] = n
      BY <1>6, <2>2, <3>3, <3>4 DEF Sound, LogOK
    <3> QED
      BY <3>3, <3>5
  <2> QED
    BY <2>1, <2>3
<1>16. DataAndUndo(e) = s
  <2>1. PICK x : x = rollbackBlock(DataAndUndo(d), blk.txs)
    OBVIOUS
  <2>2. x = s
    BY <1>13, <1>14, <1>15, <2>1, BlockUndone
  <2>3. e.data = x.data /\ e.undo = x.undo
    BY <1>4, <1>5, <2>1 DEF RollbackBlock, DataAndUndo, Sound, Tables
  <2>4. s = [data |-> s.data, undo |-> s.undo]
    BY <1>13 DEF States
  <2> QED
    BY <2>2, <2>3, <2>4 DEF DataAndUndo
<1>17. Leaves(d, e)
  BY <1>1, <1>5, <1>8 DEF Leaves
<1>18. \A i \in 2..e.info.id : Distinct(e.chain[i].blk.txs)
  <2>1. ASSUME NEW i \in 2..n-1 PROVE i \in 2..n /\ i \in 1..n-1
    BY <1>6
  <2> QED
    BY <1>1, <1>5, <1>8, <2>1 DEF Replayed
<1> QED
  BY <1>3, <1>12, <1>16, <1>17, <1>18 DEF Replayed

\* The data of a database is of its type.
LEMMA ReplayedData ==
    ASSUME NEW d, Sound(d), Replayed(d)
    PROVE  DataAndUndo(d) \in States
<1>1. PICK n : n = d.info.id
  OBVIOUS
<1>2. PICK k : k = Tail(LedgerOf(d))
  OBVIOUS
<1>3. PICK g : g = GenesisDB
  OBVIOUS
<1>4. n \in Nat /\ n >= 1 /\ Len(k) = n - 1 /\ \A i \in 1..n-1 : Playable(k[i])
  BY <1>1, <1>2, LedgerTail
<1>5. PICK h \in Nat : h = n - 1
  BY <1>4
<1>6. Len(k) = h /\ \A i \in 1..h : Playable(k[i])
  BY <1>4, <1>5
<1>7. DataAndUndo(g) \in States
  BY <1>3, GenesisData
<1>8. PICK w : Execute(g, k) = w[h] /\ \A i \in 0..h : w[i] \in States
  BY ONLY <1>5, <1>6, <1>7, ExecuteSteps
<1>9. h \in 0..h
  OBVIOUS
<1> QED
  BY <1>2, <1>3, <1>8, <1>9 DEF Replayed

\* A block that joins brings its effects.
LEMMA ExtendData ==
    ASSUME NEW d, Sound(d), DataAndUndo(d) \in States, NEW m, NEW blk, Playable(blk),
           NEW e, e = Extend(d, m, <<blk>>)
    PROVE  DataAndUndo(e) = Execute(d, <<blk>>)
<1> DEFINE one == <<blk>>
           a == AfterPlayTxs(d, m, one)
           u == UpdBlockInfo(a, one)
           f == InsertIntoBlockchain(u, one)
<1>1. PICK s : s = Execute(d, one)
  OBVIOUS
<1>2. s \in States
  BY <1>1, ExecuteOne, ExecuteBlockType
<1> HIDE DEF one
<1>3. DOMAIN a = DOMAIN d /\ a.undo = s.undo /\ a.data = s.data
  BY <1>1 DEF AfterPlayTxs, Sound, Tables
<1> HIDE DEF a
<1>4. DOMAIN u = DOMAIN d /\ u.undo = a.undo /\ u.data = a.data
  BY <1>3 DEF UpdBlockInfo, Sound, Tables
<1> HIDE DEF u
<1>5. f.undo = u.undo /\ f.data = u.data
  BY <1>4 DEF InsertIntoBlockchain, Sound, Tables
<1> HIDE DEF f
<1>6. f = e
  BY DEF f, u, a, one, Extend
<1>7. s = [data |-> s.data, undo |-> s.undo]
  BY <1>2 DEF States
<1> QED
  BY <1>1, <1>3, <1>4, <1>5, <1>6, <1>7 DEF DataAndUndo, one

\* A block that joins a replayed chain leaves a replayed chain.
LEMMA ExtendReplayed ==
    ASSUME NEW d, Sound(d), Replayed(d), NEW m, NEW blk, blk.id = d.info.id + 1,
           blk.txs \in Seq(Tx), Distinct(blk.txs),
           NEW e, e = Extend(d, m, <<blk>>), Sound(e)
    PROVE  Replayed(e) /\ Joins(d, e)
<1>1. PICK n : n = d.info.id
  OBVIOUS
<1>2. n \in Nat /\ n >= 1 /\ DOMAIN d.chain = 1..n
  BY <1>1, ChainParts
<1>3. blk.id = n + 1 /\ blk.id \in Nat
  BY <1>1, <1>2
<1>4. Playable(blk)
  BY <1>3 DEF Playable
<1>5. /\ e.info = HeaderOf(e.chain[blk.id])
      /\ e.chain[blk.id].blk = blk
      /\ \A i \in DOMAIN d.chain \ {blk.id} : e.chain[i] = d.chain[i]
  BY <1>3, ExtendTables
<1>6. e.info.id = n + 1
  BY <1>3, <1>5 DEF HeaderOf
<1>7. \A i \in 1..n : i \in DOMAIN d.chain \ {blk.id}
  BY <1>2, <1>3
<1>8. Joins(d, e)
  BY <1>1, <1>5, <1>6, <1>7 DEF Joins
<1>9. DataAndUndo(e) = Execute(d, <<blk>>)
  BY <1>4, ReplayedData, ExtendData
<1>10. blk = e.chain[e.info.id].blk
  BY <1>3, <1>5, <1>6
<1>11. Replayed(e)
  BY <1>8, <1>9, <1>10, JoinReplayed
<1> QED
  BY <1>8, <1>11

\* Marking transactions bad changes nothing of the ledger.
LEMMA BadStays ==
    ASSUME NEW d, Sound(d), NEW bad
    PROVE  Stays(d, MarkTransactionsBad(d, bad))
BY DEF Stays, MarkTransactionsBad, Sound, Tables

-----------------------------------------------------------------------------
(* Blocks that are checked or generated have no transaction twice.           *)

\* Check refuses a block that has one twice.
LEMMA CheckDistinct ==
    ASSUME NEW d, NEW blk, blk.txs \in Seq(Tx), NEW prev, NEW t, Check(d, blk, prev, t) = "ok"
    PROVE  Distinct(blk.txs)
<1>1. ~ \E i, j \in DOMAIN blk.txs : i # j /\ blk.txs[i] = blk.txs[j]
  BY DEF Check
<1>2. DOMAIN blk.txs = 1..Len(blk.txs)
  OBVIOUS
<1> QED
  BY <1>1, <1>2 DEF Distinct

\* A selection of different elements is one.
LEMMA OnlyDistinct ==
    ASSUME NEW S, NEW s \in Seq(S), Distinct(s), NEW T
    PROVE  Distinct(Only(s, T))
<1>1. PICK n \in Nat : n = Len(s)
  OBVIOUS
<1>2. PICK only : /\ Only(s, T) = only[n]
                  /\ only[0] = <<>>
                  /\ \A i \in 1..n : only[i] = IF s[i] \in T THEN Append(only[i-1], s[i]) ELSE only[i-1]
  <2>1. PICK o : /\ Only(s, T) = o[Len(s)]
                 /\ o[0] = <<>>
                 /\ \A i \in 1..Len(s) : o[i] = IF s[i] \in T THEN Append(o[i-1], s[i]) ELSE o[i-1]
    BY ONLY OnlySteps, s \in Seq(S)
  <2> QED
    BY ZenonT(30), <1>1, <2>1
<1> DEFINE upTo(i) == {s[j] : j \in 1..i}
           P == {i \in 0..n : /\ only[i] \in Seq(S) /\ Distinct(only[i])
                              /\ \A k \in 1..Len(only[i]) : only[i][k] \in upTo(i)}
<1>3. \A i \in 1..n : s[i] \in S
  BY <1>1
<1>4. 0 \in P
  <2>1. PICK q \in Seq(S) : q = only[0] /\ Len(q) = 0
    <3>1. only[0] = <<>>
      BY <1>2
    <3>2. <<>> \in Seq(S) /\ Len(<<>>) = 0
      BY EmptySeq
    <3> QED
      BY <3>1, <3>2
  <2>2. \A k \in 1..Len(q) : FALSE
    BY <2>1
  <2>3. Distinct(q)
    BY <2>2 DEF Distinct
  <2> HIDE DEF upTo
  <2>4. \A k \in 1..Len(only[0]) : only[0][k] \in upTo(0)
    BY ONLY <2>1, <2>2
  <2>5. only[0] \in Seq(S) /\ Distinct(only[0])
    BY ONLY <2>1, <2>3
  <2>6. 0 \in 0..n
    OBVIOUS
  <2> QED
    BY <2>4, <2>5, <2>6
<1>5. ASSUME NEW i \in 0..n-1, i \in P PROVE i + 1 \in P
  <2>1. i + 1 \in 1..n /\ (i + 1) - 1 = i /\ i + 1 \in 0..n
    OBVIOUS
  <2>2. PICK q \in Seq(S) : q = only[i]
    BY <1>5
  <2>3. /\ Distinct(q) /\ \A k \in 1..Len(q) : q[k] \in upTo(i)
    BY <1>5, <2>2
  <2>4. upTo(i) \subseteq upTo(i + 1)
    BY <2>1
  <2>5. CASE s[i+1] \notin T
    <3>1. only[i+1] = q
      BY <1>2, <2>1, <2>2, <2>5
    <3> HIDE DEF upTo
    <3> QED
      BY <2>1, <2>3, <2>4, <3>1
  <2>6. CASE s[i+1] \in T
    <3>1. PICK x \in S : x = s[i+1]
      BY <1>3, <2>1
    <3>2. only[i+1] = Append(q, x)
      BY <1>2, <2>1, <2>2, <2>6, <3>1
    <3>3. x \in upTo(i + 1)
      BY <2>1, <3>1
    <3>4. x \notin upTo(i)
      <4>1. ASSUME NEW j \in 1..i PROVE s[j] # x
        <5>1. j \in 1..Len(s) /\ i + 1 \in 1..Len(s) /\ j # i + 1
          BY <1>1, <2>1
        <5> QED
          BY <3>1, <5>1 DEF Distinct
      <4> QED
        BY <4>1
    <3> HIDE DEF upTo
    <3>5. PICK a \in Seq(S) : a = Append(q, x)
      <4>1. Append(q, x) \in Seq(S)
        BY AppendProperties
      <4> QED
        BY <4>1
    <3>6. /\ Len(a) = Len(q) + 1 /\ a[Len(q)+1] = x /\ Len(q) \in Nat
          /\ \A k \in 1..Len(q) : a[k] = q[k]
      BY <3>5
    <3>7. \A k \in 1..Len(a) : a[k] \in upTo(i + 1)
      <4> TAKE k \in 1..Len(a)
      <4>1. k = Len(q) + 1 \/ k \in 1..Len(q)
        BY <3>6
      <4> QED
        BY <2>3, <2>4, <3>3, <3>6, <4>1
    <3>8. Distinct(a)
      <4> SUFFICES ASSUME NEW k \in 1..Len(a), NEW l \in 1..Len(a), a[k] = a[l] PROVE k = l
        BY DEF Distinct
      <4>1. (k = Len(q) + 1 \/ k \in 1..Len(q)) /\ (l = Len(q) + 1 \/ l \in 1..Len(q))
        BY <3>6
      <4>2. \A o \in 1..Len(q) : a[o] # x
        BY <2>3, <3>4, <3>6
      <4>3. CASE k \in 1..Len(q) /\ l \in 1..Len(q)
        BY <2>3, <3>6, <4>3 DEF Distinct
      <4> QED
        BY <3>6, <4>1, <4>2, <4>3
    <3> QED
      BY <2>1, <3>2, <3>5, <3>7, <3>8
  <2> QED
    BY <2>5, <2>6
<1> HIDE DEF P
<1>6. n \in P
  BY <1>4, <1>5, UpTo
<1> QED
  BY <1>2, <1>6 DEF P

\* So is what a generator keeps of a block.
LEMMA PlayedDistinct ==
    ASSUME NEW logged, NEW blk, blk.txs \in Seq(Tx), Distinct(blk.txs),
           NEW cut \in 0..Len(blk.txs)
    PROVE  Distinct(Play(logged, blk, TRUE, cut).done)
<1> DEFINE s == SubSeq(blk.txs, 1, cut)
           n == Len(blk.txs)
<1>1. Play(logged, blk, TRUE, cut).done = Only(s, Tx \ Rejected)
  BY DEF Play
<1>2. /\ s \in Seq(Tx) /\ Len(s) = cut /\ cut \in Nat
      /\ \A i \in 1..cut : i \in 1..n /\ s[i] = blk.txs[i]
  <2>1. cut \in Nat /\ n \in Nat /\ \A i \in 1..cut : i \in 1..n
    OBVIOUS
  <2>2. /\ s \in Seq(Tx)
        /\ Len(s) = IF 1 <= cut THEN cut - 1 + 1 ELSE 0
        /\ \A i \in 1..cut - 1 + 1 : s[i] = blk.txs[1 + i - 1]
    <3>1. \A i \in 1..n : blk.txs[i] \in Tx
      OBVIOUS
    <3> QED
      BY <2>1, <3>1, SubSeqProperties
  <2> HIDE DEF s
  <2> QED
    BY <2>1, <2>2
<1> HIDE DEF s
<1>3. Distinct(s)
  BY <1>2 DEF Distinct
<1> QED
  BY <1>1, <1>2, <1>3, OnlyDistinct

-----------------------------------------------------------------------------
(* The steps of the node on the ledger.                                      *)

\* What follows a step and leaves the ledger alone changes nothing of the step.
LEMMA StaysTwice ==
    ASSUME NEW d, NEW e, NEW f, Stays(e, f)
    PROVE  (Stays(d, e) => Stays(d, f)) /\ (Joins(d, e) => Joins(d, f))
BY DEF Stays, Joins

\* A block that is played joins, or the ledger stays.
LEMMA PlaySafeReplayed ==
    ASSUME NEW d, Sound(d), Replayed(d), NEW m \in SUBSET Tx, NEW blk, NEW gen \in BOOLEAN,
           blk.id = d.info.id + 1, SignOK(blk, HeaderOf(d.chain[d.info.id])),
           blk.txs \in Seq(Tx), Distinct(blk.txs), \A t \in ToSet(blk.txs) : CheckTime(t, blk.time),
           NEW cut \in 0..Len(blk.txs), ~ gen => cut = Len(blk.txs),
           gen => DOMAIN blk = {"id", "time", "pos", "txs", "prev", "prevRb"},
           NEW e, e = PlaySafe(d, m, blk, gen, cut).db
    PROVE  Replayed(e) /\ (Stays(d, e) \/ Joins(d, e))
<1> DEFINE p == Play(LoggedIn(d), blk, gen, cut)
           new == IF gen THEN [blk EXCEPT !.txs = p.done] ELSE blk
           ok == /\ ~ p.fails
                 /\ gen => p.done # <<>>
                 /\ ~ BlockForTimeExists(d, blk.time, blk.pos)
           bad == p.bad \cup {t \in ToSet(blk.txs) :
                                gen /\ p.fails /\ p.done = <<>> /\ t = blk.txs[1]}
           after == IF ok THEN Extend(d, m, <<new>>) ELSE d
<1>1. e = MarkTransactionsBad(after, bad)
  BY DEF PlaySafe
<1>2. ASSUME ~ p.fails
      PROVE  /\ gen => /\ p.done \in Seq(Tx)
                       /\ \A t \in ToSet(p.done) : t \in ToSet(blk.txs) /\ t \notin LoggedIn(d)
             /\ ~ gen => \A t \in ToSet(blk.txs) : t \notin LoggedIn(d)
  BY <1>2, PlayedAreNew
<1>3. gen => Distinct(p.done)
  BY PlayedDistinct
<1> HIDE DEF p
<1>4. /\ new.id = blk.id /\ new.time = blk.time /\ new.pos = blk.pos
      /\ new.prev = blk.prev /\ new.prevRb = blk.prevRb
      /\ new.txs = IF gen THEN p.done ELSE blk.txs
  <2>1. CASE gen
    BY <2>1
  <2>2. CASE ~ gen
    BY <2>2
  <2> QED
    BY <2>1, <2>2
<1> HIDE DEF new, bad
<1>5. CASE ok
  <2>1. SignOK(new, HeaderOf(d.chain[d.info.id]))
    BY <1>4 DEF SignOK
  <2>2. ~ BlockForTimeExists(d, new.time, new.pos)
    BY <1>4, <1>5
  <2>3. /\ new.txs \in Seq(Tx) /\ Distinct(new.txs)
        /\ \A t \in ToSet(new.txs) : t \in ToSet(blk.txs) /\ t \notin LoggedIn(d)
    BY <1>2, <1>3, <1>4, <1>5
  <2>4. \A t \in ToSet(new.txs) : CheckTime(t, new.time) /\ d.log[t] = 0
    <3>1. \A t \in ToSet(new.txs) : t \in Tx
      BY <2>3 DEF ToSet
    <3> QED
      BY <1>4, <2>3, <3>1 DEF LoggedIn
  <2>5. PICK f : f = Extend(d, m, <<new>>)
    OBVIOUS
  <2>6. Sound(f)
    BY <1>4, <2>1, <2>2, <2>3, <2>4, <2>5, ExtendSound
  <2>7. new.id = d.info.id + 1
    BY <1>4
  <2>8. Replayed(f) /\ Joins(d, f)
    BY <2>3, <2>5, <2>6, <2>7, ExtendReplayed
  <2>9. after = f
    BY <1>5, <2>5
  <2> HIDE DEF after, ok
  <2>10. Stays(f, e)
    BY <1>1, <2>6, <2>9, BadStays
  <2> QED
    BY <2>8, <2>10, StaysReplayed, StaysTwice
<1>6. CASE ~ ok
  <2>1. after = d
    BY <1>6
  <2> HIDE DEF after, ok
  <2>2. Stays(d, e)
    BY <1>1, <2>1, BadStays
  <2> QED
    BY <2>2, StaysReplayed
<1> QED
  BY <1>5, <1>6

\* Of the blocks of a host one joins, or none.
LEMMA ProcessBlocksReplayed ==
    ASSUME NEW d, Sound(d), Replayed(d), NEW m \in SUBSET Tx, NEW blocks, NEW t,
           Received(blocks),
           \A i \in DOMAIN blocks : blocks[i].id = d.info.id + i,
           NEW e, e = ProcessBlocks(d, m, blocks, t).db
    PROVE  Replayed(e) /\ (Stays(d, e) \/ Joins(d, e))
<1> DEFINE n == d.info.id
           prev(i) == IF i = 1 THEN HeaderOf(d.chain[blocks[1].id - 1])
                      ELSE [id |-> blocks[i-1].id, hash |-> HashOf(blocks[i-1]), rb |-> NoHash]
           checked(i) == Check(d, blocks[i], prev(i), t) = "ok"
           play(i) == Play(LoggedIn(d) \cup TxsOf(SubSeq(blocks, 1, i-1)), blocks[i], FALSE,
                           Len(blocks[i].txs))
           passes(i) == checked(i) /\ ~ play(i).fails
           stop == CHOOSE i \in 1..Len(blocks) + 1 :
                     /\ i <= Len(blocks) => ~ passes(i)
                     /\ \A j \in 1..i-1 : passes(j)
           left == IF stop = 1 THEN m ELSE {}
           r == ProcessBlocks(d, m, blocks, t)
<1>1. n \in Nat /\ n >= 1 /\ Stays(d, d)
  BY ChainParts DEF Stays
<1>2. Len(blocks) \in Nat /\ DOMAIN blocks = 1..Len(blocks)
  BY LenProperties DEF Received
<1>3. PICK q : q = r /\ Sound(q.db)
  BY ProcessBlocksSound
<1>4. r = IF blocks = <<>> THEN [ok |-> TRUE, db |-> d, msgs |-> m]
          ELSE IF \A i \in DOMAIN blocks : passes(i)
               THEN [ok |-> TRUE, db |-> Extend(d, m, blocks), msgs |-> {}]
          ELSE IF ~ checked(stop) THEN [ok |-> FALSE, db |-> d, msgs |-> left]
          ELSE [ok |-> FALSE, db |-> MarkTransactionsBad(d, play(stop).bad),
                msgs |-> IF play(stop).dup THEN left \cup play(stop).played ELSE {}]
  BY DEF ProcessBlocks
<1> HIDE DEF play, stop, left, r
<1>5. e = q.db /\ Sound(e) /\ e = r.db
  BY <1>3 DEF r
<1>6. CASE blocks # <<>> /\ \A i \in DOMAIN blocks : passes(i)
  <2>1. Len(blocks) >= 1
    BY <1>2, <1>6, EmptySeq DEF Received
  <2>2. ASSUME Len(blocks) > 1 PROVE FALSE
    <3>1. 2 \in DOMAIN blocks
      BY <1>2, <2>2
    <3>2. SignOK(blocks[2], prev(2))
      BY <1>6, <3>1, CheckAccepts
    <3>3. blocks[2].prevRb = NoHash
      BY <3>2 DEF SignOK
    <3>4. blocks[2].id > 1
      BY <1>1, <3>1
    <3> QED
      BY <3>1, <3>3, <3>4 DEF Received
  <2>3. Len(blocks) = 1
    BY <1>2, <2>1, <2>2
  <2>4. blocks = <<blocks[1]>>
    BY <1>2, <2>3 DEF Received
  <2>5. 1 \in DOMAIN blocks /\ blocks[1].txs \in Seq(Tx)
    BY <1>2, <2>3 DEF Received
  <2>6. Distinct(blocks[1].txs)
    <3>1. Check(d, blocks[1], prev(1), t) = "ok"
      BY <1>6, <2>5
    <3> QED
      BY <2>5, <3>1, CheckDistinct
  <2>7. blocks[1].id = d.info.id + 1
    BY <2>5
  <2>8. e = Extend(d, m, <<blocks[1]>>)
    BY <1>4, <1>5, <1>6, <2>4
  <2>9. Replayed(e) /\ Joins(d, e)
    <3>1. PICK blk : blk = blocks[1]
      OBVIOUS
    <3> QED
      BY <1>5, <2>5, <2>6, <2>7, <2>8, <3>1, ExtendReplayed
  <2> QED
    BY <2>9
<1>7. CASE ~ (blocks # <<>> /\ \A i \in DOMAIN blocks : passes(i))
  <2>1. e = d \/ e = MarkTransactionsBad(d, play(stop).bad)
    BY <1>4, <1>5, <1>7
  <2>2. Stays(d, e)
    BY <1>1, <2>1, BadStays
  <2> QED
    BY <2>2, StaysReplayed
<1> QED
  BY <1>6, <1>7

\* What a step of the node may do to its database.
Follows(d, e) == Replayed(e) /\ (Stays(d, e) \/ Joins(d, e) \/ Leaves(d, e))

LEMMA SameFollows == ASSUME Replayed(db), db' = db PROVE Follows(db, db')
BY DEF Follows, Stays

LEMMA BlockGeneratorFollows ==
    ASSUME IInv, Replayed(db), BlockGenerator PROVE Follows(db, db')
<1> DEFINE txs == ProcessTransactions(db)
           blk == NewBlock(db, now, Self, txs)
<1>1. PICK cut \in 0..Len(txs) : db' = PlaySafe(db, msgs, blk, TRUE, cut).db
  BY DEF BlockGenerator
<1>2. Check(db, blk, HeaderOf(db.chain[blk.id - 1]), now) = "ok"
  BY DEF BlockGenerator
<1>3. txs \in Seq(Tx)
  BY ProcessTransactionsTx
<1>4. Sound(db) /\ msgs \in SUBSET Tx
  BY DEF IInv, TypeOK, Sound
<1>5. /\ blk.id = db.info.id + 1
      /\ SignOK(blk, HeaderOf(db.chain[db.info.id]))
      /\ DOMAIN blk = {"id", "time", "pos", "txs", "prev", "prevRb"}
  BY <1>4 DEF NewBlock, SignOK, Sound, ChainOK
<1>6. blk.txs = txs
  BY DEF NewBlock
<1> HIDE DEF blk, txs
<1>7. blk.txs \in Seq(Tx) /\ cut \in 0..Len(blk.txs)
  BY <1>1, <1>3, <1>6
<1>8. Distinct(blk.txs) /\ \A t \in ToSet(blk.txs) : CheckTime(t, blk.time)
  BY <1>2, <1>7, CheckAccepts, CheckDistinct
<1>9. TRUE \in BOOLEAN /\ (~ TRUE => cut = Len(blk.txs))
  OBVIOUS
<1>10. PICK b : b = blk
  OBVIOUS
<1>11. Replayed(db') /\ (Stays(db, db') \/ Joins(db, db'))
  BY <1>1, <1>4, <1>5, <1>7, <1>8, <1>9, <1>10, PlaySafeReplayed
<1> QED
  BY <1>11 DEF Follows

LEMMA SaveTransactionFollows ==
    ASSUME IInv, Replayed(db), NEW t \in Tx, SaveTransaction(t) PROVE Follows(db, db')
<1>1. Stays(db, db')
  BY DatabasesSound DEF SaveTransaction, Stays, Sound, Tables
<1> QED
  BY <1>1, StaysReplayed DEF Follows

LEMMA QueueParserTxFollows ==
    ASSUME IInv, Replayed(db), QueueParserTx PROVE Follows(db, db')
<1>1. Sound(db)
  BY DatabasesSound
<1>2. \/ \E t : db' = MarkTransactionsBad(db, {t})
      \/ \E batch : db' = [db EXCEPT !.pool = @ \cup batch,
                                     !.verified = @ \cup (batch \ db.pool),
                                     !.queue = @ \ batch]
  BY DEF QueueParserTx
<1>3. Stays(db, db')
  <2>1. CASE \E t : db' = MarkTransactionsBad(db, {t})
    BY <1>1, <2>1, BadStays
  <2>2. CASE \E batch : db' = [db EXCEPT !.pool = @ \cup batch,
                                         !.verified = @ \cup (batch \ db.pool),
                                         !.queue = @ \ batch]
    BY <1>1, <2>2 DEF Stays, Sound, Tables
  <2> QED
    BY <1>2, <2>1, <2>2
<1> QED
  BY <1>3, StaysReplayed DEF Follows

LEMMA PlayRawBlockFollows ==
    ASSUME IInv, Replayed(db), PlayRawBlock PROVE Follows(db, db')
<1> DEFINE blk == Head(sync.raw)
           outcome == Check(db, blk, HeaderOf(db.chain[blk.id - 1]), now)
           r == PlaySafe(db, msgs, blk, FALSE, Len(blk.txs))
<1>1. sync.at = "play"
  BY DEF PlayRawBlock
<1>2. db' = db \/ (db.info.id = blk.id - 1 /\ outcome = "ok" /\ db' = r.db)
  BY DEF PlayRawBlock
<1>3. Sound(db) /\ msgs \in SUBSET Tx /\ db.info.id \in Nat
  BY DatabasesSound, ChainParts DEF IInv, TypeOK
<1>4. /\ Received(sync.raw) /\ sync.raw # <<>>
      /\ \A i \in DOMAIN sync.raw : sync.raw[i].id > 1
  BY <1>1 DEF IInv, SyncOK
<1>5. blk = sync.raw[1] /\ 1 \in DOMAIN sync.raw
  BY <1>4, ReceivedTail
<1>6. blk.id \in Nat /\ blk.txs \in Seq(Tx)
  BY <1>4, <1>5 DEF Received
<1> HIDE DEF blk
<1>7. CASE db.info.id = blk.id - 1 /\ outcome = "ok" /\ db' = r.db
  <2>1. blk.id = db.info.id + 1
    BY <1>3, <1>6, <1>7
  <2>2. /\ SignOK(blk, HeaderOf(db.chain[db.info.id]))
        /\ \A t \in ToSet(blk.txs) : CheckTime(t, blk.time)
        /\ Distinct(blk.txs)
    BY <1>6, <1>7, CheckAccepts, CheckDistinct
  <2>3. PICK cut \in 0..Len(blk.txs) : cut = Len(blk.txs)
    <3>1. Len(blk.txs) \in Nat
      BY <1>6, LenProperties
    <3> QED
      BY <3>1
  <2>4. FALSE \in BOOLEAN /\ (~ FALSE => cut = Len(blk.txs))
    BY <2>3
  <2>5. Replayed(db') /\ (Stays(db, db') \/ Joins(db, db'))
    BY <1>3, <1>6, <1>7, <2>1, <2>2, <2>3, <2>4, PlaySafeReplayed
  <2> QED
    BY <2>5 DEF Follows
<1> QED
  BY <1>2, <1>7, SameFollows

LEMMA GetBlocksFollows ==
    ASSUME IInv, Replayed(db), GetBlocks PROVE Follows(db, db')
<1>1. db' = db \/ db' = [db EXCEPT !.verified = {}]
  BY DEF GetBlocks
<1>2. CASE db' = [db EXCEPT !.verified = {}]
  <2>1. Stays(db, db')
    BY <1>2, DatabasesSound DEF Stays, Sound, Tables
  <2> QED
    BY <2>1, StaysReplayed DEF Follows
<1> QED
  BY <1>1, <1>2, SameFollows

LEMMA RollbackOurBlockFollows ==
    ASSUME IInv, Replayed(db), RollbackOurBlock PROVE Follows(db, db')
<1>1. Sound(db) /\ Height(db) = db.info.id /\ db.info.id \in Nat \ {0}
  BY DatabasesSound, HeightIsInfoID DEF Sound, ChainOK
<1>2. db' = db \/ (db.info.id # 1 /\ db' = RollbackBlock(db))
  BY <1>1 DEF RollbackOurBlock
<1>3. CASE db.info.id # 1 /\ db' = RollbackBlock(db)
  <2>1. db.info.id > 1
    BY <1>1, <1>3
  <2> QED
    BY <1>1, <1>3, <2>1, RollbackReplayed DEF Follows
<1> QED
  BY <1>2, <1>3, SameFollows

LEMMA PlayNewBlocksFollows ==
    ASSUME IInv, Replayed(db), PlayNewBlocks PROVE Follows(db, db')
<1>1. /\ sync.at = "rollback" /\ Height(db) < sync.from
      /\ db' = ProcessBlocks(db, msgs, sync.blocks, now).db
  BY DEF PlayNewBlocks
<1>2. Sound(db) /\ Height(db) = db.info.id /\ db.info.id \in Nat /\ msgs \in SUBSET Tx
  BY DatabasesSound, HeightIsInfoID DEF Sound, ChainOK, IInv, TypeOK
<1>3. /\ sync.from \in Nat /\ db.info.id >= sync.from - 1
      /\ Received(sync.blocks)
      /\ \A i \in DOMAIN sync.blocks : sync.blocks[i].id = sync.from + i - 1
  BY <1>1 DEF IInv, SyncOK
<1>4. sync.from = db.info.id + 1
  BY <1>1, <1>2, <1>3
<1>5. DOMAIN sync.blocks = 1..Len(sync.blocks)
  BY <1>3, LenProperties DEF Received
<1>6. \A i \in DOMAIN sync.blocks : sync.blocks[i].id = db.info.id + i
  BY <1>2, <1>3, <1>4, <1>5
<1>7. Replayed(db') /\ (Stays(db, db') \/ Joins(db, db'))
  BY <1>1, <1>2, <1>3, <1>6, ProcessBlocksReplayed
<1> QED
  BY <1>7 DEF Follows

\* Every step of the node keeps the chain replayed.
LEMMA NextFollows ==
    ASSUME IInv, Replayed(db), [Next]_vars PROVE Follows(db, db')
<1>1. CASE BlockGenerator
  BY <1>1, BlockGeneratorFollows
<1>2. CASE QueueParserTx
  BY <1>2, QueueParserTxFollows
<1>3. CASE LookForMaxBlock \/ BlocksCollection \/ QueueParserBlocks
  BY <1>3, SameFollows DEF LookForMaxBlock, BlocksCollection, QueueParserBlocks
<1>4. CASE Sync
  <2>1. CASE FetchBlocks
    BY <2>1, SameFollows DEF FetchBlocks
  <2> QED
    BY <1>4, <2>1, PlayRawBlockFollows, GetBlocksFollows, RollbackOurBlockFollows,
       PlayNewBlocksFollows DEF Sync
<1>5. CASE Environment
  <2>1. CASE \E t \in Tx : AskTransaction(t) \/ SaveTransaction(t)
    <3>1. PICK t \in Tx : AskTransaction(t) \/ SaveTransaction(t)
      BY <2>1
    <3>2. CASE AskTransaction(t)
      BY <3>2, SameFollows DEF AskTransaction
    <3>3. CASE SaveTransaction(t)
      BY <3>3, SaveTransactionFollows
    <3> QED
      BY <3>1, <3>2, <3>3
  <2>2. CASE \E h \in Hosts : AnnounceBlock(h) \/ RemoteGenerates(h) \/ RemoteFollows(h)
    BY <2>2, SameFollows DEF AnnounceBlock, RemoteGenerates, RemoteFollows
  <2>3. CASE Tick \/ Crash
    BY <2>3, SameFollows DEF Tick, Crash
  <2> QED
    BY <1>5, <2>1, <2>2, <2>3 DEF Environment
<1>6. CASE UNCHANGED vars
  BY <1>6, SameFollows DEF vars
<1> QED
  BY <1>1, <1>2, <1>3, <1>4, <1>5, <1>6 DEF Next

-----------------------------------------------------------------------------
(* The refinement.                                                           *)

\* What a sound database promises of its blocks.
LEMMA LedgerWellformed ==
    ASSUME NEW d, Sound(d), NEW l, l = LedgerOf(d)
    PROVE  L!Wellformed(l)
<1>1. PICK n : n = d.info.id
  OBVIOUS
<1>2. n \in Nat /\ n >= 1 /\ Len(l) = n /\ \A i \in 1..n : l[i] = d.chain[i].blk
  BY <1>1, LedgerTail
<1>3. /\ DOMAIN d.chain = 1..n
      /\ \A i \in 1..n : d.chain[i].blk.id = i
      /\ \A i \in 2..n : SignOK(d.chain[i].blk, HeaderOf(d.chain[i-1]))
  BY <1>1, ChainParts
<1>4. \A i, j \in 2..n : /\ d.chain[i].blk.time = d.chain[j].blk.time
                         /\ d.chain[i].blk.pos = d.chain[j].blk.pos
                         => i = j
  BY <1>1, ChainParts
<1>5. ASSUME NEW i \in 2..n
      PROVE  l[i].prev = HashOf(l[i-1]) /\ l[i].id = l[i-1].id + 1
  <2>1. i - 1 \in 1..n /\ i \in 1..n
    BY <1>2
  <2>2. l[i] = d.chain[i].blk /\ l[i-1] = d.chain[i-1].blk
    BY <1>2, <2>1
  <2>3. l[i].id = i /\ l[i-1].id = i - 1
    BY <1>3, <2>1, <2>2
  <2>4. l[i].prev = HashOf(l[i-1])
    BY <1>3, <2>2 DEF SignOK, HeaderOf
  <2> QED
    BY <1>2, <2>3, <2>4
<1>6. ASSUME NEW i \in 2..n, NEW j \in 2..n, i # j
      PROVE  /\ ToSet(l[i].txs) \cap ToSet(l[j].txs) = {}
             /\ <<l[i].time, l[i].pos>> # <<l[j].time, l[j].pos>>
  <2>1. i \in 1..n /\ j \in 1..n
    BY <1>2
  <2>2. l[i] = d.chain[i].blk /\ l[j] = d.chain[j].blk
    BY <1>2, <2>1
  <2>3. ASSUME NEW t, t \in ToSet(l[i].txs), t \in ToSet(l[j].txs) PROVE FALSE
    <3>1. t \in Tx
      BY <1>3, <2>1, <2>2, <2>3 DEF Sound, LogOK, ToSet
    <3>2. d.log[t] = i /\ d.log[t] = j
      BY <1>3, <2>1, <2>2, <2>3, <3>1 DEF Sound, LogOK
    <3> QED
      BY <1>6, <3>2
  <2>4. ~ (l[i].time = l[j].time /\ l[i].pos = l[j].pos)
    BY <1>4, <1>6, <2>2
  <2> QED
    BY <2>3, <2>4
<1> QED
  BY <1>2, <1>5, <1>6 DEF L!Wellformed

\* The data of the ledger.
LEMMA LedgerData ==
    ASSUME NEW d, Sound(d), Replayed(d)
    PROVE  DataAndUndo(d) = DataAndUndo(Execute(GenesisDB, Tail(LedgerOf(d))))
<1>1. PICK s \in States : s = DataAndUndo(d)
  BY ReplayedData
<1>2. s = DataAndUndo(s)
  BY <1>1 DEF DataAndUndo
<1> QED
  BY <1>1, <1>2 DEF Replayed

\* The database of a new node is the ledger of the first block.
LEMMA InitReplayed == ASSUME Init PROVE Replayed(db) /\ L!Init
<1>1. db = GenesisDB
  BY DEF Init
<1>2. Sound(db) /\ db.info.id = 1
  BY <1>1, GenesisSound
<1>3. db.chain[1].blk = Genesis
  BY <1>1 DEF GenesisDB
<1>4. LedgerOf(db) = <<Genesis>>
  <2>1. LedgerOf(db) = [i \in 1..1 |-> db.chain[i].blk]
    BY <1>2 DEF LedgerOf
  <2>2. \A i \in 1..1 : db.chain[i].blk = Genesis
    BY <1>3
  <2>3. LedgerOf(db) = [i \in 1..1 |-> Genesis]
    BY <2>1, <2>2
  <2> QED
    BY <2>3
<1>5. PICK l : l = Tail(LedgerOf(db))
  OBVIOUS
<1>6. Len(l) = 0
  <2>1. PICK n : n = db.info.id
    OBVIOUS
  <2>2. Len(Tail(LedgerOf(db))) = n - 1
    BY <1>2, <2>1, LedgerTail
  <2> QED
    BY <1>2, <1>5, <2>1, <2>2
<1>7. DataAndUndo(db) = Execute(GenesisDB, l)
  <2>1. PICK g : g = GenesisDB
    OBVIOUS
  <2>2. 0 \in Nat /\ DataAndUndo(g) \in States /\ \A i \in 1..0 : Playable(l[i])
    BY <2>1, GenesisData
  <2>3. PICK w : Execute(g, l) = w[0] /\ w[0] = DataAndUndo(g)
    BY ONLY <1>6, <2>2, ExecuteSteps
  <2> QED
    BY <1>1, <2>1, <2>3
<1>8. Replayed(db)
  BY <1>2, <1>5, <1>7 DEF Replayed
<1>9. DataAndUndo(db) = DataAndUndo(Execute(GenesisDB, Tail(LedgerOf(db))))
  BY <1>2, <1>8, LedgerData
<1> QED
  BY <1>4, <1>8, <1>9 DEF L!Init, LedgerOf

\* Where the ledger stays, nothing of it changes.
LEMMA StaysSame ==
    ASSUME NEW d, NEW e, Stays(d, e)
    PROVE  LedgerOf(e) = LedgerOf(d) /\ DataAndUndo(e) = DataAndUndo(d)
BY DEF Stays, LedgerOf, DataAndUndo

\* Lists that agree up to the end of the shorter one.
LEMMA PrefixOf ==
    ASSUME NEW d, NEW e, Sound(d), Sound(e), NEW n, n = d.info.id,
           n <= e.info.id, \A i \in 1..n : e.chain[i].blk = d.chain[i].blk
    PROVE  SubSeq(LedgerOf(e), 1, n) = LedgerOf(d)
<1>1. n \in Nat /\ n >= 1 /\ e.info.id \in Nat
  BY LedgerTail
<1>2. PICK l : l = LedgerOf(e)
  OBVIOUS
<1>3. Len(l) = e.info.id /\ \A i \in 1..e.info.id : l[i] = e.chain[i].blk
  BY <1>2, LedgerTail
<1>4. \A i \in 1..n : i \in 1..e.info.id /\ l[i] = d.chain[i].blk
  BY <1>1, <1>3
<1> DEFINE S == ToSet(l)
<1>5. l \in Seq(S)
  <2>1. DOMAIN l = 1..e.info.id /\ l = [i \in DOMAIN l |-> l[i]]
    BY <1>2 DEF LedgerOf
  <2>2. \A i \in DOMAIN l : l[i] \in S
    BY DEF ToSet
  <2> HIDE DEF S
  <2> QED
    BY <1>1, <2>1, <2>2
<1> HIDE DEF S
<1>6. \A i \in 1..n : l[i] \in S
  <2>1. DOMAIN l = 1..Len(l)
    BY <1>5
  <2> QED
    BY <1>3, <1>4, <2>1 DEF S, ToSet
<1> DEFINE p == SubSeq(l, 1, n)
<1>7. /\ p \in Seq(S)
      /\ Len(p) = IF 1 <= n THEN n - 1 + 1 ELSE 0
      /\ \A i \in 1..n - 1 + 1 : p[i] = l[1 + i - 1]
  BY <1>1, <1>5, <1>6, SubSeqProperties
<1> HIDE DEF p
<1>8. Len(p) = n /\ \A i \in 1..n : p[i] = l[i]
  BY <1>1, <1>7
<1>9. p = [i \in 1..n |-> p[i]]
  BY <1>7, <1>8
<1>10. p = [i \in 1..n |-> d.chain[i].blk]
  BY <1>4, <1>8, <1>9
<1> QED
  BY <1>2, <1>10 DEF p, LedgerOf

\* A step of the node is a step of the ledger, or none.
LEMMA StepRefines ==
    ASSUME IInv, IInv', Replayed(db), [Next]_vars
    PROVE  Replayed(db') /\ [L!Join \/ L!Leave]_<<LedgerOf(db), DataAndUndo(db)>>
<1>1. Follows(db, db')
  BY NextFollows
<1>2. Replayed(db')
  BY <1>1 DEF Follows
<1>3. Sound(db) /\ Sound(db')
  BY DEF IInv, TypeOK, Sound
<1>4. DataAndUndo(db') = DataAndUndo(Execute(GenesisDB, Tail(LedgerOf(db'))))
  <2>1. PICK e : e = db'
    OBVIOUS
  <2>2. Sound(e) /\ Replayed(e)
    BY <1>2, <1>3, <2>1
  <2>3. DataAndUndo(e) = DataAndUndo(Execute(GenesisDB, Tail(LedgerOf(e))))
    BY ONLY <2>2, LedgerData
  <2> QED
    BY <2>1, <2>3
<1>5. PICK k : k = LedgerOf(db)
  OBVIOUS
<1>6. PICK l : l = LedgerOf(db')
  OBVIOUS
<1>7. /\ db.info.id \in Nat /\ db.info.id >= 1
      /\ Len(k) = db.info.id /\ \A i \in 1..db.info.id : k[i] = db.chain[i].blk
  BY <1>3, <1>5, LedgerTail
<1>8. /\ db'.info.id \in Nat /\ db'.info.id >= 1
      /\ Len(l) = db'.info.id /\ \A i \in 1..db'.info.id : l[i] = db'.chain[i].blk
  BY <1>3, <1>6, LedgerTail
<1>9. CASE Stays(db, db')
  <2>1. LedgerOf(db') = LedgerOf(db) /\ DataAndUndo(db') = DataAndUndo(db)
    BY <1>9, StaysSame
  <2> QED
    BY <1>2, <2>1
<1>10. CASE Joins(db, db')
  <2>1. Len(l) > Len(k)
    BY <1>7, <1>8, <1>10 DEF Joins
  <2>2. SubSeq(l, 1, Len(k)) = k
    <3>1. db.info.id <= db'.info.id
      BY <1>7, <1>10 DEF Joins
    <3>2. SubSeq(LedgerOf(db'), 1, db.info.id) = LedgerOf(db)
      BY <1>3, <1>10, <3>1, PrefixOf DEF Joins
    <3> QED
      BY <1>5, <1>6, <1>7, <3>2
  <2>3. L!Wellformed(l)
    <3>1. PICK e : e = db'
      OBVIOUS
    <3>2. Sound(e) /\ l = LedgerOf(e)
      BY <1>3, <1>6, <3>1
    <3> QED
      BY ONLY <3>2, LedgerWellformed
  <2>4. L!Join
    BY <1>4, <1>5, <1>6, <2>1, <2>2, <2>3 DEF L!Join, LedgerOf
  <2> QED
    BY <1>2, <2>4
<1>11. CASE Leaves(db, db')
  <2>1. Len(k) > 1
    BY <1>7, <1>11 DEF Leaves
  <2>2. l = SubSeq(k, 1, Len(k) - 1)
    <3>1. db'.info.id = db.info.id - 1 /\ db'.info.id <= db.info.id
      BY <1>7, <1>11 DEF Leaves
    <3>2. \A i \in 1..db'.info.id : db.chain[i].blk = db'.chain[i].blk
      BY <1>11 DEF Leaves
    <3>3. SubSeq(LedgerOf(db), 1, db'.info.id) = LedgerOf(db')
      BY <1>3, <3>1, <3>2, PrefixOf
    <3> QED
      BY <1>5, <1>6, <1>7, <3>1, <3>3
  <2>3. L!Leave
    BY <1>4, <1>5, <1>6, <2>1, <2>2 DEF L!Leave, LedgerOf
  <2> QED
    BY <1>2, <2>3
<1> QED
  BY <1>1, <1>2, <1>9, <1>10, <1>11 DEF Follows

\* The invariant of the refinement: the contract tables and rollback_tx are the replay of the
\* chain on the first block in every committed state, in the middle of a replacement as well.
THEOREM LedgerIsReplayed == Spec => [](IInv /\ Replayed(db))
<1>1. Init => IInv /\ Replayed(db)
  BY InitInv, InitReplayed
<1>2. IInv /\ Replayed(db) /\ [Next]_vars => (IInv /\ Replayed(db))'
  BY NextInv, StepRefines
<1> QED
  BY <1>1, <1>2, PTL DEF Spec

\* A node implements the abstract ledger, for any number of hosts, transactions, slots and
\* crashes: whatever its daemons do, blocks only join the end of the chain together with
\* their effects, and only the last one leaves, with all of its effects and no other.
THEOREM LedgerRefined == Spec => RefinesLedger
<1>1. Init => L!Init
  BY InitReplayed
<1>2. IInv /\ IInv' /\ Replayed(db) /\ [Next]_vars
      => [L!Join \/ L!Leave]_<<[i \in 1..db.info.id |-> db.chain[i].blk], DataAndUndo(db)>>
  BY StepRefines DEF LedgerOf
<1> QED
  BY <1>1, <1>2, Invariant, LedgerIsReplayed, PTL DEF Spec, RefinesLedger, L!Spec
=============================================================================
