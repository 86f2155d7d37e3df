---------------------- MODULE TxPlayAgreement_proofs ------------------------
(***************************************************************************)
(* Proofs about TxPlay that compare the nodes: those whose memory is right *)
(* agree on what the blocks of a chain come to, and accept each other's    *)
(* blocks.                                                                 *)
(*                                                                         *)
(* AgreeInv is that of the agreement.  A block whose generator's memory    *)
(* was right has a path of states, tables and memory, from the tables      *)
(* before it to those after it, one step for each transaction it keeps     *)
(* (FairBlock); the block being played is somewhere on such a path.  A     *)
(* transaction that is free or pays in one token has one outcome from one  *)
(* state (RanSame), and a node that is not late repeats it without an      *)
(* error (KeptAgain).  Nothing of the kind holds of two tokens, where the  *)
(* outcome depends on their order: such a block is not fair.               *)
(***************************************************************************)
EXTENDS TxPlay_proofs

-----------------------------------------------------------------------------
(* A transaction on which no order of tokens bears.                          *)

\* What was cut short or late is an error.
LEMMA LateFails ==
    ASSUME NEW s, DOMAIN s = Fields, NEW used
    PROVE  Failed(CheckLimit(s, used, TRUE))
<1> DEFINE g == Fail(s, "stop")
           r == CheckLimit(s, used, TRUE)
<1>1. r = IF s.err # "" THEN s ELSE g
  BY DEF CheckLimit
<1>2. g.err = "stop"
  BY FailFields
<1> HIDE DEF g, r
<1>3. Failed(g)
  BY <1>2 DEF Failed
<1>4. r = IF Failed(s) THEN s ELSE g
  BY <1>1 DEF Failed
<1>5. Failed(r)
  BY <1>3, <1>4
<1> QED
  BY <1>5 DEF r

\* A transaction with one token has one order.
LEMMA OrdersOne ==
    ASSUME NEW t \in Txs, Cardinality(Tokens[t]) = 1, NEW q1 \in Orders(Tokens[t]),
           NEW q2 \in Orders(Tokens[t])
    PROVE  q1 = q2
<1> DEFINE S == Tokens[t]
           n == Cardinality(S)
<1>1. n = 1 /\ IsFiniteSet(S)
  BY PlayAssumption
<1>2. \E e : S = {e}
  BY <1>1, FS_Singleton
<1>3. q1 \in [1..n -> S] /\ q2 \in [1..n -> S]
  BY DEF Orders
<1> HIDE DEF n, S
<1>4. PICK e : S = {e}
  BY <1>2
<1>5. \A i \in 1..n : q1[i] = q2[i]
  <2>1. \A i \in 1..n : q1[i] \in S /\ q2[i] \in S
    BY <1>3
  <2> QED
    BY <1>4, <2>1
<1>6. q1 = [i \in 1..n |-> q1[i]] /\ q2 = [i \in 1..n |-> q2[i]]
  BY <1>3
<1>7. [i \in 1..n |-> q1[i]] = [i \in 1..n |-> q2[i]]
  BY <1>5
<1> QED
  BY <1>6, <1>7

\* One that is free does not look at the order.
LEMMA FreeOrder ==
    ASSUME NEW s, NEW t, t \in Free, NEW upto, NEW q, NEW key
    PROVE  CallContract(s, t, upto, q, key) = OfKind(VMRun(Refuelled(s, Size[t]), t, upto), "ok")
<1> DEFINE ready == PrepareMultiPay(Refuelled(s, Size[t]), t, q)
           pay == [bal |-> s.db.bal, rate |-> s.cache, ecos |-> q]
           ran == VMRun(ready, t, upto)
           paid == IF ran.err = "" THEN PayContract(ran, t, pay, key, FALSE) ELSE ran
           fined == PayContract(RollbackSavepoint(paid, s), t, pay, key, TRUE)
           free == OfKind(VMRun(Refuelled(s, Size[t]), t, upto), "ok")
           k2 == OfKind(paid, "ok")
           k3 == OfKind(fined, "failed")
           k4 == OfKind(RollbackSavepoint(fined, s), "unpaid")
           r == CallContract(s, t, upto, q, key)
<1>1. r = CASE t \in Free -> free [] t \notin Free /\ ready.err # "" -> ready
            [] t \notin Free /\ ready.err = "" /\ paid.err = "" -> k2
            [] t \notin Free /\ ready.err = "" /\ paid.err # "" /\ fined.err = "" -> k3
            [] OTHER -> k4
  BY DEF CallContract, OfKind, Refuelled
<1> HIDE DEF r, free, ready, paid, fined, k2, k3, k4
<1>2. r = free
  BY <1>1
<1> QED
  BY <1>2 DEF r, free

-----------------------------------------------------------------------------
(* The states that a block goes through, the same on every node.             *)

\* Where a transaction begins, and where it leaves the tables and the memory.
At(a) == [db |-> a.db, vm |-> a.vm, cache |-> a.cache, log |-> <<>>, flush |-> <<>>,
          sys |-> FALSE, fuel |-> 0, err |-> "", kind |-> "error"]

\* How a block lists it.
Listed(t, r) == [tx |-> t, log |-> r.log, kind |-> r.kind]

After(a, r) == [db |-> r.db, vm |-> r.vm, cache |-> r.cache, fuel |-> a.fuel + r.fuel]

Ran(a, t, q, key) == CheckLimit(CallContract(At(a), t, Len(Code[t]), q, key), a.fuel, FALSE)

KeptWith(a, x, key, b, q) ==
    /\ ~ Failed(Ran(a, x.tx, q, key))
    /\ x = Listed(x.tx, Ran(a, x.tx, q, key))
    /\ b = After(a, Ran(a, x.tx, q, key))

KeptBy(a, x, key, b) ==
    /\ OneOrder(x.tx)
    /\ \E q \in Orders(Tokens[x.tx]) : KeptWith(a, x, key, b, q)

LEMMA RanSame ==
    ASSUME NEW a, NEW t \in Txs, OneOrder(t), NEW q1 \in Orders(Tokens[t]), NEW q2 \in Orders(Tokens[t]),
           NEW key
    PROVE  Ran(a, t, q1, key) = Ran(a, t, q2, key)
<1> DEFINE c1 == CallContract(At(a), t, Len(Code[t]), q1, key)
           c2 == CallContract(At(a), t, Len(Code[t]), q2, key)
<1>1. c1 = c2
  <2>1. CASE t \in Free
    BY <2>1, FreeOrder
  <2>2. CASE Cardinality(Tokens[t]) = 1
    <3>1. q1 = q2
      BY <2>2, OrdersOne
    <3> QED
      BY <3>1
  <2> QED
    BY <2>1, <2>2 DEF OneOrder
<1> QED
  BY <1>1 DEF Ran

\* Who plays a transaction that another has kept keeps it too, with the same outcome.
LEMMA KeptAgain ==
    ASSUME NEW a, NEW x, x.tx \in Txs, NEW key, NEW b, KeptBy(a, x, key, b),
           NEW q \in Orders(Tokens[x.tx])
    PROVE  LET r == Ran(a, x.tx, q, key)
           IN  ~ Failed(r) /\ After(a, r) = b /\ Listed(x.tx, r) = x
<1> DEFINE t == x.tx
           r == Ran(a, t, q, key)
<1>1. OneOrder(t) /\ \E p \in Orders(Tokens[t]) : KeptWith(a, x, key, b, p)
  BY DEF KeptBy
<1>2. PICK p \in Orders(Tokens[t]) : KeptWith(a, x, key, b, p)
  BY <1>1
<1> DEFINE r0 == Ran(a, t, p, key)
<1>3. ~ Failed(r0) /\ x = Listed(t, r0) /\ b = After(a, r0)
  BY <1>2 DEF KeptWith
<1>4. t \in Txs /\ q \in Orders(Tokens[t])
  OBVIOUS
<1> HIDE DEF t
<1>5. r = r0
  BY <1>1, <1>4, RanSame
<1> HIDE DEF r, r0
<1> QED
  BY <1>3, <1>5 DEF r, t

\* The states of a block that u is played in, from a memory that is that of the tables d.
Fresh(d) == [db |-> d, vm |-> LoadContracts(d.src), cache |-> d.rate, fuel |-> 0]

PathOf(g, u, key, d) ==
    /\ g[0] = Fresh(d)
    /\ \A i \in 1..Len(u) : KeptBy(g[i-1], u[i], key, g[i])

PlayedTo(u, key, d, a) == \E g : PathOf(g, u, key, d) /\ g[Len(u)] = a

LEMMA PathNothing ==
    ASSUME NEW u, Len(u) = 0, NEW key, NEW d
    PROVE  PlayedTo(u, key, d, Fresh(d))
<1> DEFINE g == [i \in 0..0 |-> Fresh(d)]
<1>1. g[0] = Fresh(d)
  OBVIOUS
<1> HIDE DEF g
<1>2. \A i \in 1..Len(u) : FALSE
  OBVIOUS
<1>3. PathOf(g, u, key, d) /\ g[Len(u)] = Fresh(d)
  BY <1>1, <1>2 DEF PathOf
<1> QED
  BY <1>3 DEF PlayedTo

LEMMA PathLonger ==
    ASSUME NEW u, IsList(u), NEW key, NEW d, NEW a, PlayedTo(u, key, d, a),
           NEW x, NEW b, KeptBy(a, x, key, b)
    PROVE  PlayedTo(Append(u, x), key, d, b)
<1> DEFINE n == Len(u)
           w == Append(u, x)
<1>1. n \in Nat
  BY ListFacts
<1>2. Len(w) = n + 1 /\ w[n+1] = x /\ \A i \in 1..n : w[i] = u[i]
  BY Appended
<1>0. PICK g : PathOf(g, u, key, d) /\ g[n] = a
  BY DEF PlayedTo
<1>3. g[0] = Fresh(d) /\ \A i \in 1..n : KeptBy(g[i-1], u[i], key, g[i])
  BY <1>0 DEF PathOf
<1>4. KeptBy(g[n], x, key, b)
  BY <1>0
<1> HIDE DEF n, w
<1> DEFINE h == [i \in 0..n+1 |-> IF i = n + 1 THEN b ELSE g[i]]
<1>5. h[n+1] = b /\ \A i \in 0..n : h[i] = g[i]
  BY <1>1
<1> HIDE DEF h
<1>6. ASSUME NEW i \in 1..n+1 PROVE KeptBy(h[i-1], w[i], key, h[i])
  <2>1. CASE i = n + 1
    <3>1. i - 1 = n /\ n \in 0..n
      BY <1>1, <2>1
    <3>2. h[i-1] = g[n] /\ h[i] = b /\ w[i] = x
      BY <1>2, <1>5, <2>1, <3>1
    <3> QED
      BY <1>4, <3>2
  <2>2. CASE i \in 1..n
    <3>1. i - 1 \in 0..n /\ i \in 0..n
      BY <1>1, <2>2
    <3>2. h[i-1] = g[i-1] /\ h[i] = g[i] /\ w[i] = u[i]
      BY <1>2, <1>5, <2>2, <3>1
    <3> QED
      BY <1>3, <2>2, <3>2
  <2>3. i = n + 1 \/ i \in 1..n
    BY <1>1
  <2> QED
    BY <2>1, <2>2, <2>3
<1>7. 0 \in 0..n
  BY <1>1
<1>8. h[0] = Fresh(d)
  BY <1>3, <1>5, <1>7
<1>9. PathOf(h, w, key, d)
  BY <1>2, <1>6, <1>8 DEF PathOf
<1> QED
  BY <1>2, <1>5, <1>9 DEF PlayedTo, w

\* The block that is played, with the memory of its node.
Now(p, v, c) == [db |-> p.db, vm |-> v, cache |-> c, fuel |-> p.fuel]

LEMMA BegunIsNow ==
    ASSUME NEW n, play.node = n
    PROVE  LET a == Now(play, vm[n], cache[n])
           IN  At(a) = Begun /\ a.db = play.db /\ a.fuel = play.fuel
  BY DEF At, Now, Begun

\* A result that is kept, and every result of a node that does not generate, is that of a whole run.
LEMMA ResultIsRan ==
    ASSUME IInv, play.on, play.todo # <<>>, NEW n, play.node = n, NEW r \in Results,
           ~ Failed(r) \/ ~ play.gen
    PROVE  LET a == Now(play, vm[n], cache[n])
               t == Head(play.todo)
           IN  /\ t \in Txs /\ play.key \in Accounts
               /\ \E q \in Orders(Tokens[t]) : r = Ran(a, t, q, play.key)
<1> DEFINE a == Now(play, vm[n], cache[n])
           t == Head(play.todo)
           all == Len(Code[t])
           key == play.key
           used == play.fuel
<1>1. /\ t \in Txs /\ key \in Accounts /\ Running(Begun, play.db.bal) /\ Begun.db = play.db
  BY ResultsFrom
<1>2. At(a) = Begun /\ a.db = play.db /\ a.fuel = used
  BY BegunIsNow
<1> HIDE DEF a
<1>4. PICK run \in Runs(t), q \in Orders(Tokens[t]) :
        r = CheckLimit(CallContract(Begun, t, run[1], q, key), used, run[2])
  BY DEF Results
<1> DEFINE heavy == play.gen /\ t \in Heavy
<1>5. Runs(t) = {<<all, FALSE>>} \cup IF heavy THEN {<<i, TRUE>> : i \in 0..all} ELSE {}
  BY DEF Runs
<1>6. all \in Nat
  BY <1>1, CodeFacts
<1> HIDE DEF t, all, key, used
<1>7. run = <<all, FALSE>> \/ (play.gen /\ \E i \in 0..all : run = <<i, TRUE>>)
  BY <1>4, <1>5 DEF heavy
<1> HIDE DEF heavy
<1>8. CASE run = <<all, FALSE>>
  <2>1. run[1] = all /\ run[2] = FALSE
    BY <1>8
  <2>2. r = Ran(a, t, q, key)
    BY <1>2, <1>4, <2>1 DEF Ran, all
  <2> QED
    BY <1>1, <2>2 DEF a, t, key
<1>9. CASE play.gen /\ \E i \in 0..all : run = <<i, TRUE>>
  <2>1. PICK i \in 0..all : run = <<i, TRUE>>
    BY <1>9
  <2>2. run[1] = i /\ run[2] = TRUE
    BY <2>1
  <2> DEFINE c == CallContract(Begun, t, i, q, key)
  <2>3. Running(c, play.db.bal)
    BY <1>1, <2>1, CallContractRunning DEF all
  <2>4. r = CheckLimit(c, used, TRUE)
    BY <1>4, <2>2
  <2>5. DOMAIN c = Fields
    BY <2>3 DEF Running
  <2> HIDE DEF c
  <2>6. Failed(r)
    BY <2>4, <2>5, LateFails
  <2> QED
    BY <1>9, <2>6
<1> QED
  BY <1>7, <1>8, <1>9

-----------------------------------------------------------------------------
(* What a generator plays, and what another node makes of it.                *)

\* The block p as its generator plays it, from the tables d, with the memory v and c.
Generated(p, v, c, d, a) ==
    /\ PlayedTo(p.undo, p.key, d, a) /\ a.db = p.db
    /\ p.todo # <<>> => a = Now(p, v, c) /\ GoodVM(v)

GenPath(p, v, c, d) == \E a : Generated(p, v, c, d, a)

\* The block p is blk so far, and what is left of it.
Follows(p, blk) ==
    /\ p.key = blk.by
    /\ Len(blk.undo) = Len(p.undo) + Len(p.todo)
    /\ \A i \in 1..Len(p.undo) : p.undo[i] = blk.undo[i]
    /\ \A i \in 1..Len(p.todo) : p.todo[i] = blk.undo[Len(p.undo) + i].tx

FairPath(g, blk, d) ==
    /\ PathOf(g, blk.undo, blk.by, d)
    /\ g[Len(blk.undo)].db = blk.db

FairBlock(blk, d) == \E g : FairPath(g, blk, d)

Followed(p, v, c, d, blk, g) ==
    /\ FairPath(g, blk, d) /\ Follows(p, blk)
    /\ g[Len(p.undo)] = Now(p, v, c)

RecvPath(p, v, c, d, blk) == \E g : Followed(p, v, c, d, blk, g)

LEMMA KeptOn ==
    ASSUME NEW p, NEW v, NEW c, NEW d, GenPath(p, v, c, d), p.todo # <<>>, IsList(p.undo),
           NEW t, OneOrder(t), NEW o \in Orders(Tokens[t]), NEW r, r = Ran(Now(p, v, c), t, o, p.key), ~ Failed(r),
           GoodVM(r.vm), NEW q, q.undo = Append(p.undo, Listed(t, r)), q.key = p.key,
           q.db = r.db, q.fuel = p.fuel + r.fuel
    PROVE  GenPath(q, r.vm, r.cache, d)
<1> DEFINE a == Now(p, v, c)
           x == Listed(t, r)
           b == After(a, r)
<1>1. PlayedTo(p.undo, p.key, d, a)
  BY DEF GenPath, Generated
<1>2. b = Now(q, r.vm, r.cache) /\ x.tx = t /\ b.db = q.db
  BY DEF After, Now, Listed
<1>3. KeptWith(a, x, p.key, b, o)
  BY <1>2 DEF KeptWith
<1>4. KeptBy(a, x, p.key, b)
  BY <1>2, <1>3 DEF KeptBy
<1> HIDE DEF a, x, b
<1>5. PlayedTo(Append(p.undo, x), p.key, d, b)
  BY <1>1, <1>4, PathLonger
<1>6. PlayedTo(q.undo, q.key, d, b)
  BY <1>5 DEF x
<1>7. Generated(q, r.vm, r.cache, d, b)
  BY <1>2, <1>6 DEF Generated
<1> QED
  BY <1>7 DEF GenPath

\* A block that goes on from p with the result r of its next transaction.
Goes(p, r, q) ==
    /\ q.undo = Append(p.undo, Listed(Head(p.todo), r)) /\ q.key = p.key
    /\ q.db = r.db /\ q.fuel = p.fuel + r.fuel /\ q.todo = Tail(p.todo)

RecvOn(p, r, d, blk) == \A q : Goes(p, r, q) => RecvPath(q, r.vm, r.cache, d, blk)

\* What another node plays comes to what it came to for the generator, and is kept.
LEMMA KeptToo ==
    ASSUME NEW p, NEW v, NEW c, NEW d, NEW blk, RecvPath(p, v, c, d, blk),
           p.todo \in Seq(Txs), p.todo # <<>>, IsList(p.undo), BlockOK(blk.undo),
           NEW o \in Orders(Tokens[Head(p.todo)]), NEW r, r = Ran(Now(p, v, c), Head(p.todo), o, p.key)
    PROVE  /\ ~ Failed(r)
           /\ RecvOn(p, r, d, blk)
<1> DEFINE a == Now(p, v, c)
           t == Head(p.todo)
           k == Len(p.undo)
           m == Len(p.todo)
           u == blk.undo
<1>1. PICK g : Followed(p, v, c, d, blk, g)
  BY DEF RecvPath
<1>2. /\ FairPath(g, blk, d) /\ PathOf(g, u, blk.by, d) /\ g[k] = a
      /\ p.key = blk.by /\ Len(u) = k + m
      /\ \A i \in 1..k : p.undo[i] = u[i]
      /\ \A i \in 1..m : p.todo[i] = u[k + i].tx
  BY <1>1 DEF Followed, FairPath, Follows
<1>3. /\ m \in Nat /\ m # 0 /\ t = p.todo[1] /\ Tail(p.todo) \in Seq(Txs) /\ Len(Tail(p.todo)) = m - 1
      /\ \A i \in 1..m-1 : Tail(p.todo)[i] = p.todo[i+1]
  OBVIOUS
<1>4. k \in Nat
  BY ListFacts
<1> HIDE DEF k, m, u
<1> DEFINE x == u[k+1]
           b == g[k+1]
<1>5. /\ k + 1 \in 1..Len(u) /\ (k + 1) - 1 = k /\ 1 \in 1..m
      /\ \A i \in 1..m-1 : i + 1 \in 1..m /\ k + (i + 1) = (k + 1) + i
  BY <1>2, <1>3, <1>4
<1>6. x.tx = t /\ x.tx \in Txs
  <2>1. x.tx \in Txs
    BY <1>5 DEF BlockOK, u
  <2> QED
    BY <1>2, <1>3, <1>5, <2>1
<1>7. KeptBy(a, x, p.key, b)
  BY <1>2, <1>5 DEF PathOf
<1> HIDE DEF a, x, b, t
<1>8. o \in Orders(Tokens[x.tx]) /\ r = Ran(a, x.tx, o, p.key)
  BY <1>6 DEF t, a
<1>9. ~ Failed(r) /\ After(a, r) = b /\ Listed(x.tx, r) = x
  <2> DEFINE key == p.key
             s == Ran(a, x.tx, o, key)
  <2>1. KeptBy(a, x, key, b) /\ r = s
    BY <1>7, <1>8
  <2> HIDE DEF key
  <2>2. ~ Failed(s) /\ After(a, s) = b /\ Listed(x.tx, s) = x
    BY <1>6, <1>8, <2>1, KeptAgain
  <2> HIDE DEF s
  <2> QED
    BY <2>1, <2>2
<1>10. ASSUME NEW q, q.undo = Append(p.undo, Listed(t, r)), q.key = p.key,
              q.db = r.db, q.fuel = p.fuel + r.fuel, q.todo = Tail(p.todo)
       PROVE  RecvPath(q, r.vm, r.cache, d, blk)
  <2> DEFINE y == Listed(t, r)
  <2>1. y = x
    BY <1>6, <1>9
  <2>2. Now(q, r.vm, r.cache) = b
    BY <1>9, <1>10 DEF Now, After, a
  <2> HIDE DEF y
  <2>3. /\ Len(q.undo) = k + 1 /\ q.undo[k+1] = y /\ \A i \in 1..k : q.undo[i] = p.undo[i]
    BY <1>10, Appended DEF y, k
  <2>4. Len(q.todo) = m - 1 /\ \A i \in 1..m-1 : q.todo[i] = p.todo[i+1]
    BY <1>3, <1>10
  <2>5. Len(u) = (k + 1) + (m - 1)
    BY <1>2, <1>3, <1>4
  <2>6. \A i \in 1..k+1 : q.undo[i] = u[i]
    <3> TAKE i \in 1..k+1
    <3>1. i = k + 1 \/ i \in 1..k
      BY <1>4
    <3>2. CASE i = k + 1
      BY <2>1, <2>3, <3>2 DEF x
    <3>3. CASE i \in 1..k
      BY <1>2, <2>3, <3>3
    <3> QED
      BY <3>1, <3>2, <3>3
  <2>7. \A i \in 1..m-1 : q.todo[i] = u[(k + 1) + i].tx
    BY <1>2, <1>5, <2>4
  <2>8. Follows(q, blk)
    BY <1>2, <1>10, <2>3, <2>4, <2>5, <2>6, <2>7 DEF Follows, u
  <2>9. Followed(q, r.vm, r.cache, d, blk, g)
    BY <1>2, <2>2, <2>3, <2>8 DEF Followed, b
  <2> QED
    BY <2>9 DEF RecvPath
<1>11. \A q : Goes(p, r, q) => RecvPath(q, r.vm, r.cache, d, blk)
  <2> SUFFICES ASSUME NEW q, Goes(p, r, q) PROVE RecvPath(q, r.vm, r.cache, d, blk)
    OBVIOUS
  <2>1. /\ q.undo = Append(p.undo, Listed(t, r)) /\ q.key = p.key
        /\ q.db = r.db /\ q.fuel = p.fuel + r.fuel /\ q.todo = Tail(p.todo)
    BY DEF Goes, t
  <2> QED
    BY <1>10, <2>1
<1>12. RecvOn(p, r, d, blk)
  BY <1>11 DEF RecvOn
<1> QED
  BY <1>9, <1>12

-----------------------------------------------------------------------------
(* The chain, the nodes that agree with it, and the block that is played.    *)

\* The tables after i blocks of the chain c.
DBAt(c, i) == IF i = 0 THEN Genesis ELSE c[i].db

\* Every block whose generator's memory was right is what its transactions come to.
ChainFair(c) == \A h \in 1..Len(c) : c[h].fair => FairBlock(c[h], DBAt(c, h-1))

\* The tables and the blocks of a node that has us of the chain c.
Agreed(c, us, d) ==
    /\ d = DBAt(c, Len(us))
    /\ \A i \in 1..Len(us) : /\ us[i] = c[i].undo
                             /\ BlockUndoes(DBAt(c, i-1), us[i], DBAt(c, i))

\* A block that is generated, or played as the next block of the chain c.
PlayAgrees(p, us, d, v, k, c, agree) ==
    /\ p.gen => p.key = p.node
    /\ p.fair /\ agree /\ p.gen => GenPath(p, v, k, d)
    /\ p.fair /\ agree /\ ~ p.gen /\ c[Len(us)+1].fair => RecvPath(p, v, k, d, c[Len(us)+1])

AgreeInv ==
    /\ ChainFair(chain)
    /\ \A n \in agrees : Agreed(chain, undo[n], db[n])
    /\ play.on => LET n == play.node
                  IN  PlayAgrees(play, undo[n], db[n], vm[n], cache[n], chain, n \in agrees)

\* A step that changes only the memory and what is played.
LEMMA AgreeSame ==
    ASSUME AgreeInv, db' = db, undo' = undo, chain' = chain, agrees' = agrees, NEW n,
           play'.on => /\ play'.node = n
                       /\ PlayAgrees(play', undo[n], db[n], vm'[n], cache'[n], chain, n \in agrees)
    PROVE  AgreeInv'
<1>1. ChainFair(chain)' /\ \A m \in agrees' : Agreed(chain, undo[m], db[m])'
  BY DEF AgreeInv
<1>2. ASSUME play'.on
      PROVE  LET m == play'.node
             IN  PlayAgrees(play', undo'[m], db'[m], vm'[m], cache'[m], chain', m \in agrees')
  BY <1>2
<1> QED
  BY <1>1, <1>2 DEF AgreeInv

\* What a transaction makes of the memory.
LEMMA ResultVM ==
    ASSUME IInv, MemInv, NEW n \in Nodes, play.on, play.node = n, play.todo # <<>>, NEW r \in Results
    PROVE  /\ GoodVM(vm[n]) => GoodVM(r.vm) /\ UndoFlush(r.vm, r.flush) = vm[n]
           /\ ~ r.sys => r.cache = cache[n]
           /\ r.fuel \in Nat
<1>1. PlayMemAt(play, db[n], vm[n], cache[n], Sure(n), Read(n))
  BY DEF MemInv
<1>2. Sound(play.db.src)
  BY <1>1 DEF PlayMemAt
<1>3. Outcome(r, Begun) /\ Begun.vm = vm[n] /\ Begun.cache = cache[n]
  BY <1>2, ResultsOutcome
<1>4. PICK saved : Track(r, Begun, saved)
  BY <1>3 DEF Outcome
<1>5. r.fuel \in Nat
  BY ResultsRunning DEF Running
<1> QED
  BY <1>3, <1>4, <1>5 DEF Track, MemOK, RateOK

LEMMA KeepAgrees ==
    ASSUME IInv, MemInv, AgreeInv, play.on, play.todo # <<>>, NEW r \in Results, Keep(r)
    PROVE  AgreeInv'
<1>1. PICK n \in Nodes : n = play.node /\ PlayingOK(play)
  BY PlayerMem
<1> DEFINE t == Head(play.todo)
           done == Listed(t, r)
           a == Now(play, vm[n], cache[n])
           h == Len(undo[n]) + 1
           blk == chain[h]
           d == db[n]
           agree == n \in agrees
<1>2. ~ Failed(r)
  BY DEF Keep, Failed
<1>3. /\ vm' = [vm EXCEPT ![n] = r.vm] /\ cache' = [cache EXCEPT ![n] = r.cache]
      /\ db' = db /\ undo' = undo /\ chain' = chain /\ agrees' = agrees
  BY <1>1 DEF Keep
<1>4. DOMAIN play = PlayFields /\ DOMAIN vm = Nodes /\ DOMAIN cache = Nodes
  BY <1>1 DEF PlayingOK, IInv, Nodewise
<1>5. vm'[n] = r.vm /\ cache'[n] = r.cache
  BY <1>3, <1>4
<1>6. /\ play'.on /\ play'.node = n /\ play'.gen = play.gen /\ play'.key = play.key
      /\ play'.fair = (play.fair /\ OneOrder(t))
      /\ play'.todo = Tail(play.todo) /\ play'.db = r.db /\ play'.fuel = play.fuel + r.fuel
      /\ play'.undo = Append(play.undo, done)
  BY <1>1, <1>4 DEF Keep, PlayFields, Listed
<1>7. PlayAgrees(play, undo[n], d, vm[n], cache[n], chain, agree)
  BY <1>1 DEF AgreeInv
<1>8. /\ t \in Txs
      /\ \E q \in Orders(Tokens[t]) : r = Ran(a, t, q, play.key)
  BY <1>1, <1>2, ResultIsRan
<1>9. PICK q \in Orders(Tokens[t]) : r = Ran(a, t, q, play.key)
  BY <1>8
<1>10. IsList(play.undo) /\ play.todo \in Seq(Txs) /\ n \in Nodes
  BY <1>1 DEF PlayingOK, BlockOK
<1>11. GoodVM(vm[n]) => GoodVM(r.vm)
  BY <1>1, ResultVM
<1> HIDE DEF t, done, d, agree
<1>12. ASSUME GenPath(play, vm[n], cache[n], d), OneOrder(t)
       PROVE  GenPath(play', r.vm, r.cache, d)
  <2>1. GoodVM(r.vm)
    BY <1>11, <1>12 DEF GenPath, Generated
  <2> HIDE DEF a
  <2>2. r = Ran(Now(play, vm[n], cache[n]), t, q, play.key)
    BY <1>9 DEF a
  <2> QED
    BY <1>2, <1>6, <1>10, <1>12, <2>1, <2>2, KeptOn DEF done
<1>13. ASSUME ~ play.gen, RecvPath(play, vm[n], cache[n], d, blk)
       PROVE  RecvPath(play', r.vm, r.cache, d, blk)
  <2>1. BlockOK(blk.undo)
    <3>1. Continues(play, undo[n], db[n].bal, Len(chain)) /\ IsList(undo[n]) /\ IsList(chain)
      BY <1>1 DEF IInv, PlayInv, Idle, Nodewise, NodeOK, BlocksOK, ChainOK
    <3>2. h \in 1..Len(chain)
      BY <1>13, <3>1, ListFacts DEF Continues
    <3> QED
      BY <3>2 DEF IInv, ChainOK
  <2> HIDE DEF blk
  <2>2. r = Ran(Now(play, vm[n], cache[n]), Head(play.todo), q, play.key)
        /\ q \in Orders(Tokens[Head(play.todo)])
    BY <1>8, <1>9 DEF a, t
  <2>3. Goes(play, r, play')
    BY <1>6 DEF done, t, Goes
  <2>4. RecvOn(play, r, d, blk)
    BY <1>6, <1>8, <1>10, <1>13, <2>1, <2>2, KeptToo
  <2>5. \A w : Goes(play, r, w) => RecvPath(w, r.vm, r.cache, d, blk)
    BY <2>4 DEF RecvOn
  <2>6. PICK w : w = play'
    OBVIOUS
  <2>7. RecvPath(w, r.vm, r.cache, d, blk)
    BY <2>3, <2>5, <2>6
  <2> QED
    BY <2>6, <2>7
<1>14. PlayAgrees(play', undo[n], d, r.vm, r.cache, chain, agree)
  <2> DEFINE p == play
             q1 == play'
             w == vm[n]
             k == cache[n]
  <2>1. /\ p.gen => p.key = p.node
        /\ p.fair /\ agree /\ p.gen => GenPath(p, w, k, d)
        /\ p.fair /\ agree /\ ~ p.gen /\ blk.fair => RecvPath(p, w, k, d, blk)
    BY <1>7 DEF PlayAgrees
  <2>2. /\ q1.gen = p.gen /\ q1.key = p.key /\ q1.fair = (p.fair /\ OneOrder(t)) /\ q1.node = p.node
    BY <1>1, <1>6
  <2>3. GenPath(p, w, k, d) /\ OneOrder(t) => GenPath(q1, r.vm, r.cache, d)
    BY <1>12
  <2>4. ~ p.gen /\ RecvPath(p, w, k, d, blk) => RecvPath(q1, r.vm, r.cache, d, blk)
    BY <1>13
  <2> HIDE DEF p, q1, w, k, blk
  <2>5. /\ q1.gen => q1.key = q1.node
        /\ q1.fair /\ agree /\ q1.gen => GenPath(q1, r.vm, r.cache, d)
        /\ q1.fair /\ agree /\ ~ q1.gen /\ blk.fair => RecvPath(q1, r.vm, r.cache, d, blk)
    BY <2>1, <2>2, <2>3, <2>4
  <2>6. PlayAgrees(q1, undo[n], d, r.vm, r.cache, chain, agree)
    BY <2>5 DEF PlayAgrees, blk
  <2> QED
    BY <2>6 DEF q1
<1>15. PlayAgrees(play', undo[n], db[n], vm'[n], cache'[n], chain, n \in agrees)
  BY <1>5, <1>14 DEF d, agree
<1> QED
  BY <1>3, <1>6, <1>15, AgreeSame

\* A transaction that is left out, with the memory as it was, and the end of a block.
LEMMA GenSame ==
    ASSUME NEW p, NEW v, NEW c, NEW d, GenPath(p, v, c, d),
           NEW q, q.undo = p.undo, q.key = p.key, q.db = p.db, q.fuel = p.fuel,
           NEW w, NEW k, q.todo # <<>> => p.todo # <<>> /\ w = v /\ k = c
    PROVE  GenPath(q, w, k, d)
<1>1. PICK a : Generated(p, v, c, d, a)
  BY DEF GenPath
<1>2. Generated(q, w, k, d, a)
  BY <1>1 DEF Generated, Now
<1> QED
  BY <1>2 DEF GenPath

LEMMA GenMemory ==
    ASSUME NEW p, NEW v, NEW c, NEW d, GenPath(p, v, c, d), p.todo # <<>>
    PROVE  GoodVM(v)
  BY DEF GenPath, Generated

\* A block that its generator still plays.
LEMMA AgreeGen ==
    ASSUME AgreeInv, play.on, play.gen, db' = db, undo' = undo, chain' = chain, agrees' = agrees,
           play'.on, play'.node = play.node, play'.gen = play.gen, play'.key = play.key,
           play'.undo = play.undo, play'.db = play.db, play'.fuel = play.fuel,
           play'.fair => play.fair,
           play'.todo # <<>> =>
             /\ play.todo # <<>>
             /\ GoodVM(vm[play.node]) => vm'[play.node] = vm[play.node]
             /\ play'.fair => cache'[play.node] = cache[play.node]
    PROVE  AgreeInv'
<1> DEFINE p == play
           q == play'
           n == p.node
           d == db[n]
           v == vm[n]
           c == cache[n]
           w == vm'[n]
           k == cache'[n]
           agree == n \in agrees
<1>1. PlayAgrees(p, undo[n], d, v, c, chain, agree)
  BY DEF AgreeInv
<1>2. p.key = n
  BY <1>1 DEF PlayAgrees
<1>3. /\ q.node = n /\ q.key = p.key /\ q.undo = p.undo /\ q.db = p.db /\ q.fuel = p.fuel
      /\ q.gen /\ (q.fair => p.fair) /\ p.gen
  OBVIOUS
<1>4. q.todo # <<>> => p.todo # <<>> /\ (GoodVM(v) => w = v) /\ (q.fair => k = c)
  OBVIOUS
<1>5. p.fair /\ agree => GenPath(p, v, c, d)
  BY <1>1, <1>3 DEF PlayAgrees
<1> HIDE DEF p, q, n, d, v, c, w, k, agree
<1>6. ASSUME q.fair, agree PROVE GenPath(q, w, k, d)
  <2>1. GenPath(p, v, c, d)
    BY <1>3, <1>5, <1>6
  <2>2. q.todo # <<>> => p.todo # <<>> /\ w = v /\ k = c
    BY <1>4, <1>6, <2>1, GenMemory
  <2> QED
    BY <1>3, <2>1, <2>2, GenSame
<1>7. PlayAgrees(q, undo[n], d, w, k, chain, agree)
  BY <1>2, <1>3, <1>6 DEF PlayAgrees
<1>8. q.on => /\ q.node = n /\ PlayAgrees(q, undo[n], db[n], vm'[n], cache'[n], chain, n \in agrees)
  BY <1>3, <1>7 DEF d, w, k, agree
<1> QED
  BY <1>8, AgreeSame DEF q

LEMMA SkipAgrees ==
    ASSUME IInv, MemInv, AgreeInv, play.on, play.todo # <<>>, NEW r \in Results, Skip(r)
    PROVE  AgreeInv'
<1>1. PICK n \in Nodes : n = play.node /\ PlayingOK(play)
  BY PlayerMem
<1>2. /\ vm' = [vm EXCEPT ![n] = UndoFlush(r.vm, r.flush)] /\ db' = db /\ undo' = undo
      /\ chain' = chain /\ agrees' = agrees /\ play.gen
      /\ play' = [play EXCEPT !.first = FALSE, !.todo = Tail(@), !.fair = @ /\ cache'[n] = cache[n]]
  BY <1>1 DEF Skip, TakeBack
<1>3. DOMAIN play = PlayFields /\ DOMAIN vm = Nodes
  BY <1>1 DEF PlayingOK, IInv, Nodewise
<1>4. /\ play'.on /\ play'.node = play.node /\ play'.gen = play.gen /\ play'.key = play.key
      /\ play'.undo = play.undo /\ play'.db = play.db /\ play'.fuel = play.fuel
      /\ play'.fair = (play.fair /\ cache'[n] = cache[n])
  BY <1>2, <1>3 DEF PlayFields
<1>5. GoodVM(vm[n]) => vm'[n] = vm[n]
  <2>1. vm'[n] = UndoFlush(r.vm, r.flush)
    BY <1>2, <1>3
  <2> QED
    BY <1>1, <2>1, ResultVM
<1> QED
  BY <1>1, <1>2, <1>4, <1>5, AgreeGen

LEMMA StopAgrees ==
    ASSUME IInv, MemInv, AgreeInv, play.on, play.todo # <<>>, NEW r \in Results, Stop(r)
    PROVE  AgreeInv'
<1>1. PICK n \in Nodes : n = play.node /\ PlayingOK(play)
  BY PlayerMem
<1>2. /\ db' = db /\ undo' = undo /\ chain' = chain /\ agrees' = agrees /\ play.gen
      /\ play' = IF play.first THEN Idle ELSE [play EXCEPT !.todo = <<>>]
  BY DEF Stop
<1>3. DOMAIN play = PlayFields
  BY <1>1 DEF PlayingOK
<1>4. CASE play.first
  <2>1. ~ play'.on
    BY <1>2, <1>4 DEF Idle
  <2> QED
    BY <1>1, <1>2, <2>1, AgreeSame
<1>5. CASE ~ play.first
  <2>1. /\ play'.on /\ play'.node = play.node /\ play'.gen = play.gen /\ play'.key = play.key
        /\ play'.undo = play.undo /\ play'.db = play.db /\ play'.fuel = play.fuel
        /\ play'.fair = play.fair /\ play'.todo = <<>>
    BY <1>2, <1>3, <1>5 DEF PlayFields
  <2> QED
    BY <1>2, <2>1, AgreeGen
<1> QED
  BY <1>4, <1>5

LEMMA LeaveAgrees ==
    ASSUME AgreeInv, play' = Idle, UNCHANGED <<db, undo, chain, agrees>>
    PROVE  AgreeInv'
<1>1. ~ play'.on
  BY DEF Idle
<1> QED
  BY <1>1, AgreeSame

LEMMA RejectAgrees ==
    ASSUME AgreeInv, NEW r, Reject(r)
    PROVE  AgreeInv'
  BY LeaveAgrees DEF Reject, Leave

LEMMA DropAgrees ==
    ASSUME AgreeInv, Drop
    PROVE  AgreeInv'
  BY LeaveAgrees DEF Drop, Leave

\* A block that begins, with the memory of the tables.
LEMMA GenBegins ==
    ASSUME NEW p, NEW v, NEW c, NEW d, Sound(d.src), p.undo = <<>>, p.db = d, p.fuel = 0,
           v = LoadContracts(d.src), c = d.rate
    PROVE  GenPath(p, v, c, d)
<1> DEFINE a == Fresh(d)
<1>1. PlayedTo(p.undo, p.key, d, a)
  <2> DEFINE u == p.undo
             key == p.key
  <2>1. Len(u) = 0
    OBVIOUS
  <2> HIDE DEF u, key
  <2>2. PlayedTo(u, key, d, a)
    BY <2>1, PathNothing
  <2> QED
    BY <2>2 DEF u, key
<1>2. a.db = d /\ a = Now(p, v, c)
  BY DEF Fresh, Now
<1>3. GoodVM(v)
  BY LoadGood
<1>4. Generated(p, v, c, d, a)
  BY <1>1, <1>2, <1>3 DEF Generated
<1> QED
  BY <1>4 DEF GenPath

LEMMA RecvBegins ==
    ASSUME NEW p, NEW v, NEW c, NEW d, p.undo = <<>>, p.db = d, p.fuel = 0,
           v = LoadContracts(d.src), c = d.rate, NEW blk, FairBlock(blk, d), p.key = blk.by,
           Len(blk.undo) \in Nat, Len(p.todo) = Len(blk.undo),
           \A i \in 1..Len(blk.undo) : p.todo[i] = blk.undo[i].tx
    PROVE  RecvPath(p, v, c, d, blk)
<1>1. PICK g : FairPath(g, blk, d)
  BY DEF FairBlock
<1>2. g[0] = Fresh(d) /\ Fresh(d) = Now(p, v, c)
  BY <1>1 DEF FairPath, PathOf, Fresh, Now
<1> DEFINE m == Len(blk.undo)
           w == p.undo
<1>3. Len(w) = 0 /\ m \in Nat
  OBVIOUS
<1> HIDE DEF w
<1>4. /\ m = Len(w) + m
      /\ \A i \in 1..Len(w) : FALSE
      /\ \A i \in 1..m : Len(w) + i = i
  BY <1>3
<1>5. \A i \in 1..m : p.todo[i] = blk.undo[Len(w) + i].tx
  BY <1>4
<1>6. Follows(p, blk)
  BY <1>4, <1>5 DEF Follows, w
<1>7. Followed(p, v, c, d, blk, g)
  BY <1>1, <1>2, <1>3, <1>6 DEF Followed, w
<1> QED
  BY <1>7 DEF RecvPath

\* The next block that a node is to play.
LEMMA NextBlock ==
    ASSUME IInv, NEW n \in Nodes, Len(undo[n]) < Len(chain)
    PROVE  LET h == Len(undo[n]) + 1
           IN  /\ Len(undo[n]) \in Nat /\ h \in 1..Len(chain) /\ h - 1 = Len(undo[n])
               /\ BlockOK(chain[h].undo)
<1>1. Len(undo[n]) \in Nat /\ Len(chain) \in Nat
  BY ListFacts DEF IInv, Nodewise, NodeOK, BlocksOK, ChainOK
<1>2. Len(undo[n]) + 1 \in 1..Len(chain)
  BY <1>1
<1> QED
  BY <1>1, <1>2 DEF IInv, ChainOK

LEMMA StartPlayAgrees ==
    ASSUME IInv, MemInv, AgreeInv, NEW n \in Nodes, NEW gen, NEW fork, NEW todo,
           StartPlay(n, gen, fork, todo),
           ~ gen => LET u == chain[Len(undo[n]) + 1].undo
                    IN  /\ Len(undo[n]) < Len(chain) /\ Len(todo) = Len(u)
                        /\ \A i \in 1..Len(u) : todo[i] = u[i].tx
    PROVE  AgreeInv'
<1> DEFINE h == Len(undo[n]) + 1
           blk == chain[h]
           d == db[n]
           v == vm[n]
           c == cache[n]
           p == play'
           agree == n \in agrees
<1>1. ~ play.on /\ UNCHANGED <<db, vm, cache, undo, chain, agrees>>
  BY DEF StartPlay
<1>2. /\ p.on /\ p.node = n /\ p.gen = gen /\ p.todo = todo /\ p.undo = <<>> /\ p.db = d /\ p.fuel = 0
      /\ p.key = IF gen THEN n ELSE blk.by
      /\ p.fair = ~ \E part \in {"vm", "cache"} : <<n, part>> \in stained
  BY DEF StartPlay
<1>3. MemAt(d, v, c, Sure(n), Read(n)) /\ Sound(d.src)
  BY <1>1, IdleMem DEF Playing
<1>4. p.fair => v = LoadContracts(d.src) /\ c = d.rate
  BY <1>2, <1>3 DEF MemAt, Sure, Read
<1>5. agree => d = DBAt(chain, Len(undo[n]))
  BY DEF AgreeInv, Agreed
<1>6. ~ gen => /\ Len(blk.undo) \in Nat /\ h \in 1..Len(chain) /\ h - 1 = Len(undo[n])
               /\ Len(todo) = Len(blk.undo)
               /\ \A i \in 1..Len(blk.undo) : todo[i] = blk.undo[i].tx
  BY NextBlock, ListFacts DEF BlockOK
<1>7. ChainFair(chain)
  BY DEF AgreeInv
<1> HIDE DEF d, v, c, p, agree, blk
<1>8. ASSUME p.fair, agree, p.gen PROVE GenPath(p, v, c, d)
  BY <1>2, <1>3, <1>4, <1>8, GenBegins
<1>9. ASSUME p.fair, agree, ~ p.gen, blk.fair PROVE RecvPath(p, v, c, d, blk)
  <2>1. h \in 1..Len(chain) /\ h - 1 = Len(undo[n])
    BY <1>2, <1>6, <1>9
  <2> HIDE DEF h
  <2>2. FairBlock(blk, DBAt(chain, h-1))
    BY <1>7, <1>9, <2>1 DEF ChainFair, blk
  <2>3. FairBlock(blk, d)
    BY <1>5, <1>9, <2>1, <2>2
  <2>4. p.key = blk.by /\ p.todo = todo
    BY <1>2, <1>9
  <2>5. Len(blk.undo) \in Nat /\ Len(p.todo) = Len(blk.undo) /\ \A i \in 1..Len(blk.undo) : p.todo[i] = blk.undo[i].tx
    BY <1>2, <1>6, <1>9
  <2> QED
    BY <1>2, <1>4, <1>9, <2>3, <2>4, <2>5, RecvBegins
<1>10. PlayAgrees(p, undo[n], d, v, c, chain, agree)
  BY <1>2, <1>8, <1>9 DEF PlayAgrees, blk
<1>11. p.on => /\ p.node = n /\ PlayAgrees(p, undo[n], db[n], vm'[n], cache'[n], chain, n \in agrees)
  BY <1>1, <1>2, <1>10 DEF d, v, c, agree
<1> QED
  BY <1>1, <1>11, AgreeSame DEF p

LEMMA GenerateAgrees ==
    ASSUME IInv, MemInv, AgreeInv, NEW n \in Nodes, Generate(n)
    PROVE  AgreeInv'
<1>1. PICK todo : StartPlay(n, TRUE, FALSE, todo)
  BY Zenon DEF Generate
<1> QED
  BY <1>1, StartPlayAgrees

LEMMA ReceiveAgrees ==
    ASSUME IInv, MemInv, AgreeInv, NEW n \in Nodes, Receive(n)
    PROVE  AgreeInv'
<1> DEFINE u == chain[Len(undo[n]) + 1].undo
           todo == [i \in DOMAIN u |-> u[i].tx]
<1>1. Len(undo[n]) < Len(chain)
  BY DEF Receive
<1>2. PICK fork \in BOOLEAN : StartPlay(n, FALSE, fork, todo)
  BY DEF Receive
<1>3. BlockOK(u)
  BY <1>1, NextBlock
<1> HIDE DEF u
<1>4. Len(u) \in Nat /\ DOMAIN u = 1..Len(u)
  BY <1>3, ListFacts DEF BlockOK
<1>5. DOMAIN todo = 1..Len(u) /\ Len(todo) = Len(u) /\ \A i \in 1..Len(u) : todo[i] = u[i].tx
  BY <1>4
<1> HIDE DEF todo
<1> QED
  BY <1>1, <1>2, <1>5, StartPlayAgrees DEF u

\* A chain that has the blocks of another.
LEMMA AtSame ==
    ASSUME NEW c, NEW w, NEW m \in Nat, \A i \in 1..m : w[i] = c[i], NEW i \in 0..m
    PROVE  DBAt(w, i) = DBAt(c, i)
<1>1. i = 0 \/ i \in 1..m
  OBVIOUS
<1> QED
  BY <1>1 DEF DBAt

LEMMA AgreedIn ==
    ASSUME NEW c, NEW us, IsList(us), NEW d, Agreed(c, us, d), NEW w, \A i \in 1..Len(us) : w[i] = c[i]
    PROVE  Agreed(w, us, d)
<1> DEFINE n == Len(us)
<1>1. n \in Nat
  BY ListFacts
<1>2. /\ d = DBAt(c, n)
      /\ \A i \in 1..n : us[i] = c[i].undo /\ BlockUndoes(DBAt(c, i-1), us[i], DBAt(c, i))
  BY DEF Agreed
<1>3. \A i \in 0..n : DBAt(w, i) = DBAt(c, i)
  BY <1>1, AtSame
<1>4. n \in 0..n /\ \A i \in 1..n : i \in 0..n /\ i - 1 \in 0..n
  BY <1>1
<1>5. d = DBAt(w, n)
  BY <1>2, <1>3, <1>4
<1>6. ASSUME NEW i \in 1..n
      PROVE  us[i] = w[i].undo /\ BlockUndoes(DBAt(w, i-1), us[i], DBAt(w, i))
  BY <1>2, <1>3, <1>4
<1> QED
  BY <1>5, <1>6 DEF Agreed

LEMMA AgreedMore ==
    ASSUME NEW c, NEW us, IsList(us), NEW d, Agreed(c, us, d), NEW b, b = c[Len(us) + 1],
           NEW u, u = b.undo, BlockUndoes(d, u, b.db)
    PROVE  Agreed(c, Append(us, u), b.db)
<1> DEFINE n == Len(us)
           w == Append(us, u)
           e == b.db
<1>1. n \in Nat
  BY ListFacts
<1>2. Len(w) = n + 1 /\ w[n+1] = u /\ \A i \in 1..n : w[i] = us[i]
  BY Appended
<1>3. /\ d = DBAt(c, n)
      /\ \A i \in 1..n : us[i] = c[i].undo /\ BlockUndoes(DBAt(c, i-1), us[i], DBAt(c, i))
  BY DEF Agreed
<1>4. n + 1 # 0 /\ (n + 1) - 1 = n
  BY <1>1
<1>5. e = DBAt(c, n+1)
  BY <1>4 DEF DBAt
<1>6. u = c[n+1].undo /\ BlockUndoes(d, u, e)
  OBVIOUS
<1> HIDE DEF w, e, n
<1>7. ASSUME NEW i \in 1..n+1
      PROVE  w[i] = c[i].undo /\ BlockUndoes(DBAt(c, i-1), w[i], DBAt(c, i))
  <2>1. i = n + 1 \/ i \in 1..n
    BY <1>1
  <2>2. CASE i = n + 1
    BY <1>2, <1>3, <1>4, <1>5, <1>6, <2>2
  <2>3. CASE i \in 1..n
    BY <1>2, <1>3, <2>3
  <2> QED
    BY <2>1, <2>2, <2>3
<1>8. Agreed(c, w, e)
  BY <1>2, <1>5, <1>7 DEF Agreed
<1> QED
  BY <1>8 DEF w, e

LEMMA ChainFairMore ==
    ASSUME NEW c, IsList(c), ChainFair(c), NEW b, b.fair => FairBlock(b, DBAt(c, Len(c)))
    PROVE  ChainFair(Append(c, b))
<1> DEFINE n == Len(c)
           w == Append(c, b)
<1>1. n \in Nat
  BY ListFacts
<1>2. Len(w) = n + 1 /\ w[n+1] = b /\ \A i \in 1..n : w[i] = c[i]
  BY Appended
<1>3. \A i \in 1..n : c[i].fair => FairBlock(c[i], DBAt(c, i-1))
  BY DEF ChainFair
<1>4. b.fair => FairBlock(b, DBAt(c, n))
  OBVIOUS
<1> HIDE DEF n, w
<1>5. \A i \in 0..n : DBAt(w, i) = DBAt(c, i)
  BY <1>1, <1>2, AtSame
<1>6. ASSUME NEW i \in 1..n+1, w[i].fair PROVE FairBlock(w[i], DBAt(w, i-1))
  <2>1. (i = n + 1 \/ i \in 1..n) /\ i - 1 \in 0..n
    BY <1>1
  <2>2. DBAt(w, i-1) = DBAt(c, i-1)
    BY <1>5, <2>1
  <2>3. CASE i = n + 1
    <3>1. i - 1 = n
      BY <1>1, <2>3
    <3> QED
      BY <1>2, <1>4, <1>6, <2>2, <2>3, <3>1
  <2>4. CASE i \in 1..n
    BY <1>2, <1>3, <1>6, <2>2, <2>4
  <2> QED
    BY <2>1, <2>3, <2>4
<1>7. ChainFair(w)
  BY <1>2, <1>6 DEF ChainFair
<1> QED
  BY <1>7 DEF w

LEMMA ChainFairLess ==
    ASSUME NEW c, ChainFair(c), Len(c) \in Nat, NEW w, Len(w) \in 0..Len(c), \A i \in 1..Len(w) : w[i] = c[i]
    PROVE  ChainFair(w)
<1> DEFINE n == Len(w)
<1>1. n \in Nat /\ \A i \in 1..n : i \in 1..Len(c) /\ i - 1 \in 0..n
  OBVIOUS
<1>2. \A i \in 0..n : DBAt(w, i) = DBAt(c, i)
  BY <1>1, AtSame
<1>3. \A i \in 1..n : c[i].fair => FairBlock(c[i], DBAt(c, i-1))
  BY <1>1 DEF ChainFair
<1>4. ASSUME NEW i \in 1..n, w[i].fair PROVE FairBlock(w[i], DBAt(w, i-1))
  BY <1>1, <1>2, <1>3, <1>4
<1> QED
  BY <1>4 DEF ChainFair

-----------------------------------------------------------------------------
(* The end of a block.                                                       *)

LEMMA GenEnds ==
    ASSUME NEW p, NEW v, NEW k, NEW d, GenPath(p, v, k, d),
           NEW b, b.undo = p.undo, b.by = p.key, b.db = p.db
    PROVE  FairBlock(b, d)
<1>1. PICK a : PlayedTo(p.undo, p.key, d, a) /\ a.db = p.db
  BY DEF GenPath, Generated
<1>2. PICK g : PathOf(g, p.undo, p.key, d) /\ g[Len(p.undo)] = a
  BY <1>1 DEF PlayedTo
<1>3. FairPath(g, b, d)
  BY <1>1, <1>2 DEF FairPath
<1> QED
  BY <1>3 DEF FairBlock

LEMMA RecvEnds ==
    ASSUME NEW p, NEW v, NEW k, NEW d, NEW blk, RecvPath(p, v, k, d, blk), p.todo = <<>>,
           IsList(p.undo), IsList(blk.undo)
    PROVE  p.db = blk.db /\ p.undo = blk.undo
<1> DEFINE u == p.undo
           w == blk.undo
<1>1. PICK g : Followed(p, v, k, d, blk, g)
  BY DEF RecvPath
<1>2. Len(u) \in Nat /\ DOMAIN u = 1..Len(u)
  BY ListFacts
<1>3. Len(w) = Len(u)
  <2>1. Len(w) = Len(u) + Len(p.todo) /\ Len(p.todo) = 0
    BY <1>1 DEF Followed, Follows
  <2> QED
    BY <1>2, <2>1
<1>4. g[Len(w)].db = blk.db /\ g[Len(u)] = Now(p, v, k)
  BY <1>1 DEF Followed, FairPath
<1>5. p.db = blk.db
  BY <1>3, <1>4 DEF Now
<1>6. \A i \in 1..Len(u) : u[i] = w[i]
  BY <1>1 DEF Followed, Follows
<1>7. IsList(u) /\ IsList(w)
  BY DEF u, w
<1> HIDE DEF u, w
<1>8. PICK S, T : u \in Seq(S) /\ w \in Seq(T)
  BY <1>7 DEF IsList
<1>9. u = w
  BY <1>3, <1>6, <1>8
<1> QED
  BY <1>5, <1>9 DEF u, w

\* A step of node n after which nothing is played.
LEMMA AgreeStep ==
    ASSUME IInv, AgreeInv, NEW n, ~ play'.on, ChainFair(chain'), agrees' \subseteq agrees,
           \A m \in agrees : m # n => /\ db'[m] = db[m] /\ undo'[m] = undo[m]
                                      /\ \A i \in 1..Len(undo[m]) : chain'[i] = chain[i],
           n \in agrees' => Agreed(chain', undo'[n], db'[n])
    PROVE  AgreeInv'
<1>1. ASSUME NEW m \in agrees' PROVE Agreed(chain', undo'[m], db'[m])
  <2>1. CASE m = n
    BY <1>1, <2>1
  <2>2. CASE m # n
    <3> DEFINE us == undo[m]
               d == db[m]
               c == chain
               w == chain'
    <3>1. m \in agrees /\ m \in Nodes
      BY <1>1 DEF IInv, Marks
    <3>2. IsList(us) /\ Agreed(c, us, d) /\ undo'[m] = us /\ db'[m] = d /\ \A i \in 1..Len(us) : w[i] = c[i]
      BY <2>2, <3>1 DEF IInv, Nodewise, NodeOK, BlocksOK, AgreeInv
    <3> HIDE DEF us, d, c, w
    <3>3. Agreed(w, us, d)
      BY <3>2, AgreedIn
    <3> QED
      BY <3>2, <3>3 DEF w
  <2> QED
    BY <2>1, <2>2
<1> QED
  BY <1>1 DEF AgreeInv

LEMMA CommitAgrees ==
    ASSUME IInv, MemInv, AgreeInv, Commit
    PROVE  AgreeInv'
<1>0. play.on /\ play.todo = <<>> /\ play' = Idle /\ ~ play'.on
  BY DEF Commit, Idle
<1>1. PICK n \in Nodes : /\ n = play.node /\ PlayMemAt(play, db[n], vm[n], cache[n], Sure(n), Read(n))
                         /\ PlayingOK(play) /\ play.db \in Tables
  BY <1>0, PlayerMem
<1> DEFINE p == play
           us == undo[n]
           u == p.undo
           d == db[n]
           e == p.db
           v == vm[n]
           k == cache[n]
           agree == n \in agrees
           ws == Append(us, u)
           b == [by |-> n, undo |-> u, db |-> e, fair |-> p.fair /\ agree]
           h == Len(us) + 1
           same == IF p.gen THEN p.fair ELSE p.fair /\ chain[h].fair
<1>2. CASE u = <<>>
  <2>1. UNCHANGED <<db, undo, chain, agrees>>
    BY <1>2 DEF Commit
  <2> QED
    BY <1>0, <2>1, LeaveAgrees
<1>3. CASE u # <<>>
  <2>1. /\ db' = [db EXCEPT ![n] = e] /\ undo' = [undo EXCEPT ![n] = ws]
        /\ chain' = IF p.gen THEN Append(chain, b) ELSE chain
        /\ agrees' = IF same THEN agrees ELSE agrees \ {n}
    BY <1>1, <1>3 DEF Commit
  <2>2. /\ DOMAIN db = Nodes /\ DOMAIN undo = Nodes
        /\ IsList(us) /\ IsList(chain) /\ IsList(u) /\ Len(us) \in Nat /\ Len(chain) \in Nat
        /\ \A m \in Nodes : Len(undo[m]) \in 0..Len(chain)
    BY <1>1, ListFacts DEF IInv, Nodewise, NodeOK, BlocksOK, BlockOK, ChainOK, PlayingOK
  <2>3. Continues(p, us, d.bal, Len(chain))
    BY <1>0, <1>1 DEF IInv, PlayInv, Idle
  <2>4. (p.gen => Len(us) = Len(chain)) /\ (~ p.gen => Len(us) < Len(chain))
    BY <2>3 DEF Continues
  <2>5. PlayAgrees(p, us, d, v, k, chain, agree) /\ ChainFair(chain)
        /\ (agree => Agreed(chain, us, d))
    BY <1>0, <1>1 DEF AgreeInv
  <2>6. BlockUndoes(d, u, e)
    BY <1>1 DEF PlayMemAt
  <2>7. b.by = n /\ b.undo = u /\ b.db = e /\ b.fair = (p.fair /\ agree)
    OBVIOUS
  <2>8. /\ undo'[n] = ws /\ db'[n] = e /\ agrees' \subseteq agrees
        /\ n \in agrees' => agree /\ same
        /\ \A m \in Nodes : m # n => db'[m] = db[m] /\ undo'[m] = undo[m]
    <3> HIDE DEF ws, e, same
    <3> QED
      BY <2>1, <2>2
  <2> HIDE DEF b
  <2>9. CASE p.gen
    <3>1. chain' = Append(chain, b) /\ Len(us) = Len(chain) /\ p.key = n
      BY <1>1, <2>1, <2>4, <2>5, <2>9 DEF PlayAgrees
    <3>2. p.fair /\ agree => GenPath(p, v, k, d) /\ d = DBAt(chain, Len(chain))
      BY <2>5, <2>9, <3>1 DEF PlayAgrees, Agreed
    <3> DEFINE c == chain
               w == chain'
    <3>3. b.fair => FairBlock(b, DBAt(c, Len(c)))
      <4> SUFFICES ASSUME b.fair PROVE FairBlock(b, DBAt(c, Len(c)))
        OBVIOUS
      <4>1. GenPath(p, v, k, d) /\ b.undo = p.undo /\ b.by = p.key /\ b.db = p.db
        BY <2>7, <3>1, <3>2
      <4> HIDE DEF p, v, k, d
      <4>2. FairBlock(b, d)
        BY <4>1, GenEnds
      <4> QED
        BY <2>7, <3>2, <4>2
    <3>4. ChainFair(w)
      <4>1. ChainFair(Append(c, b))
        <5> HIDE DEF c
        <5> QED
          BY <2>2, <2>5, <3>3, ChainFairMore DEF c
      <4> QED
        BY <3>1, <4>1
    <3>5. /\ w[Len(c) + 1] = b /\ \A i \in 1..Len(c) : w[i] = c[i]
      BY <2>2, <3>1, Appended
    <3> HIDE DEF w, c
    <3>6. \A m \in Nodes : \A i \in 1..Len(undo[m]) : i \in 1..Len(c)
      BY <2>2 DEF c
    <3>7. \A m \in Nodes : \A i \in 1..Len(undo[m]) : w[i] = c[i]
      BY <3>5, <3>6
    <3>8. ASSUME agree PROVE Agreed(w, ws, e)
      <4>1. Agreed(c, us, d) /\ \A i \in 1..Len(us) : w[i] = c[i]
        BY <2>5, <3>7, <3>8 DEF c
      <4> HIDE DEF us, d, u, e
      <4>2. Agreed(w, us, d)
        BY <2>2, <4>1, AgreedIn
      <4>3. b = w[Len(us) + 1] /\ b.db = e /\ u = b.undo
        BY <2>7, <3>1, <3>5 DEF c
      <4>4. Agreed(w, Append(us, u), b.db)
        BY <2>2, <2>6, <4>2, <4>3, AgreedMore
      <4> QED
        BY <4>3, <4>4
    <3> QED
      BY <1>0, <2>8, <3>4, <3>7, <3>8, AgreeStep DEF w, c, IInv, Marks
  <2>10. CASE ~ p.gen
    <3> DEFINE blk == chain[h]
    <3>1. chain' = chain /\ Len(us) < Len(chain)
      BY <2>1, <2>4, <2>10
    <3>2. BlockOK(blk.undo)
      BY <3>1, NextBlock
    <3>3. ASSUME agree, same PROVE Agreed(chain, ws, e)
      <4>1. Agreed(chain, us, d) /\ RecvPath(p, v, k, d, blk)
        BY <2>5, <2>10, <3>3 DEF PlayAgrees
      <4>2. p.todo = <<>> /\ IsList(blk.undo)
        BY <1>0, <3>2 DEF BlockOK
      <4>3. blk = chain[Len(us) + 1]
        OBVIOUS
      <4> DEFINE c == chain
                 q == p.undo
      <4>4. IsList(q) /\ u = q /\ e = p.db
        BY <2>2
      <4> HIDE DEF blk, p, us, d, v, k, u, e, c, q
      <4>5. p.db = blk.db /\ p.undo = blk.undo
        BY <4>1, <4>2, <4>4, RecvEnds DEF q
      <4>6. Agreed(c, Append(us, u), blk.db)
        BY <2>2, <2>6, <4>1, <4>3, <4>4, <4>5, AgreedMore DEF c, q
      <4> QED
        BY <4>4, <4>5, <4>6 DEF c
    <3> QED
      BY <1>0, <2>5, <2>8, <3>1, <3>3, AgreeStep DEF IInv, Marks
  <2> QED
    BY <2>9, <2>10
<1> QED
  BY <1>2, <1>3

LEMMA RestartAgrees ==
    ASSUME IInv, AgreeInv, NEW n \in Nodes, Restart(n)
    PROVE  AgreeInv'
<1>1. /\ ~ Playing(n) /\ vm' = [vm EXCEPT ![n] = LoadContracts(db[n].src)]
      /\ cache' = [cache EXCEPT ![n] = db[n].rate]
      /\ UNCHANGED <<db, undo, play, chain, agrees>>
  BY DEF Restart
<1>2. CASE ~ play.on
  BY <1>1, <1>2, AgreeSame
<1>3. CASE play.on
  <2>1. PICK m \in Nodes : m = play.node
    BY <1>3 DEF IInv, PlayInv, PlayingOK, Idle
  <2>2. m # n /\ DOMAIN vm = Nodes /\ DOMAIN cache = Nodes
    BY <1>1, <1>3, <2>1 DEF Playing, IInv, Nodewise
  <2>3. vm'[m] = vm[m] /\ cache'[m] = cache[m]
    BY <1>1, <2>2
  <2>4. PlayAgrees(play, undo[m], db[m], vm[m], cache[m], chain, m \in agrees)
    BY <1>3, <2>1 DEF AgreeInv
  <2>5. PlayAgrees(play', undo[m], db[m], vm'[m], cache'[m], chain, m \in agrees)
    BY <1>1, <2>3, <2>4
  <2> QED
    BY <1>1, <2>1, <2>5, AgreeSame
<1> QED
  BY <1>2, <1>3

LEMMA InitAgrees ==
    ASSUME Init
    PROVE  AgreeInv
<1> DEFINE c == chain
           us == <<>>
<1>1. c = <<>> /\ Len(c) = 0 /\ ~ play.on /\ agrees = Nodes
  BY DEF Init, Idle
<1>2. \A n \in Nodes : undo[n] = us /\ db[n] = Genesis
  BY DEF Init
<1>3. Len(us) = 0
  OBVIOUS
<1> HIDE DEF c, us
<1>4. ChainFair(c)
  <2>1. \A h \in 1..Len(c) : FALSE
    BY <1>1
  <2> QED
    BY <2>1 DEF ChainFair
<1>5. Agreed(c, us, Genesis)
  <2>1. \A i \in 1..Len(us) : FALSE
    BY <1>3
  <2> QED
    BY <1>3, <2>1 DEF Agreed, DBAt
<1> QED
  BY <1>1, <1>2, <1>4, <1>5 DEF AgreeInv, c

\* The blocks that remain when one is rolled back are those that some node still has.
LEMMA RollbackChain ==
    ASSUME IInv, NEW n \in Nodes, RollbackBlock(n)
    PROVE  /\ Len(chain) \in Nat /\ Len(chain') \in 0..Len(chain)
           /\ \A i \in 1..Len(chain') : chain'[i] = chain[i]
           /\ \A m \in Nodes : Len(undo'[m]) <= Len(chain')
<1> DEFINE kept == [undo EXCEPT ![n] = Front(@)]
           S == {Len(kept[m]) : m \in Nodes}
           top == CHOOSE h \in S : \A m \in Nodes : Len(kept[m]) <= h
           len == Len(chain)
<1>1. \/ UNCHANGED <<undo, chain>>
      \/ undo' = kept /\ chain' = SubSeq(chain, 1, top)
  BY DEF RollbackBlock
<1>2. /\ IsList(chain) /\ len \in Nat
      /\ \A m \in Nodes : BlocksOK(undo[m]) /\ HistoryOK(undo[m], db[m].bal) /\ Len(undo[m]) \in 0..len
  BY ListFacts DEF IInv, ChainOK, Nodewise, NodeOK, BlocksOK
<1>3. DOMAIN undo = Nodes /\ undo[n] # <<>>
  BY DEF IInv, Nodewise, RollbackBlock
<1>4. Len(Front(undo[n])) \in 0..len
  <2>1. BlocksOK(Front(undo[n])) /\ Len(Front(undo[n])) <= Len(undo[n])
    BY <1>2, <1>3, HistoryLast
  <2>2. Len(Front(undo[n])) \in Nat
    BY <2>1, ListFacts DEF BlocksOK
  <2> QED
    BY <1>2, <2>1, <2>2
<1>5. \A m \in Nodes : kept[m] = IF m = n THEN Front(undo[n]) ELSE undo[m]
  BY <1>3
<1> HIDE DEF kept
<1>6. \A m \in Nodes : Len(kept[m]) \in 0..len
  BY <1>2, <1>4, <1>5
<1>7. top \in 0..len /\ \A m \in Nodes : Len(kept[m]) <= top
  <2>1. S \subseteq 0..len /\ S # {}
    BY <1>6
  <2> HIDE DEF S
  <2>2. \E h \in S : \A x \in S : x <= h
    BY <1>2, <2>1, Greatest
  <2>3. \A m \in Nodes : Len(kept[m]) \in S
    BY DEF S
  <2>4. \E h \in S : \A m \in Nodes : Len(kept[m]) <= h
    BY <2>2, <2>3
  <2> QED
    BY <2>1, <2>4 DEF top
<1> HIDE DEF top, len, S
<1>8. CASE UNCHANGED <<undo, chain>>
  BY <1>2, <1>8 DEF len
<1>9. CASE undo' = kept /\ chain' = SubSeq(chain, 1, top)
  <2>1. Len(chain') = top /\ \A i \in 1..top : chain'[i] = chain[i]
    BY <1>2, <1>7, <1>9, Shortened DEF len
  <2> QED
    BY <1>2, <1>7, <1>9, <2>1 DEF len
<1> QED
  BY <1>1, <1>8, <1>9

LEMMA StateTables ==
    ASSUME NEW d, NEW k, NEW r, r = State(d, k)
    PROVE  r.db = d
  BY DEF State

\* The node that rolls its last block back has the tables before it.
LEMMA AgreedLess ==
    ASSUME NEW c, NEW us, BlocksOK(us), us # <<>>, NEW d, Agreed(c, us, d), NEW v,
           NEW r, r = RolledBack(State(d, v), Last(us)), ~ Failed(r)
    PROVE  Agreed(c, Front(us), r.db)
<1> DEFINE n == Len(us)
           f == SubSeq(us, 1, n - 1)
<1>1. n \in Nat /\ n # 0
  <2>1. PICK S : us \in Seq(S)
    BY DEF BlocksOK, IsList
  <2> QED
    BY <2>1
<1>2. Last(us) = us[n] /\ Front(us) = f
  BY DEF Last, Front
<1>3. n - 1 \in 0..n /\ n \in 1..n /\ IsList(us) /\ \A i \in 1..n-1 : i \in 1..n
  BY <1>1 DEF BlocksOK
<1>4. Len(f) = n - 1 /\ \A i \in 1..n-1 : f[i] = us[i]
  BY <1>3, Shortened
<1>5. /\ d = DBAt(c, n)
      /\ \A i \in 1..n : us[i] = c[i].undo /\ BlockUndoes(DBAt(c, i-1), us[i], DBAt(c, i))
  BY DEF Agreed
<1> DEFINE d0 == DBAt(c, n-1)
           u == us[n]
<1>6. BlockUndoes(d0, u, d) /\ r = RolledBack(State(d, v), u)
  BY <1>2, <1>3, <1>5
<1> HIDE DEF d0, u, n, f
<1>7. Undone(r, d0, v = LoadContracts(d.src), BadColumn(u))
  BY <1>6 DEF BlockUndoes
<1>8. r.db = d0
  <2> DEFINE k == r.vm
  <2>1. r = State(d0, k)
    BY <1>7 DEF Undone
  <2> HIDE DEF k
  <2> QED
    BY <2>1, StateTables
<1>9. Agreed(c, f, r.db)
  BY <1>3, <1>4, <1>5, <1>8 DEF Agreed, d0
<1> QED
  BY <1>2, <1>9

LEMMA RollbackBlockAgrees ==
    ASSUME IInv, AgreeInv, NEW n \in Nodes, RollbackBlock(n)
    PROVE  AgreeInv'
<1> DEFINE us == undo[n]
           d == db[n]
           r == RolledBack(State(d, vm[n]), Last(us))
           w == chain'
           bad == Failed(r)
<1>1. us # <<>> /\ ~ play'.on /\ agrees' = agrees
  BY DEF RollbackBlock
<1>2. /\ bad => db' = db /\ undo' = undo
      /\ ~ bad => db' = [db EXCEPT ![n] = r.db] /\ undo' = [undo EXCEPT ![n] = Front(us)]
  BY DEF RollbackBlock, State, Failed
<1>3. DOMAIN db = Nodes /\ DOMAIN undo = Nodes /\ BlocksOK(us)
  BY DEF IInv, Nodewise, NodeOK
<1>4. /\ Len(chain) \in Nat /\ Len(w) \in 0..Len(chain) /\ \A i \in 1..Len(w) : w[i] = chain[i]
      /\ \A m \in Nodes : Len(undo'[m]) <= Len(w)
  BY RollbackChain
<1>5. \A m \in Nodes : IsList(undo'[m]) /\ Len(undo'[m]) \in Nat
  <2>1. IInv'
    BY RollbackBlockKeeps
  <2> QED
    BY <2>1, ListFacts DEF IInv, Nodewise, NodeOK, BlocksOK
<1>6. ChainFair(w)
  <2> DEFINE c == chain
  <2>1. ChainFair(c) /\ Len(c) \in Nat /\ Len(w) \in 0..Len(c) /\ \A i \in 1..Len(w) : w[i] = c[i]
    BY <1>4 DEF AgreeInv
  <2> HIDE DEF w, c
  <2> QED
    BY <2>1, ChainFairLess
<1> HIDE DEF r, d, us, w, bad
<1>7. \A m \in Nodes : \A i \in 1..Len(undo'[m]) : i \in 1..Len(w)
  BY <1>4, <1>5
<1>8. \A m \in Nodes : \A i \in 1..Len(undo'[m]) : w[i] = chain[i]
  BY <1>4, <1>7
<1>9. \A m \in Nodes : m # n => db'[m] = db[m] /\ undo'[m] = undo[m]
  BY <1>2, <1>3
<1>10. ASSUME n \in agrees PROVE Agreed(w, undo'[n], db'[n])
  <2>1. Agreed(chain, us, d)
    BY <1>10 DEF AgreeInv, us, d
  <2>2. Agreed(chain, undo'[n], db'[n])
    <3>1. CASE bad
      BY <1>2, <2>1, <3>1 DEF us, d
    <3>2. CASE ~ bad
      <4>1. Agreed(chain, Front(us), r.db)
        <5> DEFINE v == vm[n]
                   c == chain
        <5>1. r = RolledBack(State(d, v), Last(us)) /\ ~ Failed(r) /\ Agreed(c, us, d)
          BY <2>1, <3>2 DEF r, bad
        <5> HIDE DEF v, c
        <5>2. Agreed(c, Front(us), r.db)
          BY <1>1, <1>3, <5>1, AgreedLess
        <5> QED
          BY <5>2 DEF c
      <4>2. db'[n] = r.db /\ undo'[n] = Front(us)
        BY <1>2, <1>3, <3>2
      <4> QED
        BY <4>1, <4>2
    <3> QED
      BY <3>1, <3>2
  <2> DEFINE c == chain
             ws == undo'[n]
             e == db'[n]
  <2>3. Agreed(c, ws, e) /\ IsList(ws) /\ \A i \in 1..Len(ws) : w[i] = c[i]
    BY <1>5, <1>8, <2>2
  <2> HIDE DEF c, ws, e
  <2>4. Agreed(w, ws, e)
    BY <2>3, AgreedIn
  <2> QED
    BY <2>4 DEF ws, e
<1>11. \A m \in agrees : m # n => /\ db'[m] = db[m] /\ undo'[m] = undo[m]
                                  /\ \A i \in 1..Len(undo[m]) : chain'[i] = chain[i]
  <2>1. agrees \subseteq Nodes
    BY DEF IInv, Marks
  <2> QED
    BY <1>8, <1>9, <2>1 DEF w
<1> QED
  BY <1>1, <1>6, <1>10, <1>11, AgreeStep DEF w

LEMMA PlayTxAgrees ==
    ASSUME IInv, MemInv, AgreeInv, PlayTx
    PROVE  AgreeInv'
<1>1. play.on /\ play.todo # <<>>
  BY DEF PlayTx
<1>2. PICK r \in Results : Keep(r) \/ Skip(r) \/ Stop(r) \/ Reject(r)
  BY DEF PlayTx
<1> QED
  BY <1>1, <1>2, KeepAgrees, SkipAgrees, StopAgrees, RejectAgrees

LEMMA NextAgrees ==
    ASSUME IInv, MemInv, AgreeInv, [Next]_vars
    PROVE  AgreeInv'
<1>1. CASE Next
  BY <1>1, PlayTxAgrees, CommitAgrees, DropAgrees, GenerateAgrees, ReceiveAgrees,
     RollbackBlockAgrees, RestartAgrees DEF Next
<1>2. CASE UNCHANGED vars
  BY <1>2 DEF vars, AgreeInv
<1> QED
  BY <1>1, <1>2

LEMMA AlwaysAgrees ==
    Spec => [](IInv /\ MemInv /\ AgreeInv)
<1>1. Init => IInv /\ MemInv /\ AgreeInv
  BY InitOK, InitTrue, InitAgrees
<1>2. IInv /\ MemInv /\ AgreeInv /\ [Next]_vars => (IInv /\ MemInv /\ AgreeInv)'
  BY NextKeeps, NextTrue, NextAgrees
<1> QED
  BY <1>1, <1>2, PTL DEF Spec

\* A node that has the blocks of a chain, all played with a memory that was right and none holding a
\* transaction that pays in several tokens, has the data that their generators had and the same
\* entries for their rollback.
THEOREM AgreementIsKept ==
    Spec => []AgreesWithChain
<1>1. ASSUME AgreeInv, NEW n \in agrees
      PROVE  LET h == Len(undo[n])
             IN  /\ db[n] = IF h = 0 THEN Genesis ELSE chain[h].db
                 /\ \A i \in 1..h : undo[n][i] = chain[i].undo
  <2>1. Agreed(chain, undo[n], db[n])
    BY <1>1 DEF AgreeInv
  <2> QED
    BY <2>1 DEF Agreed, DBAt
<1>2. AgreeInv => AgreesWithChain
  BY <1>1 DEF AgreesWithChain
<1> QED
  BY <1>2, AlwaysAgrees, PTL

\* What is next in a block whose generator's memory was right, and that holds nothing paid in several
\* tokens, comes to no error for another node whose memory is right.
LEMMA ReplayKept ==
    ASSUME IInv, MemInv, AgreeInv, play.on, ~ play.gen, play.todo # <<>>, play.fair,
           play.node \in agrees, chain[Len(undo[play.node]) + 1].fair, NEW r \in Results
    PROVE  ~ Failed(r)
<1>1. PICK n \in Nodes : n = play.node /\ PlayingOK(play)
  BY PlayerMem
<1> DEFINE p == play
           v == vm[n]
           k == cache[n]
           d == db[n]
           blk == chain[Len(undo[n]) + 1]
           t == Head(p.todo)
           a == Now(p, v, k)
<1>2. RecvPath(p, v, k, d, blk)
  BY <1>1 DEF AgreeInv, PlayAgrees
<1>3. \E q \in Orders(Tokens[t]) : r = Ran(a, t, q, p.key)
  BY <1>1, ResultIsRan
<1>4. PICK q \in Orders(Tokens[t]) : r = Ran(a, t, q, p.key)
  BY <1>3
<1>5. Len(undo[n]) < Len(chain)
  BY <1>1 DEF IInv, PlayInv, Idle, Continues
<1>6. BlockOK(blk.undo)
  BY <1>5, NextBlock
<1>7. IsList(p.undo) /\ p.todo \in Seq(Txs) /\ p.todo # <<>>
  BY <1>1 DEF PlayingOK, BlockOK
<1>8. q \in Orders(Tokens[Head(p.todo)]) /\ r = Ran(Now(p, v, k), Head(p.todo), q, p.key)
  BY <1>3, <1>4
<1> HIDE DEF p, v, k, d, blk, t, a
<1> QED
  BY <1>2, <1>3, <1>6, <1>7, <1>8, KeptToo

\* A node whose memory was right whenever it played a block, as its generator's was, rejects none of
\* those whose transactions pay in one token or in none.
THEOREM ReplaysAreAccepted ==
    Spec => ReplayAccepts
<1>1. ASSUME IInv, MemInv, AgreeInv, [Next]_vars, play.on, ~ play.gen, play.todo # <<>>,
             ~ play'.on, faults' = faults, play.fair, play.node \in agrees,
             chain[Len(undo[play.node]) + 1].fair
      PROVE  FALSE
  <2>1. \A m : ~ Generate(m) /\ ~ Receive(m)
    BY <1>1, Zenon DEF Generate, Receive, StartPlay
  <2>2. \A m : ~ RollbackBlock(m) /\ ~ Restart(m)
    BY <1>1 DEF RollbackBlock, Restart
  <2>3. ~ Commit /\ ~ Drop /\ ~ UNCHANGED vars
    BY <1>1 DEF Commit, Drop, vars
  <2>4. PlayTx
    BY <1>1, <2>1, <2>2, <2>3, Zenon DEF Next
  <2>5. PICK r \in Results : Keep(r) \/ Skip(r) \/ Stop(r) \/ Reject(r)
    BY <2>4 DEF PlayTx
  <2>6. ~ Failed(r)
    BY <1>1, ReplayKept
  <2>7. Reject(r) => Failed(r)
    BY DEF Reject, Failed
  <2>8. ~ Skip(r) /\ ~ Stop(r)
    BY <1>1 DEF Skip, Stop
  <2>9. ~ Keep(r)
    <3>1. PlayingOK(play)
      BY <1>1 DEF IInv, PlayInv, Idle
    <3>2. DOMAIN play = PlayFields
      BY <3>1 DEF PlayingOK
    <3>3. Keep(r) => play'.on = play.on
      BY <3>2 DEF Keep, PlayFields
    <3> QED
      BY <1>1, <3>3
  <2> QED
    BY <2>5, <2>6, <2>7, <2>8, <2>9
<1>2. IInv /\ MemInv /\ AgreeInv /\ [Next]_vars =>
        ~ (/\ play.on /\ ~ play.gen /\ play.todo # <<>> /\ ~ play'.on /\ faults' = faults
           /\ play.fair /\ play.node \in agrees /\ chain[Len(undo[play.node]) + 1].fair)
  BY <1>1, Zenon
<1> QED
  BY <1>2, AlwaysAgrees, PTL DEF Spec, ReplayAccepts
=============================================================================
