---------------------------- MODULE TxPool_proofs ----------------------------
(***************************************************************************)
(* Proofs about TxPool: its type invariant, that a transaction whose       *)
(* client has no answer waits in a table, that a block number a client     *)
(* reads is the block of its transaction, and that what the generator      *)
(* collects passes the limits of the hosts.                                *)
(*                                                                         *)
(* First the collection of a list, by induction on the list it is          *)
(* collected from; then what marking and playing do to the rows; then one  *)
(* lemma for each action and invariant.                                    *)
(***************************************************************************)
EXTENDS TxPool, FiniteSetTheorems, SequencesExt, SequenceTheorems, WellFoundedInduction, TLAPS

-----------------------------------------------------------------------------
(* Recursive functions.  The induction is by the least counterexample in a   *)
(* well-founded order: the library's induction theorems take an operator,    *)
(* which the provers cannot instantiate.                                     *)

\* Induction on numbers, without an operator: a set that has 0 and with a number its
\* successor, up to n.
LEMMA UpTo ==
    ASSUME NEW n \in Nat, NEW P, 0 \in P, \A i \in 0..n-1 : i \in P => i + 1 \in P
    PROVE  n \in P
<1> DEFINE T == {i \in 0..n : i \notin P}
           R == OpToRel(<, Nat)
<1>1. IsWellFoundedOn(R, Nat)
  BY NatLessThanWellFounded
<1>2. \A x, y \in Nat : y < x => <<y, x>> \in R
  BY DEF OpToRel
<1> HIDE DEF R
<1>3. ASSUME T # {} PROVE FALSE
  <2>1. T \subseteq Nat
    OBVIOUS
  <2> HIDE DEF T
  <2>2. PICK i \in T : \A y \in T : ~ (<<y, i>> \in R)
    BY <1>1, <1>3, <2>1, WFMin
  <2>3. \A y \in T : ~ (y < i)
    BY <1>2, <2>1, <2>2
  <2>4. i \in 0..n /\ i \notin P /\ i # 0
    BY DEF T
  <2>5. i - 1 \in 0..n-1 /\ i - 1 \notin P
    BY <2>4
  <2>6. i - 1 \in T
    BY <2>4, <2>5 DEF T
  <2> QED
    BY <2>3, <2>4, <2>6
<1> QED
  BY <1>3

\* The function defined by recursion on a number up to n, from b, with a step for each number.
Recurs(f, S, n, b, step) ==
    /\ f \in [0..n -> S]
    /\ f[0] = b
    /\ \A i \in 1..n : f[i] = step[i][f[i-1]]

\* Such a function exists.
LEMMA Recursion ==
    ASSUME NEW S, NEW n \in Nat, NEW b \in S, NEW step \in [1..n -> [S -> S]]
    PROVE  \E f : Recurs(f, S, n, b, step)
<1> DEFINE Ok(f, m) == f[0] = b /\ \A i \in 1..m : f[i] = step[i][f[i-1]]
           P == {m \in 0..n : \E f \in [0..m -> S] : Ok(f, m)}
<1>1. 0 \in P
  <2> DEFINE f == [i \in 0..0 |-> b]
  <2>1. f \in [0..0 -> S] /\ f[0] = b /\ \A i \in 1..0 : FALSE
    OBVIOUS
  <2> HIDE DEF f
  <2>2. Ok(f, 0)
    BY <2>1
  <2> HIDE DEF Ok
  <2> QED
    BY <2>1, <2>2
<1>2. ASSUME NEW m \in 0..n-1, m \in P PROVE m + 1 \in P
  <2>1. PICK f \in [0..m -> S] : Ok(f, m)
    BY <1>2
  <2>2. /\ m \in Nat /\ m + 1 \in 1..n /\ m \in 0..m /\ m + 1 \in 0..n
        /\ \A i \in 0..m+1 : i \in 0..m \/ i = m + 1
        /\ m + 1 \notin 0..m
        /\ \A i \in 1..m : i \in 0..m /\ i - 1 \in 0..m /\ i \in 0..m+1 /\ i - 1 \in 0..m+1
    OBVIOUS
  <2> DEFINE next == step[m+1][f[m]]
  <2>3. next \in S
    BY <2>2
  <2> HIDE DEF next
  <2> DEFINE g == [i \in 0..m+1 |-> IF i = m + 1 THEN next ELSE f[i]]
  <2>4. g \in [0..m+1 -> S]
    BY <2>2, <2>3
  <2>5. g[m+1] = next /\ \A i \in 0..m : g[i] = f[i]
    BY <2>2
  <2> HIDE DEF g
  <2>6. g[0] = b
    BY <2>1, <2>2, <2>5
  <2>7. \A i \in 1..m+1 : g[i] = step[i][g[i-1]]
    <3> TAKE i \in 1..m+1
    <3>1. CASE i = m + 1
      <4>1. i - 1 = m
        BY <2>2, <3>1
      <4> QED
        BY <2>2, <2>5, <3>1, <4>1 DEF next
    <3>2. CASE i \in 1..m
      BY <2>1, <2>2, <2>5, <3>2
    <3> QED
      BY <2>2, <3>1, <3>2
  <2>8. Ok(g, m + 1)
    BY <2>6, <2>7
  <2> HIDE DEF Ok
  <2> QED
    BY <2>2, <2>4, <2>8
<1> HIDE DEF P, Ok
<1>3. n \in P
  BY <1>1, <1>2, UpTo
<1> QED
  BY <1>3 DEF P, Ok, Recurs

\* The selection, element by element.
LEMMA OnlySteps ==
    ASSUME NEW S, NEW s \in Seq(S), NEW T
    PROVE  \E only : /\ Only(s, T) = only[Len(s)]
                     /\ only[0] = <<>>
                     /\ \A i \in 1..Len(s) :
                          only[i] = IF s[i] \in T THEN Append(only[i-1], s[i]) ELSE only[i-1]
<1> DEFINE D(h, i) == IF i = 0 THEN <<>>
                      ELSE IF s[i] \in T THEN Append(h[i-1], s[i]) ELSE h[i-1]
           only == CHOOSE g : g = [i \in 0..Len(s) |-> D(g, i)]
<1>1. Only(s, T) = only[Len(s)]
  BY DEF Only
<1>2. Len(s) \in Nat
  OBVIOUS
<1>3. only = [i \in 0..Len(s) |-> D(only, i)]
  <2> DEFINE n == Len(s)
             step == [i \in 1..n |->
                        [q \in Seq(S) |-> IF s[i] \in T THEN Append(q, s[i]) ELSE q]]
  <2>1. step \in [1..n -> [Seq(S) -> Seq(S)]] /\ <<>> \in Seq(S)
    <3>1. ASSUME NEW i \in 1..n, NEW q \in Seq(S)
          PROVE  (IF s[i] \in T THEN Append(q, s[i]) ELSE q) \in Seq(S)
      <4>1. s[i] \in S
        OBVIOUS
      <4> QED
        BY <4>1
    <3> QED
      BY <3>1
  <2>2. \A q \in Seq(S), i \in 1..n :
           step[i][q] = IF s[i] \in T THEN Append(q, s[i]) ELSE q
    OBVIOUS
  <2> HIDE DEF step, n
  <2>3. n \in Nat
    BY <1>2 DEF n
  <2>4. PICK f \in [0..n -> Seq(S)] : f[0] = <<>> /\ \A i \in 1..n : f[i] = step[i][f[i-1]]
    <3> DEFINE Q == Seq(S)
    <3>1. PICK b \in Q : b = <<>>
      BY <2>1
    <3>2. step \in [1..n -> [Q -> Q]]
      BY <2>1
    <3> HIDE DEF Q
    <3>3. PICK f : Recurs(f, Q, n, b, step)
      BY <2>3, <3>1, <3>2, Recursion
    <3> QED
      BY <3>1, <3>3 DEF Q, Recurs
  <2>5. \A i \in 0..n : f[i] = D(f, i)
    <3> TAKE i \in 0..n
    <3>1. CASE i = 0
      BY <2>4, <3>1
    <3>2. CASE i # 0
      <4>1. i \in 1..n /\ i - 1 \in 0..n
        BY <2>3, <3>2
      <4>2. f[i-1] \in Seq(S) /\ f[i] = step[i][f[i-1]]
        BY <2>4, <4>1
      <4>3. f[i] = IF s[i] \in T THEN Append(f[i-1], s[i]) ELSE f[i-1]
        BY <2>2, <4>1, <4>2
      <4> QED
        BY <3>2, <4>3
    <3> QED
      BY <3>1, <3>2
  <2> HIDE DEF D
  <2>6. f = [i \in 0..n |-> D(f, i)]
    BY <2>4, <2>5
  <2>7. \E g : g = [i \in 0..Len(s) |-> D(g, i)]
    BY <2>6 DEF n
  <2> QED
    BY <2>7
<1> HIDE DEF only
<1>4. only[0] = <<>>
  BY <1>2, <1>3
<1>5. \A i \in 1..Len(s) :
         only[i] = IF s[i] \in T THEN Append(only[i-1], s[i]) ELSE only[i-1]
  <2> TAKE i \in 1..Len(s)
  <2>1. i \in 0..Len(s) /\ i # 0
    BY <1>2
  <2>2. only[i] = D(only, i)
    BY <1>3, <2>1
  <2> QED
    BY <2>1, <2>2
<1> QED
  BY <1>1, <1>4, <1>5

\* Only the elements in T are left, and all of them.
LEMMA OnlyElements ==
    ASSUME NEW S, NEW s \in Seq(S), NEW T
    PROVE  Only(s, T) \in Seq(S) /\ ToSet(Only(s, T)) = ToSet(s) \cap T
<1>2. Len(s) \in Nat /\ DOMAIN s = 1..Len(s) /\ \A i \in 1..Len(s) : s[i] \in S
  OBVIOUS
<1>1. PICK only : /\ Only(s, T) = only[Len(s)]
                  /\ only[0] = <<>>
                  /\ \A i \in 1..Len(s) :
                       only[i] = IF s[i] \in T THEN Append(only[i-1], s[i]) ELSE only[i-1]
  BY OnlySteps
<1> DEFINE P == {i \in 0..Len(s) : /\ only[i] \in Seq(S)
                                   /\ ToSet(only[i]) = {s[j] : j \in 1..i} \cap T}
<1>4. 0 \in P
  <2>1. only[0] = <<>>
    BY <1>1
  <2>2. {s[j] : j \in 1..0} \cap T = {} /\ ToSet(<<>>) = {}
    BY DEF ToSet
  <2>3. <<>> \in Seq(S) /\ 0 \in 0..Len(s)
    BY <1>2
  <2>4. only[0] \in Seq(S) /\ ToSet(only[0]) = {s[j] : j \in 1..0} \cap T
    BY <2>1, <2>2, <2>3
  <2> QED
    BY <2>3, <2>4
<1>5. ASSUME NEW i \in 0..Len(s)-1, i \in P PROVE i + 1 \in P
  <2>1. /\ i + 1 \in 1..Len(s) /\ i + 1 # 0 /\ (i + 1) - 1 = i
        /\ i + 1 \in 0..Len(s) /\ i \in 0..Len(s)
    BY <1>2
  <2>2. only[i+1] = IF s[i+1] \in T THEN Append(only[i], s[i+1]) ELSE only[i]
    BY <1>1, <2>1
  <2>3. only[i] \in Seq(S) /\ ToSet(only[i]) = {s[j] : j \in 1..i} \cap T
    BY <1>5
  <2>4. {s[j] : j \in 1..i+1} = {s[j] : j \in 1..i} \cup {s[i+1]}
    <3>1. \A j \in 1..i+1 : j \in 1..i \/ j = i + 1
      BY <1>2
    <3>2. \A j \in 1..i : j \in 1..i+1
      BY <1>2
    <3>3. i + 1 \in 1..i+1
      BY <1>2
    <3> QED
      BY <3>1, <3>2, <3>3
  <2>5. s[i+1] \in S
    BY <1>2, <2>1
  <2>6. CASE s[i+1] \in T
    <3> DEFINE q == only[i]
               r == Append(q, s[i+1])
    <3>1. q \in Seq(S) /\ Len(q) \in Nat /\ DOMAIN q = 1..Len(q)
      BY <2>3
    <3> HIDE DEF q
    <3>2. /\ r \in Seq(S) /\ DOMAIN r = 1..Len(q)+1
          /\ \A j \in 1..Len(q) : r[j] = q[j]
          /\ r[Len(q)+1] = s[i+1]
      BY <2>5, <3>1
    <3> HIDE DEF r
    <3>3. ToSet(r) = ToSet(q) \cup {s[i+1]}
      <4>1. \A j \in DOMAIN r : r[j] \in ToSet(q) \cup {s[i+1]}
        <5> TAKE j \in DOMAIN r
        <5>1. j \in 1..Len(q) \/ j = Len(q) + 1
          BY <3>1, <3>2
        <5> QED
          BY <3>1, <3>2, <5>1 DEF ToSet
      <4>2. \A j \in DOMAIN q : j \in DOMAIN r /\ r[j] = q[j]
        BY <3>1, <3>2
      <4>3. Len(q) + 1 \in DOMAIN r
        BY <3>1, <3>2
      <4> QED
        BY <3>2, <4>1, <4>2, <4>3 DEF ToSet
    <3>4. only[i+1] = r /\ ToSet(q) = {s[j] : j \in 1..i} \cap T
      BY <2>2, <2>3, <2>6 DEF q, r
    <3>5. ToSet(only[i+1]) = {s[j] : j \in 1..i+1} \cap T
      BY <2>4, <2>6, <3>3, <3>4
    <3> QED
      BY <2>1, <3>2, <3>4, <3>5
  <2>7. CASE s[i+1] \notin T
    <3>1. ToSet(only[i+1]) = {s[j] : j \in 1..i+1} \cap T
      BY <2>2, <2>3, <2>4, <2>7
    <3> QED
      BY <2>1, <2>2, <2>3, <2>7, <3>1
  <2> QED
    BY <2>6, <2>7
<1> HIDE DEF P
<1>6. Len(s) \in P
  BY <1>2, <1>4, <1>5, UpTo
<1>7. ToSet(s) = {s[j] : j \in 1..Len(s)}
  BY <1>2 DEF ToSet
<1> QED
  BY <1>1, <1>6, <1>7 DEF P

\* The order stays: if after an element of B there are only elements of B, this holds of what
\* is left as well.
LEMMA OnlyKeepsLast ==
    ASSUME NEW S, NEW s \in Seq(S), NEW T, NEW B,
           \A i, j \in 1..Len(s) : i < j /\ s[i] \in B => s[j] \in B
    PROVE  \A i, j \in 1..Len(Only(s, T)) :
              i < j /\ Only(s, T)[i] \in B => Only(s, T)[j] \in B
<1>1. PICK only : /\ Only(s, T) = only[Len(s)]
                  /\ only[0] = <<>>
                  /\ \A i \in 1..Len(s) :
                       only[i] = IF s[i] \in T THEN Append(only[i-1], s[i]) ELSE only[i-1]
  BY OnlySteps
<1>2. Len(s) \in Nat /\ \A i \in 1..Len(s) : s[i] \in S
  OBVIOUS
<1> DEFINE From(q, i) == q \in Seq(S) /\ \A j \in 1..Len(q) : \E k \in 1..i : q[j] = s[k]
           Closed(q) == \A i, j \in 1..Len(q) : i < j /\ q[i] \in B => q[j] \in B
           P == {i \in 0..Len(s) : From(only[i], i) /\ Closed(only[i])}
<1>3. 0 \in P
  <2>1. From(<<>>, 0) /\ Closed(<<>>)
    OBVIOUS
  <2> HIDE DEF From, Closed
  <2> QED
    BY <1>1, <1>2, <2>1
<1>4. ASSUME NEW i \in 0..Len(s)-1, i \in P PROVE i + 1 \in P
  <2>1. /\ i + 1 \in 1..Len(s) /\ (i + 1) - 1 = i /\ i + 1 \in 0..Len(s)
    BY <1>2
  <2>2. only[i+1] = IF s[i+1] \in T THEN Append(only[i], s[i+1]) ELSE only[i]
    BY <1>1, <2>1
  <2>3. From(only[i], i) /\ Closed(only[i])
    BY <1>4
  <2> DEFINE q == only[i]
             r == Append(q, s[i+1])
  <2>4. q \in Seq(S) /\ Len(q) \in Nat /\ \A k \in 1..i : k \in 1..i+1 /\ k \in 1..Len(s) /\ k < i + 1
    BY <1>2, <2>3
  <2>5. CASE s[i+1] \in T
    <3>1. only[i+1] = r
      BY <2>2, <2>5
    <3> HIDE DEF q
    <3>2. /\ r \in Seq(S) /\ Len(r) = Len(q) + 1
          /\ \A j \in 1..Len(q) : r[j] = q[j]
          /\ r[Len(q)+1] = s[i+1]
      BY <1>2, <2>1, <2>4, AppendProperties
    <3> HIDE DEF r
    <3>3. \A j \in 1..Len(r) : j \in 1..Len(q) \/ j = Len(q) + 1
      BY <2>4, <3>2
    <3>4. From(q, i) /\ Closed(q)
      BY <2>3 DEF q
    <3>5. From(r, i + 1)
      <4>1. \A j \in 1..Len(r) : \E k \in 1..i+1 : r[j] = s[k]
        <5> TAKE j \in 1..Len(r)
        <5>1. CASE j \in 1..Len(q)
          BY <2>4, <3>2, <3>4, <5>1
        <5>2. CASE j = Len(q) + 1
          <6>1. i + 1 \in 1..i+1
            BY <1>2
          <6> QED
            BY <3>2, <5>2, <6>1
        <5> QED
          BY <3>3, <5>1, <5>2
      <4> QED
        BY <3>2, <4>1
    <3>6. Closed(r)
      <4> SUFFICES ASSUME NEW m \in 1..Len(r), NEW n \in 1..Len(r), m < n, r[m] \in B
                   PROVE  r[n] \in B
        OBVIOUS
      <4>1. m \in 1..Len(q) /\ r[m] = q[m]
        BY <2>4, <3>2
      <4>2. CASE n \in 1..Len(q)
        BY <3>2, <3>4, <4>1, <4>2
      <4>3. CASE n = Len(q) + 1
        <5>1. PICK k \in 1..i : q[m] = s[k]
          BY <3>4, <4>1
        <5> QED
          BY <2>1, <2>4, <3>2, <4>1, <4>3, <5>1
      <4> QED
        BY <3>3, <4>2, <4>3
    <3> HIDE DEF From, Closed
    <3> QED
      BY <2>1, <3>1, <3>5, <3>6
  <2>6. CASE s[i+1] \notin T
    <3>1. From(q, i + 1)
      BY <2>3, <2>4
    <3> HIDE DEF From, Closed
    <3> QED
      BY <2>1, <2>2, <2>3, <2>6, <3>1
  <2> QED
    BY <2>5, <2>6
<1> HIDE DEF P
<1>5. Len(s) \in P
  BY <1>2, <1>3, <1>4, UpTo
<1> QED
  BY <1>1, <1>5 DEF P

-----------------------------------------------------------------------------
(* The lists.                                                                *)

\* A prefix of a sequence.
LEMMA FirstOfSeq ==
    ASSUME NEW S, NEW s \in Seq(S), NEW n \in Nat
    PROVE  /\ First(s, n) \in Seq(S)
           /\ Len(First(s, n)) <= Len(s)
           /\ \A i \in 1..Len(First(s, n)) : First(s, n)[i] = s[i]
<1> DEFINE k == IF Len(s) < n THEN Len(s) ELSE n
<1>1. k \in 0..Len(s) /\ Len(s) \in Nat
  OBVIOUS
<1> HIDE DEF k
<1>2. \A i \in 1..k : s[i] \in S
  BY <1>1
<1>3. /\ SubSeq(s, 1, k) \in Seq(S)
      /\ Len(SubSeq(s, 1, k)) = k
      /\ \A i \in 1..k : SubSeq(s, 1, k)[i] = s[i]
  BY <1>1, <1>2, SubSeqProperties
<1> QED
  BY <1>1, <1>3 DEF First, k

\* The batch of the queue parser: transactions of the queue, or unverified ones of the pool.
LEMMA BatchRows ==
    /\ Batch \in Seq(Txs)
    /\ Range(Batch) \subseteq DOMAIN queue \cup DOMAIN pool
<1> DEFINE S == DOMAIN queue \cup {t \in DOMAIN pool : pool[t] = "unverified"}
           s == Only(Arrival, S)
<1>1. s \in Seq(Txs) /\ ToSet(s) \subseteq S
  BY PoolAssumption, OnlyElements
<1> HIDE DEF s
<1>2. /\ First(s, MaxTxCount) \in Seq(Txs)
      /\ \A i \in 1..Len(First(s, MaxTxCount)) :
           First(s, MaxTxCount)[i] = s[i] /\ i \in 1..Len(s)
  BY <1>1, FirstOfSeq, PoolAssumption
<1>3. Range(First(s, MaxTxCount)) \subseteq S
  BY <1>1, <1>2 DEF Range, ToSet
<1>4. Batch = First(s, MaxTxCount)
  BY DEF Batch, s
<1> QED
  BY <1>2, <1>3, <1>4

\* The delayed contracts, once each.
LEMMA DelayedSeq == RunForDelayBlockID \in Seq(Delayed)
<1> DEFINE n == Cardinality(Delayed)
<1>1. n \in Nat /\ ExistsBijection(1..n, Delayed)
  BY PoolAssumption, FS_CardinalityType
<1>2. \E f \in [1..n -> Delayed] : IsInjective(f)
  BY <1>1 DEF ExistsBijection, Bijection, Injection, Surjection, IsInjective
<1>3. SetToSeq(Delayed) \in [1..n -> Delayed]
  BY <1>2 DEF SetToSeq
<1>4. SetToSeq(Delayed) \in Seq(Delayed)
  BY <1>1, <1>3, SeqDef
<1> QED
  BY <1>4 DEF RunForDelayBlockID

\* The pool in the order of the generator: what stops the network comes last.
StopsLast(s) == \A i, j \in 1..Len(s) : i < j /\ s[i] \in Stops => s[j] \in Stops

LEMMA ExpediteOrderStops == ExpediteOrder \in Seq(Txs) /\ StopsLast(ExpediteOrder)
<1> DEFINE OfRate(n) == Only(Arrival, {t \in Txs : Rate(t) = n})
           p == OfRate(1)
           q == OfRate(2)
           r == OfRate(6)
<1>1. \A n : OfRate(n) \in Seq(Txs) /\ ToSet(OfRate(n)) \subseteq {t \in Txs : Rate(t) = n}
  BY PoolAssumption, OnlyElements
<1>2. /\ p \in Seq(Txs) /\ ToSet(p) \cap Stops = {}
      /\ q \in Seq(Txs) /\ ToSet(q) \cap Stops = {}
      /\ r \in Seq(Txs) /\ ToSet(r) \subseteq Stops
  <2>1. \A t \in Txs : Rate(t) = 6 <=> t \in Stops
    BY DEF Rate
  <2>2. /\ p \in Seq(Txs) /\ ToSet(p) \subseteq {t \in Txs : Rate(t) = 1}
        /\ q \in Seq(Txs) /\ ToSet(q) \subseteq {t \in Txs : Rate(t) = 2}
        /\ r \in Seq(Txs) /\ ToSet(r) \subseteq {t \in Txs : Rate(t) = 6}
    BY <1>1
  <2> HIDE DEF p, q, r
  <2>3. \A t \in Txs : (Rate(t) = 1 => t \notin Stops) /\ (Rate(t) = 2 => t \notin Stops)
    BY DEF Rate
  <2> QED
    BY <2>1, <2>2, <2>3
<1>3. ExpediteOrder = p \o q \o r
  BY DEF ExpediteOrder
<1> HIDE DEF p, q, r
<1> DEFINE o == p \o q
<1>4. o \in Seq(Txs) /\ \A i \in 1..Len(o) : o[i] \notin Stops
  <2>1. /\ o \in Seq(Txs) /\ Len(o) = Len(p) + Len(q)
        /\ \A i \in 1..Len(p) + Len(q) : o[i] = IF i <= Len(p) THEN p[i] ELSE q[i - Len(p)]
    BY <1>2, ConcatProperties
  <2> HIDE DEF o
  <2>2. ASSUME NEW i \in 1..Len(o) PROVE o[i] \notin Stops
    <3>1. Len(p) \in Nat /\ Len(q) \in Nat /\ DOMAIN p = 1..Len(p) /\ DOMAIN q = 1..Len(q)
      BY <1>2
    <3>2. CASE i <= Len(p)
      <4>1. i \in DOMAIN p /\ o[i] = p[i]
        BY <2>1, <3>1, <3>2
      <4> QED
        BY <1>2, <4>1 DEF ToSet
    <3>3. CASE ~ (i <= Len(p))
      <4>1. i - Len(p) \in DOMAIN q /\ o[i] = q[i - Len(p)]
        BY <2>1, <3>1, <3>3
      <4> QED
        BY <1>2, <4>1 DEF ToSet
    <3> QED
      BY <3>2, <3>3
  <2> QED
    BY <2>1, <2>2
<1> HIDE DEF o
<1>5. /\ o \o r \in Seq(Txs) /\ Len(o \o r) = Len(o) + Len(r)
      /\ \A i \in 1..Len(o) + Len(r) : (o \o r)[i] = IF i <= Len(o) THEN o[i] ELSE r[i - Len(o)]
  BY <1>2, <1>4, ConcatProperties
<1>6. StopsLast(o \o r)
  <2>1. Len(o) \in Nat /\ Len(r) \in Nat /\ DOMAIN r = 1..Len(r)
    BY <1>2, <1>4
  <2>2. ASSUME NEW i \in 1..Len(o \o r), NEW j \in 1..Len(o \o r), i < j, (o \o r)[i] \in Stops
        PROVE  (o \o r)[j] \in Stops
    <3>1. ~ (i <= Len(o))
      BY <1>4, <1>5, <2>1, <2>2
    <3>2. j - Len(o) \in DOMAIN r /\ (o \o r)[j] = r[j - Len(o)]
      BY <1>5, <2>1, <2>2, <3>1
    <3> QED
      BY <1>2, <3>2 DEF ToSet
  <2> QED
    BY <2>2 DEF StopsLast
<1> QED
  BY <1>3, <1>5, <1>6 DEF o

\* What the generator collects from.
Todo == RunForDelayBlockID \o GetAllUnusedTransactions

LEMMA TodoStops == Todo \in Seq(Txs) /\ StopsLast(Todo)
<1> DEFINE e == ExpediteOrder
           o == Only(e, DOMAIN pool)
           g == First(o, MaxTxCount)
           d == RunForDelayBlockID
<1>1. e \in Seq(Txs) /\ StopsLast(e)
  BY ExpediteOrderStops
<1> HIDE DEF e
<1>2. o \in Seq(Txs)
  BY <1>1, OnlyElements
<1>3. \A i, j \in 1..Len(o) : i < j /\ o[i] \in Stops => o[j] \in Stops
  <2>1. \A i, j \in 1..Len(e) : i < j /\ e[i] \in Stops => e[j] \in Stops
    BY <1>1 DEF StopsLast
  <2> QED
    BY <1>1, <2>1, OnlyKeepsLast
<1> HIDE DEF o
<1>4. /\ g \in Seq(Txs) /\ Len(g) <= Len(o) /\ \A i \in 1..Len(g) : g[i] = o[i]
  BY <1>2, FirstOfSeq, PoolAssumption
<1> HIDE DEF g
<1>5. Len(g) \in Nat /\ Len(o) \in Nat /\ \A i \in 1..Len(g) : i \in 1..Len(o)
  BY <1>2, <1>4
<1>6. StopsLast(g)
  BY <1>3, <1>4, <1>5 DEF StopsLast
<1>7. d \in Seq(Txs) /\ \A i \in 1..Len(d) : d[i] \notin Stops
  <2>1. d \in Seq(Delayed) /\ Delayed \subseteq Txs
    BY DelayedSeq DEF Txs
  <2>2. \A i \in 1..Len(d) : d[i] \in Delayed
    BY <2>1
  <2> HIDE DEF d
  <2>3. d \in Seq(Txs)
    BY <2>1, SeqMonotonic
  <2> QED
    BY <2>2, <2>3, PoolAssumption
<1> HIDE DEF d
<1>8. /\ d \o g \in Seq(Txs) /\ Len(d \o g) = Len(d) + Len(g)
      /\ \A i \in 1..Len(d) + Len(g) : (d \o g)[i] = IF i <= Len(d) THEN d[i] ELSE g[i - Len(d)]
  BY <1>4, <1>7, ConcatProperties
<1>9. StopsLast(d \o g)
  <2>1. Len(d) \in Nat /\ Len(g) \in Nat
    BY <1>4, <1>7
  <2>2. ASSUME NEW i \in 1..Len(d \o g), NEW j \in 1..Len(d \o g), i < j, (d \o g)[i] \in Stops
        PROVE  (d \o g)[j] \in Stops
    <3>1. ~ (i <= Len(d))
      BY <1>7, <1>8, <2>1, <2>2
    <3>2. /\ i - Len(d) \in 1..Len(g) /\ j - Len(d) \in 1..Len(g) /\ i - Len(d) < j - Len(d)
          /\ (d \o g)[i] = g[i - Len(d)] /\ (d \o g)[j] = g[j - Len(d)]
      BY <1>8, <2>1, <2>2, <3>1
    <3> QED
      BY <1>6, <2>2, <3>2 DEF StopsLast
  <2> QED
    BY <2>2 DEF StopsLast
<1>10. Todo = d \o g
  BY DEF Todo, GetAllUnusedTransactions, d, g, o, e
<1> QED
  BY <1>8, <1>9, <1>10

-----------------------------------------------------------------------------
(* The collection of a list.                                                 *)

Collecting ==
    [refused : SUBSET Faulty, list : Seq(Txs), bad : Seq(Txs), count : Nat, first : BOOLEAN,
     used : [Range(Key) -> Nat]]

\* A field of the record changes.
SetList(c, l) == [c EXCEPT !.list = l]
SetBad(c, l) == [c EXCEPT !.bad = l]
SetCount(c, u, n) == [c EXCEPT !.used = u, !.count = n]

LEMMA ListChanges ==
    ASSUME NEW c \in Collecting, NEW l \in Seq(Txs)
    PROVE  LET e == SetList(c, l)
           IN  e \in Collecting /\ e.list = l /\ e.bad = c.bad /\ e.count = c.count /\ e.used = c.used
BY DEF Collecting, SetList

LEMMA BadChanges ==
    ASSUME NEW c \in Collecting, NEW l \in Seq(Txs)
    PROVE  LET e == SetBad(c, l)
           IN  e \in Collecting /\ e.list = c.list /\ e.bad = l /\ e.count = c.count /\ e.used = c.used
BY DEF Collecting, SetBad

LEMMA CountChanges ==
    ASSUME NEW c \in Collecting, NEW u \in [Range(Key) -> Nat], NEW n \in Nat
    PROVE  LET e == SetCount(c, u, n)
           IN  e \in Collecting /\ e.list = c.list /\ e.bad = c.bad /\ e.count = n /\ e.used = u
BY DEF Collecting, SetCount

\* Counting a transaction.
LEMMA CountedOne ==
    ASSUME NEW c \in Collecting, NEW t \in Txs
    PROVE  /\ Seen(c, t) \in Collecting
           /\ Seen(c, t).list = c.list /\ Seen(c, t).bad = c.bad
           /\ Seen(c, t).count = c.count /\ Seen(c, t).used = c.used
           /\ Counted(c, t) \in Collecting
           /\ Counted(c, t).list = c.list /\ Counted(c, t).bad = c.bad
           /\ Counted(c, t).count = c.count + 1
           /\ \A k \in Range(Key) :
                Counted(c, t).used[k] = IF k = Key[t] THEN c.used[k] + 1 ELSE c.used[k]
<1> DEFINE d == Seen(c, t)
           k == Key[t]
<1>1. /\ d \in Collecting /\ d.list = c.list /\ d.bad = c.bad
      /\ d.count = c.count /\ d.used = c.used
  BY DEF Collecting, Seen
<1>2. k \in Range(Key)
  BY PoolAssumption DEF Range
<1> HIDE DEF d, k
<1> DEFINE u == [d.used EXCEPT ![k] = @ + 1]
           x == [d EXCEPT !.used = u, !.count = @ + 1]
<1>3. d.used \in [Range(Key) -> Nat]
  BY <1>1 DEF Collecting
<1>4. /\ u \in [Range(Key) -> Nat]
      /\ \A l \in Range(Key) : u[l] = IF l = k THEN d.used[l] + 1 ELSE d.used[l]
  BY <1>2, <1>3
<1>5. Counted(c, t) = x
  <2>1. Counted(c, t) = [d EXCEPT !.used[k] = @ + 1, !.count = @ + 1]
    BY DEF Counted, d, k
  <2>2. DOMAIN d = {"refused", "list", "bad", "count", "first", "used"}
    BY <1>1 DEF Collecting
  <2> QED
    BY <2>1, <2>2
<1> HIDE DEF u
<1>6. /\ x \in Collecting /\ x.list = d.list /\ x.bad = d.bad
      /\ x.count = d.count + 1 /\ x.used = u
  <2>1. PICK n \in Nat : n = d.count + 1
    BY <1>1 DEF Collecting
  <2>2. x = SetCount(d, u, n)
    BY <2>1 DEF SetCount
  <2> HIDE DEF x
  <2> QED
    BY <1>1, <1>4, <2>1, <2>2, CountChanges
<1> QED
  BY <1>1, <1>4, <1>5, <1>6 DEF d, k

\* One turn of the loop of processTransactions.
LEMMA CollectOneStep ==
    ASSUME NEW c \in Collecting, NEW t \in Txs
    PROVE  LET e == CollectOne(c, t)
           IN  /\ e \in Collecting
               /\ t \in Stops => e.list = <<t>>
               /\ t \notin Stops =>
                    /\ e.count \in Nat /\ e.count >= c.count
                    /\ \A k \in Range(Key) : e.used[k] >= c.used[k]
                    /\ \/ e.list = c.list
                       \/ /\ e.list = Append(c.list, t)
                          /\ e.count = c.count + 1 /\ e.count + 1 <= MaxTxCount
                          /\ e.used[Key[t]] = c.used[Key[t]] + 1
                          /\ e.used[Key[t]] <= MaxUserTx \/ c.used[Key[t]] = 0
<1> DEFINE e == CollectOne(c, t)
           a == Seen(c, t)
           b == Counted(c, t)
           listed == [a EXCEPT !.list = <<t>>]
           refusal == [a EXCEPT !.bad = Append(@, t)]
           late == [b EXCEPT !.bad = Append(@, t)]
           added == [b EXCEPT !.list = Append(@, t)]
<1>0. e = IF t \in Stops THEN listed
          ELSE IF LimitError(c, t) THEN refusal
          ELSE IF LimitSkip(c, t) THEN a
          ELSE IF LimitStop(c, t) THEN IF c.first THEN late ELSE b
          ELSE added
  BY DEF CollectOne
<1>1. /\ a \in Collecting /\ a.list = c.list /\ a.bad = c.bad /\ a.count = c.count /\ a.used = c.used
      /\ b \in Collecting /\ b.list = c.list /\ b.bad = c.bad /\ b.count = c.count + 1
      /\ \A k \in Range(Key) : b.used[k] = IF k = Key[t] THEN c.used[k] + 1 ELSE c.used[k]
  BY CountedOne
<1> HIDE DEF a, b, e
<1>2. /\ c.count \in Nat /\ c.used \in [Range(Key) -> Nat] /\ c.list \in Seq(Txs)
      /\ c.bad \in Seq(Txs) /\ MaxTxCount \in Nat /\ MaxUserTx \in Nat
  BY PoolAssumption DEF Collecting
<1>3. Key[t] \in Range(Key)
  BY PoolAssumption DEF Range
<1>4. CASE t \in Stops
  <2>1. e = listed
    BY <1>0, <1>4
  <2>2. e \in Collecting /\ e.list = <<t>>
    <3>0. <<t>> \in Seq(Txs)
      OBVIOUS
    <3>1. PICK l \in Seq(Txs) : l = <<t>>
      BY <3>0
    <3>2. e = SetList(a, l)
      BY <2>1, <3>1 DEF SetList
    <3> QED
      BY <1>1, <3>1, <3>2, ListChanges
  <2> QED
    BY <1>4, <2>2 DEF e
<1>5. CASE t \notin Stops /\ LimitError(c, t)
  <2>1. e = refusal
    <3> HIDE DEF listed, refusal, late, added
    <3> QED
      BY <1>0, <1>5
  <2>2. e \in Collecting /\ e.list = c.list /\ e.count = c.count /\ e.used = c.used
    <3>1. PICK l \in Seq(Txs) : l = Append(a.bad, t)
      BY <1>1, <1>2, AppendProperties
    <3>2. e = SetBad(a, l)
      BY <2>1, <3>1 DEF SetBad
    <3> QED
      BY <1>1, <3>1, <3>2, BadChanges
  <2> QED
    BY <1>2, <1>5, <2>2 DEF e
<1>6. CASE t \notin Stops /\ ~ LimitError(c, t) /\ LimitSkip(c, t)
  <2>1. e = a
    <3> HIDE DEF listed, refusal, late, added
    <3> QED
      BY <1>0, <1>6
  <2> QED
    BY <1>1, <1>2, <1>6, <2>1 DEF e
<1>7. CASE t \notin Stops /\ ~ LimitError(c, t) /\ ~ LimitSkip(c, t) /\ LimitStop(c, t)
  <2>1. e = b \/ e = late
    <3> HIDE DEF listed, refusal, late, added
    <3> QED
      BY <1>0, <1>7
  <2>2. e \in Collecting /\ e.list = c.list /\ e.count = c.count + 1 /\ e.used = b.used
    <3>1. CASE e = b
      BY <1>1, <3>1
    <3>2. CASE e = late
      <4>1. PICK l \in Seq(Txs) : l = Append(b.bad, t)
        BY <1>1, <1>2, AppendProperties
      <4>2. e = SetBad(b, l)
        BY <3>2, <4>1 DEF SetBad
      <4> QED
        BY <1>1, <4>1, <4>2, BadChanges
    <3> QED
      BY <2>1, <3>1, <3>2
  <2> QED
    BY <1>1, <1>2, <1>7, <2>2 DEF e
<1>8. CASE t \notin Stops /\ ~ LimitError(c, t) /\ ~ LimitSkip(c, t) /\ ~ LimitStop(c, t)
  <2>1. e = added
    <3> HIDE DEF listed, refusal, late, added
    <3> QED
      BY <1>0, <1>8
  <2>2. e \in Collecting /\ e.list = Append(c.list, t) /\ e.count = c.count + 1 /\ e.used = b.used
    <3>1. PICK l \in Seq(Txs) : l = Append(b.list, t)
      BY <1>1, <1>2, AppendProperties
    <3>2. e = SetList(b, l)
      BY <2>1, <3>1 DEF SetList
    <3> HIDE DEF added
    <3>3. e \in Collecting /\ e.list = l /\ e.count = b.count /\ e.used = b.used
      BY <1>1, <3>1, <3>2, ListChanges
    <3>4. l = Append(c.list, t)
      BY <1>1, <3>1
    <3> QED
      BY <1>1, <3>3, <3>4
  <2>3. c.count + 2 <= MaxTxCount
    BY <1>2, <1>8 DEF LimitStop
  <2>4. c.used[Key[t]] + 1 <= MaxUserTx \/ c.used[Key[t]] = 0
    BY <1>2, <1>3, <1>8 DEF LimitSkip
  <2> QED
    BY SMTT(30), <1>1, <1>2, <1>3, <1>8, <2>2, <2>3, <2>4 DEF e
<1> QED
  BY <1>4, <1>5, <1>6, <1>7, <1>8

\* The records a collection begins with.
Begins(refusable) ==
    {[refused |-> R, list |-> <<>>, bad |-> <<>>, count |-> 0, first |-> TRUE,
      used |-> [k \in Range(Key) |-> 0]] : R \in SUBSET refusable}

\* What a turn of the loop makes of each of some records.
Turn(C, t) == {CollectOne(c, t) : c \in C}

LEMMA BeginsFresh ==
    ASSUME NEW refusable \in SUBSET Faulty
    PROVE  /\ Begins(refusable) \subseteq Collecting
           /\ \A c \in Begins(refusable) :
                c.list = <<>> /\ c.count = 0 /\ \A k \in Range(Key) : c.used[k] = 0
<1>1. ASSUME NEW c \in Begins(refusable)
      PROVE  /\ c \in Collecting
             /\ c.list = <<>> /\ c.count = 0 /\ \A k \in Range(Key) : c.used[k] = 0
  <2>1. PICK R \in SUBSET refusable :
           c = [refused |-> R, list |-> <<>>, bad |-> <<>>, count |-> 0, first |-> TRUE,
                used |-> [k \in Range(Key) |-> 0]]
    BY DEF Begins
  <2>2. R \in SUBSET Faulty
    BY <2>1
  <2>3. <<>> \in Seq(Txs)
    OBVIOUS
  <2>4. [k \in Range(Key) |-> 0] \in [Range(Key) -> Nat]
    OBVIOUS
  <2>5. c \in Collecting
    BY <2>1, <2>2, <2>3, <2>4 DEF Collecting
  <2>6. c.list = <<>> /\ c.count = 0 /\ c.used = [k \in Range(Key) |-> 0]
    BY <2>1
  <2> QED
    BY <2>5, <2>6
<1> QED
  BY <1>1

\* The collection, transaction by transaction.
LEMMA CollectedSteps ==
    ASSUME NEW refusable \in SUBSET Faulty
    PROVE  \E col : /\ ProcessTransactions(refusable) = col[Len(Todo)]
                    /\ col[0] = Begins(refusable)
                    /\ \A i \in 1..Len(Todo) : col[i] = Turn(col[i-1], Todo[i])
<1> DEFINE start == Begins(refusable)
           n == Len(Todo)
           D(h, i) == IF i = 0 THEN start ELSE Turn(h[i-1], Todo[i])
           col == CHOOSE g : g = [i \in 0..n |-> D(g, i)]
           Q == SUBSET Collecting
<1>1. ProcessTransactions(refusable) = col[n]
  BY DEF ProcessTransactions, Todo, Begins, Turn
<1>2. n \in Nat /\ \A i \in 1..n : Todo[i] \in Txs
  BY TodoStops
<1>3. start \in Q
  BY BeginsFresh
<1>4. \A i \in 1..n, C \in Q : Turn(C, Todo[i]) \in Q
  BY <1>2, CollectOneStep DEF Turn
<1> HIDE DEF start, col, n, Q
<1>5. col = [i \in 0..n |-> D(col, i)]
  <2> DEFINE step == [i \in 1..n |-> [C \in Q |-> Turn(C, Todo[i])]]
  <2>1. step \in [1..n -> [Q -> Q]]
    BY <1>4
  <2>2. \A C \in Q, i \in 1..n : step[i][C] = Turn(C, Todo[i])
    OBVIOUS
  <2> HIDE DEF step
  <2>3. PICK f : Recurs(f, Q, n, start, step)
    BY <1>2, <1>3, <2>1, Recursion
  <2>4. /\ f \in [0..n -> Q] /\ f[0] = start
        /\ \A i \in 1..n : f[i] = step[i][f[i-1]]
    BY <2>3 DEF Recurs
  <2>5. \A i \in 0..n : f[i] = D(f, i)
    <3> TAKE i \in 0..n
    <3>1. CASE i = 0
      BY <2>4, <3>1
    <3>2. CASE i # 0
      <4>1. i \in 1..n /\ i - 1 \in 0..n
        BY <1>2, <3>2
      <4>2. f[i-1] \in Q /\ f[i] = step[i][f[i-1]]
        BY <2>4, <4>1
      <4>3. f[i] = Turn(f[i-1], Todo[i])
        BY <2>2, <4>1, <4>2
      <4> QED
        BY <3>2, <4>3
    <3> QED
      BY <3>1, <3>2
  <2> HIDE DEF D
  <2>6. f = [i \in 0..n |-> D(f, i)]
    BY <2>4, <2>5
  <2> QED
    BY <2>6 DEF col
<1>6. col[0] = start
  BY <1>2, <1>5
<1>7. \A i \in 1..n : col[i] = Turn(col[i-1], Todo[i])
  <2> TAKE i \in 1..n
  <2>1. i \in 0..n /\ i # 0
    BY <1>2
  <2> HIDE DEF D
  <2>2. col[i] = D(col, i)
    BY <1>5, <2>1
  <2> QED
    BY <2>1, <2>2 DEF D
<1> QED
  BY <1>1, <1>6, <1>7 DEF n, start

\* How many transactions of a list a key has signed.
LEMMA OfKeyAppend ==
    ASSUME NEW l \in Seq(Txs), NEW t \in Txs, NEW k
    PROVE  /\ Cardinality(OfKey(l, k)) \in Nat
           /\ Cardinality(OfKey(Append(l, t), k))
                = Cardinality(OfKey(l, k)) + (IF Key[t] = k THEN 1 ELSE 0)
<1> DEFINE q == Append(l, t)
           x == Len(l) + 1
           A == OfKey(l, k)
<1>1. /\ Len(l) \in Nat /\ DOMAIN l = 1..Len(l)
      /\ DOMAIN q = 1..x /\ q[x] = t /\ \A i \in 1..Len(l) : q[i] = l[i]
  OBVIOUS
<1> HIDE DEF q
<1>2. A \subseteq 1..Len(l) /\ IsFiniteSet(A)
  <2>1. IsFiniteSet(1..Len(l))
    BY <1>1, FS_Interval
  <2>2. A \in SUBSET (1..Len(l))
    BY <1>1 DEF OfKey
  <2> QED
    BY <2>1, <2>2, FS_Subset
<1>3. x \notin A
  BY <1>1, <1>2
<1>4. \A i \in 1..x : i \in 1..Len(l) \/ i = x
  BY <1>1
<1>5. x \in 1..x /\ \A i \in 1..Len(l) : i \in 1..x
  BY <1>1
<1>6. CASE Key[t] = k
  <2>1. OfKey(q, k) = A \cup {x}
    <3>1. \A i : i \in OfKey(q, k) <=> i \in A \cup {x}
      BY <1>1, <1>4, <1>5, <1>6 DEF OfKey
    <3> QED
      BY <3>1
  <2> HIDE DEF A, x
  <2>2. Cardinality(A \cup {x}) = Cardinality(A) + 1
    BY <1>2, <1>3, FS_AddElement
  <2>3. Cardinality(A) \in Nat
    BY <1>2, FS_CardinalityType
  <2> QED
    BY <1>6, <2>1, <2>2, <2>3 DEF A, q
<1>7. CASE Key[t] # k
  <2>1. OfKey(q, k) = A
    <3>1. \A i : i \in OfKey(q, k) <=> i \in A
      BY <1>1, <1>4, <1>5, <1>7 DEF OfKey
    <3> QED
      BY <3>1
  <2> HIDE DEF A
  <2>2. Cardinality(A) \in Nat
    BY <1>2, FS_CardinalityType
  <2> QED
    BY <1>7, <2>1, <2>2 DEF A, q
<1> QED
  BY <1>6, <1>7

\* CollectFits of any list.
Fits(l) ==
    /\ Range(l) \cap Stops # {} => Len(l) = 1
    /\ Len(l) <= MaxTxCount
    /\ \A k \in Range(Key) : Cardinality(OfKey(l, k)) <= MaxUserTx

\* A stop-network transaction alone fits.
LEMMA StopFits == ASSUME NEW t \in Txs PROVE Fits(<<t>>)
<1>1. Len(<<t>>) = 1 /\ 1 <= MaxTxCount /\ 1 <= MaxUserTx
  BY PoolAssumption
<1>2. ASSUME NEW k PROVE Cardinality(OfKey(<<t>>, k)) <= 1
  <2>1. IsFiniteSet({1}) /\ Cardinality({1}) = 1
    BY FS_Singleton
  <2>2. OfKey(<<t>>, k) \in SUBSET {1}
    BY DEF OfKey
  <2> QED
    BY <2>1, <2>2, FS_Subset
<1>3. \A k : Cardinality(OfKey(<<t>>, k)) <= MaxUserTx
  <2> TAKE k
  <2>1. OfKey(<<t>>, k) \in SUBSET {1} /\ IsFiniteSet({1})
    BY FS_Singleton DEF OfKey
  <2>2. Cardinality(OfKey(<<t>>, k)) \in Nat
    BY <2>1, FS_Subset, FS_CardinalityType
  <2> QED
    BY <1>2, <2>2, PoolAssumption
<1> QED
  BY <1>1, <1>3 DEF Fits

\* While no stop-network transaction was collected, what the limits count is at least what
\* the list holds.
Plain(c) ==
    /\ Range(c.list) \cap Stops = {}
    /\ Len(c.list) <= c.count /\ Len(c.list) <= MaxTxCount
    /\ \A k \in Range(Key) : /\ Cardinality(OfKey(c.list, k)) <= c.used[k]
                             /\ Cardinality(OfKey(c.list, k)) <= MaxUserTx

\* A turn of the loop with another transaction keeps it so.
LEMMA PlainStep ==
    ASSUME NEW c \in Collecting, Plain(c), NEW t \in Txs \ Stops
    PROVE  Plain(CollectOne(c, t))
<1> DEFINE e == CollectOne(c, t)
           u == Key[t]
<1>1. /\ e \in Collecting
      /\ e.count \in Nat /\ e.count >= c.count
      /\ \A k \in Range(Key) : e.used[k] >= c.used[k]
      /\ \/ e.list = c.list
         \/ /\ e.list = Append(c.list, t)
            /\ e.count = c.count + 1 /\ e.count + 1 <= MaxTxCount
            /\ e.used[u] = c.used[u] + 1
            /\ e.used[u] <= MaxUserTx \/ c.used[u] = 0
  BY CollectOneStep
<1> HIDE DEF e
<1>2. /\ c.list \in Seq(Txs) /\ Len(c.list) \in Nat /\ c.count \in Nat
      /\ \A k \in Range(Key) : c.used[k] \in Nat /\ e.used[k] \in Nat
      /\ MaxTxCount \in Nat /\ MaxUserTx \in Nat \ {0}
  BY <1>1, PoolAssumption DEF Collecting
<1>3. \A k : Cardinality(OfKey(c.list, k)) \in Nat
  BY <1>2, OfKeyAppend
<1>4. CASE e.list = c.list
  <2>1. Range(e.list) \cap Stops = {} /\ Len(e.list) <= e.count /\ Len(e.list) <= MaxTxCount
    BY <1>1, <1>2, <1>4 DEF Plain
  <2>2. ASSUME NEW k \in Range(Key)
        PROVE  /\ Cardinality(OfKey(e.list, k)) <= e.used[k]
               /\ Cardinality(OfKey(e.list, k)) <= MaxUserTx
    <3>1. /\ Cardinality(OfKey(c.list, k)) <= c.used[k]
          /\ Cardinality(OfKey(c.list, k)) <= MaxUserTx
          /\ c.used[k] <= e.used[k]
      BY <1>1, <2>2 DEF Plain
    <3> QED
      BY <1>2, <1>3, <1>4, <3>1
  <2>3. Plain(e)
    BY <2>1, <2>2 DEF Plain
  <2> QED
    BY <2>3 DEF e
<1>5. CASE /\ e.list = Append(c.list, t)
           /\ e.count = c.count + 1 /\ e.count + 1 <= MaxTxCount
           /\ e.used[u] = c.used[u] + 1
           /\ e.used[u] <= MaxUserTx \/ c.used[u] = 0
  <2>1. /\ Len(e.list) = Len(c.list) + 1 /\ DOMAIN e.list = 1..Len(c.list) + 1
        /\ \A i \in 1..Len(c.list) : e.list[i] = c.list[i]
        /\ e.list[Len(c.list)+1] = t
    BY <1>2, <1>5
  <2>2. Len(e.list) <= e.count /\ Len(e.list) <= MaxTxCount
    BY <1>2, <1>5, <2>1 DEF Plain
  <2>3. Range(e.list) \cap Stops = {}
    <3>1. ASSUME NEW i \in 1..Len(c.list) + 1 PROVE e.list[i] \notin Stops
      <4>1. CASE i = Len(c.list) + 1
        BY <2>1, <4>1
      <4>2. CASE i \in 1..Len(c.list)
        <5>1. i \in DOMAIN c.list /\ e.list[i] = c.list[i]
          BY <1>2, <2>1, <4>2
        <5> QED
          BY <5>1 DEF Plain, Range
      <4> QED
        BY <1>2, <4>1, <4>2
    <3> QED
      BY <2>1, <3>1 DEF Range
  <2>4. ASSUME NEW k \in Range(Key)
        PROVE  /\ Cardinality(OfKey(e.list, k)) <= e.used[k]
               /\ Cardinality(OfKey(e.list, k)) <= MaxUserTx
    <3>1. /\ Cardinality(OfKey(c.list, k)) <= c.used[k]
          /\ Cardinality(OfKey(c.list, k)) <= MaxUserTx
          /\ c.used[k] <= e.used[k]
      BY <1>1, <2>4 DEF Plain
    <3>2. Cardinality(OfKey(e.list, k))
            = Cardinality(OfKey(c.list, k)) + (IF u = k THEN 1 ELSE 0)
      BY <1>2, <1>5, OfKeyAppend
    <3>3. CASE u = k
      <4>1. e.used[k] = c.used[k] + 1 /\ (e.used[k] <= MaxUserTx \/ c.used[k] = 0)
        BY <1>5, <3>3
      <4>2. Cardinality(OfKey(e.list, k)) = Cardinality(OfKey(c.list, k)) + 1
        BY <3>2, <3>3
      <4> HIDE DEF u
      <4> QED
        BY <1>2, <1>3, <2>4, <3>1, <4>1, <4>2
    <3>4. CASE u # k
      <4>1. Cardinality(OfKey(e.list, k)) = Cardinality(OfKey(c.list, k))
        BY <1>3, <3>2, <3>4
      <4> QED
        BY <1>2, <1>3, <2>4, <3>1, <4>1
    <3> QED
      BY <3>3, <3>4
  <2>5. Plain(e)
    BY <2>2, <2>3, <2>4 DEF Plain
  <2> QED
    BY <2>5 DEF e
<1> QED
  BY <1>1, <1>4, <1>5

\* A record that nothing was collected in.
LEMMA FreshPlain ==
    ASSUME NEW c, c.list = <<>> /\ c.count = 0, \A k \in Range(Key) : c.used[k] = 0
    PROVE  Plain(c)
<1>1. Range(<<>>) = {} /\ Len(<<>>) = 0 /\ \A k : OfKey(<<>>, k) = {}
  BY DEF Range, OfKey
<1>2. Cardinality({}) = 0
  BY FS_EmptySet
<1>3. \A k : OfKey(c.list, k) = {}
  BY <1>1
<1>4. \A k : Cardinality(OfKey(c.list, k)) = 0
  BY <1>2, <1>3
<1>5. Range(c.list) \cap Stops = {} /\ Len(c.list) = 0
  BY <1>1
<1>6. Len(c.list) <= c.count /\ Len(c.list) <= MaxTxCount
  BY <1>5, PoolAssumption
<1>7. ASSUME NEW k \in Range(Key)
      PROVE  Cardinality(OfKey(c.list, k)) <= c.used[k] /\ Cardinality(OfKey(c.list, k)) <= MaxUserTx
  BY <1>4, PoolAssumption
<1> QED
  BY <1>5, <1>6, <1>7 DEF Plain

\* A record of the loop after i turns: it holds what the limits let through, or only the
\* stop-network transaction of an earlier turn.
Stopped(c, i) == \E j \in 1..i, t \in Txs : Todo[j] \in Stops /\ c.list = <<t>>
Collected(c, i) == c \in Collecting /\ (Plain(c) \/ Stopped(c, i))

\* A turn keeps it so: what stops the network comes last.
LEMMA CollectedTurn ==
    ASSUME NEW i \in Nat, i + 1 <= Len(Todo), NEW c, Collected(c, i)
    PROVE  Collected(CollectOne(c, Todo[i+1]), i + 1)
<1> DEFINE n == Len(Todo)
           t == Todo[i+1]
           e == CollectOne(c, t)
<1>1. /\ n \in Nat /\ \A j \in 1..n : Todo[j] \in Txs
      /\ \A j, k \in 1..n : j < k /\ Todo[j] \in Stops => Todo[k] \in Stops
  BY TodoStops DEF StopsLast
<1>2. i + 1 \in 1..n /\ i + 1 \in 1..i+1 /\ \A j \in 1..i : j \in 1..n /\ j < i + 1
  BY <1>1
<1>3. t \in Txs /\ c \in Collecting /\ (Plain(c) \/ Stopped(c, i))
  BY <1>1, <1>2 DEF Collected
<1>4. CASE t \in Stops
  <2>1. Todo[i+1] \in Stops
    BY <1>4
  <2> HIDE DEF t
  <2>2. e \in Collecting /\ e.list = <<t>>
    BY <1>3, <1>4, CollectOneStep
  <2> HIDE DEF e
  <2>3. Stopped(e, i + 1)
    BY <1>2, <1>3, <2>1, <2>2 DEF Stopped
  <2> QED
    BY <2>2, <2>3 DEF Collected, e, t
<1>5. CASE t \notin Stops
  <2>1. ~ Stopped(c, i)
    BY <1>1, <1>2, <1>5 DEF Stopped
  <2> HIDE DEF t
  <2>2. Plain(e) /\ e \in Collecting
    BY <1>3, <1>5, <2>1, PlainStep, CollectOneStep
  <2> QED
    BY <2>2 DEF Collected, t
<1> QED
  BY <1>4, <1>5

\* What the loop collects fits.
LEMMA CollectedFits ==
    ASSUME NEW refusable \in SUBSET Faulty, NEW c \in ProcessTransactions(refusable)
    PROVE  c.list \in Seq(Txs) /\ Fits(c.list)
<1> DEFINE n == Len(Todo)
<1>1. PICK col : /\ ProcessTransactions(refusable) = col[n]
                 /\ col[0] = Begins(refusable)
                 /\ \A i \in 1..n : col[i] = Turn(col[i-1], Todo[i])
  BY CollectedSteps
<1>2. n \in Nat
  BY TodoStops
<1> DEFINE P == {i \in 0..n : \A x \in col[i] : Collected(x, i)}
<1>3. 0 \in P
  <2>1. ASSUME NEW x \in Begins(refusable) PROVE Collected(x, 0)
    BY BeginsFresh, FreshPlain DEF Collected
  <2> QED
    BY <1>1, <1>2, <2>1
<1>4. ASSUME NEW i \in 0..n-1, i \in P PROVE i + 1 \in P
  <2>1. i \in Nat /\ i + 1 \in 1..n /\ i + 1 \in 0..n /\ (i + 1) - 1 = i /\ i + 1 <= Len(Todo)
    BY <1>2
  <2>2. col[i+1] = Turn(col[i], Todo[i+1])
    BY <1>1, <2>1
  <2>3. ASSUME NEW x \in col[i+1] PROVE Collected(x, i + 1)
    <3>1. PICK y \in col[i] : x = CollectOne(y, Todo[i+1])
      BY <2>2 DEF Turn
    <3>2. Collected(y, i)
      BY <1>4
    <3> QED
      BY <2>1, <3>1, <3>2, CollectedTurn
  <2> QED
    BY <2>1, <2>3
<1> HIDE DEF P
<1>5. n \in P
  BY <1>2, <1>3, <1>4, UpTo
<1>6. Collected(c, n)
  BY <1>1, <1>5 DEF P
<1>7. c.list \in Seq(Txs)
  BY <1>6 DEF Collected, Collecting
<1>8. CASE Plain(c)
  BY <1>7, <1>8 DEF Plain, Fits
<1>9. CASE Stopped(c, n)
  <2>1. PICK t \in Txs : c.list = <<t>>
    BY <1>9 DEF Stopped
  <2> QED
    BY <1>7, <2>1, StopFits
<1> QED
  BY <1>6, <1>8, <1>9 DEF Collected

-----------------------------------------------------------------------------
(* The rows.                                                                 *)

\* The status of a transaction, and whether a row is one.
Statuses == [block : Nat, error : {"no", "yes"}]
StatusRows(st) == DOMAIN st \subseteq Users /\ \A t \in DOMAIN st : st[t] \in Statuses

\* What the queue said of a transaction marked bad decides whether it is told.
Told(t) == t \in DOMAIN queue => queue[t] = "client"

\* Marking writes the error of those it tells and nothing else.
LEMMA ErrorsSet ==
    ASSUME StatusRows(status), NEW S
    PROVE  /\ StatusRows(SetErrors(S))
           /\ DOMAIN SetErrors(S) = DOMAIN status
           /\ \A t \in DOMAIN status :
                /\ SetErrors(S)[t].block = status[t].block
                /\ SetErrors(S)[t] = Pending => status[t] = Pending /\ ~ (t \in S /\ Told(t))
<1>1. DOMAIN SetErrors(S) = DOMAIN status
  BY DEF SetErrors
<1>2. ASSUME NEW t \in DOMAIN status
      PROVE  /\ SetErrors(S)[t] \in Statuses
             /\ SetErrors(S)[t].block = status[t].block
             /\ SetErrors(S)[t] = Pending => status[t] = Pending /\ ~ (t \in S /\ Told(t))
  <2>1. status[t] \in Statuses
    BY DEF StatusRows
  <2>2. CASE t \in S /\ Told(t)
    <3>1. SetErrors(S)[t] = [status[t] EXCEPT !.error = "yes"]
      BY <2>2 DEF SetErrors, Told
    <3>2. /\ SetErrors(S)[t] \in Statuses
          /\ SetErrors(S)[t].block = status[t].block
          /\ SetErrors(S)[t].error = "yes"
      BY <2>1, <3>1 DEF Statuses
    <3> QED
      BY <3>2 DEF Pending
  <2>3. CASE ~ (t \in S /\ Told(t))
    <3>1. SetErrors(S)[t] = status[t]
      BY <2>3 DEF SetErrors, Told
    <3> QED
      BY <2>1, <2>3, <3>1
  <2> QED
    BY <2>2, <2>3
<1> QED
  BY <1>1, <1>2 DEF StatusRows

\* The messages of a block write its number and no error.
LEMMA MessagesWritten ==
    ASSUME NEW st, StatusRows(st), NEW S, NEW n \in Nat \ {0}
    PROVE  /\ StatusRows(BlockMsgs(st, S, n))
           /\ DOMAIN BlockMsgs(st, S, n) = DOMAIN st
           /\ \A t \in DOMAIN st :
                /\ t \in S => BlockMsgs(st, S, n)[t].block = n
                /\ t \notin S => BlockMsgs(st, S, n)[t] = st[t]
                /\ BlockMsgs(st, S, n)[t] = Pending => st[t] = Pending /\ t \notin S
<1>1. DOMAIN BlockMsgs(st, S, n) = DOMAIN st
  BY DEF BlockMsgs
<1>2. ASSUME NEW t \in DOMAIN st
      PROVE  /\ BlockMsgs(st, S, n)[t] \in Statuses
             /\ t \in S => BlockMsgs(st, S, n)[t].block = n
             /\ t \notin S => BlockMsgs(st, S, n)[t] = st[t]
             /\ BlockMsgs(st, S, n)[t] = Pending => st[t] = Pending /\ t \notin S
  <2>1. CASE t \in S
    <3>1. BlockMsgs(st, S, n)[t] = [block |-> n, error |-> "no"]
      BY <2>1 DEF BlockMsgs
    <3> QED
      BY <2>1, <3>1 DEF Pending, Statuses
  <2>2. CASE t \notin S
    BY <2>2 DEF BlockMsgs, StatusRows
  <2> QED
    BY <2>1, <2>2
<1> QED
  BY <1>1, <1>2 DEF StatusRows

-----------------------------------------------------------------------------
(* The inductive invariants.                                                 *)

QueueRows(q) == DOMAIN q \subseteq Users /\ \A t \in DOMAIN q : q[t] \in {"client", "gate"}
PoolRows(p) == /\ DOMAIN p \subseteq Users \cup Reports \cup Stops
               /\ \A t \in DOMAIN p : p[t] \in {"verified", "unverified"}
RowsOK == StatusRows(status) /\ QueueRows(queue) /\ PoolRows(pool)

\* DBLock is held by one daemon, whose list fits.
ListsOK ==
    /\ chain \in Seq(SUBSET Txs)
    /\ gen \in Seq(Txs) /\ parser \in Seq(Txs)
    /\ gen = None \/ parser = None
    /\ Fits(gen)

\* Where a row came from, and what the parser holds in its hands, is known:
\* a row of a client has a status, a row of a host is excused.  What the
\* parser deletes from the queue next is in the pool or needs no answer.
OriginKnown ==
    /\ sending \subseteq DOMAIN status
    /\ \A t \in DOMAIN queue : /\ queue[t] = "client" => t \in DOMAIN status
                               /\ queue[t] = "gate" => t \in excused
    /\ \A t \in Users \cap (DOMAIN pool \cup Range(parser)) : t \in DOMAIN status \cup excused

ParserMoves ==
    \A t \in Users \cap Range(parser) : Answerless(t) => t \in DOMAIN pool \cup excused

WaitsInv == Waits /\ OriginKnown /\ ParserMoves

\* No message waits for a later block but those of a failed one.
StatusInv == StatusTrue /\ (~failed => msgs = {})

IInv == RowsOK /\ ListsOK /\ WaitsInv /\ StatusInv

\* What marking does to the rows.
LEMMA Marked ==
    ASSUME RowsOK, NEW S, MarkTransactionsBad(S)
    PROVE  /\ RowsOK'
           /\ DOMAIN status' = DOMAIN status
           /\ DOMAIN queue' = DOMAIN queue \ S /\ DOMAIN pool' = DOMAIN pool \ S
           /\ \A t \in DOMAIN queue' : queue'[t] = queue[t]
           /\ \A t \in DOMAIN status :
                /\ status'[t].block = status[t].block
                /\ status'[t] = Pending => status[t] = Pending /\ ~ (t \in S /\ Told(t))
<1>1. status' = SetErrors(S) /\ queue' = Without(queue, S) /\ pool' = Without(pool, S)
  BY DEF MarkTransactionsBad
<1>2. StatusRows(status) /\ QueueRows(queue) /\ PoolRows(pool)
  BY DEF RowsOK
<1>3. /\ DOMAIN queue' = DOMAIN queue \ S /\ \A t \in DOMAIN queue' : queue'[t] = queue[t]
      /\ DOMAIN pool' = DOMAIN pool \ S /\ \A t \in DOMAIN pool' : pool'[t] = pool[t]
  BY <1>1 DEF Without
<1>4. QueueRows(queue') /\ PoolRows(pool')
  BY <1>2, <1>3 DEF QueueRows, PoolRows
<1>5. StatusRows(status')
  BY <1>1, <1>2, ErrorsSet
<1> QED
  BY <1>1, <1>2, <1>3, <1>4, <1>5, ErrorsSet DEF RowsOK

\* What the rollback of a block does to the rows.
LEMMA RolledBack ==
    ASSUME RowsOK, RollbackBlock
    PROVE  /\ RowsOK'
           /\ DOMAIN status' = DOMAIN status
           /\ \A t \in Last(chain) \cap DOMAIN status : status'[t].block = 0
           /\ \A t \in DOMAIN status \ Last(chain) : status'[t] = status[t]
           /\ DOMAIN queue' = DOMAIN queue \ Last(chain)
           /\ \A t \in DOMAIN queue' : queue'[t] = queue[t]
           /\ DOMAIN pool' = DOMAIN pool
<1>1. StatusRows(status) /\ QueueRows(queue) /\ PoolRows(pool)
  BY DEF RowsOK
<1> DEFINE S == Last(chain)
<1>2. /\ status' = [t \in DOMAIN status |->
            IF t \in S THEN [status[t] EXCEPT !.block = 0] ELSE status[t]]
      /\ queue' = Without(queue, S)
      /\ pool' = [t \in DOMAIN pool |-> IF t \in S THEN "unverified" ELSE pool[t]]
  BY DEF RollbackBlock
<1> HIDE DEF S
<1>3. ASSUME NEW t \in DOMAIN status
      PROVE  /\ status'[t] \in Statuses
             /\ t \in S => status'[t].block = 0
             /\ t \notin S => status'[t] = status[t]
  <2>1. status[t] \in Statuses
    BY <1>1 DEF StatusRows
  <2>2. CASE t \in S
    <3>1. status'[t] = [status[t] EXCEPT !.block = 0]
      BY <1>2, <2>2
    <3> QED
      BY <2>1, <2>2, <3>1 DEF Statuses
  <2>3. CASE t \notin S
    BY <1>2, <2>1, <2>3
  <2> QED
    BY <2>2, <2>3
<1>4. DOMAIN status' = DOMAIN status
  BY <1>2
<1>5. StatusRows(status')
  BY <1>1, <1>3, <1>4 DEF StatusRows
<1>6. /\ DOMAIN queue' = DOMAIN queue \ S /\ \A t \in DOMAIN queue' : queue'[t] = queue[t]
  BY <1>2 DEF Without
<1>7. QueueRows(queue')
  BY <1>1, <1>6 DEF QueueRows
<1>8. DOMAIN pool' = DOMAIN pool /\ PoolRows(pool')
  BY <1>1, <1>2 DEF PoolRows
<1> QED
  BY <1>3, <1>4, <1>5, <1>6, <1>7, <1>8 DEF RowsOK, S

\* The steps that mark transactions bad.
MarkingStep ==
    \/ \E t \in Faulty : RefuseBatch(t)
    \/ BlockGenerator
    \/ PlayStop
    \/ \E fails \in SUBSET Faulty : PlayAgain(fails)
    \/ \E t \in Users : ProcessBadTx(t)
    \/ \E t \in Faulty : ReceiveBadBlock(t)

LEMMA StepCases ==
    ASSUME Next
    PROVE  \/ \E t \in Users : SendTx(t)
           \/ \E t \in Users : SendTxQueue(t)
           \/ \E S \in SUBSET Users : SendTxBatches(S)
           \/ \E t \in Users : Type1(t) \/ GetUnknownTransactions(t)
           \/ \E t \in Users : SaveNewTransactions(t)
           \/ \E t \in Reports \cup Stops : CreateTransaction(t)
           \/ ProcessQueueTransactionBatches
           \/ DeleteQueueTxs
           \/ Panic \/ Crash
           \/ MarkingStep /\ \E S : MarkTransactionsBad(S)
           \/ PlayNothing
           \/ \E fails \in SUBSET Faulty : PlayBlock(fails)
           \/ \E S \in SUBSET Foreign : ReceiveBlock(S)
           \/ RollbackBlock
           \/ CheckNodeRelevance
<1>1. ASSUME MarkingStep PROVE \E S : MarkTransactionsBad(S)
  BY <1>1 DEF MarkingStep, RefuseBatch, BlockGenerator, PlayStop, PlayAgain, ProcessBadTx,
     ReceiveBadBlock
<1> QED
  BY <1>1 DEF Next, Parse, Play, MarkingStep

\* Every step leaves rows in the tables.
LEMMA RowsStay == ASSUME RowsOK, ListsOK, Next PROVE RowsOK'
<1>1. StatusRows(status) /\ QueueRows(queue) /\ PoolRows(pool)
  BY DEF RowsOK
<1>2. Pending \in Statuses
  BY DEF Pending, Statuses
<1>3. ASSUME NEW t \in Users, SendTx(t) PROVE RowsOK'
  <2>1. status' = With(status, {t}, Pending) /\ queue' = queue /\ pool' = pool
    BY <1>3 DEF SendTx
  <2>2. StatusRows(status')
    BY <1>1, <1>2, <2>1 DEF With, Adding, Without, StatusRows
  <2> QED
    BY <1>1, <2>1, <2>2 DEF RowsOK
<1>4. ASSUME NEW t \in Users, SendTxQueue(t) PROVE RowsOK'
  <2>1. status' = status /\ queue' = Adding(queue, {t}, "client") /\ pool' = pool
    BY <1>4 DEF SendTxQueue
  <2>2. QueueRows(queue')
    BY <1>1, <2>1 DEF With, Adding, Without, QueueRows
  <2> QED
    BY <1>1, <2>1, <2>2 DEF RowsOK
<1>5. ASSUME NEW S \in SUBSET Users, SendTxBatches(S) PROVE RowsOK'
  <2>1. /\ status' = Adding(status, S, Pending)
        /\ queue' = Adding(queue, S, "client") /\ pool' = pool
    BY <1>5 DEF SendTxBatches
  <2>2. QueueRows(queue')
    BY <1>1, <2>1 DEF With, Adding, Without, QueueRows
  <2>3. StatusRows(status')
    BY <1>1, <1>2, <2>1 DEF With, Adding, Without, StatusRows
  <2> QED
    BY <1>1, <2>1, <2>2, <2>3 DEF RowsOK
<1>6. ASSUME NEW t \in Users, Type1(t) \/ GetUnknownTransactions(t) PROVE RowsOK'
  BY <1>6 DEF Type1, GetUnknownTransactions, rows, RowsOK
<1>7. ASSUME NEW t \in Users, SaveNewTransactions(t) PROVE RowsOK'
  <2>1. status' = status /\ queue' = Adding(queue, {t}, "gate") /\ pool' = pool
    BY <1>7 DEF SaveNewTransactions
  <2>2. QueueRows(queue')
    BY <1>1, <2>1 DEF With, Adding, Without, QueueRows
  <2> QED
    BY <1>1, <2>1, <2>2 DEF RowsOK
<1>8. ASSUME NEW t \in Reports \cup Stops, CreateTransaction(t) PROVE RowsOK'
  <2>1. status' = status /\ queue' = queue /\ pool' = With(pool, {t}, "unverified")
    BY <1>8 DEF CreateTransaction
  <2>2. PoolRows(pool')
    BY <1>1, <2>1 DEF With, Adding, Without, PoolRows
  <2> QED
    BY <1>1, <2>1, <2>2 DEF RowsOK
<1>9. ASSUME ProcessQueueTransactionBatches PROVE RowsOK'
  <2>1. /\ status' = status /\ queue' = queue
        /\ pool' = Adding(pool, Range(parser'), "verified")
        /\ Range(parser') \subseteq DOMAIN queue \cup DOMAIN pool
    BY <1>9, BatchRows DEF ProcessQueueTransactionBatches
  <2> DEFINE S == Range(parser')
  <2>2. pool' = Adding(pool, S, "verified") /\ S \subseteq DOMAIN queue \cup DOMAIN pool
    BY <2>1
  <2> HIDE DEF S
  <2>3. PoolRows(pool')
    BY <1>1, <2>2 DEF With, Adding, Without, PoolRows, QueueRows
  <2> QED
    BY <1>1, <2>1, <2>3 DEF RowsOK
<1>10. ASSUME DeleteQueueTxs PROVE RowsOK'
  <2>1. status' = status /\ queue' = Without(queue, Range(parser)) /\ pool' = pool
    BY <1>10 DEF DeleteQueueTxs
  <2>2. QueueRows(queue')
    BY <1>1, <2>1 DEF With, Adding, Without, QueueRows
  <2> QED
    BY <1>1, <2>1, <2>2 DEF RowsOK
<1>11. ASSUME Panic \/ Crash PROVE RowsOK'
  BY <1>11 DEF Panic, Crash, LoseMemory, rows, RowsOK
<1>12. ASSUME NEW S, MarkTransactionsBad(S) PROVE RowsOK'
  BY <1>12, Marked
<1>13. ASSUME PlayNothing PROVE RowsOK'
  <2>1. PICK st : st = SetErrors(Range(gen))
    OBVIOUS
  <2>2. /\ status' = BlockMsgs(st, msgs, Len(chain) + 1)
        /\ queue' = Without(queue, Range(gen)) /\ pool' = Without(pool, Range(gen))
    BY <1>13, <2>1 DEF PlayNothing
  <2>3. StatusRows(st)
    BY <1>1, <2>1, ErrorsSet
  <2>4. Len(chain) + 1 \in Nat \ {0}
    BY DEF ListsOK
  <2>5. StatusRows(status')
    BY <2>2, <2>3, <2>4, MessagesWritten
  <2>6. QueueRows(queue') /\ PoolRows(pool')
    BY <1>1, <2>2 DEF With, Adding, Without, QueueRows, PoolRows
  <2> QED
    BY <2>5, <2>6 DEF RowsOK
<1>14. ASSUME NEW fails \in SUBSET Faulty, PlayBlock(fails) PROVE RowsOK'
  <2> DEFINE S == Range(gen) \cap fails
             m == msgs \cup Range(Played(fails))
  <2>1. PICK st : st = SetErrors(S)
    OBVIOUS
  <2>2. /\ status' = BlockMsgs(st, m, Len(chain) + 1)
        /\ queue' = Without(queue, S) /\ pool' = Without(pool, Range(gen))
    BY <1>14, <2>1 DEF PlayBlock
  <2> HIDE DEF S, m
  <2>3. StatusRows(st)
    BY <1>1, <2>1, ErrorsSet
  <2>4. Len(chain) + 1 \in Nat \ {0}
    BY DEF ListsOK
  <2>5. StatusRows(status')
    BY <2>2, <2>3, <2>4, MessagesWritten
  <2>6. QueueRows(queue') /\ PoolRows(pool')
    BY <1>1, <2>2 DEF With, Adding, Without, QueueRows, PoolRows
  <2> QED
    BY <2>5, <2>6 DEF RowsOK
<1>15. ASSUME NEW S, ReceiveBlock(S) PROVE RowsOK'
  <2>1. /\ status' = BlockMsgs(status, msgs \cup S, Len(chain) + 1)
        /\ queue' = queue /\ pool' = Without(pool, S)
    BY <1>15 DEF ReceiveBlock
  <2>2. Len(chain) + 1 \in Nat \ {0}
    BY DEF ListsOK
  <2>3. StatusRows(status')
    BY <1>1, <2>1, <2>2, MessagesWritten
  <2>4. PoolRows(pool')
    BY <1>1, <2>1 DEF With, Adding, Without, PoolRows
  <2> QED
    BY <1>1, <2>1, <2>3, <2>4 DEF RowsOK
<1>16. ASSUME RollbackBlock PROVE RowsOK'
  BY <1>1, <1>16, RolledBack DEF RowsOK
<1>17. ASSUME CheckNodeRelevance PROVE RowsOK'
  BY <1>17 DEF CheckNodeRelevance, rows, RowsOK
<1> QED
  BY <1>3, <1>4, <1>5, <1>6, <1>7, <1>8, <1>9, <1>10, <1>11, <1>12, <1>13, <1>14,
     <1>15, <1>16, <1>17, StepCases

\* An empty list fits.
LEMMA NothingFits == None \in Seq(Txs) /\ Fits(None)
<1>1. None = <<>> /\ None \in Seq(Txs)
  BY DEF None
<1>2. Range(None) = {} /\ Len(None) = 0
  BY <1>1 DEF Range
<1>3. \A k : OfKey(None, k) = {}
  BY <1>1 DEF OfKey
<1>6. Cardinality({}) = 0
  BY FS_EmptySet
<1>7. \A k : Cardinality(OfKey(None, k)) = 0
  BY <1>3, <1>6
<1>4. \A k : Cardinality(OfKey(None, k)) <= MaxUserTx
  BY <1>7, PoolAssumption
<1>5. Len(None) <= MaxTxCount
  BY <1>2, PoolAssumption
<1> QED
  BY <1>1, <1>2, <1>4, <1>5 DEF Fits

\* What is left of the list when some of it fails.
LEMMA PlayedRest ==
    ASSUME gen \in Seq(Txs), NEW fails
    PROVE  Range(Played(fails)) = Range(gen) \ fails /\ Range(gen) \subseteq Txs
<1>1. ToSet(Played(fails)) = ToSet(gen) \cap (Txs \ fails)
  BY OnlyElements DEF Played
<1>2. Range(gen) \subseteq Txs
  BY DEF Range
<1> QED
  BY <1>1, <1>2 DEF ToSet, Range

\* A chain without its last block.
LEMMA ChainFront ==
    ASSUME NEW S, NEW c \in Seq(S), c # <<>>
    PROVE  /\ Front(c) \in Seq(S) /\ Len(c) \in Nat \ {0} /\ Len(Front(c)) = Len(c) - 1
           /\ \A i \in 1..Len(c)-1 : Front(c)[i] = c[i]
           /\ Last(c) = c[Len(c)] /\ Last(c) \in S
<1>1. Len(c) \in Nat \ {0} /\ \A i \in 1..Len(c) : c[i] \in S
  OBVIOUS
<1> DEFINE n == Len(c) - 1
<1>2. n \in 0..Len(c) /\ \A i \in 1..n : c[i] \in S
  BY <1>1
<1>5. n = Len(c) - 1
  OBVIOUS
<1> HIDE DEF n
<1>3. /\ SubSeq(c, 1, n) \in Seq(S) /\ Len(SubSeq(c, 1, n)) = n
      /\ \A i \in 1..n : SubSeq(c, 1, n)[i] = c[i]
  BY <1>1, <1>2, SubSeqProperties
<1>4. Front(c) = SubSeq(c, 1, n) /\ Last(c) = c[Len(c)]
  BY <1>5 DEF Front, Last
<1> QED
  BY <1>1, <1>3, <1>4, <1>5

\* Every step keeps the lists of the daemons and the chain what they are.
LEMMA ListsStay == ASSUME ListsOK, RowsOK, Next PROVE ListsOK'
<1> SUFFICES ASSUME ListsOK, RowsOK, Next PROVE ListsOK'
  OBVIOUS
<1>1. /\ chain \in Seq(SUBSET Txs) /\ gen \in Seq(Txs) /\ parser \in Seq(Txs)
      /\ gen = None \/ parser = None
      /\ Fits(gen)
  BY DEF ListsOK
<1>2. ASSUME UNCHANGED <<chain, gen, parser>> PROVE ListsOK'
  BY <1>1, <1>2 DEF ListsOK, Fits, OfKey
<1>3. ASSUME NEW l, l \in Seq(Txs), Fits(l), chain' \in Seq(SUBSET Txs),
             gen' = l, parser' = None
      PROVE  ListsOK'
  BY <1>3, NothingFits DEF ListsOK, Fits, OfKey
<1>4. ASSUME chain' \in Seq(SUBSET Txs), gen' = None, parser' = None PROVE ListsOK'
  BY <1>3, <1>4, NothingFits
<1>5. ASSUME gen # None, gen' = None, chain' = chain, parser' = parser PROVE ListsOK'
  BY <1>1, <1>4, <1>5
<1>6. CASE ProcessQueueTransactionBatches
  <2>1. gen = None /\ gen' = gen /\ parser' = Batch /\ chain' = chain
    BY <1>6 DEF ProcessQueueTransactionBatches, Locked
  <2>2. Batch \in Seq(Txs)
    BY BatchRows
  <2> QED
    BY <1>1, <2>1, <2>2 DEF ListsOK, Fits, OfKey
<1>7. CASE DeleteQueueTxs
  BY <1>1, <1>3, <1>7 DEF DeleteQueueTxs
<1>8. CASE Panic \/ Crash
  BY <1>1, <1>4, <1>8 DEF Panic, Crash, LoseMemory
<1>9. CASE BlockGenerator
  <2>0. Faulty \cap DOMAIN pool \subseteq Faulty
    OBVIOUS
  <2>1. PICK c \in ProcessTransactions(Faulty \cap DOMAIN pool) :
           gen' = c.list /\ chain' = chain /\ parser' = parser
    BY <1>9 DEF BlockGenerator
  <2>2. parser = None
    BY <1>9 DEF BlockGenerator, Locked
  <2> QED
    BY <1>1, <1>3, <2>0, <2>1, <2>2, CollectedFits
<1>10. CASE PlayNothing \/ PlayStop \/ \E fails \in SUBSET Faulty : PlayAgain(fails)
  BY <1>5, <1>10 DEF PlayNothing, PlayStop, PlayAgain
<1>11. ASSUME NEW fails \in SUBSET Faulty, PlayBlock(fails) PROVE ListsOK'
  <2>1. /\ gen # None /\ gen' = None /\ parser' = parser
        /\ chain' = Append(chain, Range(Played(fails)))
    BY <1>11 DEF PlayBlock
  <2>2. Range(Played(fails)) \in SUBSET Txs
    BY <1>1, PlayedRest
  <2>3. chain' \in Seq(SUBSET Txs)
    BY <1>1, <2>1, <2>2
  <2> QED
    BY <1>1, <1>4, <2>1, <2>3
<1>12. ASSUME NEW S \in SUBSET Foreign, ReceiveBlock(S) PROVE ListsOK'
  <2>1. gen = None /\ parser = None /\ UNCHANGED <<gen, parser>> /\ chain' = Append(chain, S)
    BY <1>12 DEF ReceiveBlock, Locked
  <2>2. S \in SUBSET Txs
    BY <1>12, PoolAssumption
  <2>3. chain' \in Seq(SUBSET Txs)
    BY <1>1, <2>1, <2>2
  <2> QED
    BY <1>4, <2>1, <2>3
<1>13. CASE RollbackBlock
  <2>1. gen = None /\ parser = None /\ UNCHANGED <<gen, parser>>
        /\ chain # <<>> /\ chain' = Front(chain)
    BY <1>13 DEF RollbackBlock, Locked, None
  <2>2. chain' \in Seq(SUBSET Txs)
    BY <1>1, <2>1, ChainFront
  <2> QED
    BY <1>4, <2>1, <2>2
<1>14. CASE \/ \E t \in Faulty : RefuseBatch(t)
            \/ \E t \in Users : ProcessBadTx(t)
            \/ \E t \in Users : SendTx(t)
            \/ \E t \in Users : SendTxQueue(t)
            \/ \E S \in SUBSET Users : SendTxBatches(S)
            \/ \E t \in Users : Type1(t) \/ GetUnknownTransactions(t)
            \/ \E t \in Users : SaveNewTransactions(t)
            \/ \E t \in Reports \cup Stops : CreateTransaction(t)
            \/ \E t \in Faulty : ReceiveBadBlock(t)
            \/ CheckNodeRelevance
  BY <1>2, <1>14 DEF RefuseBatch, ProcessBadTx, SendTx, SendTxQueue, SendTxBatches,
     Type1, GetUnknownTransactions, SaveNewTransactions, CreateTransaction, ReceiveBadBlock,
     CheckNodeRelevance, web
<1> QED
  BY <1>6, <1>7, <1>8, <1>9, <1>10, <1>11, <1>12, <1>13, <1>14, StepCases DEF MarkingStep

-----------------------------------------------------------------------------
(* A block number a client reads.                                            *)

\* The blocks the rows of st name are in the chain c.
Named(st, c) ==
    \A t \in DOMAIN st :
        st[t].block # 0 => st[t].block <= Len(c) /\ t \in c[st[t].block]

\* A block appended to the chain, whose messages write its number.
LEMMA BlockNamed ==
    ASSUME NEW st, StatusRows(st), NEW c \in Seq(SUBSET Txs), Named(st, c), NEW B \in SUBSET Txs
    PROVE  Named(BlockMsgs(st, B, Len(c) + 1), Append(c, B))
<1> DEFINE n == Len(c) + 1
           s2 == BlockMsgs(st, B, n)
           c2 == Append(c, B)
<1>1. n \in Nat \ {0} /\ Len(c2) = n /\ c2[n] = B /\ \A i \in 1..Len(c) : c2[i] = c[i]
  OBVIOUS
<1>2. /\ DOMAIN s2 = DOMAIN st
      /\ \A t \in DOMAIN st : /\ t \in B => s2[t].block = n
                              /\ t \notin B => s2[t] = st[t]
  BY <1>1, MessagesWritten
<1>3. \A t \in DOMAIN st : st[t].block \in Nat
  BY DEF StatusRows, Statuses
<1> HIDE DEF s2, c2
<1>4. ASSUME NEW t \in DOMAIN s2, s2[t].block # 0
      PROVE  s2[t].block <= Len(c2) /\ t \in c2[s2[t].block]
  <2>1. CASE t \in B
    BY <1>1, <1>2, <2>1
  <2>2. CASE t \notin B
    <3> DEFINE b == st[t].block
    <3>1. s2[t].block = b /\ t \in DOMAIN st /\ b \in Nat \ {0}
      BY <1>2, <1>3, <1>4, <2>2
    <3>2. b <= Len(c) /\ t \in c[b]
      BY <3>1 DEF Named
    <3> HIDE DEF b
    <3>3. b \in 1..Len(c)
      BY <3>1, <3>2
    <3> QED
      BY <1>1, <3>1, <3>2, <3>3
  <2> QED
    BY <2>1, <2>2
<1>5. Named(s2, c2)
  BY <1>4 DEF Named
<1> QED
  BY <1>5 DEF s2, c2, n

\* Every step keeps them there, until a block failed.
LEMMA StatusStays == ASSUME RowsOK, ListsOK, StatusInv, Next PROVE StatusInv'
<1>1. StatusRows(status) /\ chain \in Seq(SUBSET Txs)
  BY DEF RowsOK, ListsOK
<1>2. ~failed => Named(status, chain) /\ msgs = {}
  BY DEF StatusInv, StatusTrue, Named
<1>3. SUFFICES ~failed' => Named(status', chain') /\ msgs' = {}
  BY DEF StatusInv, StatusTrue, Named
<1> DEFINE Kept(t) == t \in DOMAIN status /\ status'[t].block = status[t].block
<1>4. ASSUME failed' = failed, chain' = chain, msgs' = msgs \/ msgs' = {},
             \A t \in DOMAIN status' : status'[t].block = 0 \/ Kept(t)
      PROVE  ~failed' => Named(status', chain') /\ msgs' = {}
  BY <1>2, <1>4 DEF Named
<1>5. Pending.block = 0
  BY DEF Pending
<1>6. ASSUME NEW t \in Users, SendTx(t) PROVE ~failed' => Named(status', chain') /\ msgs' = {}
  BY <1>4, <1>5, <1>6 DEF SendTx, With, hist
<1>7. ASSUME NEW S \in SUBSET Users, SendTxBatches(S)
      PROVE  ~failed' => Named(status', chain') /\ msgs' = {}
  BY <1>4, <1>5, <1>7 DEF SendTxBatches, Adding, hist
<1>8. CASE \/ \E t \in Users : SendTxQueue(t)
           \/ \E t \in Users : Type1(t) \/ GetUnknownTransactions(t)
           \/ \E t \in Users : SaveNewTransactions(t)
           \/ \E t \in Reports \cup Stops : CreateTransaction(t)
           \/ ProcessQueueTransactionBatches
           \/ DeleteQueueTxs
           \/ Panic \/ Crash
           \/ CheckNodeRelevance
  <2>1. /\ status' = status /\ chain' = chain /\ failed' = failed
        /\ msgs' = msgs \/ msgs' = {}
    BY <1>8 DEF SendTxQueue, Type1, GetUnknownTransactions, SaveNewTransactions,
       CreateTransaction, ProcessQueueTransactionBatches, DeleteQueueTxs, Panic, Crash,
       LoseMemory, CheckNodeRelevance, rows, hist
  <2> QED
    BY <1>4, <2>1
<1>9. CASE MarkingStep /\ \E S : MarkTransactionsBad(S)
  <2>1. PICK S : MarkTransactionsBad(S)
    BY <1>9
  <2>2. \A t \in DOMAIN status' : Kept(t)
    BY <2>1, Marked
  <2> HIDE DEF Kept
  <2>3. CASE \E fails \in SUBSET Faulty : PlayAgain(fails)
    BY <2>3 DEF PlayAgain
  <2>4. CASE ~ \E fails \in SUBSET Faulty : PlayAgain(fails)
    <3>1. failed' = failed /\ chain' = chain /\ (msgs' = msgs \/ msgs' = {})
      BY <1>9, <2>4 DEF MarkingStep, RefuseBatch, BlockGenerator, PlayStop, ProcessBadTx,
         ReceiveBadBlock, hist
    <3> QED
      BY <1>4, <2>2, <3>1
  <2> QED
    BY <2>3, <2>4
<1>10. CASE PlayNothing
  <2>1. PICK st : st = SetErrors(Range(gen))
    OBVIOUS
  <2>2. /\ status' = BlockMsgs(st, msgs, Len(chain) + 1)
        /\ chain' = chain /\ failed' = failed /\ msgs' = {}
    BY <1>10, <2>1 DEF PlayNothing, hist
  <2>3. /\ StatusRows(st) /\ DOMAIN st = DOMAIN status
        /\ \A t \in DOMAIN status : st[t].block = status[t].block
    BY <1>1, <2>1, ErrorsSet
  <2>4. CASE ~failed
    <3>1. Len(chain) + 1 \in Nat \ {0} /\ \A t \in DOMAIN status : t \notin msgs
      BY <1>1, <1>2, <2>4
    <3>2. \A t \in DOMAIN status' : Kept(t)
      BY <2>2, <2>3, <3>1, MessagesWritten
    <3> HIDE DEF Kept
    <3> QED
      BY <1>4, <2>2, <3>2
  <2> QED
    BY <2>2, <2>4
<1>11. ASSUME NEW fails \in SUBSET Faulty, PlayBlock(fails)
       PROVE  ~failed' => Named(status', chain') /\ msgs' = {}
  <2>1. PICK st : st = SetErrors(Range(gen) \cap fails)
    OBVIOUS
  <2> DEFINE B == Range(Played(fails))
  <2>2. /\ status' = BlockMsgs(st, msgs \cup B, Len(chain) + 1)
        /\ chain' = Append(chain, B) /\ failed' = failed /\ msgs' = {}
    BY <1>11, <2>1 DEF PlayBlock, hist
  <2>3. /\ StatusRows(st) /\ DOMAIN st = DOMAIN status
        /\ \A t \in DOMAIN status : st[t].block = status[t].block
    BY <1>1, <2>1, ErrorsSet
  <2>4. B \in SUBSET Txs
    BY PlayedRest DEF ListsOK
  <2> HIDE DEF B
  <2>5. CASE ~failed
    <3>1. msgs \cup B = B /\ Named(st, chain)
      BY <1>2, <2>3, <2>5 DEF Named
    <3>2. Named(status', chain')
      BY <1>1, <2>2, <2>3, <2>4, <3>1, BlockNamed
    <3> QED
      BY <2>2, <3>2
  <2> QED
    BY <2>2, <2>5
<1>12. ASSUME NEW S \in SUBSET Foreign, ReceiveBlock(S)
       PROVE  ~failed' => Named(status', chain') /\ msgs' = {}
  <2>1. /\ status' = BlockMsgs(status, msgs \cup S, Len(chain) + 1)
        /\ chain' = Append(chain, S) /\ failed' = failed /\ msgs' = {}
    BY <1>12 DEF ReceiveBlock, hist
  <2>2. S \in SUBSET Txs
    BY <1>12, PoolAssumption
  <2>3. CASE ~failed
    <3>1. msgs \cup S = S
      BY <1>2, <2>3
    <3>2. Named(status', chain')
      BY <1>1, <1>2, <2>1, <2>2, <2>3, <3>1, BlockNamed
    <3> QED
      BY <2>1, <3>2
  <2> QED
    BY <2>1, <2>3
<1>13. CASE RollbackBlock
  <2>1. /\ chain # <<>> /\ chain' = Front(chain) /\ failed' = failed /\ msgs' = msgs
    BY <1>13 DEF RollbackBlock, None
  <2>2. /\ DOMAIN status' = DOMAIN status
        /\ \A t \in Last(chain) \cap DOMAIN status : status'[t].block = 0
        /\ \A t \in DOMAIN status \ Last(chain) : status'[t] = status[t]
    BY <1>13, RolledBack
  <2>3. /\ Len(chain) \in Nat \ {0} /\ Len(chain') = Len(chain) - 1
        /\ \A i \in 1..Len(chain)-1 : chain'[i] = chain[i]
        /\ Last(chain) = chain[Len(chain)]
    BY <1>1, <2>1, ChainFront
  <2>4. \A t \in DOMAIN status : status[t].block \in Nat
    BY <1>1 DEF StatusRows, Statuses
  <2>5. ASSUME ~failed, NEW t \in DOMAIN status', status'[t].block # 0
        PROVE  status'[t].block <= Len(chain') /\ t \in chain'[status'[t].block]
    <3> DEFINE b == status[t].block
    <3>1. t \in DOMAIN status /\ t \notin Last(chain) /\ status'[t].block = b /\ b \in Nat \ {0}
      BY <2>2, <2>4, <2>5
    <3>2. b <= Len(chain) /\ t \in chain[b]
      BY <1>2, <2>5, <3>1 DEF Named
    <3> HIDE DEF b
    <3>3. b # Len(chain)
      BY <2>3, <3>1, <3>2
    <3>4. b \in 1..Len(chain)-1
      BY <2>3, <3>1, <3>2, <3>3
    <3> QED
      BY <2>3, <3>1, <3>2, <3>4
  <2> QED
    BY <1>2, <2>1, <2>5 DEF Named
<1> QED
  BY <1>6, <1>7, <1>8, <1>9, <1>10, <1>11, <1>12, <1>13, StepCases

-----------------------------------------------------------------------------
(* Who has no answer waits in a table.                                       *)

\* A step that neither asks nor brings anything: rows may leave the tables,
\* and whoever is still without an answer stays where it was.
LEMMA LeaveWaits ==
    ASSUME RowsOK, WaitsInv,
           DOMAIN status' = DOMAIN status,
           sending' \subseteq sending, excused \subseteq excused',
           DOMAIN queue' \subseteq DOMAIN queue,
           \A t \in DOMAIN queue' : queue'[t] = queue[t],
           DOMAIN pool' \cap Users \subseteq DOMAIN pool,
           Range(parser') \subseteq Range(parser),
           \A t \in DOMAIN status : status'[t] = Pending /\ t \notin excused' =>
              /\ status[t] = Pending
              /\ t \in sending => t \in sending'
              /\ t \in DOMAIN queue \cup DOMAIN pool => t \in DOMAIN queue' \cup DOMAIN pool'
              /\ t \in Range(parser') \cap DOMAIN pool => t \in DOMAIN pool'
    PROVE  WaitsInv'
<1>1. Waits /\ OriginKnown /\ ParserMoves /\ DOMAIN status \subseteq Users
  BY DEF WaitsInv, RowsOK, StatusRows
<1>2. ASSUME NEW t \in Users, Answerless(t)', t \notin sending' \cup excused'
      PROVE  t \in DOMAIN queue' \cup DOMAIN pool'
  BY <1>1, <1>2 DEF Waits, Answerless
<1>3. ASSUME NEW t \in Users \cap Range(parser'), Answerless(t)'
      PROVE  t \in DOMAIN pool' \cup excused'
  BY <1>1, <1>3 DEF ParserMoves, Answerless
<1>4. OriginKnown'
  BY <1>1 DEF OriginKnown
<1> QED
  BY <1>2, <1>3, <1>4 DEF WaitsInv, Waits, ParserMoves

\* Every step keeps them waiting.
LEMMA WaitingStays == ASSUME RowsOK, ListsOK, WaitsInv, Next PROVE WaitsInv'
<1>1. /\ StatusRows(status) /\ QueueRows(queue) /\ PoolRows(pool)
      /\ DOMAIN status \subseteq Users /\ DOMAIN queue \subseteq Users
      /\ \A t \in DOMAIN queue : queue[t] \in {"client", "gate"}
  BY DEF RowsOK, StatusRows, QueueRows
<1>2. Waits /\ OriginKnown /\ ParserMoves
  BY DEF WaitsInv
<1>3. ASSUME NEW S, DOMAIN queue' = DOMAIN queue \ S, DOMAIN pool' = DOMAIN pool \ S,
             DOMAIN status' = DOMAIN status, UNCHANGED <<sending, excused, parser>>,
             \A t \in DOMAIN queue' : queue'[t] = queue[t],
             \A t \in DOMAIN status :
                status'[t] = Pending => status[t] = Pending /\ ~ (t \in S /\ Told(t))
      PROVE  WaitsInv'
  <2>1. \A t \in S : ~Told(t) => t \in excused
    BY <1>1, <1>2 DEF Told, OriginKnown
  <2>2. \A t \in DOMAIN status : status'[t] = Pending /\ t \notin excused' =>
              /\ status[t] = Pending
              /\ t \in sending => t \in sending'
              /\ t \in DOMAIN queue \cup DOMAIN pool => t \in DOMAIN queue' \cup DOMAIN pool'
              /\ t \in Range(parser') \cap DOMAIN pool => t \in DOMAIN pool'
    BY <1>3, <2>1
  <2> QED
    BY <1>3, <2>2, LeaveWaits
<1>4. ASSUME NEW t \in Users, SendTx(t) PROVE WaitsInv'
  <2>1. /\ t \notin DOMAIN status /\ sending' = sending \cup {t}
        /\ UNCHANGED <<queue, pool, parser, excused>>
        /\ DOMAIN status' = DOMAIN status \cup {t}
        /\ \A x \in DOMAIN status : status'[x] = status[x]
    BY <1>4 DEF SendTx, With, hist
  <2>2. OriginKnown'
    BY <1>2, <2>1 DEF OriginKnown
  <2>3. Waits' /\ ParserMoves'
    BY <1>2, <2>1 DEF OriginKnown, Waits, ParserMoves, Answerless
  <2> QED
    BY <2>2, <2>3 DEF WaitsInv
<1>5. ASSUME NEW t \in Users, SendTxQueue(t) PROVE WaitsInv'
  <2>1. /\ t \in sending /\ sending' = sending \ {t}
        /\ UNCHANGED <<status, pool, parser, excused>>
        /\ DOMAIN queue' = DOMAIN queue \cup {t}
        /\ \A x \in DOMAIN queue : queue'[x] = queue[x]
    BY <1>5 DEF SendTxQueue, Adding, hist
  <2>2. t \notin DOMAIN queue => queue'[t] = "client"
    BY <1>5 DEF SendTxQueue, Adding
  <2>3. OriginKnown'
    BY <1>2, <2>1, <2>2 DEF OriginKnown
  <2>4. Waits' /\ ParserMoves'
    BY <1>2, <2>1 DEF Waits, ParserMoves, Answerless
  <2> QED
    BY <2>3, <2>4 DEF WaitsInv
<1>6. ASSUME NEW S \in SUBSET Users, SendTxBatches(S) PROVE WaitsInv'
  <2>1. /\ UNCHANGED <<pool, parser, excused, sending>>
        /\ DOMAIN queue' = DOMAIN queue \cup S
        /\ \A x \in DOMAIN queue : queue'[x] = queue[x]
        /\ DOMAIN status' = DOMAIN status \cup S
        /\ \A x \in DOMAIN status : status'[x] = status[x]
    BY <1>6 DEF SendTxBatches, Adding, hist, web
  <2>2. \A x \in S \ DOMAIN queue : queue'[x] = "client"
    BY <1>6 DEF SendTxBatches, Adding
  <2>3. OriginKnown'
    BY <1>2, <2>1, <2>2 DEF OriginKnown
  <2>4. Waits' /\ ParserMoves'
    BY <1>2, <2>1 DEF OriginKnown, Waits, ParserMoves, Answerless
  <2> QED
    BY <2>3, <2>4 DEF WaitsInv
<1>7. ASSUME NEW t \in Users, Type1(t) \/ GetUnknownTransactions(t) PROVE WaitsInv'
  <2>1. UNCHANGED <<status, queue, pool, sending, parser, excused>>
    BY <1>7 DEF Type1, GetUnknownTransactions, rows, hist
  <2> QED
    BY <1>2, <2>1 DEF WaitsInv, Waits, OriginKnown, ParserMoves, Answerless
<1>8. ASSUME NEW t \in Users, SaveNewTransactions(t) PROVE WaitsInv'
  <2>1. /\ UNCHANGED <<status, pool, parser, sending>> /\ excused' = excused \cup {t}
        /\ DOMAIN queue' = DOMAIN queue \cup {t}
        /\ \A x \in DOMAIN queue : queue'[x] = queue[x]
        /\ t \notin DOMAIN queue => queue'[t] = "gate"
    BY <1>8 DEF SaveNewTransactions, Adding
  <2>3. OriginKnown'
    BY <1>2, <2>1 DEF OriginKnown
  <2>4. Waits' /\ ParserMoves'
    BY <1>2, <2>1 DEF Waits, ParserMoves, Answerless
  <2> QED
    BY <2>3, <2>4 DEF WaitsInv
<1>9. ASSUME NEW t \in Reports \cup Stops, CreateTransaction(t) PROVE WaitsInv'
  <2>1. /\ UNCHANGED <<status, queue, sending, parser, excused>>
        /\ DOMAIN pool' = DOMAIN pool \cup {t}
    BY <1>9 DEF CreateTransaction, With, web, hist
  <2>2. t \notin Users
    BY PoolAssumption
  <2> QED
    BY <2>1, <2>2, LeaveWaits
<1>10. CASE ProcessQueueTransactionBatches
  <2>1. /\ UNCHANGED <<status, queue, sending, excused>>
        /\ Range(parser') \subseteq DOMAIN queue \cup DOMAIN pool
        /\ DOMAIN pool' = DOMAIN pool \cup Range(parser')
    BY <1>10, BatchRows DEF ProcessQueueTransactionBatches, Adding, web, hist
  <2>2. \A t \in Users \cap DOMAIN queue : t \in DOMAIN status \cup excused
    BY <1>1, <1>2 DEF OriginKnown
  <2>3. OriginKnown'
    BY <1>2, <2>1, <2>2 DEF OriginKnown
  <2>4. Waits' /\ ParserMoves'
    BY <1>2, <2>1 DEF Waits, ParserMoves, Answerless
  <2> QED
    BY <2>3, <2>4 DEF WaitsInv
<1>11. CASE DeleteQueueTxs
  <2>1. /\ UNCHANGED <<status, pool, sending, excused>> /\ parser' = <<>>
        /\ DOMAIN queue' = DOMAIN queue \ Range(parser)
        /\ \A x \in DOMAIN queue' : queue'[x] = queue[x]
    BY <1>11 DEF DeleteQueueTxs, Without, None, web, hist
  <2>2. Range(parser') = {}
    BY <2>1 DEF Range
  <2>3. \A t \in DOMAIN status : status[t] = Pending /\ t \notin excused /\ t \in Range(parser)
           => t \in DOMAIN pool
    BY <1>1, <1>2 DEF ParserMoves, Answerless
  <2> QED
    BY <2>1, <2>2, <2>3, LeaveWaits
<1>12. CASE Panic \/ Crash
  <2>1. /\ UNCHANGED <<status, queue, pool>> /\ parser' = <<>> /\ sending' = {}
        /\ excused' = excused \cup sending
    BY <1>12 DEF Panic, Crash, LoseMemory, rows, None
  <2>2. Range(parser') = {}
    BY <2>1 DEF Range
  <2> QED
    BY <2>1, <2>2, LeaveWaits
<1>13. CASE MarkingStep /\ \E S : MarkTransactionsBad(S)
  <2>1. PICK S : MarkTransactionsBad(S)
    BY <1>13
  <2>2. UNCHANGED <<sending, excused, parser>>
    BY <1>13 DEF MarkingStep, RefuseBatch, BlockGenerator, PlayStop, PlayAgain, ProcessBadTx,
       ReceiveBadBlock, web, hist
  <2> QED
    BY <1>3, <2>1, <2>2, Marked
<1>14. CASE PlayNothing
  <2>1. PICK st, S : st = SetErrors(S) /\ S = Range(gen)
    OBVIOUS
  <2>2. /\ status' = BlockMsgs(st, msgs, Len(chain) + 1)
        /\ DOMAIN queue' = DOMAIN queue \ S /\ DOMAIN pool' = DOMAIN pool \ S
        /\ UNCHANGED <<sending, excused, parser>>
        /\ \A t \in DOMAIN queue' : queue'[t] = queue[t]
    BY <1>14, <2>1 DEF PlayNothing, Without, web, hist
  <2>3. /\ StatusRows(st) /\ DOMAIN st = DOMAIN status
        /\ \A t \in DOMAIN status :
             st[t] = Pending => status[t] = Pending /\ ~ (t \in S /\ Told(t))
    BY <1>1, <2>1, ErrorsSet
  <2>4. Len(chain) + 1 \in Nat \ {0}
    BY DEF ListsOK
  <2>5. /\ DOMAIN status' = DOMAIN status
        /\ \A t \in DOMAIN status :
             status'[t] = Pending => status[t] = Pending /\ ~ (t \in S /\ Told(t))
    BY <2>2, <2>3, <2>4, MessagesWritten
  <2> QED
    BY <1>3, <2>2, <2>5
<1>15. ASSUME NEW fails \in SUBSET Faulty, PlayBlock(fails) PROVE WaitsInv'
  <2>1. PICK st, S, R : st = SetErrors(S) /\ S = Range(gen) \cap fails /\ R = Range(gen)
    OBVIOUS
  <2> DEFINE B == Range(Played(fails))
             m == msgs \cup B
  <2>2. /\ status' = BlockMsgs(st, m, Len(chain) + 1)
        /\ DOMAIN queue' = DOMAIN queue \ S /\ DOMAIN pool' = DOMAIN pool \ R
        /\ UNCHANGED <<sending, excused, parser>>
        /\ \A t \in DOMAIN queue' : queue'[t] = queue[t]
    BY <1>15, <2>1 DEF PlayBlock, Without, web, hist
  <2>3. /\ StatusRows(st) /\ DOMAIN st = DOMAIN status
        /\ \A t \in DOMAIN status :
             st[t] = Pending => status[t] = Pending /\ ~ (t \in S /\ Told(t))
    BY <1>1, <2>1, ErrorsSet
  <2>4. Len(chain) + 1 \in Nat \ {0} /\ R = S \cup B /\ B \subseteq m
    BY <2>1, PlayedRest DEF ListsOK
  <2>5. Range(parser') = {}
    <3>1. gen # None /\ parser' = parser
      BY <1>15, <2>2 DEF PlayBlock
    <3>2. parser' = <<>>
      BY <3>1 DEF ListsOK, None
    <3> QED
      BY <3>2 DEF Range
  <2> HIDE DEF B, m
  <2>6. /\ DOMAIN status' = DOMAIN status
        /\ \A t \in DOMAIN status :
             status'[t] = Pending => st[t] = Pending /\ t \notin m
    BY <2>2, <2>3, <2>4, MessagesWritten
  <2>7. \A t \in S : ~Told(t) => t \in excused
    BY <1>1, <1>2 DEF Told, OriginKnown
  <2>8. \A t \in DOMAIN status : status'[t] = Pending /\ t \notin excused =>
           status[t] = Pending /\ t \notin R
    BY <2>3, <2>4, <2>6, <2>7
  <2>9. S \subseteq R
    BY <2>1
  <2> QED
    BY <2>2, <2>5, <2>6, <2>8, <2>9, LeaveWaits
<1>16. ASSUME NEW S \in SUBSET Foreign, ReceiveBlock(S) PROVE WaitsInv'
  <2>1. /\ status' = BlockMsgs(status, msgs \cup S, Len(chain) + 1)
        /\ UNCHANGED <<sending, excused, parser, queue>> /\ parser = <<>>
        /\ DOMAIN pool' = DOMAIN pool \ S
    BY <1>16 DEF ReceiveBlock, Without, web, hist, Locked, None
  <2>2. Len(chain) + 1 \in Nat \ {0}
    BY DEF ListsOK
  <2>3. Range(parser') = {}
    BY <2>1 DEF Range
  <2>4. /\ DOMAIN status' = DOMAIN status
        /\ \A t \in DOMAIN status :
             status'[t] = Pending => status[t] = Pending /\ t \notin msgs \cup S
    BY <1>1, <2>1, <2>2, MessagesWritten
  <2> QED
    BY <2>1, <2>3, <2>4, LeaveWaits
<1>17. CASE RollbackBlock
  <2>1. excused' = excused \cup Last(chain) /\ UNCHANGED <<sending, parser>>
    BY <1>17 DEF RollbackBlock, web
  <2>2. /\ DOMAIN status' = DOMAIN status
        /\ \A t \in DOMAIN status \ Last(chain) : status'[t] = status[t]
        /\ DOMAIN queue' = DOMAIN queue \ Last(chain)
        /\ \A t \in DOMAIN queue' : queue'[t] = queue[t]
        /\ DOMAIN pool' = DOMAIN pool
    BY <1>17, RolledBack
  <2> QED
    BY <2>1, <2>2, LeaveWaits
<1>18. CASE CheckNodeRelevance
  <2>1. UNCHANGED <<status, queue, pool, sending, parser, excused>>
    BY <1>18 DEF CheckNodeRelevance, rows, web, hist
  <2> QED
    BY <1>2, <2>1 DEF WaitsInv, Waits, OriginKnown, ParserMoves, Answerless
<1> QED
  BY <1>4, <1>5, <1>6, <1>7, <1>8, <1>9, <1>10, <1>11, <1>12, <1>13, <1>14, <1>15,
     <1>16, <1>17, <1>18, StepCases

-----------------------------------------------------------------------------
(* The theorems.                                                             *)

\* Nothing is stored when a node starts.
LEMMA AtStart == Init => IInv
<1> SUFFICES ASSUME Init PROVE IInv
  OBVIOUS
<1>1. DOMAIN None = {} /\ Range(None) = {}
  BY DEF None, Range
<1>2. /\ status = None /\ queue = None /\ pool = None /\ chain = <<>>
      /\ msgs = {} /\ sending = {} /\ parser = None /\ gen = None
  BY DEF Init
<1>3. RowsOK
  BY <1>1, <1>2 DEF RowsOK, StatusRows, QueueRows, PoolRows
<1>4. ListsOK
  BY <1>2, NothingFits DEF ListsOK, Fits, OfKey
<1>5. WaitsInv
  BY <1>1, <1>2 DEF WaitsInv, Waits, OriginKnown, ParserMoves, Answerless
<1>6. StatusInv
  BY <1>1, <1>2 DEF StatusInv, StatusTrue
<1> QED
  BY <1>3, <1>4, <1>5, <1>6 DEF IInv

\* Every step keeps the invariant, as does a step that changes nothing.
LEMMA Always == IInv /\ [Next]_vars => IInv'
<1>1. ASSUME IInv, Next PROVE IInv'
  BY <1>1, RowsStay, ListsStay, WaitingStays, StatusStays DEF IInv
<1>2. ASSUME IInv, UNCHANGED vars PROVE IInv'
  <2>1. /\ UNCHANGED <<status, queue, pool, chain, msgs, sending, parser, gen, excused, failed>>
    BY <1>2 DEF vars, rows, web, hist
  <2>2. RowsOK' /\ ListsOK'
    BY <1>2, <2>1 DEF IInv, RowsOK, ListsOK, Fits, OfKey
  <2>3. WaitsInv'
    BY <1>2, <2>1 DEF IInv, WaitsInv, Waits, OriginKnown, ParserMoves, Answerless
  <2>4. StatusInv'
    BY <1>2, <2>1 DEF IInv, StatusInv, StatusTrue
  <2> QED
    BY <2>2, <2>3, <2>4 DEF IInv
<1> QED
  BY <1>1, <1>2

\* The invariant holds of every behaviour of the node.
LEMMA Invariant == Spec => []IInv
  BY AtStart, Always, PTL DEF Spec

\* The rows of the three tables, the chain and the lists of the two daemons
\* are what they are said to be, and one daemon at a time has a list.
THEOREM TypeCorrect == Spec => []TypeOK
<1>1. IInv => TypeOK
  <2> SUFFICES ASSUME IInv PROVE TypeOK
    OBVIOUS
  <2>1. RowsOK /\ ListsOK
    BY DEF IInv
  <2>2. /\ DOMAIN status \subseteq Users
        /\ \A t \in DOMAIN status : status[t] \in [block : Nat, error : {"no", "yes"}]
    BY <2>1 DEF RowsOK, StatusRows, Statuses
  <2>3. DOMAIN queue \subseteq Users /\ Range(queue) \subseteq {"client", "gate"}
    BY <2>1 DEF RowsOK, QueueRows, Range
  <2>4. DOMAIN pool \subseteq Users \cup Reports \cup Stops
        /\ Range(pool) \subseteq {"verified", "unverified"}
    BY <2>1 DEF RowsOK, PoolRows, Range
  <2> QED
    BY <2>1, <2>2, <2>3, <2>4 DEF TypeOK, ListsOK
<1> QED
  BY <1>1, Invariant, PTL

\* A transaction whose client reads "no answer yet" waits in the queue or in
\* the pool, unless the request that sends it is not done, a host brought it,
\* a crash cut the request or its block was rolled back.
THEOREM AnswersWait == Spec => []Waits
<1>1. IInv => Waits
  BY DEF IInv, WaitsInv
<1> QED
  BY <1>1, Invariant, PTL

\* A client that reads a block number finds its transaction in that block, as
\* long as no block failed on a transaction of the chain.
THEOREM BlocksTold == Spec => []StatusTrue
<1>1. IInv => StatusTrue
  BY DEF IInv, StatusInv
<1> QED
  BY <1>1, Invariant, PTL

\* Whatever is in the pool and whatever is refused, the list the generator
\* plays passes the limits of the hosts and has a stop-network transaction
\* alone.
THEOREM ListFits == Spec => []CollectFits
<1>1. IInv => CollectFits
  BY DEF IInv, ListsOK, Fits, CollectFits, StopAlone
<1> QED
  BY <1>1, Invariant, PTL
=============================================================================
