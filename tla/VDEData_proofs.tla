--------------------------- MODULE VDEData_proofs ---------------------------
(***************************************************************************)
(* Proofs about VDEData, for any items, tasks, destinations and            *)
(* parameters, any size of a page and any number of faults.                *)
(*                                                                         *)
(* SentIsStored is inductive.  VerifiedByChain needs that a destination    *)
(* keeps nothing of the chain that is not on it (GotInv).                  *)
(* InOrderRowArrives needs that a mark is the stamp of a row of the chain  *)
(* (MarkInv): a row that is mined later with a later stamp than all the    *)
(* rows before it is then after the mark.                                  *)
(*                                                                         *)
(* TypeOK needs that the tables are finite, for a new row is numbered by   *)
(* the rows there are, and that all rows of the chain name tasks or items  *)
(* (Types).                                                                *)
(***************************************************************************)
EXTENDS VDEData, FiniteSetTheorems, FunctionTheorems, SequenceTheorems, TLAPS

(* An item or a task has a row on the chain.                               *)
OnChain(kind, y) == kind \in Kinds /\ \E i \in 1..Len(chain[kind]) : chain[kind][i][2] = y

Stamps ==
  /\ now \in Nat \ {0}
  /\ \A x \in DOMAIN txs : /\ x[1] \in Kinds
                           /\ txs[x] \in [time : Nat \ {0}, st : {"pool", "block", "bad"}]
ChainInv == chain \in [Kinds -> Seq(DOMAIN txs)]
GotInv == \A g \in got : OnChain(g[2], g[3])
MarkInv ==
  /\ mark \in [Dests \X Kinds -> Nat]
  /\ \A d \in Dests, kind \in Kinds : mark[<<d, kind>>] # 0 =>
       \E i \in 1..Len(chain[kind]) : /\ Addressed(chain[kind][i], d)
                                      /\ txs[chain[kind][i]].time = mark[<<d, kind>>]
VerifyInv ==
  \A k \in DOMAIN verify :
    /\ verify[k] \in {0, 1, 2} => parms[TaskOf[k[1]]].hash
    /\ verify[k] \in {1, 2} => OnChain("hash", k[1]) /\ (verify[k] = 2 <=> k[1] \in wrong)

ReadInv == Stamps /\ ChainInv /\ GotInv /\ MarkInv /\ InOrderRowArrives
IInv == ReadInv /\ VerifyInv /\ SentIsStored

-----------------------------------------------------------------------------
(* Tables.                                                                 *)

(* Rows are added for an item and some destinations, none is removed.      *)
LEMMA InsertAllDomain ==
  ASSUME NEW f, NEW i, NEW ds
  PROVE  /\ DOMAIN f \subseteq DOMAIN InsertAll(f, i, ds)
         /\ \A k \in DOMAIN InsertAll(f, i, ds) :
              InsertAll(f, i, ds)[k] = 0 \/ (k \in DOMAIN f /\ InsertAll(f, i, ds)[k] = f[k])
         /\ \A d \in ds : Copies(InsertAll(f, i, ds), i, d) # {}
<1> DEFINE new == {New(f, i, d) : d \in ds}
           g == [k \in DOMAIN f \cup new |-> IF k \in new THEN 0 ELSE f[k]]
<1>1. InsertAll(f, i, ds) = g
  BY DEF InsertAll
<1>2. \A d \in ds : New(f, i, d) \in DOMAIN g /\ New(f, i, d)[1] = i /\ New(f, i, d)[2] = d
  BY DEF New
<1>3. \A d \in ds : Copies(g, i, d) # {}
  BY <1>2 DEF Copies
<1> QED
  BY <1>1, <1>3

(* Rows that are stored remain so.                                         *)
LEMMA CopiesGrow ==
  ASSUME NEW f, NEW g, DOMAIN f \subseteq DOMAIN g, NEW i, NEW d, Copies(f, i, d) # {}
  PROVE  Copies(g, i, d) # {}
BY DEF Copies

-----------------------------------------------------------------------------
(* What a step leaves alone stays true.                                    *)

(* A transaction keeps its stamp, the chain its rows.                      *)
StampsKept == \A x \in DOMAIN txs : x \in DOMAIN txs' /\ txs'[x].time = txs[x].time
ChainKept  == UNCHANGED chain \/ \E x \in DOMAIN txs' : x[1] \in Kinds /\ Join(x)

(* A table of the chain gets one more row, the other none.                 *)
LEMMA TableKept ==
  ASSUME ChainInv, StampsKept, ChainKept, NEW kind \in Kinds
  PROVE  /\ chain'[kind] \in Seq(DOMAIN txs')
         /\ \/ chain'[kind] = chain[kind]
            \/ \E x \in DOMAIN txs' : chain'[kind] = Append(chain[kind], x)
<1>1. chain[kind] \in Seq(DOMAIN txs')
  BY SeqMonotonic DEF ChainInv, StampsKept
<1>2. CASE UNCHANGED chain
  BY <1>1, <1>2
<1>3. ASSUME NEW x \in DOMAIN txs', x[1] \in Kinds, Join(x)
      PROVE  chain'[kind] = chain[kind] \/ chain'[kind] = Append(chain[kind], x)
  BY <1>3 DEF Join, ChainInv
<1>4. CASE \E x \in DOMAIN txs' : x[1] \in Kinds /\ Join(x)
  BY <1>1, <1>3, <1>4, AppendProperties
<1> QED
  BY <1>2, <1>4 DEF ChainKept

(* The chain keeps its rows and their stamps, and may get one more.        *)
LEMMA RowsKept ==
  ASSUME ChainInv, StampsKept, ChainKept
  PROVE  /\ ChainInv'
         /\ \A kind \in Kinds :
              /\ Len(chain[kind]) \in Nat
              /\ Len(chain'[kind]) \in {Len(chain[kind]), Len(chain[kind]) + 1}
              /\ \A i \in 1..Len(chain[kind]) :
                   /\ i \in 1..Len(chain'[kind]) /\ chain'[kind][i] = chain[kind][i]
                   /\ chain[kind][i] \in DOMAIN txs
                   /\ txs'[chain'[kind][i]].time = txs[chain[kind][i]].time
         /\ \A kind, y : OnChain(kind, y) => OnChain(kind, y)'
<1>1. ASSUME NEW kind \in Kinds
      PROVE  /\ Len(chain[kind]) \in Nat
             /\ Len(chain'[kind]) \in {Len(chain[kind]), Len(chain[kind]) + 1}
             /\ \A i \in 1..Len(chain[kind]) :
                  /\ i \in 1..Len(chain'[kind]) /\ chain'[kind][i] = chain[kind][i]
                  /\ chain[kind][i] \in DOMAIN txs
  <2>1. chain[kind] \in Seq(DOMAIN txs)
    BY DEF ChainInv
  <2>2. CASE chain'[kind] = chain[kind]
    BY <2>1, <2>2
  <2>3. ASSUME NEW x \in DOMAIN txs', chain'[kind] = Append(chain[kind], x)
        PROVE  /\ Len(chain'[kind]) = Len(chain[kind]) + 1
               /\ \A i \in 1..Len(chain[kind]) : chain'[kind][i] = chain[kind][i]
    BY <2>1, <2>3
  <2> QED
    BY <2>1, <2>2, <2>3, TableKept
<1>2. ChainInv'
  <2>1. chain' = [kind \in Kinds |-> chain'[kind]]
    BY DEF ChainInv, ChainKept, Join
  <2> QED
    BY <2>1, TableKept DEF ChainInv
<1>3. \A kind \in Kinds : \A i \in 1..Len(chain[kind]) :
        txs'[chain'[kind][i]].time = txs[chain[kind][i]].time
  BY <1>1 DEF StampsKept
<1>4. \A kind, y : OnChain(kind, y) => OnChain(kind, y)'
  BY <1>1 DEF OnChain
<1> QED
  BY <1>1, <1>2, <1>3, <1>4

(* Nothing has been read from the chain meanwhile.                         *)
LEMMA ReadFrame ==
  ASSUME ReadInv, StampsKept, ChainKept, Stamps', UNCHANGED <<got, mark, lost>>
  PROVE  ReadInv' /\ \A kind, y : OnChain(kind, y) => OnChain(kind, y)'
<1> USE DEF ReadInv
<1>1. ChainInv' /\ \A kind, y : OnChain(kind, y) => OnChain(kind, y)'
  BY RowsKept
<1>2. GotInv'
  BY <1>1 DEF GotInv
<1>3. MarkInv'
  <2>1. ASSUME NEW d \in Dests, NEW kind \in Kinds, mark[<<d, kind>>] # 0
        PROVE  \E i \in 1..Len(chain'[kind]) : /\ Addressed(chain'[kind][i], d)
                                               /\ txs'[chain'[kind][i]].time = mark[<<d, kind>>]
    <3>1. PICK i \in 1..Len(chain[kind]) : /\ Addressed(chain[kind][i], d)
                                           /\ txs[chain[kind][i]].time = mark[<<d, kind>>]
      BY <2>1 DEF MarkInv
    <3> QED
      BY <3>1, RowsKept
  <2> QED
    BY <2>1 DEF MarkInv, Addressed
<1>4. InOrderRowArrives'
  <2> SUFFICES ASSUME NEW d \in Dests, NEW kind \in Kinds, NEW j \in 1..Len(chain'[kind]),
                      Addressed(chain'[kind][j], d),
                      txs'[chain'[kind][j]].time <= mark[<<d, kind>>],
                      kind = "task" => <<d, chain'[kind][j]>> \notin lost,
                      \A i \in 1..(j - 1) : Addressed(chain'[kind][i], d) =>
                                  txs'[chain'[kind][i]].time < txs'[chain'[kind][j]].time
               PROVE  <<d, kind, chain'[kind][j][2]>> \in got
    BY DEF InOrderRowArrives, Addressed
  <2>1. CASE j \in 1..Len(chain[kind])
    <3>1. /\ chain'[kind][j] = chain[kind][j]
          /\ txs'[chain'[kind][j]].time = txs[chain[kind][j]].time
      BY <2>1, RowsKept
    <3>2. \A i \in 1..(j - 1) : Addressed(chain[kind][i], d) =>
                                 txs[chain[kind][i]].time < txs[chain[kind][j]].time
      <4>1. \A i \in 1..(j - 1) : i \in 1..Len(chain[kind])
        BY <2>1, RowsKept
      <4> QED
        BY <3>1, <4>1, RowsKept
    <3> QED
      BY <2>1, <3>1, <3>2 DEF InOrderRowArrives
  <2>2. CASE j \notin 1..Len(chain[kind])
    <3>1. chain'[kind][j] \in DOMAIN txs' /\ txs'[chain'[kind][j]].time \in Nat \ {0}
      BY <1>1 DEF ChainInv, Stamps
    <3>2. mark[<<d, kind>>] \in Nat /\ mark[<<d, kind>>] # 0
      BY <3>1 DEF MarkInv
    <3>3. PICK i \in 1..Len(chain[kind]) : /\ Addressed(chain[kind][i], d)
                                           /\ txs[chain[kind][i]].time = mark[<<d, kind>>]
      BY <3>2 DEF MarkInv
    <3>4. /\ i \in 1..(j - 1) /\ chain'[kind][i] = chain[kind][i]
          /\ txs'[chain'[kind][i]].time = txs[chain[kind][i]].time
      BY <2>2, RowsKept
    <3>5. txs'[chain'[kind][i]].time < txs'[chain'[kind][j]].time
      BY <3>3, <3>4
    <3> QED
      BY <3>1, <3>2, <3>3, <3>4, <3>5
  <2> QED
    BY <2>1, <2>2
<1> QED
  BY <1>1, <1>2, <1>3, <1>4

(* Verdicts are not touched, and the chain keeps its rows.                 *)
LEMMA VerifyFrame ==
  ASSUME VerifyInv, UNCHANGED <<parms, wrong, verify>>,
         \A kind, y : OnChain(kind, y) => OnChain(kind, y)'
  PROVE  VerifyInv'
BY DEF VerifyInv

(* What the receiver of a row has, and the destination of an agent's row.  *)
Stored(k) == Copies(IF ByAgent(k) THEN agent ELSE recv, k[1], k[2]) # {}
Passed(k) == Copies(recv, k[1], k[2]) # {}

(* The two halves of SentIsStored.                                         *)
LEMMA StoredMeans ==
  SentIsStored <=> /\ \A k \in DOMAIN sent : sent[k] \in {1, 2} => Stored(k)
                   /\ \A k \in DOMAIN agent : agent[k] = 1 => Passed(k)
BY DEF SentIsStored, Stored, Passed

(* Receivers keep what they have.                                          *)
LEMMA StoredStays ==
  ASSUME UNCHANGED parms, DOMAIN recv \subseteq DOMAIN recv', DOMAIN agent \subseteq DOMAIN agent'
  PROVE  /\ \A k : Stored(k) => Stored(k)'
         /\ \A k : Passed(k) => Passed(k)'
BY DEF Stored, Passed, Copies, ByAgent

(* Rows of senders say no more than before, or what is so now.             *)
LEMMA SentKeeps ==
  ASSUME SentIsStored, UNCHANGED parms,
         DOMAIN recv \subseteq DOMAIN recv', DOMAIN agent \subseteq DOMAIN agent',
         \A k \in DOMAIN sent' : \/ sent'[k] = 0 \/ Stored(k)'
                                 \/ k \in DOMAIN sent /\ sent'[k] = sent[k],
         \A k \in DOMAIN agent' : \/ agent'[k] = 0 \/ Passed(k)'
                                  \/ k \in DOMAIN agent /\ agent'[k] = agent[k]
  PROVE  SentIsStored'
<1>1. \A k \in DOMAIN sent' : sent'[k] \in {1, 2} => Stored(k)'
  BY StoredMeans, StoredStays
<1>2. \A k \in DOMAIN agent' : agent'[k] = 1 => Passed(k)'
  BY StoredMeans, StoredStays
<1> QED
  BY <1>1, <1>2 DEF SentIsStored, Stored, Passed

(* Senders' rows are not touched.                                          *)
LEMMA SentFrame ==
  ASSUME SentIsStored, UNCHANGED <<parms, sent, agent>>, DOMAIN recv \subseteq DOMAIN recv'
  PROVE  SentIsStored'
BY SentKeeps

-----------------------------------------------------------------------------
(* A destination reads the chain.                                          *)

(* A page is a first part of the rows it is taken from.                    *)
LEMMA PageIsPrefix ==
  ASSUME NEW n \in Nat, NEW rows \in SUBSET (1..n)
  PROVE  /\ Page(rows) \subseteq rows
         /\ \A j \in rows, k \in Page(rows) : j <= k => j \in Page(rows)
<1>1. IsFiniteSet(1..n)
  BY FS_Interval
<1>2. IsFiniteSet(rows)
  BY <1>1, FS_Subset
<1>3. ASSUME NEW j \in rows, NEW k \in Page(rows), j <= k
      PROVE  Cardinality({i \in rows : i < j}) < PageSize
  <2> DEFINE J == {i \in rows : i < j}
             K == {i \in rows : i < k}
  <2>1. k \in rows /\ Cardinality(K) < PageSize
    BY <1>3 DEF Page
  <2>2. J \subseteq K
    <3>1. \A i \in rows : i \in Nat
      OBVIOUS
    <3>2. j \in Nat /\ k \in Nat
      BY <2>1, <3>1
    <3>3. \A i \in Nat : i < j => i < k
      BY <1>3, <3>2
    <3> QED
      BY <3>1, <3>3
  <2>3. IsFiniteSet(K) /\ IsFiniteSet(J)
    <3>1. K \in SUBSET rows /\ J \in SUBSET rows
      OBVIOUS
    <3> HIDE DEF J, K
    <3> QED
      BY <1>2, <3>1, FS_Subset
  <2>4. Cardinality(J) <= Cardinality(K) /\ Cardinality(J) \in Nat /\ Cardinality(K) \in Nat
    <3> HIDE DEF J, K
    <3>1. J \in SUBSET K
      BY <2>2
    <3> QED
      BY <2>3, <3>1, FS_Subset, FS_CardinalityType
  <2>5. PageSize \in Nat
    BY DataAssumption
  <2> HIDE DEF J, K
  <2>6. Cardinality(J) < PageSize
    BY <2>1, <2>4, <2>5
  <2> QED
    BY <2>6 DEF J
<1> QED
  BY <1>3 DEF Page

(* What a destination sees of the chain.                                   *)
LEMMA PageRows ==
  ASSUME ReadInv, NEW d \in Dests, NEW kind \in Kinds
  PROVE  /\ \A j \in Page(Visible(d, kind)) :
              /\ j \in 1..Len(chain[kind]) /\ chain[kind][j] \in DOMAIN txs
              /\ Addressed(chain[kind][j], d)
         /\ \A j \in 1..Len(chain[kind]), k \in Page(Visible(d, kind)) :
              (/\ j <= k /\ Addressed(chain[kind][j], d)
               /\ txs[chain[kind][j]].time > mark[<<d, kind>>]) => j \in Page(Visible(d, kind))
<1>1. /\ Len(chain[kind]) \in Nat
      /\ \A j \in 1..Len(chain[kind]) : chain[kind][j] \in DOMAIN txs
  BY DEF ReadInv, ChainInv
<1>2. Visible(d, kind) \in SUBSET (1..Len(chain[kind]))
  BY DEF Visible
<1>3. /\ Page(Visible(d, kind)) \subseteq Visible(d, kind)
      /\ \A j \in Visible(d, kind), k \in Page(Visible(d, kind)) :
           j <= k => j \in Page(Visible(d, kind))
  BY <1>1, <1>2, PageIsPrefix
<1> QED
  BY <1>1, <1>3 DEF Visible

(* What is stored of a page is on the chain.                               *)
LEMMA StoreKeeps ==
  ASSUME ReadInv, NEW d \in Dests, NEW kind \in Kinds,
         NEW rows \in SUBSET Page(Visible(d, kind)), Store(d, kind, rows), UNCHANGED chain
  PROVE  GotInv' /\ got \subseteq got'
<1>1. \A j \in rows : j \in 1..Len(chain[kind])
  BY PageRows
<1>2. ASSUME NEW g \in got' PROVE OnChain(g[2], g[3])
  <2>1. CASE g \in got
    BY <2>1 DEF ReadInv, GotInv
  <2>2. ASSUME NEW j \in rows, g = <<d, kind, chain[kind][j][2]>> PROVE OnChain(g[2], g[3])
    BY <1>1, <2>2 DEF OnChain
  <2> QED
    BY <2>1, <2>2 DEF Store
<1> QED
  BY <1>2 DEF Store, GotInv, OnChain

(* The mark goes to a row of the page, and every row of the page up to it  *)
(* is stored or lost; a hash is never lost.                                *)
LEMMA KeepKeeps ==
  ASSUME ReadInv, NEW d \in Dests, NEW kind \in Kinds,
         NEW rows \in SUBSET Page(Visible(d, kind)), NEW last \in Page(Visible(d, kind)),
         Keep(d, kind, Page(Visible(d, kind)), rows, last),
         kind = "hash" => \A i \in Page(Visible(d, kind)) : i <= last => i \in rows,
         UNCHANGED <<txs, chain, now>>
  PROVE  ReadInv'
<1> DEFINE page == Page(Visible(d, kind))
<1>1. GotInv' /\ got \subseteq got'
  BY StoreKeeps DEF Keep
<1>2. Stamps' /\ ChainInv'
  BY DEF ReadInv, Stamps, ChainInv
<1>3. /\ last \in 1..Len(chain[kind]) /\ chain[kind][last] \in DOMAIN txs
      /\ Addressed(chain[kind][last], d) /\ txs[chain[kind][last]].time \in Nat
  BY PageRows DEF ReadInv, Stamps
<1>4. /\ mark' \in [Dests \X Kinds -> Nat] /\ mark'[<<d, kind>>] = txs[chain[kind][last]].time
      /\ \A e \in Dests, k \in Kinds :
           <<e, k>> # <<d, kind>> => mark'[<<e, k>>] = mark[<<e, k>>]
  BY <1>3 DEF Keep, ReadInv, MarkInv
<1>5. MarkInv'
  <2>1. ASSUME NEW e \in Dests, NEW k \in Kinds, mark'[<<e, k>>] # 0
        PROVE  \E i \in 1..Len(chain[k]) : /\ Addressed(chain[k][i], e)
                                           /\ txs[chain[k][i]].time = mark'[<<e, k>>]
    BY <1>3, <1>4, <2>1 DEF ReadInv, MarkInv
  <2> QED
    BY <1>4, <2>1 DEF MarkInv, Addressed
<1>6. InOrderRowArrives'
  <2> SUFFICES ASSUME NEW e \in Dests, NEW k \in Kinds, NEW j \in 1..Len(chain[k]),
                      Addressed(chain[k][j], e),
                      txs[chain[k][j]].time <= mark'[<<e, k>>],
                      k = "task" => <<e, chain[k][j]>> \notin lost',
                      \A i \in 1..(j - 1) : Addressed(chain[k][i], e) =>
                                            txs[chain[k][i]].time < txs[chain[k][j]].time
               PROVE  <<e, k, chain[k][j][2]>> \in got'
    BY DEF InOrderRowArrives, Addressed
  <2>1. /\ chain[k][j] \in DOMAIN txs /\ txs[chain[k][j]].time \in Nat
        /\ mark[<<e, k>>] \in Nat
    BY DEF ReadInv, ChainInv, Stamps, MarkInv
  <2>2. lost \subseteq lost'
    BY DEF Keep
  <2>3. CASE txs[chain[k][j]].time <= mark[<<e, k>>]
    <3>1. <<e, k, chain[k][j][2]>> \in got
      BY <2>2, <2>3 DEF ReadInv, InOrderRowArrives
    <3> QED
      BY <1>1, <3>1
  <2>4. CASE txs[chain[k][j]].time > mark[<<e, k>>]
    <3>1. e = d /\ k = kind
      BY <1>4, <2>1, <2>4
    <3>2. j <= last
      <4>1. SUFFICES ASSUME last < j PROVE FALSE
        BY <1>3, <3>1
      <4>2. last \in 1..(j - 1)
        BY <1>3, <3>1, <4>1
      <4>3. txs[chain[k][last]].time < txs[chain[k][j]].time
        BY <1>3, <3>1, <4>2
      <4> QED
        BY <1>3, <1>4, <2>1, <3>1, <4>3
    <3>3. j \in page
      BY <2>4, <3>1, <3>2, PageRows
    <3>4. j \in rows
      <4>1. CASE kind = "hash"
        BY <3>2, <3>3, <4>1
      <4>2. CASE kind = "task"
        BY <3>1, <3>2, <3>3, <4>2 DEF Keep
      <4> QED
        BY <4>1, <4>2 DEF Kinds
    <3> QED
      BY <3>1, <3>4 DEF Keep, Store
  <2> QED
    BY <2>1, <2>3, <2>4
<1> QED
  BY <1>1, <1>2, <1>5, <1>6 DEF ReadInv

(* Rows that are stored again after the mark could not be moved.           *)
LEMMA KeepNotKeeps ==
  ASSUME ReadInv, NEW d \in Dests, NEW kind \in Kinds,
         NEW rows \in SUBSET Page(Visible(d, kind)), KeepNot(d, kind, rows),
         UNCHANGED <<txs, chain, now>>
  PROVE  ReadInv'
<1>1. GotInv' /\ got \subseteq got'
  BY StoreKeeps DEF KeepNot
<1>2. Stamps' /\ ChainInv'
  BY DEF ReadInv, Stamps, ChainInv
<1>3. MarkInv'
  BY DEF ReadInv, MarkInv, KeepNot, Addressed
<1>4. InOrderRowArrives'
  BY <1>1 DEF ReadInv, InOrderRowArrives, KeepNot, Addressed
<1> QED
  BY <1>1, <1>2, <1>3, <1>4 DEF ReadInv

(* Every outcome of a pass over a page.                                    *)
LEMMA ReadChainStep ==
  ASSUME ReadInv, NEW d \in Dests, ReadChain(d)
  PROVE  ReadInv' /\ UNCHANGED <<parms, wrong, sent, agent, recv, verify, chain>>
<1>1. CASE VDEDestTaskGetFromChain(d)
  <2> DEFINE page == Page(Visible(d, "task"))
  <2>1. "task" \in Kinds /\ UNCHANGED <<txs, chain, now>>
    BY <1>1 DEF Kinds, VDEDestTaskGetFromChain
  <2>2. \/ \E rows \in SUBSET page, last \in page : Keep(d, "task", page, rows, last)
        \/ \E rows \in SUBSET page : KeepNot(d, "task", rows)
    <3>1. PICK last \in page :
            \/ Keep(d, "task", page, page, last)
            \/ KeepNot(d, "task", page)
            \/ \E j \in page : Keep(d, "task", page, page \ {j}, last)
            \/ \E j \in page : Keep(d, "task", page, page \ {last}, j)
            \/ KeepNot(d, "task", {})
      BY <1>1 DEF VDEDestTaskGetFromChain
    <3> HIDE DEF page
    <3>2. \A j : page \ {j} \in SUBSET page
      OBVIOUS
    <3>3. page \in SUBSET page /\ {} \in SUBSET page
      OBVIOUS
    <3> QED
      BY <3>1, <3>2, <3>3
  <2> QED
    BY <1>1, <2>1, <2>2, KeepKeeps, KeepNotKeeps DEF VDEDestTaskGetFromChain
<1>2. CASE VDEDestDataHashGetFromChain(d)
  <2> DEFINE page == Page(Visible(d, "hash"))
  <2>1. "hash" \in Kinds /\ UNCHANGED <<txs, chain, now>>
    BY <1>2 DEF Kinds, VDEDestDataHashGetFromChain
  <2>2. PICK last \in page :
          \/ Keep(d, "hash", page, {i \in page : i <= last}, last)
          \/ KeepNot(d, "hash", page)
          \/ KeepNot(d, "hash", {})
    BY <1>2 DEF VDEDestDataHashGetFromChain
  <2>3. CASE Keep(d, "hash", page, {i \in page : i <= last}, last)
    <3> DEFINE rows == {i \in page : i <= last}
    <3>1. rows \in SUBSET page /\ \A i \in page : i <= last => i \in rows
      OBVIOUS
    <3>2. ReadInv'
      <4> HIDE DEF rows
      <4> QED
        BY <2>1, <2>3, <3>1, KeepKeeps DEF rows
    <3> QED
      BY <1>2, <3>2 DEF VDEDestDataHashGetFromChain
  <2>4. CASE KeepNot(d, "hash", page) \/ KeepNot(d, "hash", {})
    <3>1. page \in SUBSET page /\ {} \in SUBSET page
      OBVIOUS
    <3>2. ReadInv'
      BY <2>1, <2>4, <3>1, KeepNotKeeps
    <3> QED
      BY <1>2, <3>2 DEF VDEDestDataHashGetFromChain
  <2> QED
    BY <2>2, <2>3, <2>4
<1> QED
  BY <1>1, <1>2 DEF ReadChain

-----------------------------------------------------------------------------
(* The chain grows.                                                        *)

(* A daemon that does not touch the chain.                                 *)
LEMMA ReadStays ==
  ASSUME ReadInv, UNCHANGED <<got, mark, txs, chain, now, lost>>
  PROVE  ReadInv' /\ \A kind, y : OnChain(kind, y) => OnChain(kind, y)'
<1>1. StampsKept /\ ChainKept /\ Stamps'
  BY DEF StampsKept, ChainKept, ReadInv, Stamps
<1> QED
  BY <1>1, ReadFrame

(* A row that is posted is stamped now.                                    *)
LEMMA PostKeeps ==
  ASSUME ReadInv, NEW x, x[1] \in Kinds, Post(x), UNCHANGED <<got, mark, chain, now, lost>>
  PROVE  ReadInv' /\ \A kind, y : OnChain(kind, y) => OnChain(kind, y)'
<1>1. StampsKept /\ Stamps'
  BY DEF StampsKept, ReadInv, Stamps, Post, With
<1> QED
  BY <1>1, ReadFrame DEF ChainKept

(* A row of another node is on the chain at once, stamped earlier.         *)
LEMMA OthersPostStep ==
  ASSUME ReadInv, NEW x, x[1] \in Kinds, OthersPost(x)
  PROVE  ReadInv' /\ \A kind, y : OnChain(kind, y) => OnChain(kind, y)'
<1>1. StampsKept /\ Stamps' /\ x \in DOMAIN txs'
  BY DEF StampsKept, ReadInv, Stamps, OthersPost, With
<1> QED
  BY <1>1, ReadFrame DEF ChainKept, OthersPost

(* A transaction is decided.                                               *)
LEMMA MineStep ==
  ASSUME ReadInv, NEW x \in DOMAIN txs, Mine(x)
  PROVE  ReadInv' /\ \A kind, y : OnChain(kind, y) => OnChain(kind, y)'
<1>1. PICK st \in {"block", "bad"} : txs' = [txs EXCEPT ![x].st = st]
  BY DEF Mine
<1>2. txs[x] \in [time : Nat \ {0}, st : {"pool", "block", "bad"}]
  BY DEF ReadInv, Stamps
<1>3. /\ DOMAIN txs' = DOMAIN txs /\ \A y \in DOMAIN txs : y # x => txs'[y] = txs[y]
      /\ txs'[x] \in [time : Nat \ {0}, st : {"pool", "block", "bad"}]
      /\ txs'[x].time = txs[x].time
  BY <1>1, <1>2
<1>4. StampsKept /\ Stamps'
  BY <1>3 DEF StampsKept, ReadInv, Stamps, Mine
<1>5. ChainKept /\ UNCHANGED <<got, mark, lost>>
  <2>1. x \in DOMAIN txs' /\ x[1] \in Kinds
    BY <1>3 DEF ReadInv, Stamps
  <2> QED
    BY <2>1 DEF ChainKept, Mine
<1> QED
  BY <1>4, <1>5, ReadFrame

(* Hashes are posted and followed.                                         *)
LEMMA PostHashStep ==
  ASSUME ReadInv, NEW k, PostHash(k)
  PROVE  ReadInv' /\ \A kind, y : OnChain(kind, y) => OnChain(kind, y)'
<1>1. CASE VDESrcHashUpToChain(k)
  <2>1. PICK c \in 1..MaxCopies : Post(<<"hash", k[1], Any, c>>)
    BY <1>1 DEF VDESrcHashUpToChain
  <2> QED
    BY <1>1, <2>1, PostKeeps DEF VDESrcHashUpToChain, Kinds
<1>2. CASE VDESrcHashUpToChainState(k)
  BY <1>2, ReadStays DEF VDESrcHashUpToChainState
<1> QED
  BY <1>1, <1>2 DEF PostHash

(* The clock.                                                              *)
LEMMA TickStep ==
  ASSUME ReadInv, Tick
  PROVE  ReadInv' /\ \A kind, y : OnChain(kind, y) => OnChain(kind, y)'
<1>1. StampsKept /\ ChainKept /\ Stamps'
  BY DEF StampsKept, ChainKept, ReadInv, Stamps, Tick
<1> QED
  BY <1>1, ReadFrame DEF Tick

-----------------------------------------------------------------------------
(* From node to node.                                                      *)

(* Rows are made for the destinations, none of them sent yet.              *)
LEMMA VDESrcDataStep ==
  ASSUME SentIsStored, NEW i, VDESrcData(i)
  PROVE  SentIsStored'
<1>1. UNCHANGED <<parms, agent, recv>>
  BY DEF VDESrcData
<1>2. CASE UNCHANGED sent
  BY <1>1, <1>2, SentFrame
<1>3. ASSUME NEW ds, sent' = InsertAll(sent, i, ds) PROVE SentIsStored'
  <2>1. \A k \in DOMAIN sent' : sent'[k] = 0 \/ (k \in DOMAIN sent /\ sent'[k] = sent[k])
    BY <1>3, InsertAllDomain
  <2> QED
    BY <1>1, <2>1, SentKeeps
<1> QED
  BY <1>2, <1>3 DEF VDESrcData, ForEachDest

(* A row is marked as sent only once its receiver has stored the item.     *)
LEMMA SendDataStep ==
  ASSUME SentIsStored, NEW k \in DOMAIN sent, SendData(k)
  PROVE  SentIsStored'
<1>1. /\ UNCHANGED parms
      /\ \A j \in DOMAIN sent' : j \in DOMAIN sent /\ (j = k \/ sent'[j] = sent[j])
  BY DEF SendData, VDESrcDataStatus, VDESrcDataStatusAgent, SendRow
<1>2. CASE VDESrcDataStatus(k)
  <2>1. recv' = InsertAll(recv, k[1], {k[2]}) /\ UNCHANGED agent /\ ~ ByAgent(k)
    BY <1>2 DEF VDESrcDataStatus, Type100, Insert
  <2>2. DOMAIN recv \subseteq DOMAIN recv' /\ Copies(recv', k[1], k[2]) # {}
    BY <2>1, InsertAllDomain
  <2>3. Stored(k)'
    BY <1>1, <2>1, <2>2 DEF Stored, ByAgent, Copies
  <2> QED
    BY <1>1, <2>1, <2>2, <2>3, SentKeeps
<1>3. CASE VDESrcDataStatusAgent(k)
  <2>1. agent' = InsertAll(agent, k[1], {k[2]}) /\ UNCHANGED recv /\ ByAgent(k)
    BY <1>3 DEF VDESrcDataStatusAgent, Type101, Insert
  <2>2. /\ DOMAIN agent \subseteq DOMAIN agent' /\ Copies(agent', k[1], k[2]) # {}
        /\ \A j \in DOMAIN agent' :
             agent'[j] = 0 \/ (j \in DOMAIN agent /\ agent'[j] = agent[j])
    BY <2>1, InsertAllDomain
  <2>3. Stored(k)'
    BY <1>1, <2>1, <2>2 DEF Stored, ByAgent, Copies
  <2> QED
    BY <1>1, <2>1, <2>2, <2>3, SentKeeps
<1> QED
  BY <1>2, <1>3 DEF SendData

(* The agent passes the item on.                                           *)
LEMMA VDEAgentDataStep ==
  ASSUME SentIsStored, NEW k \in DOMAIN agent, VDEAgentData(k)
  PROVE  SentIsStored'
<1>1. /\ recv' = InsertAll(recv, k[1], {k[2]}) /\ UNCHANGED <<parms, sent>>
      /\ DOMAIN agent' = DOMAIN agent
      /\ \A j \in DOMAIN agent : j # k => agent'[j] = agent[j]
  BY DEF VDEAgentData, Type102, Insert
<1>2. DOMAIN recv \subseteq DOMAIN recv' /\ Copies(recv', k[1], k[2]) # {}
  BY <1>1, InsertAllDomain
<1>3. Passed(k)'
  BY <1>2 DEF Passed, Copies
<1> QED
  BY <1>1, <1>2, <1>3, SentKeeps

-----------------------------------------------------------------------------
(* The verdict.                                                            *)

(* An item is compared later, if its task wants it.                        *)
LEMMA VDEDestDataStep ==
  ASSUME IInv, NEW k \in DOMAIN recv, VDEDestData(k)
  PROVE  IInv'
<1>1. /\ UNCHANGED <<parms, wrong, sent, agent, got, mark, txs, chain, now, lost>>
      /\ DOMAIN recv' = DOMAIN recv
  BY DEF VDEDestData
<1>2. ReadInv' /\ SentIsStored' /\ \A kind, y : OnChain(kind, y) => OnChain(kind, y)'
  BY <1>1, ReadStays, SentFrame DEF IInv
<1>3. CASE UNCHANGED verify
  BY <1>1, <1>2, <1>3, VerifyFrame DEF IInv
<1>4. CASE verify' = With(verify, New(verify, k[1], k[2]), HashState(TaskOf[k[1]]))
  <2>1. New(verify, k[1], k[2])[1] = k[1]
    BY DEF New
  <2>2. ASSUME NEW j \in DOMAIN verify'
        PROVE  \/ j \in DOMAIN verify /\ verify'[j] = verify[j]
               \/ j[1] = k[1] /\ verify'[j] = HashState(TaskOf[k[1]])
    BY <1>4, <2>1, <2>2 DEF With
  <2>3. /\ HashState(TaskOf[k[1]]) \in {0, 3}
        /\ HashState(TaskOf[k[1]]) = 0 => parms[TaskOf[k[1]]].hash
    BY DEF HashState
  <2>4. VerifyInv'
    BY <1>1, <1>2, <2>2, <2>3 DEF IInv, VerifyInv
  <2> QED
    BY <1>2, <2>4 DEF IInv
<1> QED
  BY <1>3, <1>4 DEF VDEDestData

(* It is compared with what the chain has.                                 *)
LEMMA VDEDestDataStatusStep ==
  ASSUME IInv, NEW k \in DOMAIN verify, VDEDestDataStatus(k)
  PROVE  IInv'
<1>1. UNCHANGED <<parms, wrong, sent, agent, recv, got, mark, txs, chain, now, lost>>
  BY DEF VDEDestDataStatus
<1>2. ReadInv' /\ SentIsStored' /\ \A kind, y : OnChain(kind, y) => OnChain(kind, y)'
  BY <1>1, ReadStays, SentFrame DEF IInv
<1>3. /\ OnChain("hash", k[1]) /\ verify[k] = 0
      /\ DOMAIN verify' = DOMAIN verify /\ verify'[k] = Compared(k[1])
      /\ \A j \in DOMAIN verify : j # k => verify'[j] = verify[j]
  BY DEF VDEDestDataStatus, HashFound, IInv, ReadInv, GotInv
<1>4. Compared(k[1]) \in {1, 2} /\ (Compared(k[1]) = 2 <=> k[1] \in wrong)
  BY DEF Compared
<1>5. VerifyInv'
  BY <1>1, <1>2, <1>3, <1>4 DEF IInv, VerifyInv
<1> QED
  BY <1>2, <1>5 DEF IInv

-----------------------------------------------------------------------------
(* The invariant.                                                          *)

(* All tables are empty at first.                                          *)
LEMMA InitHolds == ASSUME Init PROVE IInv
<1>1. ChainInv /\ \A kind \in Kinds : Len(chain[kind]) = 0
  <2>1. <<>> \in Seq(DOMAIN txs) /\ Len(<<>>) = 0
    BY EmptySeq
  <2> QED
    BY <2>1 DEF Init, ChainInv
<1>2. ReadInv
  BY <1>1 DEF Init, ReadInv, Stamps, ChainInv, GotInv, MarkInv, InOrderRowArrives
<1>3. VerifyInv /\ SentIsStored
  BY DEF Init, VerifyInv, SentIsStored
<1> QED
  BY <1>2, <1>3 DEF IInv

(* A step that moves nothing but the chain.                                *)
LEMMA OnlyChain ==
  ASSUME IInv, UNCHANGED <<parms, wrong, sent, agent, recv, verify>>,
         ReadInv' /\ \A kind, y : OnChain(kind, y) => OnChain(kind, y)'
  PROVE  IInv'
BY VerifyFrame, SentFrame DEF IInv

(* A step that moves nothing but the data.                                 *)
LEMMA OnlyData ==
  ASSUME IInv, UNCHANGED <<parms, wrong, verify, got, mark, txs, chain, now, lost>>,
         SentIsStored'
  PROVE  IInv'
BY ReadStays, VerifyFrame DEF IInv

(* The user, other nodes and the clock.                                    *)
LEMMA EnvironmentStep == ASSUME IInv, Environment PROVE IInv'
<1>1. ASSUME NEW i \in Items, VDESrcDataCreateHandlre(i) PROVE IInv'
  BY <1>1, OnlyData, SentFrame DEF VDESrcDataCreateHandlre, IInv
<1>2. ASSUME NEW x, x[1] \in Kinds, OthersPost(x) PROVE IInv'
  BY <1>2, OthersPostStep, OnlyChain DEF OthersPost, IInv
<1>3. CASE Tick
  BY <1>3, TickStep, OnlyChain DEF Tick, IInv
<1>4. ASSUME NEW t \in Tasks, NEW d \in Dests, OthersPost(<<"task", t, d, 1>>) PROVE IInv'
  BY <1>2, <1>4 DEF Kinds
<1>5. ASSUME NEW o \in Others, OthersPost(<<"hash", o, Any, 1>>) PROVE IInv'
  BY <1>2, <1>5 DEF Kinds
<1> QED
  BY <1>1, <1>3, <1>4, <1>5 DEF Environment

(* The daemons and the chain.                                              *)
LEMMA DaemonsStep == ASSUME IInv, Daemons PROVE IInv'
<1>1. ASSUME NEW i \in Items, VDESrcData(i) PROVE IInv'
  BY <1>1, VDESrcDataStep, OnlyData DEF VDESrcData, IInv
<1>2. ASSUME NEW k \in DOMAIN sent, SendData(k) PROVE IInv'
  BY <1>2, SendDataStep, OnlyData
     DEF SendData, VDESrcDataStatus, VDESrcDataStatusAgent, SendRow, IInv
<1>3. ASSUME NEW k \in DOMAIN agent, VDEAgentData(k) PROVE IInv'
  BY <1>3, VDEAgentDataStep, OnlyData DEF VDEAgentData, IInv
<1>4. ASSUME NEW k \in DOMAIN hash, PostHash(k) PROVE IInv'
  BY <1>4, PostHashStep, OnlyChain
     DEF PostHash, VDESrcHashUpToChain, VDESrcHashUpToChainState, IInv
<1>5. ASSUME NEW x \in DOMAIN txs, Mine(x) PROVE IInv'
  BY <1>5, MineStep, OnlyChain DEF Mine, IInv
<1>6. ASSUME NEW d \in Dests, ReadChain(d) PROVE IInv'
  <2>1. ReadInv' /\ UNCHANGED <<parms, wrong, sent, agent, recv, verify, chain>>
    BY <1>6, ReadChainStep DEF IInv
  <2> QED
    BY <2>1, OnlyChain DEF OnChain
<1>7. ASSUME NEW k \in DOMAIN recv, VDEDestData(k) PROVE IInv'
  BY <1>7, VDEDestDataStep
<1>8. ASSUME NEW k \in DOMAIN verify, VDEDestDataStatus(k) PROVE IInv'
  BY <1>8, VDEDestDataStatusStep
<1> QED
  BY <1>1, <1>2, <1>3, <1>4, <1>5, <1>6, <1>7, <1>8 DEF Daemons

(* What a destination has read, judged and been sent agrees with the chain *)
(* and with what the senders have marked.                                  *)
THEOREM Invariant == Spec => []IInv
<1>1. Init => IInv
  BY InitHolds
<1>2. IInv /\ [Next]_vars => IInv'
  <2>1. ASSUME IInv, UNCHANGED vars PROVE IInv'
    BY <2>1, OnlyData, SentFrame DEF vars, IInv
  <2> QED
    BY <2>1, EnvironmentStep, DaemonsStep DEF Next
<1> QED
  BY <1>1, <1>2, PTL DEF Spec

(* A sender's row says that an item has arrived only if its receiver has   *)
(* it: vde_src_data_status.go and vde_agent_data.go mark a row by the      *)
(* answer of the receiver, which may be lost, and never without one.       *)
THEOREM MarkedIsStored == Spec => []SentIsStored
BY Invariant, PTL DEF IInv

(* A verdict on an item is what the hash on the chain says: the            *)
(* destination waits for the hash (vde_dest_data_status.go) and keeps only *)
(* what it read from the chain.                                            *)
THEOREM VerdictByChain == Spec => []VerifiedByChain
<1>1. IInv => VerifiedByChain
  BY DEF IInv, VerifyInv, VerifiedByChain, OnChain
<1> QED
  BY <1>1, Invariant, PTL

(* A row with a later stamp than all before it is read, whatever the size  *)
(* of a page, the order of blocks or the failures of the reader: the mark  *)
(* of vde_dest_task_fromchain.go and vde_dest_hash_fromchain.go passes     *)
(* nothing else over.                                                      *)
THEOREM InOrderRowsAreRead == Spec => []InOrderRowArrives
<1>1. IInv => InOrderRowArrives
  BY DEF IInv, ReadInv
<1> QED
  BY <1>1, Invariant, PTL
-----------------------------------------------------------------------------
(* The rows of the tables.                                                 *)

RowKeys == Items \X Dests \X (Nat \ {0})
Names   == Tasks \cup Items \cup Others
HashRow == [chain : 0..2, tx : 0..MaxCopies]

(* A table has finitely many rows, so that a new one can be numbered.      *)
Table(f, n) == IsFiniteSet(DOMAIN f) /\ States(f, RowKeys, n)

SourceTypes  == parms \in [Tasks -> Parms] /\ wrong \subseteq Items /\ States(data, Items, 3)
MovingTypes  == Table(sent, 2) /\ Table(agent, 2) /\ Table(recv, 3)
VerifyTypes  == Table(verify, 3)
HashTypes    == /\ DOMAIN hash \subseteq Items \X (Nat \ {0})
                /\ \A k \in DOMAIN hash : hash[k] \in HashRow
                /\ IsFiniteSet(DOMAIN hash)
ReadingTypes == got \subseteq Dests \X Kinds \X Names /\ \A x \in DOMAIN txs : x[2] \in Names

Types == SourceTypes /\ MovingTypes /\ VerifyTypes /\ HashTypes /\ ReadingTypes /\ faults \in Nat

(* A new row has the next number.                                          *)
LEMMA NewIsRow ==
  ASSUME NEW f, IsFiniteSet(DOMAIN f), NEW i \in Items, NEW d \in Dests
  PROVE  New(f, i, d) \in RowKeys
<1>1. Copies(f, i, d) \in SUBSET DOMAIN f
  BY DEF Copies
<1>2. Cardinality(Copies(f, i, d)) \in Nat
  BY <1>1, FS_Subset, FS_CardinalityType
<1> QED
  BY <1>2 DEF New, RowKeys

(* Rows of the destinations are added, none of them sent.                  *)
LEMMA InsertAllTable ==
  ASSUME NEW n \in Nat, NEW f, Table(f, n), NEW i \in Items, NEW ds \in SUBSET Dests
  PROVE  Table(InsertAll(f, i, ds), n)
<1> DEFINE new == {New(f, i, d) : d \in ds}
           g == [d \in ds |-> New(f, i, d)]
<1>1. IsFiniteSet(ds)
  BY FS_Subset, DataAssumption
<1>2. g \in Surjection(ds, new)
  BY DEF Surjection
<1>3. IsFiniteSet(new)
  BY <1>1, <1>2, FS_Surjection
<1>4. new \subseteq RowKeys
  BY NewIsRow DEF Table
<1>5. /\ DOMAIN InsertAll(f, i, ds) = DOMAIN f \cup new
      /\ \A k \in DOMAIN f \cup new :
           InsertAll(f, i, ds)[k] = 0 \/ (k \in DOMAIN f /\ InsertAll(f, i, ds)[k] = f[k])
  BY DEF InsertAll
<1> HIDE DEF new
<1>6. IsFiniteSet(DOMAIN f \cup new)
  BY <1>3, FS_Union DEF Table
<1>7. \A k \in DOMAIN f \cup new : InsertAll(f, i, ds)[k] \in 0..n
  BY <1>5 DEF Table, States
<1>8. DOMAIN f \cup new \subseteq RowKeys
  BY <1>4 DEF Table, States
<1> QED
  BY <1>5, <1>6, <1>7, <1>8 DEF Table, States

(* A row of the table is changed.                                          *)
LEMMA TableChange ==
  ASSUME NEW n \in Nat, NEW f, Table(f, n), NEW k \in DOMAIN f, NEW v \in 0..n
  PROVE  Table([f EXCEPT ![k] = v], n)
BY DEF Table, States

(* A row is added.                                                         *)
LEMMA WithTable ==
  ASSUME NEW n \in Nat, NEW f, Table(f, n), NEW k \in RowKeys, NEW v \in 0..n
  PROVE  Table(With(f, k, v), n)
<1>1. /\ DOMAIN With(f, k, v) = DOMAIN f \cup {k}
      /\ \A y \in DOMAIN f \cup {k} : With(f, k, v)[y] = v \/ (y \in DOMAIN f /\ With(f, k, v)[y] = f[y])
  BY DEF With
<1>2. IsFiniteSet(DOMAIN f \cup {k})
  BY FS_AddElement DEF Table
<1>3. DOMAIN f \cup {k} \subseteq RowKeys
  BY DEF Table, States
<1>4. \A y \in DOMAIN f \cup {k} : With(f, k, v)[y] \in 0..n
  BY <1>1 DEF Table, States
<1> QED
  BY <1>1, <1>2, <1>3, <1>4 DEF Table, States

(* A fault is counted or not.                                              *)
LEMMA FaultsType == ASSUME faults \in Nat, Fault \/ Sound PROVE faults' \in Nat
BY DEF Fault, Sound

(* An item is taken from the queue: a row for each destination, and one    *)
(* for its hash.                                                           *)
LEMMA VDESrcDataTypes ==
  ASSUME Types, NEW i \in Items, VDESrcData(i)
  PROVE  Types'
<1> USE DEF Types
<1>1. UNCHANGED <<parms, wrong, agent, recv, verify, got, txs>>
  BY DEF VDESrcData
<1>2. faults' \in Nat
  BY FaultsType DEF VDESrcData
<1>3. SourceTypes'
  <2>1. PICK v \in 1..3 : i \in DOMAIN data /\ (UNCHANGED data \/ data' = [data EXCEPT ![i] = v])
    BY DEF VDESrcData
  <2>2. States(data, Items, 3)'
    BY <2>1 DEF States, SourceTypes
  <2> QED
    BY <1>1, <2>2 DEF SourceTypes
<1>4. MovingTypes'
  <2>1. PICK ds \in SUBSET Dests : UNCHANGED sent \/ sent' = InsertAll(sent, i, ds)
    <3>1. \A d : Dests \ {d} \in SUBSET Dests
      OBVIOUS
    <3>2. Dests \in SUBSET Dests
      OBVIOUS
    <3> QED
      BY <3>1, <3>2 DEF VDESrcData, ForEachDest
  <2>2. Table(sent', 2)
    BY <2>1, InsertAllTable DEF MovingTypes
  <2> QED
    BY <1>1, <2>2 DEF MovingTypes
<1>5. HashTypes'
  <2>1. CASE UNCHANGED hash
    BY <2>1 DEF HashTypes
  <2>2. CASE hash' = NewHash(i) /\ ~ UNCHANGED hash
    <3> DEFINE mine == {k \in DOMAIN hash : k[1] = i}
    <3>1. mine \in SUBSET DOMAIN hash
      OBVIOUS
    <3>2. PICK c \in Nat \ {0} : c = Cardinality(mine) + 1
      <4> HIDE DEF mine
      <4>1. Cardinality(mine) \in Nat
        BY <3>1, FS_Subset, FS_CardinalityType DEF HashTypes
      <4> QED
        BY <4>1
    <3>3. hash' = With(hash, <<i, c>>, [chain |-> 0, tx |-> 0])
      BY <2>2, <3>2 DEF NewHash
    <3>4. /\ DOMAIN hash' = DOMAIN hash \cup {<<i, c>>}
          /\ \A k \in DOMAIN hash' : \/ hash'[k] = [chain |-> 0, tx |-> 0]
                                     \/ k \in DOMAIN hash /\ hash'[k] = hash[k]
      BY <3>3 DEF With
    <3>5. [chain |-> 0, tx |-> 0] \in HashRow
      BY DataAssumption DEF HashRow
    <3>6. \A k \in DOMAIN hash' : hash'[k] \in HashRow
      BY <3>4, <3>5 DEF HashTypes
    <3>7. IsFiniteSet(DOMAIN hash')
      <4>1. IsFiniteSet(DOMAIN hash \cup {<<i, c>>})
        BY FS_AddElement DEF HashTypes
      <4> QED
        BY <3>4, <4>1
    <3>8. DOMAIN hash' \subseteq Items \X (Nat \ {0})
      BY <3>4 DEF HashTypes
    <3> QED
      BY <3>6, <3>7, <3>8 DEF HashTypes
  <2> QED
    BY <2>1, <2>2 DEF VDESrcData
<1> QED
  BY <1>1, <1>2, <1>3, <1>4, <1>5 DEF VerifyTypes, ReadingTypes

(* The receiver stores a row, the sender changes one of its own.           *)
LEMMA SendDataTypes ==
  ASSUME Types, NEW k \in DOMAIN sent, SendData(k)
  PROVE  Types'
<1> USE DEF Types
<1>1. /\ UNCHANGED <<parms, wrong, data, verify, hash, got, txs>>
      /\ (UNCHANGED sent \/ sent' = [sent EXCEPT ![k] = Compared(k[1])])
      /\ faults' \in Nat
  BY FaultsType DEF SendData, VDESrcDataStatus, VDESrcDataStatusAgent, SendRow
<1>2. Compared(k[1]) \in 0..2
  BY DEF Compared
<1>3. Table(sent', 2)
  <2>1. CASE UNCHANGED sent
    BY <2>1 DEF MovingTypes
  <2>2. CASE sent' = [sent EXCEPT ![k] = Compared(k[1])]
    <3>1. PICK v \in 0..2 : sent' = [sent EXCEPT ![k] = v]
      BY <1>2, <2>2
    <3> QED
      BY <3>1, TableChange DEF MovingTypes
  <2> QED
    BY <1>1, <2>1, <2>2
<1>4. k[1] \in Items /\ {k[2]} \in SUBSET Dests
  BY DEF MovingTypes, Table, States, RowKeys
<1>5. Table(agent', 2) /\ Table(recv', 3)
  <2>1. CASE recv' = InsertAll(recv, k[1], {k[2]}) /\ UNCHANGED agent
    BY <1>4, <2>1, InsertAllTable DEF MovingTypes
  <2>2. CASE agent' = InsertAll(agent, k[1], {k[2]}) /\ UNCHANGED recv
    BY <1>4, <2>2, InsertAllTable DEF MovingTypes
  <2> QED
    BY <2>1, <2>2
       DEF SendData, VDESrcDataStatus, VDESrcDataStatusAgent, Type100, Type101, Insert
<1> QED
  BY <1>1, <1>3, <1>5 DEF SourceTypes, MovingTypes, VerifyTypes, HashTypes, ReadingTypes

(* The agent passes a row on.                                              *)
LEMMA VDEAgentDataTypes ==
  ASSUME Types, NEW k \in DOMAIN agent, VDEAgentData(k)
  PROVE  Types'
<1> USE DEF Types
<1>1. /\ UNCHANGED <<parms, wrong, data, sent, verify, hash, got, txs>>
      /\ recv' = InsertAll(recv, k[1], {k[2]})
      /\ (UNCHANGED agent \/ agent' = [agent EXCEPT ![k] = 1])
      /\ faults' \in Nat
  BY FaultsType DEF VDEAgentData, Type102, Insert
<1>2. k[1] \in Items /\ {k[2]} \in SUBSET Dests
  BY DEF MovingTypes, Table, States, RowKeys
<1>3. Table(recv', 3)
  BY <1>1, <1>2, InsertAllTable DEF MovingTypes
<1>4. Table(agent', 2)
  BY <1>1, TableChange DEF MovingTypes
<1> QED
  BY <1>1, <1>3, <1>4 DEF SourceTypes, MovingTypes, VerifyTypes, HashTypes, ReadingTypes

(* A row of a known task, item or other source becomes a transaction.      *)
LEMMA NamesKept ==
  ASSUME ReadingTypes, UNCHANGED got, DOMAIN txs' = DOMAIN txs
  PROVE  ReadingTypes'
BY DEF ReadingTypes

(* Tasks and hashes come from the other nodes.                             *)
LEMMA OthersPostTypes ==
  ASSUME Types, NEW x, x[2] \in Names, OthersPost(x)
  PROVE  Types'
<1>1. DOMAIN txs' = DOMAIN txs \cup {x}
  BY DEF OthersPost, With
<1> QED
  BY <1>1 DEF OthersPost, Types, SourceTypes, MovingTypes, VerifyTypes, HashTypes, ReadingTypes

(* A hash is posted, and followed.                                         *)
LEMMA PostHashTypes ==
  ASSUME Types, NEW k \in DOMAIN hash, PostHash(k)
  PROVE  Types'
<1> USE DEF Types
<1>1. UNCHANGED <<parms, wrong, data, sent, agent, recv, verify, got>>
  BY DEF PostHash, VDESrcHashUpToChain, VDESrcHashUpToChainState
<1>2. k \in Items \X (Nat \ {0}) /\ hash[k] \in HashRow /\ k[1] \in Names
  BY DEF HashTypes, Names
<1>3. faults' \in Nat
  BY FaultsType DEF PostHash, VDESrcHashUpToChain, VDESrcHashUpToChainState, Sound
<1>4. ASSUME NEW row \in HashRow, UNCHANGED hash \/ hash' = [hash EXCEPT ![k] = row]
      PROVE  HashTypes'
  <2>1. DOMAIN hash' = DOMAIN hash /\ \A j \in DOMAIN hash : hash'[j] = row \/ hash'[j] = hash[j]
    BY <1>4
  <2> QED
    BY <2>1 DEF HashTypes
<1>5. CASE VDESrcHashUpToChain(k)
  <2>1. PICK c \in 1..MaxCopies :
          /\ Post(<<"hash", k[1], Any, c>>)
          /\ UNCHANGED hash \/ hash' = [hash EXCEPT ![k] = [chain |-> 1, tx |-> c]]
    BY <1>5 DEF VDESrcHashUpToChain
  <2>2. [chain |-> 1, tx |-> c] \in HashRow
    BY DataAssumption DEF HashRow
  <2>3. HashTypes'
    BY <1>4, <2>1, <2>2
  <2>4. ReadingTypes'
    <3> DEFINE x == <<"hash", k[1], Any, c>>
    <3>1. DOMAIN txs' = DOMAIN txs \cup {x} /\ x[2] = k[1]
      BY <2>1 DEF Post, With
    <3> QED
      BY <1>1, <1>2, <3>1 DEF ReadingTypes
  <2> QED
    BY <1>1, <1>3, <2>3, <2>4 DEF SourceTypes, MovingTypes, VerifyTypes
<1>6. CASE VDESrcHashUpToChainState(k)
  <2>1. PICK row : row = hash[k]
    OBVIOUS
  <2>2. hash' = [hash EXCEPT ![k] = [row EXCEPT !.chain = 2]]
    BY <1>6, <2>1 DEF VDESrcHashUpToChainState
  <2>3. [row EXCEPT !.chain = 2] \in HashRow
    BY <1>2, <2>1 DEF HashRow
  <2>4. HashTypes'
    BY <1>4, <2>2, <2>3
  <2> QED
    BY <1>1, <1>3, <1>6, <2>4
       DEF VDESrcHashUpToChainState, SourceTypes, MovingTypes, VerifyTypes, ReadingTypes
<1> QED
  BY <1>5, <1>6 DEF PostHash

(* A transaction is decided.                                               *)
LEMMA MineTypes ==
  ASSUME Types, NEW x \in DOMAIN txs, Mine(x)
  PROVE  Types'
<1>1. /\ UNCHANGED <<parms, wrong, data, sent, agent, recv, verify, hash, got>>
      /\ DOMAIN txs' = DOMAIN txs /\ faults' \in Nat
  BY FaultsType DEF Mine, Types
<1> QED
  BY <1>1, NamesKept DEF Types, SourceTypes, MovingTypes, VerifyTypes, HashTypes

(* What a destination stores are names of rows of the chain.               *)
LEMMA StoreTypes ==
  ASSUME ReadInv, ReadingTypes, NEW d \in Dests, NEW kind \in Kinds,
         NEW rows \in SUBSET Page(Visible(d, kind)), Store(d, kind, rows)
  PROVE  got' \subseteq Dests \X Kinds \X Names
<1>1. \A j \in rows : chain[kind][j][2] \in Names
  BY PageRows DEF ReadingTypes
<1> QED
  BY <1>1 DEF Store, ReadingTypes

(* A pass over a page stores a part of it.                                 *)
LEMMA ReadChainTypes ==
  ASSUME ReadInv, Types, NEW d \in Dests, ReadChain(d)
  PROVE  Types'
<1> DEFINE page(kind) == Page(Visible(d, kind))
<1>1. /\ UNCHANGED <<parms, wrong, data, sent, agent, recv, verify, hash, txs>>
      /\ faults' \in Nat
  BY FaultsType DEF ReadChain, VDEDestTaskGetFromChain, VDEDestDataHashGetFromChain, Types
<1>2. \E kind \in Kinds : \E rows \in SUBSET page(kind) : Store(d, kind, rows)
  <2>1. CASE VDEDestTaskGetFromChain(d)
    <3>1. PICK last \in page("task") :
            \/ Store(d, "task", page("task"))
            \/ \E j \in page("task") : Store(d, "task", page("task") \ {j})
            \/ Store(d, "task", {})
      BY <2>1 DEF VDEDestTaskGetFromChain, Keep, KeepNot
    <3>2. /\ \A j : page("task") \ {j} \in SUBSET page("task")
          /\ page("task") \in SUBSET page("task") /\ {} \in SUBSET page("task")
      OBVIOUS
    <3> HIDE DEF page
    <3> QED
      BY <3>1, <3>2 DEF Kinds
  <2>2. CASE VDEDestDataHashGetFromChain(d)
    <3>1. PICK last \in page("hash") :
            \/ Store(d, "hash", {i \in page("hash") : i <= last})
            \/ Store(d, "hash", page("hash"))
            \/ Store(d, "hash", {})
      BY <2>2 DEF VDEDestDataHashGetFromChain, Keep, KeepNot
    <3>2. /\ {i \in page("hash") : i <= last} \in SUBSET page("hash")
          /\ page("hash") \in SUBSET page("hash") /\ {} \in SUBSET page("hash")
      OBVIOUS
    <3> HIDE DEF page
    <3> QED
      BY <3>1, <3>2 DEF Kinds
  <2> QED
    BY <2>1, <2>2 DEF ReadChain
<1>3. got' \subseteq Dests \X Kinds \X Names
  BY <1>2, StoreTypes DEF Types
<1> QED
  BY <1>1, <1>3 DEF Types, SourceTypes, MovingTypes, VerifyTypes, HashTypes, ReadingTypes

(* An item is taken for comparison, or given up.                           *)
LEMMA VDEDestDataTypes ==
  ASSUME Types, NEW k \in DOMAIN recv, VDEDestData(k)
  PROVE  Types'
<1> USE DEF Types
<1>1. /\ UNCHANGED <<parms, wrong, data, sent, agent, hash, got, txs>>
      /\ faults' \in Nat
  BY FaultsType DEF VDEDestData
<1>2. Table(recv', 3)
  <2>1. \E v \in 0..3 : UNCHANGED recv \/ recv' = [recv EXCEPT ![k] = v]
    BY DEF VDEDestData
  <2> QED
    BY <2>1, TableChange DEF MovingTypes
<1>3. VerifyTypes'
  <2>1. PICK j \in RowKeys : j = New(verify, k[1], k[2])
    BY NewIsRow DEF MovingTypes, VerifyTypes, Table, States, RowKeys
  <2>2. PICK v \in 0..3 : v = HashState(TaskOf[k[1]])
    BY DEF HashState
  <2>3. UNCHANGED verify \/ verify' = With(verify, j, v)
    BY <2>1, <2>2 DEF VDEDestData
  <2> QED
    BY <2>3, WithTable DEF VerifyTypes
<1> QED
  BY <1>1, <1>2, <1>3 DEF SourceTypes, MovingTypes, HashTypes, ReadingTypes

(* An item is compared.                                                    *)
LEMMA VDEDestDataStatusTypes ==
  ASSUME Types, NEW k \in DOMAIN verify, VDEDestDataStatus(k)
  PROVE  Types'
<1>1. UNCHANGED <<parms, wrong, data, sent, agent, recv, hash, got, txs, faults>>
  BY DEF VDEDestDataStatus
<1>2. PICK v \in {1, 2} : v = Compared(k[1])
  BY DEF Compared
<1>3. verify' = [verify EXCEPT ![k] = v] /\ v \in 0..3
  BY <1>2 DEF VDEDestDataStatus
<1>4. VerifyTypes'
  BY <1>3, TableChange DEF Types, VerifyTypes
<1> QED
  BY <1>1, <1>4 DEF Types, SourceTypes, MovingTypes, HashTypes, ReadingTypes

(* All tables are empty at first.                                          *)
LEMMA InitTypes == ASSUME Init PROVE Types
<1>1. DOMAIN <<>> = {}
  OBVIOUS
<1>2. IsFiniteSet({})
  BY FS_EmptySet
<1> QED
  BY <1>1, <1>2 DEF Init, Types, SourceTypes, MovingTypes, VerifyTypes, HashTypes,
     ReadingTypes, Table, States

(* Every step keeps the types.                                             *)
LEMMA TypesStep ==
  ASSUME ReadInv, Types, [Next]_vars
  PROVE  Types'
<1>1. CASE UNCHANGED vars
  BY <1>1 DEF vars, Types, SourceTypes, MovingTypes, VerifyTypes, HashTypes, ReadingTypes
<1>2. ASSUME NEW i \in Items, VDESrcDataCreateHandlre(i) PROVE Types'
  <2>1. States(data, Items, 3)'
    BY <1>2 DEF VDESrcDataCreateHandlre, With, Types, SourceTypes, States
  <2> QED
    BY <1>2, <2>1 DEF VDESrcDataCreateHandlre, Types, SourceTypes, MovingTypes, VerifyTypes,
       HashTypes, ReadingTypes
<1>3. ASSUME NEW t \in Tasks, NEW d \in Dests, OthersPost(<<"task", t, d, 1>>) PROVE Types'
  BY <1>3, OthersPostTypes DEF Names
<1>4. ASSUME NEW o \in Others, OthersPost(<<"hash", o, Any, 1>>) PROVE Types'
  BY <1>4, OthersPostTypes DEF Names
<1>5. CASE Tick
  BY <1>5 DEF Tick, Types, SourceTypes, MovingTypes, VerifyTypes, HashTypes, ReadingTypes
<1>6. CASE Environment
  BY <1>2, <1>3, <1>4, <1>5, <1>6 DEF Environment
<1>7. CASE Daemons
  BY <1>7, VDESrcDataTypes, SendDataTypes, VDEAgentDataTypes, PostHashTypes, MineTypes,
     ReadChainTypes, VDEDestDataTypes, VDEDestDataStatusTypes DEF Daemons
<1> QED
  BY <1>1, <1>6, <1>7 DEF Next

(* The rows of every table of the destinations, the source and the chain   *)
(* hold values that the daemons select by or compare with.                 *)
THEOREM TypeCorrect == Spec => []TypeOK
<1>1. Init => Types
  BY InitTypes
<1>2. IInv /\ Types /\ [Next]_vars => Types'
  BY TypesStep DEF IInv
<1>3. Spec => []Types
  BY <1>1, <1>2, Invariant, PTL DEF Spec
<1>4. IInv /\ Types => TypeOK
  <2> SUFFICES ASSUME IInv, Types PROVE TypeOK
    OBVIOUS
  <2>1. mark \in [Dests \X Kinds -> Nat] /\ {now, faults} \subseteq Nat /\ chain \in [Kinds -> Seq(DOMAIN txs)]
    BY DEF IInv, ReadInv, MarkInv, Stamps, ChainInv, Types
  <2>2. \A x \in DOMAIN txs : txs[x] \in [time : Nat, st : {"pool", "block", "bad"}]
    <3>1. [time : Nat \ {0}, st : {"pool", "block", "bad"}] \subseteq
          [time : Nat, st : {"pool", "block", "bad"}]
      OBVIOUS
    <3> QED
      BY <3>1 DEF IInv, ReadInv, Stamps
  <2>3. /\ States(sent, RowKeys, 2) /\ States(agent, RowKeys, 2)
        /\ States(recv, RowKeys, 3) /\ States(verify, RowKeys, 3)
    BY DEF Types, MovingTypes, VerifyTypes, Table
  <2> QED
    BY <2>1, <2>2, <2>3
       DEF TypeOK, Types, SourceTypes, HashTypes, ReadingTypes, RowKeys, HashRow, Names
<1> QED
  BY <1>3, <1>4, Invariant, PTL
=============================================================================
