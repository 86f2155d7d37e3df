---------------------------- MODULE TxPlay_proofs ----------------------------
(***************************************************************************)
(* Proofs about TxPlay, for any nodes, transactions, contracts and limits: *)
(* the types of the databases and numbers; that no contract, payment, fine *)
(* or rollback makes money or loses it; that a contract that fails has no  *)
(* effect but its payment; and that the compiled contracts and the cached  *)
(* rate of a node are those of its tables where no gap is known.           *)
(*                                                                         *)
(* What a rollback restores is known only from the entries its block left, *)
(* so the invariant relates the entries of every block a node has to the   *)
(* balances before and after it (Covers): whatever is different has an     *)
(* entry, and the first entry of a balance holds what it was before.       *)
(*                                                                         *)
(* MemInv is the invariant of the memory.  It says of every block a node   *)
(* has that taking it back restores all its tables and, where the memory   *)
(* was right after it, leaves it right before it (BlockUndoes); and of the *)
(* block being played what each way to leave it relies on (PlayMemAt).     *)
(***************************************************************************)
EXTENDS TxPlay, FiniteSetTheorems, SequencesExt, SequenceTheorems, WellFoundedInduction, TLAPS

-----------------------------------------------------------------------------
(* Recursive functions.  The induction is by the least counterexample in a   *)
(* well-founded order: the library's induction theorems take an operator,    *)
(* which the provers cannot instantiate.                                     *)

\* Induction on numbers, without an operator: a set that has 0 and with a number its
\* successor, up to n.
LEMMA UpTo ==
    ASSUME NEW n \in Nat, NEW P, 0 \in P, \A i \in 0..n-1 : i \in P => i + 1 \in P
    PROVE  n \in P
<1> DEFINE T == {i \in 0..n : i \notin P}
           R == OpToRel(<, Nat)
<1>1. IsWellFoundedOn(R, Nat)
  BY NatLessThanWellFounded
<1>2. \A x, y \in Nat : y < x => <<y, x>> \in R
  BY DEF OpToRel
<1> HIDE DEF R
<1>3. ASSUME T # {} PROVE FALSE
  <2>1. T \subseteq Nat
    OBVIOUS
  <2> HIDE DEF T
  <2>2. PICK i \in T : \A y \in T : ~ (<<y, i>> \in R)
    BY <1>1, <1>3, <2>1, WFMin
  <2>3. \A y \in T : ~ (y < i)
    BY <1>2, <2>1, <2>2
  <2>4. i \in 0..n /\ i \notin P /\ i # 0
    BY DEF T
  <2>5. i - 1 \in 0..n-1 /\ i - 1 \notin P
    BY <2>4
  <2>6. i - 1 \in T
    BY <2>4, <2>5 DEF T
  <2> QED
    BY <2>3, <2>4, <2>6
<1> QED
  BY <1>3

\* The function defined by recursion on a number up to n, from b, with a step for each number.
Recurs(f, S, n, b, step) ==
    /\ f \in [0..n -> S]
    /\ f[0] = b
    /\ \A i \in 1..n : f[i] = step[i][f[i-1]]

\* Such a function exists.
LEMMA Recursion ==
    ASSUME NEW S, NEW n \in Nat, NEW b \in S, NEW step \in [1..n -> [S -> S]]
    PROVE  \E f : Recurs(f, S, n, b, step)
<1> DEFINE Ok(f, m) == f[0] = b /\ \A i \in 1..m : f[i] = step[i][f[i-1]]
           P == {m \in 0..n : \E f \in [0..m -> S] : Ok(f, m)}
<1>1. 0 \in P
  <2> DEFINE f == [i \in 0..0 |-> b]
  <2>1. f \in [0..0 -> S] /\ f[0] = b /\ \A i \in 1..0 : FALSE
    OBVIOUS
  <2> HIDE DEF f
  <2>2. Ok(f, 0)
    BY <2>1
  <2> HIDE DEF Ok
  <2> QED
    BY <2>1, <2>2
<1>2. ASSUME NEW m \in 0..n-1, m \in P PROVE m + 1 \in P
  <2>1. PICK f \in [0..m -> S] : Ok(f, m)
    BY <1>2
  <2>2. /\ m \in Nat /\ m + 1 \in 1..n /\ m \in 0..m /\ m + 1 \in 0..n
        /\ \A i \in 0..m+1 : i \in 0..m \/ i = m + 1
        /\ m + 1 \notin 0..m
        /\ \A i \in 1..m : i \in 0..m /\ i - 1 \in 0..m /\ i \in 0..m+1 /\ i - 1 \in 0..m+1
    OBVIOUS
  <2> DEFINE next == step[m+1][f[m]]
  <2>3. next \in S
    BY <2>2
  <2> HIDE DEF next
  <2> DEFINE g == [i \in 0..m+1 |-> IF i = m + 1 THEN next ELSE f[i]]
  <2>4. g \in [0..m+1 -> S]
    BY <2>2, <2>3
  <2>5. g[m+1] = next /\ \A i \in 0..m : g[i] = f[i]
    BY <2>2
  <2> HIDE DEF g
  <2>6. g[0] = b
    BY <2>1, <2>2, <2>5
  <2>7. \A i \in 1..m+1 : g[i] = step[i][g[i-1]]
    <3> TAKE i \in 1..m+1
    <3>1. CASE i = m + 1
      <4>1. i - 1 = m
        BY <2>2, <3>1
      <4> QED
        BY <2>2, <2>5, <3>1, <4>1 DEF next
    <3>2. CASE i \in 1..m
      BY <2>1, <2>2, <2>5, <3>2
    <3> QED
      BY <2>2, <3>1, <3>2
  <2>8. Ok(g, m + 1)
    BY <2>6, <2>7
  <2> HIDE DEF Ok
  <2> QED
    BY <2>2, <2>4, <2>8
<1> HIDE DEF P, Ok
<1>3. n \in P
  BY <1>1, <1>2, UpTo
<1> QED
  BY <1>3 DEF P, Ok, Recurs

-----------------------------------------------------------------------------
(* The money there is.                                                       *)

\* Every account is one element of Keys.
LEMMA KeysOnce ==
    /\ Len(Keys) = Cardinality(Accounts) /\ Len(Keys) \in Nat
    /\ \A i \in 1..Len(Keys) : Keys[i] \in Accounts
    /\ \A k \in Accounts : \E p \in 1..Len(Keys) :
         Keys[p] = k /\ \A i \in 1..Len(Keys) : Keys[i] = k => i = p
<1> DEFINE n == Cardinality(Accounts)
<1>1. n \in Nat /\ ExistsBijection(1..n, Accounts) /\ IsFiniteSet(Accounts)
  BY PlayAssumption, FS_CardinalityType
<1>2. \E f \in [1..n -> Accounts] : IsInjective(f)
  BY <1>1 DEF ExistsBijection, Bijection, Injection, IsInjective
<1>3. Keys \in [1..n -> Accounts] /\ IsInjective(Keys)
  BY <1>2 DEF SetToSeq, Keys
<1>4. Cardinality(1..n) = Cardinality(Accounts)
  BY <1>1, FS_Interval
<1>5. Keys \in Surjection(1..n, Accounts)
  <2>1. Keys \in Injection(1..n, Accounts)
    BY <1>3 DEF Injection
  <2> HIDE DEF n
  <2> QED
    BY <1>1, <1>4, <2>1, FS_Injection
<1>6. \A k \in Accounts : \E p \in 1..n : Keys[p] = k
  BY <1>5 DEF Surjection
<1>7. Len(Keys) = n /\ DOMAIN Keys = 1..n
  BY <1>1, <1>3
<1> HIDE DEF n
<1>8. \A k \in Accounts : \E p \in 1..n : Keys[p] = k /\ \A i \in 1..n : Keys[i] = k => i = p
  BY <1>3, <1>6, <1>7 DEF IsInjective
<1> QED
  BY <1>1, <1>3, <1>7, <1>8 DEF n

\* The sum of the balances b, account by account.
LEMMA TotalSteps ==
    ASSUME NEW b \in [Accounts -> Int]
    PROVE  \E sum : /\ Total(b) = sum[Len(Keys)]
                    /\ sum[0] = 0
                    /\ \A i \in 0..Len(Keys) : sum[i] \in Int
                    /\ \A i \in 1..Len(Keys) : sum[i] = sum[i-1] + b[Keys[i]]
<1> DEFINE n == Len(Keys)
           step == [i \in 1..n |-> [x \in Int |-> x + b[Keys[i]]]]
<1>1. n \in Nat /\ \A i \in 1..n : b[Keys[i]] \in Int
  BY KeysOnce
<1>2. step \in [1..n -> [Int -> Int]]
  BY <1>1
<1>3. \A i \in 1..n, x \in Int : step[i][x] = x + b[Keys[i]]
  OBVIOUS
<1> HIDE DEF step, n
<1>4. \E f : Recurs(f, Int, n, 0, step)
  <2> DEFINE Z == Int
  <2>1. 0 \in Z /\ step \in [1..n -> [Z -> Z]]
    BY <1>2
  <2> HIDE DEF Z
  <2>2. \E f : Recurs(f, Z, n, 0, step)
    BY <1>1, <2>1, Recursion
  <2> QED
    BY <2>2 DEF Z
<1>5. PICK f : /\ f \in [0..n -> Int] /\ f[0] = 0
               /\ \A i \in 1..n : f[i] = f[i-1] + b[Keys[i]]
  <2>1. PICK f \in [0..n -> Int] : f[0] = 0 /\ \A i \in 1..n : f[i] = step[i][f[i-1]]
    BY <1>4 DEF Recurs
  <2>2. ASSUME NEW i \in 1..n PROVE f[i] = f[i-1] + b[Keys[i]]
    <3>1. i - 1 \in 0..n
      BY <1>1
    <3> QED
      BY <1>3, <2>1, <3>1
  <2> QED
    BY <2>1, <2>2
<1> DEFINE Is(g) == g = [i \in 0..n |-> IF i = 0 THEN 0 ELSE g[i-1] + b[Keys[i]]]
<1>6. Is(f)
  <2>1. \A i \in 0..n : f[i] = IF i = 0 THEN 0 ELSE f[i-1] + b[Keys[i]]
    BY <1>1, <1>5
  <2> QED
    BY <1>5, <2>1
<1> HIDE DEF Is
<1> DEFINE sum == CHOOSE g : Is(g)
<1>7. Is(sum)
  BY <1>6
<1>8. Total(b) = sum[n]
  BY DEF Total, n, Is
<1> HIDE DEF sum
<1> USE DEF Is
<1>9. \A i \in 1..n : sum[i] = sum[i-1] + b[Keys[i]]
  BY <1>1, <1>7
<1>10. sum[0] = 0
  BY <1>1, <1>7
<1> DEFINE P == {i \in 0..n : sum[i] \in Int}
<1>11. 0 \in P
  BY <1>1, <1>10
<1>12. ASSUME NEW i \in 0..n-1, i \in P PROVE i + 1 \in P
  BY <1>1, <1>9, <1>12
<1> HIDE DEF P
<1>13. ASSUME NEW i \in 0..n PROVE sum[i] \in Int
  <2> DEFINE Q == P \cup {j \in 0..n : FALSE}
  <2>1. i \in Nat /\ \A j \in 0..i-1 : j \in 0..n-1
    BY <1>1
  <2>2. i \in P
    BY <1>11, <1>12, <2>1, UpTo
  <2> QED
    BY <2>2 DEF P
<1> QED
  BY <1>8, <1>9, <1>10, <1>13 DEF n

\* Changing one balance changes the sum by as much.
LEMMA TotalChanges ==
    ASSUME NEW b \in [Accounts -> Int], NEW c \in [Accounts -> Int], NEW k \in Accounts,
           \A j \in Accounts \ {k} : c[j] = b[j]
    PROVE  Total(b) \in Int /\ Total(c) = Total(b) + c[k] - b[k]
<1> DEFINE n == Len(Keys)
<1>1. /\ n \in Nat /\ \A i \in 1..n : Keys[i] \in Accounts
  BY KeysOnce
<1>2. PICK p \in 1..n : Keys[p] = k /\ \A i \in 1..n : Keys[i] = k => i = p
  BY KeysOnce
<1>3. PICK s : /\ Total(b) = s[n] /\ s[0] = 0 /\ \A i \in 0..n : s[i] \in Int
               /\ \A i \in 1..n : s[i] = s[i-1] + b[Keys[i]]
  BY TotalSteps
<1>4. PICK u : /\ Total(c) = u[n] /\ u[0] = 0 /\ \A i \in 0..n : u[i] \in Int
               /\ \A i \in 1..n : u[i] = u[i-1] + c[Keys[i]]
  BY TotalSteps
<1> HIDE DEF n
<1> DEFINE P == {i \in 0..n : u[i] = IF i < p THEN s[i] ELSE s[i] + c[k] - b[k]}
<1>5. 0 \in P
  BY <1>1, <1>2, <1>3, <1>4
<1>6. ASSUME NEW i \in 0..n-1, i \in P PROVE i + 1 \in P
  <2>1. /\ i + 1 \in 1..n /\ (i + 1) - 1 = i /\ i \in 0..n /\ i + 1 \in 0..n
        /\ Keys[i+1] \in Accounts /\ s[i] \in Int /\ p \in Int
        /\ b[k] \in Int /\ c[k] \in Int
    BY <1>1, <1>2, <1>3
  <2>2. s[i+1] = s[i] + b[Keys[i+1]] /\ u[i+1] = u[i] + c[Keys[i+1]]
    BY <1>3, <1>4, <2>1
  <2>3. u[i] = IF i < p THEN s[i] ELSE s[i] + c[k] - b[k]
    BY <1>6
  <2>4. CASE i + 1 = p
    <3>1. Keys[i+1] = k /\ i < p
      BY <1>2, <2>1, <2>4
    <3> QED
      BY <2>1, <2>2, <2>3, <2>4, <3>1
  <2>5. CASE i + 1 # p
    <3>1. Keys[i+1] # k
      BY <1>2, <2>1, <2>5
    <3>2. c[Keys[i+1]] = b[Keys[i+1]] /\ b[Keys[i+1]] \in Int
      BY <2>1, <3>1
    <3> QED
      BY <2>1, <2>2, <2>3, <2>5, <3>2
  <2> QED
    BY <2>4, <2>5
<1> HIDE DEF P
<1>7. n \in P
  BY <1>1, <1>5, <1>6, UpTo
<1>8. n \in Int /\ p \in Int /\ p <= n /\ n \in 0..n
  BY <1>1, <1>2
<1> QED
  BY <1>3, <1>4, <1>7, <1>8 DEF P

\* What everybody has at first.
LEMMA TotalAtFirst ==
    ASSUME NEW b \in [Accounts -> Int], \A k \in Accounts : b[k] = Amount
    PROVE  Total(b) = Cardinality(Accounts) * Amount
<1> DEFINE n == Len(Keys)
<1>1. n \in Nat /\ n = Cardinality(Accounts) /\ Amount \in Nat /\ \A i \in 1..n : Keys[i] \in Accounts
  BY KeysOnce, PlayAssumption
<1>2. PICK s : /\ Total(b) = s[n] /\ s[0] = 0 /\ \A i \in 0..n : s[i] \in Int
               /\ \A i \in 1..n : s[i] = s[i-1] + b[Keys[i]]
  BY TotalSteps
<1> HIDE DEF n
<1> DEFINE P == {i \in 0..n : s[i] = i * Amount}
<1>3. 0 \in P
  BY <1>1, <1>2
<1>4. ASSUME NEW i \in 0..n-1, i \in P PROVE i + 1 \in P
  <2>1. i + 1 \in 1..n /\ (i + 1) - 1 = i /\ i + 1 \in 0..n /\ i \in Int
    BY <1>1
  <2>2. s[i+1] = s[i] + Amount /\ s[i] = i * Amount
    BY <1>1, <1>2, <1>4, <2>1
  <2>3. (i + 1) * Amount = i * Amount + Amount
    BY <1>1, <2>1
  <2> QED
    BY <2>1, <2>2, <2>3
<1> HIDE DEF P
<1>5. n \in P
  BY <1>1, <1>3, <1>4, UpTo
<1> QED
  BY <1>1, <1>2, <1>5 DEF P

-----------------------------------------------------------------------------
(* Lists, and the entries of rollback_tx in them.                            *)

IsList(q) == \E S : q \in Seq(S)

LEMMA ListFacts ==
    ASSUME NEW q, IsList(q)
    PROVE  Len(q) \in Nat /\ DOMAIN q = 1..Len(q) /\ Len(q) \in 0..Len(q)
  BY DEF IsList

LEMMA Appended ==
    ASSUME NEW q, IsList(q), NEW x
    PROVE  /\ IsList(Append(q, x))
           /\ Len(Append(q, x)) = Len(q) + 1
           /\ DOMAIN Append(q, x) = 1..Len(q) + 1
           /\ \A i \in 1..Len(q) : Append(q, x)[i] = q[i]
           /\ Append(q, x)[Len(q) + 1] = x
<1>1. PICK S : q \in Seq(S)
  BY DEF IsList
<1> DEFINE T == S \cup {x}
<1>2. q \in Seq(T) /\ x \in T
  BY <1>1
<1> HIDE DEF T
<1>3. /\ Append(q, x) \in Seq(T) /\ Len(Append(q, x)) = Len(q) + 1
      /\ \A i \in 1..Len(q) : Append(q, x)[i] = q[i]
      /\ Append(q, x)[Len(q) + 1] = x
  BY <1>2, AppendProperties
<1> QED
  BY <1>2, <1>3 DEF IsList

\* What an entry may hold: what the tables held before.
Names == {"a"} \cup UNION {{op[2] : op \in Range(Code[t])} : t \in Txs}

EntryOK(e) ==
    /\ e[1] \in {"insert", "value", "rate", "row", "amount", "NewContract", "EditContract", "NewColumn"}
    /\ e[1] \in {"insert", "EditContract"} => e[2] \in Nat \ {0}
    /\ e[1] = "value"  => e[2] \in Nat \ {0} /\ e[3] \in Nat
    /\ e[1] \in {"rate", "row"} => e[2] \in Nat
    /\ e[1] = "amount" => e[2] \in Ecos /\ e[3] \in Accounts /\ e[4] \in Nat

LogOK(log) == IsList(log) /\ \A i \in 1..Len(log) : EntryOK(log[i])

\* The entry of a balance.
Of(e, x, k) == e[1] = "amount" /\ e[2] = x /\ e[3] = k

\* The entries of a log tell how to get from the balances b1 back to b0: a balance without an
\* entry is the same, and the first entry of a balance holds what it was.
Covers(log, b0, b1) ==
    \A x \in Ecos, k \in Accounts :
      /\ (\A i \in 1..Len(log) : ~ Of(log[i], x, k)) => b1[x][k] = b0[x][k]
      /\ \A i \in 1..Len(log) :
           Of(log[i], x, k) /\ (\A j \in 1..i-1 : ~ Of(log[j], x, k)) => log[i][4] = b0[x][k]

\* A further entry.
LEMMA LogAppend ==
    ASSUME NEW log, LogOK(log), NEW e, EntryOK(e)
    PROVE  LogOK(Append(log, e))
<1>1. Len(log) \in Nat /\ \A i \in 1..Len(log)+1 : i \in 1..Len(log) \/ i = Len(log) + 1
  BY ListFacts DEF LogOK
<1> QED
  BY <1>1, Appended DEF LogOK

LEMMA CoversAppend ==
    ASSUME NEW log, IsList(log), NEW b0, NEW b, NEW c, Covers(log, b0, b), NEW e,
           \A x \in Ecos, k \in Accounts : c[x][k] = b[x][k] \/ Of(e, x, k),
           \A x \in Ecos, k \in Accounts : Of(e, x, k) => e[4] = b[x][k]
    PROVE  Covers(Append(log, e), b0, c)
<1> DEFINE n == Len(log)
           new == Append(log, e)
<1>1. n \in Nat
  BY ListFacts
<1>2. Len(new) = n + 1 /\ new[n+1] = e /\ \A i \in 1..n : new[i] = log[i]
  BY Appended
<1> HIDE DEF n, new
<1>3. \A i \in 1..n+1 : i \in 1..n \/ i = n + 1
  BY <1>1
<1>4. n + 1 \in 1..n+1 /\ (n + 1) - 1 = n /\ \A i \in 1..n : i \in 1..n+1 /\ \A j \in 1..i-1 : j \in 1..n
  BY <1>1
<1> SUFFICES ASSUME NEW x \in Ecos, NEW k \in Accounts
             PROVE  /\ (\A i \in 1..n+1 : ~ Of(new[i], x, k)) => c[x][k] = b0[x][k]
                    /\ \A i \in 1..n+1 :
                         Of(new[i], x, k) /\ (\A j \in 1..i-1 : ~ Of(new[j], x, k))
                           => new[i][4] = b0[x][k]
  BY <1>2 DEF Covers, new
<1>5. (\A i \in 1..n : ~ Of(log[i], x, k)) => b[x][k] = b0[x][k]
  BY DEF Covers, n
<1>6. \A i \in 1..n :
        Of(log[i], x, k) /\ (\A j \in 1..i-1 : ~ Of(log[j], x, k)) => log[i][4] = b0[x][k]
  BY DEF Covers, n
<1>7. (\A i \in 1..n+1 : ~ Of(new[i], x, k)) => c[x][k] = b0[x][k]
  BY <1>2, <1>4, <1>5
<1>8. ASSUME NEW i \in 1..n+1, Of(new[i], x, k), \A j \in 1..i-1 : ~ Of(new[j], x, k)
      PROVE  new[i][4] = b0[x][k]
  <2>1. CASE i \in 1..n
    BY <1>2, <1>4, <1>6, <1>8, <2>1
  <2>2. CASE i = n + 1
    <3>1. \A j \in 1..n : ~ Of(log[j], x, k)
      BY <1>2, <1>4, <1>8, <2>2
    <3> QED
      BY <1>2, <1>5, <1>8, <2>2, <3>1
  <2> QED
    BY <1>3, <2>1, <2>2
<1> QED
  BY <1>7, <1>8

\* The savepoint: the balances are what they were, the entries stay.
LEMMA CoversSaved ==
    ASSUME NEW log, NEW b0, NEW b, Covers(log, b0, b)
    PROVE  Covers(log, b0, b0)
  BY DEF Covers

-----------------------------------------------------------------------------
(* A running transaction.                                                    *)

Source == [name : Names, ver : Nat]

Tables == [bal : [Ecos -> [Accounts -> Int]], src : Seq(Source),
           rate : Nat, column : BOOLEAN, row : Nat]

\* Nobody owes, and everything that there was at first is there.
Money(b) ==
    \A e \in Ecos : /\ \A k \in Accounts : b[e][k] >= 0
                    /\ Total(b[e]) = Cardinality(Accounts) * Amount

ObjsOK(m) == \A c \in DOMAIN m.objs : m.objs[c].ver \in Nat
FlushOK(flush) == IsList(flush) /\ \A i \in 1..Len(flush) : flush[i].info \in Nat

Fields == {"db", "vm", "cache", "log", "flush", "sys", "fuel", "err", "kind"}

Running(s, b0) ==
    /\ DOMAIN s = Fields
    /\ s.db \in Tables /\ Money(s.db.bal)
    /\ ObjsOK(s.vm) /\ FlushOK(s.flush)
    /\ s.cache \in Nat /\ s.fuel \in Nat
    /\ LogOK(s.log) /\ Covers(s.log, b0, s.db.bal)

AmountEntry(s, e, k) == <<"amount", e, k, s.db.bal[e][k]>>

\* What one payment changes.
LEMMA AddAmountFields ==
    ASSUME NEW s, DOMAIN s = Fields, s.db \in Tables,
           NEW e \in Ecos, NEW k \in Accounts, NEW sum \in Int
    PROVE  LET r == AddAmount(s, e, k, sum)
           IN  /\ DOMAIN r = Fields /\ r.db \in Tables
               /\ r.db.bal[e][k] = s.db.bal[e][k] + sum
               /\ \A x \in Ecos, j \in Accounts :
                    ~ (x = e /\ j = k) => r.db.bal[x][j] = s.db.bal[x][j]
               /\ r.log = Append(s.log, AmountEntry(s, e, k))
               /\ r.db.src = s.db.src /\ r.db.rate = s.db.rate
               /\ r.db.column = s.db.column /\ r.db.row = s.db.row
               /\ r.vm = s.vm /\ r.cache = s.cache /\ r.flush = s.flush /\ r.sys = s.sys
               /\ r.fuel = s.fuel /\ r.err = s.err /\ r.kind = s.kind
<1> DEFINE b == s.db.bal
           c == [b EXCEPT ![e][k] = @ + sum]
           d == [s.db EXCEPT !.bal = c]
           l == Append(s.log, <<"amount", e, k, s.db.bal[e][k]>>)
           r == [s EXCEPT !.log = l, !.db = d]
<1>1. b \in [Ecos -> [Accounts -> Int]]
  BY DEF Tables
<1>2. /\ c \in [Ecos -> [Accounts -> Int]]
      /\ \A x \in Ecos, j \in Accounts : c[x][j] = IF x = e /\ j = k THEN b[x][j] + sum ELSE b[x][j]
  <2> HIDE DEF b
  <2> QED
    BY <1>1
<1>3. AddAmount(s, e, k, sum) = r
  BY DEF AddAmount, Log, Fields, Tables
<1> HIDE DEF c, l
<1>4. d \in Tables /\ d.bal = c /\ d.src = s.db.src /\ d.rate = s.db.rate
      /\ d.column = s.db.column /\ d.row = s.db.row
  BY <1>2 DEF Tables
<1> HIDE DEF d
<1>5. /\ DOMAIN r = Fields /\ r.db = d /\ r.log = l
      /\ r.vm = s.vm /\ r.cache = s.cache /\ r.flush = s.flush /\ r.sys = s.sys
      /\ r.fuel = s.fuel /\ r.err = s.err /\ r.kind = s.kind
  BY DEF Fields
<1> HIDE DEF r
<1> QED
  BY <1>2, <1>3, <1>4, <1>5 DEF b, l, AmountEntry

LEMMA FailFields ==
    ASSUME NEW s, DOMAIN s = Fields, NEW x
    PROVE  LET r == Fail(s, x)
           IN  /\ DOMAIN r = Fields /\ r.db = s.db /\ r.vm = s.vm /\ r.cache = s.cache
               /\ r.log = s.log /\ r.flush = s.flush /\ r.sys = s.sys /\ r.fuel = s.fuel
               /\ r.err = x /\ r.kind = s.kind
  BY DEF Fail, Fields

LEMMA FailRunning ==
    ASSUME NEW s, NEW b0, Running(s, b0), NEW x
    PROVE  Running(Fail(s, x), b0)
<1> DEFINE r == Fail(s, x)
<1>1. DOMAIN s = Fields
  BY DEF Running
<1>2. /\ DOMAIN r = Fields /\ r.db = s.db /\ r.vm = s.vm /\ r.cache = s.cache
      /\ r.log = s.log /\ r.flush = s.flush /\ r.fuel = s.fuel
  BY <1>1, FailFields
<1> HIDE DEF r
<1>3. Running(r, b0)
  BY <1>2 DEF Running
<1> QED
  BY <1>3 DEF r

\* A payment is refused or takes from one what it gives to the other.
LEMMA MoveFields ==
    ASSUME NEW s, NEW b0, Running(s, b0), NEW e \in Ecos, NEW from \in Accounts,
           NEW to \in Accounts, NEW sum \in Int
    PROVE  LET r == Move(s, e, from, to, sum)
           IN  \/ r = Fail(s, "taxes")
               \/ /\ Running(r, b0)
                  /\ \A x \in Ecos, j \in Accounts : r.db.bal[x][j] =
                       s.db.bal[x][j] + (IF x = e /\ j = to THEN sum ELSE 0)
                                      - (IF x = e /\ j = from THEN sum ELSE 0)
                  /\ r.db.src = s.db.src /\ r.db.rate = s.db.rate
                  /\ r.db.column = s.db.column /\ r.db.row = s.db.row
                  /\ r.vm = s.vm /\ r.cache = s.cache /\ r.flush = s.flush /\ r.sys = s.sys
                  /\ r.fuel = s.fuel /\ r.err = s.err /\ r.kind = s.kind
<1> DEFINE p == AddAmount(s, e, to, sum)
           r == AddAmount(p, e, from, 0 - sum)
           e1 == AmountEntry(s, e, to)
           e2 == AmountEntry(p, e, from)
<1>1. DOMAIN s = Fields /\ s.db \in Tables /\ 0 - sum \in Int
  BY DEF Running
<1>2. /\ DOMAIN p = Fields /\ p.db \in Tables
      /\ p.db.bal[e][to] = s.db.bal[e][to] + sum
      /\ \A x \in Ecos, j \in Accounts :
           ~ (x = e /\ j = to) => p.db.bal[x][j] = s.db.bal[x][j]
      /\ p.log = Append(s.log, e1)
      /\ p.db.src = s.db.src /\ p.db.rate = s.db.rate
      /\ p.db.column = s.db.column /\ p.db.row = s.db.row
      /\ p.vm = s.vm /\ p.cache = s.cache /\ p.flush = s.flush /\ p.sys = s.sys
      /\ p.fuel = s.fuel /\ p.err = s.err /\ p.kind = s.kind
  BY ZenonT(60), <1>1, AddAmountFields
<1>3. Move(s, e, from, to, sum) =
        IF p.db.bal[e][to] < 0 \/ r.db.bal[e][from] < 0 THEN Fail(s, "taxes") ELSE r
  BY DEF Move
<1> HIDE DEF p, e1
<1>4. /\ DOMAIN r = Fields /\ r.db \in Tables
      /\ r.db.bal[e][from] = p.db.bal[e][from] + (0 - sum)
      /\ \A x \in Ecos, j \in Accounts :
           ~ (x = e /\ j = from) => r.db.bal[x][j] = p.db.bal[x][j]
      /\ r.log = Append(p.log, e2)
      /\ r.db.src = p.db.src /\ r.db.rate = p.db.rate
      /\ r.db.column = p.db.column /\ r.db.row = p.db.row
      /\ r.vm = p.vm /\ r.cache = p.cache /\ r.flush = p.flush /\ r.sys = p.sys
      /\ r.fuel = p.fuel /\ r.err = p.err /\ r.kind = p.kind
  BY ZenonT(30), <1>1, <1>2, AddAmountFields
<1> HIDE DEF r, e2
<1> SUFFICES ASSUME ~ (p.db.bal[e][to] < 0), ~ (r.db.bal[e][from] < 0)
             PROVE  /\ Running(r, b0)
                    /\ \A x \in Ecos, j \in Accounts : r.db.bal[x][j] =
                         s.db.bal[x][j] + (IF x = e /\ j = to THEN sum ELSE 0)
                                        - (IF x = e /\ j = from THEN sum ELSE 0)
  BY <1>2, <1>3, <1>4
<1>5. \A x \in Ecos, j \in Accounts :
        /\ s.db.bal[x][j] \in Int /\ s.db.bal[x][j] >= 0
        /\ p.db.bal[x][j] \in Int /\ r.db.bal[x][j] \in Int
  BY <1>1, <1>2, <1>4 DEF Running, Tables, Money
<1>6. \A x \in Ecos, j \in Accounts : r.db.bal[x][j] =
         s.db.bal[x][j] + (IF x = e /\ j = to THEN sum ELSE 0)
                        - (IF x = e /\ j = from THEN sum ELSE 0)
  <2> TAKE x \in Ecos, j \in Accounts
  <2>1. s.db.bal[x][j] \in Int
    BY <1>5
  <2>2. p.db.bal[x][j] = s.db.bal[x][j] + (IF x = e /\ j = to THEN sum ELSE 0)
    BY <1>2, <2>1
  <2>3. r.db.bal[x][j] = p.db.bal[x][j] - (IF x = e /\ j = from THEN sum ELSE 0)
    BY <1>4, <1>5
  <2> DEFINE A == IF x = e /\ j = to THEN sum ELSE 0
             B == IF x = e /\ j = from THEN sum ELSE 0
  <2>4. A \in Int /\ B \in Int /\ sum \in Int
    OBVIOUS
  <2>5. p.db.bal[x][j] = s.db.bal[x][j] + A /\ r.db.bal[x][j] = p.db.bal[x][j] - B
    BY <2>2, <2>3
  <2> HIDE DEF A, B
  <2>6. r.db.bal[x][j] = s.db.bal[x][j] + A - B
    BY <2>1, <2>4, <2>5
  <2> QED
    BY <2>6 DEF A, B
<1>7. Money(r.db.bal)
  <2>1. ASSUME NEW x \in Ecos, NEW j \in Accounts PROVE r.db.bal[x][j] >= 0
    <3>1. CASE x = e /\ j = from
      BY <3>1, <1>5
    <3>2. CASE ~ (x = e /\ j = from)
      <4>1. r.db.bal[x][j] = p.db.bal[x][j]
        BY <1>4, <3>2
      <4>2. CASE x = e /\ j = to
        BY <1>5, <4>1, <4>2
      <4>3. CASE ~ (x = e /\ j = to)
        BY <1>2, <1>5, <4>1, <4>3
      <4> QED
        BY <4>2, <4>3
    <3> QED
      BY <3>1, <3>2
  <2>2. ASSUME NEW x \in Ecos PROVE Total(r.db.bal[x]) = Total(s.db.bal[x])
    <3>1. /\ s.db.bal[x] \in [Accounts -> Int] /\ p.db.bal[x] \in [Accounts -> Int]
          /\ r.db.bal[x] \in [Accounts -> Int]
      BY <1>1, <1>2, <1>4 DEF Tables
    <3>2. CASE x # e
      <4>1. \A j \in Accounts : r.db.bal[x][j] = s.db.bal[x][j]
        BY <1>2, <1>4, <3>2
      <4>2. r.db.bal[x] = s.db.bal[x]
        BY <3>1, <4>1
      <4> QED
        BY <4>2
    <3>3. CASE x = e
      <4> DEFINE bs == s.db.bal[x]
                 bp == p.db.bal[x]
                 br == r.db.bal[x]
      <4>1. /\ bs \in [Accounts -> Int] /\ bp \in [Accounts -> Int] /\ br \in [Accounts -> Int]
            /\ bp[to] = bs[to] + sum /\ \A j \in Accounts \ {to} : bp[j] = bs[j]
            /\ br[from] = bp[from] + (0 - sum) /\ \A j \in Accounts \ {from} : br[j] = bp[j]
        BY <1>2, <1>4, <3>1, <3>3
      <4> HIDE DEF bs, bp, br
      <4>2. Total(bs) \in Int /\ Total(bp) = Total(bs) + bp[to] - bs[to]
        BY <4>1, TotalChanges
      <4>3. Total(bp) \in Int /\ Total(br) = Total(bp) + br[from] - bp[from]
        BY <4>1, TotalChanges
      <4>4. bp[to] = bs[to] + sum /\ br[from] = bp[from] + (0 - sum)
            /\ bp[to] \in Int /\ bs[to] \in Int /\ br[from] \in Int /\ bp[from] \in Int
        BY <4>1
      <4>5. Total(br) = Total(bs)
        BY <4>2, <4>3, <4>4
      <4> QED
        BY <4>5 DEF bs, br
    <3> QED
      BY <3>2, <3>3
  <2>3. Money(s.db.bal)
    BY DEF Running
  <2> QED
    BY <2>1, <2>2, <2>3 DEF Money
<1>8. EntryOK(e1) /\ EntryOK(e2)
  <2>1. s.db.bal[e][to] \in Nat
    BY <1>5
  <2>2. p.db.bal[e][from] \in Nat
    <3>1. CASE from = to
      BY <1>5, <3>1
    <3>2. CASE from # to
      BY <1>2, <1>5, <3>2
    <3> QED
      BY <3>1, <3>2
  <2> QED
    BY <2>1, <2>2 DEF EntryOK, AmountEntry, e1, e2
<1>9. LogOK(s.log) /\ Covers(s.log, b0, s.db.bal) /\ IsList(s.log)
  BY DEF Running, LogOK
<1>10. LogOK(p.log) /\ LogOK(r.log) /\ IsList(p.log)
  <2>1. LogOK(p.log)
    BY <1>2, <1>8, <1>9, LogAppend
  <2>2. LogOK(r.log)
    BY <1>4, <1>8, <2>1, LogAppend
  <2> QED
    BY <2>1, <2>2 DEF LogOK
<1>11. Covers(p.log, b0, p.db.bal)
  <2>1. \A x \in Ecos, k \in Accounts : p.db.bal[x][k] = s.db.bal[x][k] \/ Of(e1, x, k)
    BY <1>2 DEF Of, e1, AmountEntry
  <2>2. \A x \in Ecos, k \in Accounts : Of(e1, x, k) => e1[4] = s.db.bal[x][k]
    BY DEF Of, e1, AmountEntry
  <2> DEFINE l == s.log
             c == s.db.bal
             d == p.db.bal
  <2>3. IsList(l) /\ Covers(l, b0, c)
    BY <1>2, <1>9
  <2>4. \A x \in Ecos, k \in Accounts : d[x][k] = c[x][k] \/ Of(e1, x, k)
    BY <2>1
  <2>5. \A x \in Ecos, k \in Accounts : Of(e1, x, k) => e1[4] = c[x][k]
    BY <2>2
  <2> HIDE DEF l, c, d
  <2>6. Covers(Append(l, e1), b0, d)
    BY <2>3, <2>4, <2>5, CoversAppend
  <2> QED
    BY <1>2, <2>6 DEF l, d
<1>12. Covers(r.log, b0, r.db.bal)
  <2>1. \A x \in Ecos, k \in Accounts : r.db.bal[x][k] = p.db.bal[x][k] \/ Of(e2, x, k)
    BY <1>4 DEF Of, e2, AmountEntry
  <2>2. \A x \in Ecos, k \in Accounts : Of(e2, x, k) => e2[4] = p.db.bal[x][k]
    BY DEF Of, e2, AmountEntry
  <2> DEFINE l == p.log
             c == p.db.bal
             d == r.db.bal
  <2>3. IsList(l) /\ Covers(l, b0, c)
    BY <1>4, <1>10, <1>11
  <2>4. \A x \in Ecos, k \in Accounts : d[x][k] = c[x][k] \/ Of(e2, x, k)
    BY <2>1
  <2>5. \A x \in Ecos, k \in Accounts : Of(e2, x, k) => e2[4] = c[x][k]
    BY <2>2
  <2> HIDE DEF l, c, d
  <2>6. Covers(Append(l, e2), b0, d)
    BY <2>3, <2>4, <2>5, CoversAppend
  <2> QED
    BY <1>4, <2>6 DEF l, d
<1> QED
  BY <1>2, <1>4, <1>6, <1>7, <1>10, <1>12 DEF Running

LEMMA MoveRunning ==
    ASSUME NEW s, NEW b0, Running(s, b0), NEW e \in Ecos, NEW from \in Accounts,
           NEW to \in Accounts, NEW sum \in Int
    PROVE  Running(Move(s, e, from, to, sum), b0)
<1>1. Running(Fail(s, "taxes"), b0)
  BY FailRunning
<1> QED
  BY <1>1, MoveFields

-----------------------------------------------------------------------------
(* What the functions of a contract keep.                                    *)

LEMMA FlushBlockObjs ==
    ASSUME NEW m, ObjsOK(m), NEW c, NEW v \in Nat
    PROVE  ObjsOK(FlushBlock(m, c, v))
<1> DEFINE id == IF c \in DOMAIN m.objs THEN m.objs[c].id ELSE Len(m.kids) + 1
           o == With(m.objs, c, [id |-> id, ver |-> v])
<1>1. FlushBlock(m, c, v).objs = o
  BY DEF FlushBlock
<1> HIDE DEF id
<1>2. \A x \in DOMAIN o : o[x].ver \in Nat
  BY DEF With, ObjsOK
<1> QED
  BY <1>1, <1>2 DEF ObjsOK

LEMMA FlushInfoNat ==
    ASSUME NEW m, ObjsOK(m), NEW c
    PROVE  FlushInfo(m, c).info \in Nat
  BY DEF FlushInfo, ObjsOK

LEMMA FlushAppend ==
    ASSUME NEW q, FlushOK(q), NEW f, f.info \in Nat
    PROVE  FlushOK(Append(q, f))
<1>1. Len(q) \in Nat /\ \A i \in 1..Len(q)+1 : i \in 1..Len(q) \/ i = Len(q) + 1
  BY ListFacts DEF FlushOK
<1> QED
  BY <1>1, Appended DEF FlushOK

LEMMA LogRunning ==
    ASSUME NEW s, NEW b0, Running(s, b0), NEW e, EntryOK(e), e[1] # "amount"
    PROVE  LET r == Log(s, e)
           IN  /\ Running(r, b0)
               /\ r.db = s.db /\ r.vm = s.vm /\ r.cache = s.cache /\ r.flush = s.flush
               /\ r.sys = s.sys /\ r.fuel = s.fuel /\ r.err = s.err /\ r.kind = s.kind
               /\ r.log = Append(s.log, e)
<1> DEFINE l == s.log
           b == s.db.bal
           r == Log(s, e)
<1>1. LogOK(l) /\ IsList(l) /\ Covers(l, b0, b) /\ DOMAIN s = Fields
  BY DEF Running, LogOK
<1>2. /\ DOMAIN r = Fields /\ r.log = Append(l, e)
      /\ r.db = s.db /\ r.vm = s.vm /\ r.cache = s.cache /\ r.flush = s.flush
      /\ r.sys = s.sys /\ r.fuel = s.fuel /\ r.err = s.err /\ r.kind = s.kind
  BY <1>1 DEF Log, Fields
<1> HIDE DEF l, r
<1>3. LogOK(Append(l, e))
  BY <1>1, LogAppend
<1>4. Covers(Append(l, e), b0, b)
  <2>1. \A x \in Ecos, k \in Accounts : ~ Of(e, x, k)
    BY DEF Of
  <2> HIDE DEF b
  <2> QED
    BY <1>1, <2>1, CoversAppend
<1>5. Running(r, b0)
  BY <1>2, <1>3, <1>4 DEF Running, b
<1> QED
  BY <1>2, <1>5 DEF l, r

\* Changes of anything but the balances and the log.
LEMMA OtherRunning ==
    ASSUME NEW s, NEW b0, Running(s, b0), NEW r, DOMAIN r = Fields,
           r.db \in Tables, r.db.bal = s.db.bal, r.log = s.log,
           ObjsOK(r.vm), FlushOK(r.flush), r.cache \in Nat, r.fuel \in Nat
    PROVE  Running(r, b0)
  BY DEF Running

LEMMA SrcFacts ==
    ASSUME NEW d \in Tables
    PROVE  /\ d.src \in Seq(Source) /\ Len(d.src) \in Nat
           /\ DOMAIN d.src = 1..Len(d.src)
           /\ \A i \in 1..Len(d.src) : d.src[i] \in Source
  BY DEF Tables

\* The tables a contract writes without moving money.
LEMMA SourceWritten ==
    ASSUME NEW d \in Tables, NEW source \in Seq(Source)
    PROVE  [d EXCEPT !.src = source] \in Tables /\ [d EXCEPT !.src = source].bal = d.bal
  BY DEF Tables

LEMMA RateWritten ==
    ASSUME NEW d \in Tables, NEW rate \in Nat
    PROVE  [d EXCEPT !.rate = rate] \in Tables /\ [d EXCEPT !.rate = rate].bal = d.bal
  BY DEF Tables

LEMMA CreateContractRunning ==
    ASSUME NEW s, NEW b0, Running(s, b0), NEW c \in Names
    PROVE  Running(CreateContract(s, c), b0)
<1> DEFINE id == Len(s.db.src) + 1
           e1 == <<"insert", id>>
           e2 == <<"NewContract", c>>
           u == Log(s, e1)
           t == Log(u, e2)
           row == [name |-> c, ver |-> 1]
           src == Append(s.db.src, row)
           f == FlushInfo(s.vm, c)
           r == [t EXCEPT !.db.src = Append(@, row),
                          !.flush = Append(@, f),
                          !.vm = FlushBlock(@, c, 1)]
           there == c \in DOMAIN s.vm.objs \/ \E i \in DOMAIN s.db.src : s.db.src[i].name = c
<1>1. CreateContract(s, c) = IF there THEN Fail(s, "contract exists") ELSE r
  BY DEF CreateContract
<1>2. s.db \in Tables /\ ObjsOK(s.vm) /\ FlushOK(s.flush) /\ s.cache \in Nat /\ s.fuel \in Nat
  BY DEF Running
<1>3. id \in Nat \ {0}
  BY <1>2, SrcFacts
<1>4. EntryOK(e1) /\ EntryOK(e2) /\ e1[1] # "amount" /\ e2[1] # "amount"
  BY <1>3 DEF EntryOK
<1> HIDE DEF e1, e2
<1>5. Running(u, b0) /\ u.db = s.db /\ u.vm = s.vm /\ u.flush = s.flush /\ u.cache = s.cache
      /\ u.fuel = s.fuel
  BY <1>4, LogRunning
<1> HIDE DEF u
<1>6. Running(t, b0) /\ t.db = s.db /\ t.vm = s.vm /\ t.flush = s.flush /\ t.cache = s.cache
      /\ t.fuel = s.fuel
  BY <1>4, <1>5, LogRunning
<1> HIDE DEF t, f
<1>7. FlushOK(Append(s.flush, f)) /\ ObjsOK(FlushBlock(s.vm, c, 1))
  <2>1. f.info \in Nat
    BY <1>2, FlushInfoNat DEF f
  <2> QED
    BY <1>2, <2>1, FlushAppend, FlushBlockObjs
<1>8. src \in Seq(Source)
  <2>1. row \in Source
    BY DEF Source
  <2> HIDE DEF row
  <2> QED
    BY <1>2, <2>1, SrcFacts, AppendProperties
<1>9. DOMAIN t = Fields
  BY <1>6 DEF Running
<1>10. /\ DOMAIN r = Fields /\ r.db = [s.db EXCEPT !.src = src] /\ r.log = t.log
       /\ r.vm = FlushBlock(s.vm, c, 1) /\ r.flush = Append(s.flush, f)
       /\ r.cache = s.cache /\ r.fuel = s.fuel
  BY <1>6, <1>9 DEF Fields
<1> HIDE DEF src, row
<1>11. r.db \in Tables /\ r.db.bal = s.db.bal
  <2> HIDE DEF r
  <2> QED
    BY <1>2, <1>8, <1>10, SourceWritten
<1> HIDE DEF r
<1>12. Running(r, b0)
  BY <1>2, <1>6, <1>7, <1>10, <1>11, OtherRunning
<1> QED
  BY <1>1, <1>12, FailRunning

LEMMA UpdateContractRunning ==
    ASSUME NEW s, NEW b0, Running(s, b0), NEW c \in Names
    PROVE  Running(UpdateContract(s, c), b0)
<1> DEFINE ids == {i \in DOMAIN s.db.src : s.db.src[i].name = c}
           id == CHOOSE i \in ids : TRUE
           v == s.db.src[id].ver + 1
           e1 == <<"EditContract", id>>
           e2 == <<"value", id, s.db.src[id].ver>>
           u == Log(s, e1)
           t == Log(u, e2)
           src == [s.db.src EXCEPT ![id] = [@ EXCEPT !.ver = v]]
           f == FlushInfo(s.vm, c)
           r == [t EXCEPT !.db.src[id].ver = v,
                          !.flush = Append(@, f),
                          !.vm = FlushBlock(@, c, v)]
<1>1. UpdateContract(s, c) = IF ids = {} THEN Fail(s, "no contract") ELSE r
  BY DEF UpdateContract
<1>0. Running(Fail(s, "no contract"), b0)
  BY FailRunning
<1> SUFFICES ASSUME ids # {} PROVE Running(r, b0)
  <2> HIDE DEF ids, r
  <2> QED
    BY <1>0, <1>1
<1>2. s.db \in Tables /\ ObjsOK(s.vm) /\ FlushOK(s.flush) /\ s.cache \in Nat /\ s.fuel \in Nat
  BY DEF Running
<1>3. id \in DOMAIN s.db.src
  OBVIOUS
<1> HIDE DEF id
<1>4. /\ id \in Nat \ {0} /\ id \in 1..Len(s.db.src) /\ s.db.src[id] \in Source
      /\ v \in Nat /\ s.db.src[id].ver \in Nat
  <2>1. id \in 1..Len(s.db.src) /\ s.db.src[id] \in Source /\ Len(s.db.src) \in Nat
    BY <1>2, <1>3, SrcFacts
  <2> DEFINE row == s.db.src[id]
  <2>2. row \in Source
    BY <2>1
  <2> HIDE DEF row
  <2>3. row.ver \in Nat
    BY <2>2 DEF Source
  <2> QED
    BY <2>1, <2>3 DEF row
<1>5. EntryOK(e1) /\ EntryOK(e2) /\ e1[1] # "amount" /\ e2[1] # "amount"
  BY <1>4 DEF EntryOK
<1> HIDE DEF e1, e2
<1>6. Running(u, b0) /\ u.db = s.db /\ u.vm = s.vm /\ u.flush = s.flush /\ u.cache = s.cache
      /\ u.fuel = s.fuel
  BY <1>5, LogRunning
<1> HIDE DEF u
<1>7. Running(t, b0) /\ t.db = s.db /\ t.vm = s.vm /\ t.flush = s.flush /\ t.cache = s.cache
      /\ t.fuel = s.fuel
  BY <1>5, <1>6, LogRunning
<1> HIDE DEF t, f
<1>8. FlushOK(Append(s.flush, f)) /\ ObjsOK(FlushBlock(s.vm, c, v))
  <2>1. f.info \in Nat
    BY <1>2, FlushInfoNat DEF f
  <2> QED
    BY <1>2, <1>4, <2>1, FlushAppend, FlushBlockObjs
<1>9. src \in Seq(Source)
  <2>1. [s.db.src[id] EXCEPT !.ver = v] \in Source
    BY <1>4 DEF Source
  <2>2. src = [s.db.src EXCEPT ![id] = [s.db.src[id] EXCEPT !.ver = v]]
    OBVIOUS
  <2> HIDE DEF v
  <2> QED
    BY <1>2, <1>4, <2>1, <2>2, SrcFacts
<1>10. DOMAIN t = Fields
  BY <1>7 DEF Running
<1>11. /\ DOMAIN r = Fields /\ r.db = [s.db EXCEPT !.src = src] /\ r.log = t.log
       /\ r.vm = FlushBlock(s.vm, c, v) /\ r.flush = Append(s.flush, f)
       /\ r.cache = s.cache /\ r.fuel = s.fuel
  <2> HIDE DEF v
  <2> QED
    BY <1>7, <1>10 DEF Fields
<1> HIDE DEF src
<1>12. r.db \in Tables /\ r.db.bal = s.db.bal
  <2> HIDE DEF r
  <2> QED
    BY <1>2, <1>9, <1>11, SourceWritten
<1> HIDE DEF r
<1> QED
  BY <1>2, <1>7, <1>8, <1>11, <1>12, OtherRunning

LEMMA UpdateSysParamRunning ==
    ASSUME NEW s, NEW b0, Running(s, b0), NEW rate \in Nat
    PROVE  Running(UpdateSysParam(s, rate), b0)
<1> DEFINE e == <<"rate", s.db.rate>>
           t == Log(s, e)
           r == [t EXCEPT !.db.rate = rate, !.cache = rate, !.sys = TRUE]
<1>1. UpdateSysParam(s, rate) = r
  BY DEF UpdateSysParam
<1>2. s.db \in Tables /\ ObjsOK(s.vm) /\ FlushOK(s.flush) /\ s.cache \in Nat /\ s.fuel \in Nat
  BY DEF Running
<1>3. EntryOK(e) /\ e[1] # "amount"
  BY <1>2 DEF EntryOK, Tables
<1> HIDE DEF e
<1>4. Running(t, b0) /\ t.db = s.db /\ t.vm = s.vm /\ t.flush = s.flush /\ t.fuel = s.fuel
  BY <1>3, LogRunning
<1> HIDE DEF t
<1>5. DOMAIN t = Fields
  BY <1>4 DEF Running
<1>6. /\ DOMAIN r = Fields /\ r.db = [s.db EXCEPT !.rate = rate] /\ r.log = t.log
      /\ r.vm = s.vm /\ r.flush = s.flush /\ r.cache = rate /\ r.fuel = s.fuel
  BY <1>4, <1>5 DEF Fields
<1>7. r.db \in Tables /\ r.db.bal = s.db.bal
  <2> HIDE DEF r
  <2> QED
    BY <1>2, <1>6, RateWritten
<1> HIDE DEF r
<1>8. Running(r, b0)
  BY <1>2, <1>4, <1>6, <1>7, OtherRunning
<1> QED
  BY <1>1, <1>8

LEMMA CreateColumnRunning ==
    ASSUME NEW s, NEW b0, Running(s, b0)
    PROVE  Running(CreateColumn(s), b0)
<1> DEFINE e == <<"NewColumn">>
           t == Log(s, e)
           r == [t EXCEPT !.db.column = TRUE]
<1>1. CreateColumn(s) = IF s.db.column THEN Fail(s, "column exists") ELSE r
  BY DEF CreateColumn
<1>2. s.db \in Tables /\ ObjsOK(s.vm) /\ FlushOK(s.flush) /\ s.cache \in Nat /\ s.fuel \in Nat
  BY DEF Running
<1>3. EntryOK(e) /\ e[1] # "amount"
  BY DEF EntryOK
<1> HIDE DEF e
<1>4. Running(t, b0) /\ t.db = s.db /\ t.vm = s.vm /\ t.flush = s.flush /\ t.fuel = s.fuel
      /\ t.cache = s.cache
  BY <1>3, LogRunning
<1> HIDE DEF t
<1>5. DOMAIN t = Fields
  BY <1>4 DEF Running
<1>6. /\ DOMAIN r = Fields /\ r.db = [s.db EXCEPT !.column = TRUE] /\ r.log = t.log
      /\ r.vm = s.vm /\ r.flush = s.flush /\ r.cache = s.cache /\ r.fuel = s.fuel
  BY <1>4, <1>5 DEF Fields
<1>7. r.db \in Tables /\ r.db.bal = s.db.bal
  <2> DEFINE d == [s.db EXCEPT !.column = TRUE]
  <2>1. DOMAIN s.db = {"bal", "src", "rate", "column", "row"}
    BY <1>2 DEF Tables
  <2>2. d \in [bal : {s.db.bal}, src : {s.db.src}, rate : {s.db.rate}, column : {TRUE},
               row : {s.db.row}]
    BY <1>2, <2>1, Zenon DEF Tables
  <2>3. d \in Tables /\ d.bal = s.db.bal
    BY <1>2, <2>2 DEF Tables
  <2> QED
    BY <1>6, <2>3
<1> HIDE DEF r
<1>8. Running(r, b0)
  BY <1>2, <1>4, <1>6, <1>7, OtherRunning
<1> QED
  BY <1>1, <1>8, FailRunning

LEMMA CallOtherRunning ==
    ASSUME NEW s, NEW b0, Running(s, b0), NEW c
    PROVE  Running(CallOther(s, c), b0)
<1> DEFINE e == <<"row", s.db.row>>
           t == Log(s, e)
           v == s.vm.objs[c].ver
           r == [t EXCEPT !.db.row = v]
<1>1. CallOther(s, c) = IF c \notin DOMAIN s.vm.objs THEN Fail(s, "unknown contract") ELSE r
  BY DEF CallOther
<1> SUFFICES ASSUME c \in DOMAIN s.vm.objs PROVE Running(r, b0)
  BY <1>1, FailRunning
<1>2. s.db \in Tables /\ ObjsOK(s.vm) /\ FlushOK(s.flush) /\ s.cache \in Nat /\ s.fuel \in Nat
  BY DEF Running
<1>3. EntryOK(e) /\ e[1] # "amount" /\ v \in Nat
  BY <1>2 DEF EntryOK, Tables, ObjsOK
<1> HIDE DEF e, v
<1>4. Running(t, b0) /\ t.db = s.db /\ t.vm = s.vm /\ t.flush = s.flush /\ t.fuel = s.fuel
      /\ t.cache = s.cache
  BY <1>3, LogRunning
<1> HIDE DEF t
<1>5. DOMAIN t = Fields
  BY <1>4 DEF Running
<1>6. /\ DOMAIN r = Fields /\ r.db = [s.db EXCEPT !.row = v] /\ r.log = t.log
      /\ r.vm = s.vm /\ r.flush = s.flush /\ r.cache = s.cache /\ r.fuel = s.fuel
  BY <1>4, <1>5 DEF Fields
<1>7. r.db \in Tables /\ r.db.bal = s.db.bal
  BY <1>2, <1>3, <1>6 DEF Tables
<1> HIDE DEF r
<1> QED
  BY <1>2, <1>4, <1>6, <1>7, OtherRunning

\* One call of a contract.
LEMMA CodeFacts ==
    ASSUME NEW t \in Txs
    PROVE  /\ Len(Code[t]) \in Nat
           /\ \A i \in 1..Len(Code[t]) :
                /\ Code[t][i][1] \in {"create", "edit", "rate", "column", "call", "send", "error"}
                /\ Code[t][i][1] \in {"rate", "send"} => Code[t][i][2] \in Nat
                /\ Code[t][i][2] \in Names
<1> DEFINE q == Code[t]
           S == Range(q)
<1>1. q \in Seq(S)
  BY PlayAssumption
<1>2. \A i \in 1..Len(q) : q[i] \in S
  <2> HIDE DEF S
  <2> QED
    BY <1>1
<1>3. \A op \in S : /\ op[1] \in {"create", "edit", "rate", "column", "call", "send", "error"}
                    /\ op[1] \in {"rate", "send"} => op[2] \in Nat
                    /\ op[2] \in Names
  BY PlayAssumption DEF Names
<1>4. Len(q) \in Nat
  <2> HIDE DEF S
  <2> QED
    BY <1>1
<1> QED
  BY <1>2, <1>3, <1>4

LEMMA ExecRunning ==
    ASSUME NEW s, NEW b0, Running(s, b0), NEW t \in Txs, NEW i \in 1..Len(Code[t])
    PROVE  Running(Exec(s, t, Code[t][i]), b0)
<1> DEFINE op == Code[t][i]
           r == [s EXCEPT !.fuel = @ + 1]
<1>1. /\ op[1] \in {"create", "edit", "rate", "column", "call", "send", "error"}
      /\ op[1] \in {"rate", "send"} => op[2] \in Nat
      /\ op[2] \in Names
  BY CodeFacts
<1> HIDE DEF op
<1>2. Running(r, b0)
  <2>1. /\ DOMAIN s = Fields /\ s.db \in Tables /\ ObjsOK(s.vm) /\ FlushOK(s.flush)
        /\ s.cache \in Nat /\ s.fuel \in Nat
    BY DEF Running
  <2>2. /\ DOMAIN r = Fields /\ r.db = s.db /\ r.log = s.log /\ r.vm = s.vm /\ r.flush = s.flush
        /\ r.cache = s.cache /\ r.fuel = s.fuel + 1
    BY <2>1 DEF Fields
  <2> HIDE DEF r
  <2>3. r.fuel \in Nat
    BY <2>1, <2>2
  <2> QED
    BY <2>1, <2>2, <2>3, OtherRunning
<1>3. 1 \in Ecos /\ Payer[t] \in Accounts /\ Wallet \in Accounts
  BY PlayAssumption
<1> DEFINE e == Exec(s, t, op)
<1>4. s.err # "" => e = s
  BY DEF Exec
<1>5. s.err = "" =>
        /\ op[1] = "create" => e = CreateContract(r, op[2])
        /\ op[1] = "edit"   => e = UpdateContract(r, op[2])
        /\ op[1] = "rate"   => e = UpdateSysParam(r, op[2])
        /\ op[1] = "column" => e = CreateColumn(r)
        /\ op[1] = "call"   => e = CallOther(r, op[2])
        /\ op[1] = "send"   => e = Move(r, 1, Payer[t], Wallet, op[2])
        /\ op[1] = "error"  => e = Fail(r, "error")
  BY DEF Exec
<1> HIDE DEF e, r
<1>6. CASE s.err # ""
  BY <1>4, <1>6 DEF e, op
<1>7. CASE s.err = ""
  <2>1. CASE op[1] = "create"
    BY <1>1, <1>2, <1>5, <1>7, <2>1, CreateContractRunning DEF e, op
  <2>2. CASE op[1] = "edit"
    BY <1>1, <1>2, <1>5, <1>7, <2>2, UpdateContractRunning DEF e, op
  <2>3. CASE op[1] = "rate"
    BY <1>1, <1>2, <1>5, <1>7, <2>3, UpdateSysParamRunning DEF e, op
  <2>4. CASE op[1] = "column"
    BY <1>2, <1>5, <1>7, <2>4, CreateColumnRunning DEF e, op
  <2>5. CASE op[1] = "call"
    BY <1>2, <1>5, <1>7, <2>5, CallOtherRunning DEF e, op
  <2>6. CASE op[1] = "send"
    <3>1. op[2] \in Int
      BY <1>1, <2>6
    <3>2. Running(Move(r, 1, Payer[t], Wallet, op[2]), b0)
      BY <1>2, <1>3, <3>1, MoveRunning
    <3> QED
      BY <1>5, <1>7, <2>6, <3>2 DEF e, op
  <2>7. CASE op[1] = "error"
    BY <1>2, <1>5, <1>7, <2>7, FailRunning DEF e, op
  <2> QED
    BY <1>1, <2>1, <2>2, <2>3, <2>4, <2>5, <2>6, <2>7
<1> QED
  BY <1>6, <1>7

-----------------------------------------------------------------------------
(* Runs, payments and the ways back, one call, payment or entry at a time.   *)
(* The functions that define them exist, whatever their values are.          *)

Calling(run, s, t, n) ==
    run = [i \in 0..n |-> IF i = 0 THEN s ELSE Exec(run[i-1], t, Code[t][i])]

LEMMA VMRunExists ==
    ASSUME NEW s, NEW t, NEW n \in Nat
    PROVE  \E run : Calling(run, s, t, n)
<1> DEFINE F(x, i) == Exec(x, t, Code[t][i])
           Is(f, m) == f = [i \in 0..m |-> IF i = 0 THEN s ELSE F(f[i-1], i)]
           P == {m \in 0..n : \E f : Is(f, m)}
<1> HIDE DEF F
<1>1. 0 \in P
  <2> DEFINE f == [i \in 0..0 |-> s]
  <2>1. Is(f, 0)
    OBVIOUS
  <2> HIDE DEF f
  <2> QED
    BY <2>1
<1>2. ASSUME NEW m \in 0..n-1, m \in P PROVE m + 1 \in P
  <2>1. PICK f : Is(f, m)
    BY <1>2
  <2> DEFINE g == [i \in 0..m+1 |-> IF i = m + 1 THEN F(f[m], m + 1) ELSE f[i]]
  <2>2. /\ m + 1 # 0 /\ m + 1 \in 0..m+1 /\ (m + 1) - 1 = m /\ m \in 0..m+1 /\ m # m + 1
        /\ \A i \in 0..m+1 : i = m + 1 \/ i \in 0..m
        /\ \A i \in 0..m : i # m + 1 /\ (i # 0 => i - 1 \in 0..m+1 /\ i - 1 # m + 1)
    OBVIOUS
  <2>3. g[m+1] = F(g[m], m + 1) /\ \A i \in 0..m : g[i] = f[i]
    BY <2>2
  <2>4. \A i \in 0..m : f[i] = IF i = 0 THEN s ELSE F(f[i-1], i)
    BY <2>1
  <2>5. \A i \in 0..m+1 : g[i] = IF i = 0 THEN s ELSE F(g[i-1], i)
    <3> TAKE i \in 0..m+1
    <3>1. CASE i = m + 1
      BY <2>2, <2>3, <3>1
    <3>2. CASE i \in 0..m
      <4>1. g[i] = f[i] /\ (i # 0 => i - 1 \in 0..m)
        BY <2>3, <3>2
      <4>2. i # 0 => g[i-1] = f[i-1]
        BY <2>3, <4>1
      <4> QED
        BY <2>4, <3>2, <4>1, <4>2
    <3> QED
      BY <2>2, <3>1, <3>2
  <2>6. Is(g, m + 1)
    <3>1. g = [i \in 0..m+1 |-> g[i]]
      OBVIOUS
    <3> HIDE DEF g
    <3> QED
      BY <2>5, <3>1
  <2> HIDE DEF Is, g
  <2>7. m + 1 \in 0..n
    OBVIOUS
  <2> QED
    BY <2>6, <2>7
<1> HIDE DEF P, Is
<1>3. n \in P
  BY <1>1, <1>2, UpTo
<1> QED
  BY <1>3 DEF P, Is, F, Calling

Refuelled(s, n) == [s EXCEPT !.fuel = n]

\* The states of a run, and what becomes of the last one.
RunSteps(run, s, t, n) ==
    run[0] = s /\ \A i \in 1..n : run[i] = Exec(run[i-1], t, Code[t][i])
RunEnds(end, out, fuel) ==
    \E cut : /\ cut = end \/ cut = Fail(end, "time limit")
             /\ (out = cut /\ cut.err = "") \/ out = Refuelled(cut, fuel)

LEMMA VMRunSteps ==
    ASSUME NEW s, NEW t, NEW n \in Nat
    PROVE  \E run : RunSteps(run, s, t, n) /\ RunEnds(run[n], VMRun(s, t, n), s.fuel)
<1> DEFINE run == CHOOSE g : Calling(g, s, t, n)
           end == run[n]
           cut == IF n < Len(Code[t]) /\ end.err = "" THEN Fail(end, "time limit") ELSE end
<1>1. Calling(run, s, t, n)
  BY VMRunExists
<1>2. VMRun(s, t, n) = IF cut.err = "" THEN cut ELSE Refuelled(cut, s.fuel)
  BY DEF VMRun, Refuelled, Calling
<1> HIDE DEF run
<1>3. RunSteps(run, s, t, n)
  BY <1>1 DEF RunSteps, Calling
<1>4. cut = end \/ cut = Fail(end, "time limit")
  <2> DEFINE late == n < Len(Code[t]) /\ end.err = ""
             f == Fail(end, "time limit")
  <2>1. cut = IF late THEN f ELSE end
    BY DEF cut
  <2> HIDE DEF late, f, cut, end
  <2>2. cut = end \/ cut = f
    BY <2>1
  <2> QED
    BY <2>2 DEF f
<1> DEFINE out == VMRun(s, t, n)
           more == Refuelled(cut, s.fuel)
<1>5. (out = cut /\ cut.err = "") \/ out = more
  <2>1. out = IF cut.err = "" THEN cut ELSE more
    BY <1>2
  <2> HIDE DEF out, more, cut
  <2> QED
    BY <2>1
<1> HIDE DEF cut
<1>6. RunEnds(end, out, s.fuel)
  BY <1>4, <1>5 DEF RunEnds
<1> QED
  BY <1>3, <1>6

LEMMA RefuelledRunning ==
    ASSUME NEW s, NEW b0, Running(s, b0), NEW n \in Nat
    PROVE  Running(Refuelled(s, n), b0)
<1> DEFINE r == Refuelled(s, n)
<1>1. /\ DOMAIN s = Fields /\ s.db \in Tables /\ ObjsOK(s.vm) /\ FlushOK(s.flush)
      /\ s.cache \in Nat
  BY DEF Running
<1>2. /\ DOMAIN r = Fields /\ r.db = s.db /\ r.log = s.log /\ r.vm = s.vm /\ r.flush = s.flush
      /\ r.cache = s.cache /\ r.fuel = n
  BY <1>1 DEF Fields, Refuelled
<1> HIDE DEF r
<1>3. Running(r, b0)
  BY <1>1, <1>2, OtherRunning
<1> QED
  BY <1>3 DEF r

LEMMA VMRunRunning ==
    ASSUME NEW s, NEW b0, Running(s, b0), NEW t \in Txs, NEW n \in 0..Len(Code[t])
    PROVE  Running(VMRun(s, t, n), b0)
<1>1. Len(Code[t]) \in Nat /\ n \in Nat
  BY CodeFacts
<1>2. PICK run : RunSteps(run, s, t, n) /\ RunEnds(run[n], VMRun(s, t, n), s.fuel)
  BY <1>1, VMRunSteps
<1> DEFINE P == {i \in 0..n : Running(run[i], b0)}
<1>3. 0 \in P
  BY <1>1, <1>2 DEF RunSteps
<1>4. ASSUME NEW i \in 0..n-1, i \in P PROVE i + 1 \in P
  <2>1. i + 1 \in 1..n /\ (i + 1) - 1 = i /\ i + 1 \in 1..Len(Code[t]) /\ i + 1 \in 0..n
    BY <1>1
  <2>2. run[i+1] = Exec(run[i], t, Code[t][i+1])
    BY <1>2, <2>1 DEF RunSteps
  <2>3. Running(run[i], b0)
    BY <1>4
  <2>4. Running(Exec(run[i], t, Code[t][i+1]), b0)
    BY <2>1, <2>3, ExecRunning
  <2> QED
    BY <2>1, <2>2, <2>4
<1> HIDE DEF P
<1>5. n \in P
  BY <1>1, <1>3, <1>4, UpTo
<1>6. Running(run[n], b0)
  BY <1>5 DEF P
<1> DEFINE out == VMRun(s, t, n)
           fuel == s.fuel
           end == run[n]
<1>7. PICK cut : /\ cut = end \/ cut = Fail(end, "time limit")
                 /\ (out = cut /\ cut.err = "") \/ out = Refuelled(cut, fuel)
  BY <1>2 DEF RunEnds
<1>8. fuel \in Nat /\ Running(end, b0)
  BY <1>6 DEF Running
<1> HIDE DEF out, end, fuel
<1>9. Running(cut, b0)
  BY <1>7, <1>8, FailRunning
<1>10. Running(out, b0)
  BY <1>7, <1>8, <1>9, RefuelledRunning
<1> QED
  BY <1>10 DEF out

Paying(run, s, t, n, ecos, money, amount, key) ==
    run = [i \in 0..n |-> IF i = 0 THEN s ELSE PayOne(run[i-1], t, ecos[i], money[i], amount, key)]

LEMMA PayingExists ==
    ASSUME NEW s, NEW t, NEW ecos, NEW money, NEW amount, NEW key, NEW n \in Nat
    PROVE  \E run : Paying(run, s, t, n, ecos, money, amount, key)
<1> DEFINE F(x, i) == PayOne(x, t, ecos[i], money[i], amount, key)
           Is(f, m) == f = [i \in 0..m |-> IF i = 0 THEN s ELSE F(f[i-1], i)]
           P == {m \in 0..n : \E f : Is(f, m)}
<1> HIDE DEF F
<1>1. 0 \in P
  <2> DEFINE f == [i \in 0..0 |-> s]
  <2>1. Is(f, 0)
    OBVIOUS
  <2> HIDE DEF f
  <2> QED
    BY <2>1
<1>2. ASSUME NEW m \in 0..n-1, m \in P PROVE m + 1 \in P
  <2>1. PICK f : Is(f, m)
    BY <1>2
  <2> DEFINE g == [i \in 0..m+1 |-> IF i = m + 1 THEN F(f[m], m + 1) ELSE f[i]]
  <2>2. /\ m + 1 # 0 /\ m + 1 \in 0..m+1 /\ (m + 1) - 1 = m /\ m \in 0..m+1 /\ m # m + 1
        /\ \A i \in 0..m+1 : i = m + 1 \/ i \in 0..m
        /\ \A i \in 0..m : i # m + 1 /\ (i # 0 => i - 1 \in 0..m+1 /\ i - 1 # m + 1)
    OBVIOUS
  <2>3. g[m+1] = F(g[m], m + 1) /\ \A i \in 0..m : g[i] = f[i]
    BY <2>2
  <2>4. \A i \in 0..m : f[i] = IF i = 0 THEN s ELSE F(f[i-1], i)
    BY <2>1
  <2>5. \A i \in 0..m+1 : g[i] = IF i = 0 THEN s ELSE F(g[i-1], i)
    <3> TAKE i \in 0..m+1
    <3>1. CASE i = m + 1
      BY <2>2, <2>3, <3>1
    <3>2. CASE i \in 0..m
      <4>1. g[i] = f[i] /\ (i # 0 => i - 1 \in 0..m)
        BY <2>3, <3>2
      <4>2. i # 0 => g[i-1] = f[i-1]
        BY <2>3, <4>1
      <4> QED
        BY <2>4, <3>2, <4>1, <4>2
    <3> QED
      BY <2>2, <3>1, <3>2
  <2>6. Is(g, m + 1)
    <3>1. g = [i \in 0..m+1 |-> g[i]]
      OBVIOUS
    <3> HIDE DEF g
    <3> QED
      BY <2>5, <3>1
  <2> HIDE DEF Is, g
  <2>7. m + 1 \in 0..n
    OBVIOUS
  <2> QED
    BY <2>6, <2>7
<1> HIDE DEF P, Is
<1>3. n \in P
  BY <1>1, <1>2, UpTo
<1> QED
  BY <1>3 DEF P, Is, F, Paying

\* One payment after the other.
PaySteps(run, s, t, n, ecos, money, amount, key) ==
    run[0] = s /\ \A i \in 1..n : run[i] = PayOne(run[i-1], t, ecos[i], money[i], amount, key)

\* What the tokens are to pay, one after the other.
Bills(fuel, t, pay, fine) == [i \in 1..Len(pay.ecos) |-> Bill(fuel, t, pay.ecos, i, fine) * pay.rate]

LEMMA PayContractSteps ==
    ASSUME NEW s, NEW t, NEW pay, NEW key, NEW fine, Len(pay.ecos) \in Nat
    PROVE  LET amount == [e \in Ecos |-> pay.bal[e][Payer[t]]]
               money == Bills(s.fuel, t, pay, fine)
           IN  \E run : /\ PaySteps(run, s, t, Len(pay.ecos), pay.ecos, money, amount, key)
                        /\ PayContract(s, t, pay, key, fine) = run[Len(pay.ecos)]
<1> DEFINE n == Len(pay.ecos)
           money == Bills(s.fuel, t, pay, fine)
           amount == [e \in Ecos |-> pay.bal[e][Payer[t]]]
           ecos == pay.ecos
           run == CHOOSE g : Paying(g, s, t, n, ecos, money, amount, key)
<1>1. PayContract(s, t, pay, key, fine) = run[n]
  BY DEF PayContract, Paying, Bills
<1> HIDE DEF n, money, amount, ecos
<1>2. n \in Nat
  BY DEF n
<1>3. Paying(run, s, t, n, ecos, money, amount, key)
  BY <1>2, PayingExists
<1> HIDE DEF run
<1>4. PaySteps(run, s, t, n, ecos, money, amount, key)
  BY <1>2, <1>3 DEF PaySteps, Paying
<1> QED
  BY <1>1, <1>4 DEF n, money, amount, ecos

LEMMA PayOneRunning ==
    ASSUME NEW s, NEW b0, Running(s, b0), NEW t \in Txs, NEW e \in Ecos, NEW money \in Nat,
           NEW amount, NEW key \in Accounts
    PROVE  Running(PayOne(s, t, e, money, amount, key), b0)
<1> DEFINE taxes == (money * TaxesSize) \div 100
           paid == Move(s, e, Payer[t], key, money - taxes)
           more == Move(paid, e, Payer[t], Wallet, taxes)
           f == Fail(s, "taxes")
           poor == amount[e] < money
           r == PayOne(s, t, e, money, amount, key)
<1>1. r = IF s.err # "" THEN s ELSE IF poor THEN f ELSE IF paid.err # "" THEN paid ELSE more
  BY DEF PayOne
<1>2. taxes \in Int /\ money - taxes \in Int
  <2>1. TaxesSize \in Nat
    BY PlayAssumption
  <2> DEFINE m == money * TaxesSize
  <2>2. m \in Int
    BY <2>1
  <2> HIDE DEF m
  <2>3. m \div 100 \in Int
    BY <2>2
  <2>4. taxes \in Int
    BY <2>3 DEF m
  <2> HIDE DEF taxes
  <2> QED
    BY <2>4
<1> HIDE DEF taxes
<1>3. Payer[t] \in Accounts /\ Wallet \in Accounts
  BY PlayAssumption
<1>4. Running(paid, b0)
  BY <1>2, <1>3, MoveRunning
<1> HIDE DEF paid
<1>5. Running(more, b0)
  BY <1>2, <1>3, <1>4, MoveRunning
<1>6. Running(f, b0)
  BY FailRunning
<1> HIDE DEF r, more, f, poor
<1>7. Running(r, b0)
  BY <1>1, <1>4, <1>5, <1>6
<1> QED
  BY <1>7 DEF r

\* Whom a contract is paid by, and in which tokens.
PayOK(pay, t) ==
    /\ Len(pay.ecos) \in Nat /\ \A i \in 1..Len(pay.ecos) : pay.ecos[i] \in Ecos
    /\ pay.rate \in Nat

\* No bill is negative.
LEMMA BillNat ==
    ASSUME NEW t \in Txs, NEW ecos, NEW i, NEW fuel \in Nat, NEW fine
    PROVE  /\ Bill(fuel, t, ecos, i, fine) \in Nat
           /\ Bill(fuel, t, ecos, i, TRUE) <= fuel + Storage[t]
<1> DEFINE x == StorageFuel(t, ecos, i)
           y == NewElementFuel(t, ecos, i)
           z == IF fine THEN 0 ELSE y
<1>1. Storage[t] \in Nat /\ Price[t] \in Nat
  BY PlayAssumption
<1>2. x \in Nat /\ x <= Storage[t] /\ y \in Nat
  BY <1>1 DEF StorageFuel, NewElementFuel
<1> HIDE DEF x, y
<1>3. z \in Nat
  BY <1>2
<1>4. Bill(fuel, t, ecos, i, fine) = fuel + x + z /\ Bill(fuel, t, ecos, i, TRUE) = fuel + x + 0
  BY DEF Bill, x, y
<1> HIDE DEF z
<1>5. fuel + x + z \in Nat /\ fuel + x + 0 <= fuel + Storage[t]
  BY <1>1, <1>2, <1>3
<1> QED
  BY ONLY <1>4, <1>5, Zenon

LEMMA BillsNat ==
    ASSUME NEW t \in Txs, NEW pay, PayOK(pay, t), NEW fuel \in Nat, NEW fine
    PROVE  \A i \in 1..Len(pay.ecos) : Bills(fuel, t, pay, fine)[i] \in Nat
<1> TAKE i \in 1..Len(pay.ecos)
<1> DEFINE b == Bill(fuel, t, pay.ecos, i, fine)
<1>1. b \in Nat /\ pay.rate \in Nat
  BY BillNat DEF PayOK
<1>2. Bills(fuel, t, pay, fine)[i] = b * pay.rate
  BY DEF Bills
<1> HIDE DEF b
<1> QED
  BY <1>1, <1>2

LEMMA PayContractRunning ==
    ASSUME NEW s, NEW b0, Running(s, b0), NEW t \in Txs, NEW pay, PayOK(pay, t),
           NEW key \in Accounts, NEW fine
    PROVE  Running(PayContract(s, t, pay, key, fine), b0)
<1> DEFINE n == Len(pay.ecos)
           money == Bills(s.fuel, t, pay, fine)
           amount == [e \in Ecos |-> pay.bal[e][Payer[t]]]
           ecos == pay.ecos
           out == PayContract(s, t, pay, key, fine)
<1>1. n \in Nat /\ (\A i \in 1..n : ecos[i] \in Ecos)
  BY DEF PayOK
<1>2. \A i \in 1..n : money[i] \in Nat
  <2>1. s.fuel \in Nat
    BY DEF Running
  <2> QED
    BY <2>1, BillsNat
<1>3. \E run : PaySteps(run, s, t, n, ecos, money, amount, key) /\ out = run[n]
  BY <1>1, PayContractSteps
<1> HIDE DEF n, money, amount, ecos, out
<1>4. PICK run : PaySteps(run, s, t, n, ecos, money, amount, key) /\ out = run[n]
  BY <1>3
<1> DEFINE P == {i \in 0..n : Running(run[i], b0)}
<1>5. 0 \in P
  BY <1>1, <1>4 DEF PaySteps
<1>6. ASSUME NEW i \in 0..n-1, i \in P PROVE i + 1 \in P
  <2>1. i + 1 \in 1..n /\ (i + 1) - 1 = i /\ i + 1 \in 0..n
    BY <1>1
  <2> DEFINE e == ecos[i+1]
             x == run[i]
             m == money[i+1]
  <2>2. run[i+1] = PayOne(x, t, e, m, amount, key) /\ e \in Ecos /\ m \in Nat
    BY <1>1, <1>2, <1>4, <2>1 DEF PaySteps
  <2>3. Running(x, b0)
    BY <1>6
  <2> HIDE DEF e, x, m
  <2>4. Running(PayOne(x, t, e, m, amount, key), b0)
    BY <2>2, <2>3, PayOneRunning
  <2> QED
    BY <2>1, <2>2, <2>4
<1> HIDE DEF P
<1>7. n \in P
  BY <1>1, <1>5, <1>6, UpTo
<1>8. Running(out, b0)
  BY <1>4, <1>7 DEF P
<1> QED
  BY <1>8 DEF out

\* A transaction with its savepoint and its payment.
LEMMA SavepointRunning ==
    ASSUME NEW s, NEW b0, Running(s, b0), NEW saved, Running(saved, b0), saved.db.bal = b0
    PROVE  Running(RollbackSavepoint(s, saved), b0)
<1> DEFINE r == RollbackSavepoint(s, saved)
           d == saved.db
           l == s.log
<1>1. /\ DOMAIN s = Fields /\ ObjsOK(s.vm) /\ FlushOK(s.flush) /\ LogOK(l)
      /\ s.cache \in Nat /\ s.fuel \in Nat
  BY DEF Running
<1>2. d \in Tables /\ Money(d.bal) /\ d.bal = b0
  BY DEF Running
<1>3. Covers(l, b0, b0)
  <2> DEFINE b == s.db.bal
  <2>1. Covers(l, b0, b)
    BY DEF Running
  <2> HIDE DEF l, b
  <2> QED
    BY <2>1, CoversSaved
<1>4. /\ DOMAIN r = Fields /\ r.db = d /\ r.log = l /\ r.vm = s.vm /\ r.flush = s.flush
      /\ r.cache = s.cache /\ r.fuel = s.fuel
  BY <1>1 DEF RollbackSavepoint, Fields
<1> HIDE DEF r, d, l
<1>5. Running(r, b0)
  BY <1>1, <1>2, <1>3, <1>4 DEF Running
<1> QED
  BY <1>5 DEF r

OfKind(s, k) == [s EXCEPT !.kind = k]

LEMMA KindRunning ==
    ASSUME NEW s, NEW b0, Running(s, b0), NEW k
    PROVE  Running(OfKind(s, k), b0)
<1> DEFINE r == OfKind(s, k)
<1>1. /\ DOMAIN s = Fields /\ s.db \in Tables /\ ObjsOK(s.vm) /\ FlushOK(s.flush)
      /\ s.cache \in Nat /\ s.fuel \in Nat
  BY DEF Running
<1>2. /\ DOMAIN r = Fields /\ r.db = s.db /\ r.log = s.log /\ r.vm = s.vm /\ r.flush = s.flush
      /\ r.cache = s.cache /\ r.fuel = s.fuel
  BY <1>1 DEF Fields, OfKind
<1> HIDE DEF r
<1>3. Running(r, b0)
  BY <1>1, <1>2, OtherRunning
<1> QED
  BY <1>3 DEF r

LEMMA OrdersPay ==
    ASSUME NEW t \in Txs, NEW q \in Orders(Tokens[t])
    PROVE  Len(q) \in Nat /\ \A i \in 1..Len(q) : q[i] \in Tokens[t] /\ q[i] \in Ecos
<1> DEFINE S == Tokens[t]
           n == Cardinality(S)
<1>1. n \in Nat
  BY PlayAssumption, FS_CardinalityType
<1>2. q \in [1..n -> S]
  BY DEF Orders
<1>3. \A e \in S : e \in Ecos
  BY DEF Ecos
<1> HIDE DEF n, S
<1>4. Len(q) = n
  BY <1>1, <1>2
<1>5. \A i \in 1..Len(q) : q[i] \in S /\ q[i] \in Ecos
  BY <1>1, <1>2, <1>3, <1>4
<1> QED
  BY <1>1, <1>4, <1>5 DEF S

LEMMA CallContractRunning ==
    ASSUME NEW s, NEW b0, Running(s, b0), s.db.bal = b0, NEW t \in Txs,
           NEW upto \in 0..Len(Code[t]), NEW ecos \in Orders(Tokens[t]), NEW key \in Accounts
    PROVE  Running(CallContract(s, t, upto, ecos, key), b0)
<1> DEFINE s1 == Refuelled(s, Size[t])
           ready == PrepareMultiPay(s1, t, ecos)
           pay == [bal |-> s.db.bal, rate |-> s.cache, ecos |-> ecos]
           ran == VMRun(ready, t, upto)
           run2 == PayContract(ran, t, pay, key, FALSE)
           paid == IF ran.err = "" THEN run2 ELSE ran
           back == RollbackSavepoint(paid, s)
           fined == PayContract(back, t, pay, key, TRUE)
           free == VMRun(s1, t, upto)
           last == RollbackSavepoint(fined, s)
           k1 == OfKind(free, "ok")
           k2 == OfKind(paid, "ok")
           k3 == OfKind(fined, "failed")
           k4 == OfKind(last, "unpaid")
           c1 == t \in Free
           c2 == t \notin Free /\ ready.err # ""
           c3 == t \notin Free /\ ready.err = "" /\ paid.err = ""
           c4 == t \notin Free /\ ready.err = "" /\ paid.err # "" /\ fined.err = ""
           r == CallContract(s, t, upto, ecos, key)
<1>1. r = CASE c1 -> k1 [] c2 -> ready [] c3 -> k2 [] c4 -> k3 [] OTHER -> k4
  BY DEF CallContract, OfKind, Refuelled
<1> HIDE DEF c1, c2, c3, c4, k1, k2, k3, k4, r
<1>0. r \in {k1, k2, k3, k4, ready}
  <2> HIDE DEF ready
  <2> QED
    BY <1>1
<1>2. Running(s1, b0)
  <2>1. Size[t] \in Nat
    BY PlayAssumption
  <2> QED
    BY <2>1, RefuelledRunning
<1> HIDE DEF s1
<1>3. Running(ready, b0)
  <2> DEFINE f == Fail(s1, "balance")
  <2>1. ready = f \/ ready = s1
    BY DEF PrepareMultiPay
  <2>2. Running(f, b0)
    BY <1>2, FailRunning
  <2> HIDE DEF f, ready
  <2> QED
    BY <1>2, <2>1, <2>2
<1>4. PayOK(pay, t)
  <2>1. s.cache \in Nat
    BY DEF Running
  <2> QED
    BY <2>1, OrdersPay DEF PayOK
<1> HIDE DEF ready, pay
<1>5. Running(free, b0) /\ Running(ran, b0)
  BY <1>2, <1>3, VMRunRunning
<1> HIDE DEF free, ran
<1>6. Running(run2, b0)
  BY <1>4, <1>5, PayContractRunning
<1> HIDE DEF run2
<1>7. Running(paid, b0)
  BY <1>5, <1>6
<1> HIDE DEF paid
<1>8. Running(back, b0)
  BY <1>7, SavepointRunning
<1> HIDE DEF back
<1>9. Running(fined, b0)
  BY <1>4, <1>8, PayContractRunning
<1> HIDE DEF fined
<1>10. Running(last, b0)
  BY <1>9, SavepointRunning
<1> HIDE DEF last
<1>11. Running(k1, b0) /\ Running(k2, b0) /\ Running(k3, b0) /\ Running(k4, b0)
  BY <1>5, <1>7, <1>9, <1>10, KindRunning DEF k1, k2, k3, k4
<1>12. Running(r, b0)
  BY <1>0, <1>3, <1>11
<1> QED
  BY <1>12 DEF r

\* The limits only add an error, and what passes them fits into the block.
LEMMA CheckLimitRunning ==
    ASSUME NEW s, NEW b0, Running(s, b0), NEW used \in Nat,
           NEW late \in BOOLEAN
    PROVE  LET r == CheckLimit(s, used, late)
           IN  Running(r, b0) /\ (r.err = "" => r.fuel + used <= MaxBlockFuel)
<1> DEFINE f1 == Fail(s, "stop")
           f2 == Fail(s, "tx fuel")
           full == used + s.fuel > MaxBlockFuel
           bad == s.err # ""
           f == FuelLimit(s, used)
           r == CheckLimit(s, used, late)
<1>1. (r = s /\ bad) \/ r = f1 \/ r = f
  BY DEF CheckLimit
<1>2. f = f1 \/ f = f2 \/ (f = s /\ ~ full)
  BY DEF FuelLimit
<1>3. Running(f1, b0) /\ Running(f2, b0)
  BY FailRunning
<1>4. DOMAIN s = Fields /\ s.fuel \in Nat /\ MaxBlockFuel \in Nat
  BY PlayAssumption DEF Running
<1>5. f1.err = "stop" /\ f2.err = "tx fuel"
  BY <1>4 DEF Fail, Fields
<1> HIDE DEF r, f, f1, f2, full
<1>6. Running(r, b0)
  BY <1>1, <1>2, <1>3
<1>7. r.err = "" => r.fuel + used <= MaxBlockFuel
  <2>1. r.err = "" => r = s /\ ~ full
    <3>1. CASE r = s /\ bad
      BY <3>1
    <3>2. CASE r = f1 \/ r = f2
      <4>1. r.err = f1.err \/ r.err = f2.err
        BY <3>2
      <4> HIDE DEF bad
      <4> QED
        BY <1>5, <4>1
    <3>3. CASE f = s /\ ~ full /\ r = f
      BY <3>3
    <3> HIDE DEF bad
    <3> QED
      BY <1>1, <1>2, <3>1, <3>2, <3>3
  <2>2. ~ full => s.fuel + used <= MaxBlockFuel
    BY <1>4 DEF full
  <2> QED
    BY <2>1, <2>2
<1> QED
  BY <1>6, <1>7 DEF r

-----------------------------------------------------------------------------
(* Back to what was before: flushes, transactions, blocks.                   *)

Undoing(run, s, n, flush) ==
    run = [i \in 0..n |-> IF i = 0 THEN s ELSE UndoOne(run[i-1], flush[n + 1 - i])]

LEMMA UndoingExists ==
    ASSUME NEW s, NEW flush, NEW n \in Nat
    PROVE  \E run : Undoing(run, s, n, flush)
<1> DEFINE F(x, i) == UndoOne(x, flush[n + 1 - i])
           Is(f, m) == f = [i \in 0..m |-> IF i = 0 THEN s ELSE F(f[i-1], i)]
           P == {m \in 0..n : \E f : Is(f, m)}
<1> HIDE DEF F
<1>1. 0 \in P
  <2> DEFINE f == [i \in 0..0 |-> s]
  <2>1. Is(f, 0)
    OBVIOUS
  <2> HIDE DEF f
  <2> QED
    BY <2>1
<1>2. ASSUME NEW m \in 0..n-1, m \in P PROVE m + 1 \in P
  <2>1. PICK f : Is(f, m)
    BY <1>2
  <2> DEFINE g == [i \in 0..m+1 |-> IF i = m + 1 THEN F(f[m], m + 1) ELSE f[i]]
  <2>2. /\ m + 1 # 0 /\ m + 1 \in 0..m+1 /\ (m + 1) - 1 = m /\ m \in 0..m+1 /\ m # m + 1
        /\ \A i \in 0..m+1 : i = m + 1 \/ i \in 0..m
        /\ \A i \in 0..m : i # m + 1 /\ (i # 0 => i - 1 \in 0..m+1 /\ i - 1 # m + 1)
    OBVIOUS
  <2>3. g[m+1] = F(g[m], m + 1) /\ \A i \in 0..m : g[i] = f[i]
    BY <2>2
  <2>4. \A i \in 0..m : f[i] = IF i = 0 THEN s ELSE F(f[i-1], i)
    BY <2>1
  <2>5. \A i \in 0..m+1 : g[i] = IF i = 0 THEN s ELSE F(g[i-1], i)
    <3> TAKE i \in 0..m+1
    <3>1. CASE i = m + 1
      BY <2>2, <2>3, <3>1
    <3>2. CASE i \in 0..m
      <4>1. g[i] = f[i] /\ (i # 0 => i - 1 \in 0..m)
        BY <2>3, <3>2
      <4>2. i # 0 => g[i-1] = f[i-1]
        BY <2>3, <4>1
      <4> QED
        BY <2>4, <3>2, <4>1, <4>2
    <3> QED
      BY <2>2, <3>1, <3>2
  <2>6. Is(g, m + 1)
    <3>1. g = [i \in 0..m+1 |-> g[i]]
      OBVIOUS
    <3> HIDE DEF g
    <3> QED
      BY <2>5, <3>1
  <2> HIDE DEF Is, g
  <2>7. m + 1 \in 0..n
    OBVIOUS
  <2> QED
    BY <2>6, <2>7
<1> HIDE DEF P, Is
<1>3. n \in P
  BY <1>1, <1>2, UpTo
<1> QED
  BY <1>3 DEF P, Is, F, Undoing

LEMMA UndoOneObjs ==
    ASSUME NEW m, ObjsOK(m), NEW f, f.info \in Nat
    PROVE  ObjsOK(UndoOne(m, f))
<1> DEFINE row == [id |-> f.id, ver |-> f.info]
           o1 == With(m.objs, f.name, row)
           o2 == Without(m.objs, f.name)
           r == UndoOne(m, f)
<1>1. r.objs = o1 \/ r.objs = o2 \/ r = m
  BY DEF UndoOne
<1>2. row.ver \in Nat
  OBVIOUS
<1> HIDE DEF row
<1>3. \A c \in DOMAIN o1 : o1[c].ver \in Nat
  BY <1>2 DEF With, ObjsOK
<1>4. \A c \in DOMAIN o2 : o2[c].ver \in Nat
  BY DEF Without, ObjsOK
<1> HIDE DEF r, o1, o2
<1>5. ObjsOK(r)
  BY <1>1, <1>3, <1>4 DEF ObjsOK
<1> QED
  BY <1>5 DEF r

LEMMA UndoFlushObjs ==
    ASSUME NEW m, ObjsOK(m), NEW flush, FlushOK(flush)
    PROVE  ObjsOK(UndoFlush(m, flush))
<1> DEFINE n == Len(flush)
           run == CHOOSE g : Undoing(g, m, n, flush)
<1>1. UndoFlush(m, flush) = run[n]
  BY DEF UndoFlush, Undoing
<1>2. n \in Nat /\ \A i \in 1..n : flush[i].info \in Nat
  BY ListFacts DEF FlushOK
<1> HIDE DEF n
<1>3. Undoing(run, m, n, flush)
  BY <1>2, UndoingExists
<1> HIDE DEF run
<1>4. run[0] = m /\ \A i \in 1..n : run[i] = UndoOne(run[i-1], flush[n + 1 - i])
  BY <1>2, <1>3 DEF Undoing
<1> DEFINE P == {i \in 0..n : ObjsOK(run[i])}
<1>5. 0 \in P
  BY <1>2, <1>4
<1>6. ASSUME NEW i \in 0..n-1, i \in P PROVE i + 1 \in P
  <2>1. /\ i + 1 \in 1..n /\ (i + 1) - 1 = i /\ i + 1 \in 0..n
        /\ n + 1 - (i + 1) \in 1..n
    BY <1>2
  <2> DEFINE f == flush[n + 1 - (i + 1)]
             x == run[i]
  <2>2. run[i+1] = UndoOne(x, f) /\ f.info \in Nat /\ ObjsOK(x)
    BY <1>2, <1>4, <1>6, <2>1
  <2> HIDE DEF f, x
  <2>3. ObjsOK(UndoOne(x, f))
    BY <2>2, UndoOneObjs
  <2> QED
    BY <2>1, <2>2, <2>3
<1> HIDE DEF P
<1>7. n \in P
  BY <1>2, <1>5, <1>6, UpTo
<1> QED
  BY <1>1, <1>7 DEF P

\* The state of a rollback.
Back(s) == /\ DOMAIN s = {"db", "vm", "err"}
           /\ s.db \in Tables /\ ObjsOK(s.vm)

\* An entry that is taken back changes no other balance than its own.
Restores(e, b, c) ==
    \A x \in Ecos, k \in Accounts :
      /\ Of(e, x, k) => c[x][k] = e[4]
      /\ ~ Of(e, x, k) => c[x][k] = b[x][k]

LEMMA RollbackEntryKeeps ==
    ASSUME NEW s, Back(s), NEW e, EntryOK(e)
    PROVE  LET r == RollbackEntry(s, e)
           IN  /\ Back(r)
               /\ r.err = "" => s.err = ""
               /\ s.err = "" => Restores(e, s.db.bal, r.db.bal)
<1> DEFINE r == RollbackEntry(s, e)
           Kept(y) == Back(y) /\ Restores(e, s.db.bal, y.db.bal)
<1>1. s.err # "" => r = s
  BY DEF RollbackEntry
<1>2. s.err = "" =>
        /\ e[1] = "insert" => r = IF e[2] > Len(s.db.src) THEN s
                                  ELSE [s EXCEPT !.db.src = SubSeq(@, 1, e[2] - 1)]
        /\ e[1] = "value" => r = IF e[2] > Len(s.db.src) THEN s
                                 ELSE [s EXCEPT !.db.src[e[2]].ver = e[3]]
        /\ e[1] = "rate" => r = [s EXCEPT !.db.rate = e[2]]
        /\ e[1] = "row" => r = [s EXCEPT !.db.row = e[2]]
        /\ e[1] = "amount" => r = [s EXCEPT !.db.bal[e[2]][e[3]] = e[4]]
        /\ e[1] = "NewContract" => r = SysRollbackContract(s, e[2])
        /\ e[1] = "EditContract" => r = SysRollbackEditContract(s, e[2])
        /\ e[1] = "NewColumn" => r = IF s.db.column THEN [s EXCEPT !.db.column = FALSE]
                                     ELSE Fail(s, "no column")
  BY DEF RollbackEntry
<1> HIDE DEF r
<1>3. DOMAIN s = {"db", "vm", "err"} /\ s.db \in Tables /\ ObjsOK(s.vm)
  BY DEF Back
<1>4. /\ e[1] \in {"insert", "value", "rate", "row", "amount", "NewContract", "EditContract", "NewColumn"}
      /\ e[1] \in {"insert", "EditContract"} => e[2] \in Nat \ {0}
      /\ e[1] = "value"  => e[2] \in Nat \ {0} /\ e[3] \in Nat
      /\ e[1] \in {"rate", "row"} => e[2] \in Nat
      /\ e[1] = "amount" => e[2] \in Ecos /\ e[3] \in Accounts /\ e[4] \in Nat
  BY DEF EntryOK
<1>5. e[1] # "amount" => \A x \in Ecos, k \in Accounts : ~ Of(e, x, k)
  BY DEF Of
<1>6. ASSUME e[1] # "amount", NEW y, Back(y), y.db.bal = s.db.bal PROVE Kept(y)
  BY <1>5, <1>6 DEF Restores
<1>7. Back(s)
  OBVIOUS
<1>8. Len(s.db.src) \in Nat /\ s.db.src \in Seq(Source)
  BY <1>3, SrcFacts
<1>9. ASSUME s.err = "" PROVE Kept(r)
  <2>1. CASE e[1] = "insert"
    <3> DEFINE src == SubSeq(s.db.src, 1, e[2] - 1)
               y == [s EXCEPT !.db.src = SubSeq(@, 1, e[2] - 1)]
    <3>1. r = s \/ (r = y /\ ~ (e[2] > Len(s.db.src)))
      BY <1>2, <1>9, <2>1
    <3>2. ASSUME ~ (e[2] > Len(s.db.src)) PROVE Back(y) /\ y.db.bal = s.db.bal
      <4>1. src \in Seq(Source)
        <5> DEFINE q == s.db.src
                   m == e[2] - 1
        <5>1. m \in 0..Len(q) /\ q \in Seq(Source) /\ Len(q) \in Nat
          BY <1>4, <1>8, <2>1, <3>2
        <5> HIDE DEF q, m
        <5>2. \A i \in 1..m : q[i] \in Source
          BY <5>1
        <5>3. SubSeq(q, 1, m) \in Seq(Source)
          BY <5>1, <5>2, SubSeqProperties
        <5> QED
          BY <5>3 DEF q, m
      <4> HIDE DEF src
      <4>2. y.db = [s.db EXCEPT !.src = src] /\ DOMAIN y = {"db", "vm", "err"} /\ y.vm = s.vm
        BY <1>3 DEF src
      <4> HIDE DEF y
      <4> QED
        BY <1>3, <4>1, <4>2 DEF Back, Tables
    <3> HIDE DEF y
    <3> QED
      BY <1>6, <1>7, <2>1, <3>1, <3>2
  <2>2. CASE e[1] = "value"
    <3> DEFINE row == [s.db.src[e[2]] EXCEPT !.ver = e[3]]
               src == [s.db.src EXCEPT ![e[2]] = row]
               y == [s EXCEPT !.db.src[e[2]].ver = e[3]]
    <3>1. r = s \/ (r = y /\ ~ (e[2] > Len(s.db.src)))
      BY <1>2, <1>9, <2>2
    <3>2. ASSUME ~ (e[2] > Len(s.db.src)) PROVE Back(y) /\ y.db.bal = s.db.bal
      <4>1. e[2] \in 1..Len(s.db.src)
        BY <1>4, <1>8, <2>2, <3>2
      <4>2. row \in Source
        <5> DEFINE old == s.db.src[e[2]]
        <5>1. old \in Source
          BY <1>8, <4>1
        <5> HIDE DEF old
        <5>2. [old EXCEPT !.ver = e[3]] \in Source
          BY <1>4, <2>2, <5>1 DEF Source
        <5> QED
          BY <5>2 DEF old
      <4>3. y.db = [s.db EXCEPT !.src = src] /\ DOMAIN y = {"db", "vm", "err"} /\ y.vm = s.vm
        BY <1>3
      <4> HIDE DEF row
      <4>4. src \in Seq(Source)
        BY <1>8, <4>1, <4>2
      <4> HIDE DEF y, src
      <4> QED
        BY <1>3, <4>3, <4>4 DEF Back, Tables
    <3> HIDE DEF y
    <3> QED
      BY <1>6, <1>7, <2>2, <3>1, <3>2
  <2>3. CASE e[1] = "rate"
    <3>1. r = [s EXCEPT !.db.rate = e[2]] /\ e[2] \in Nat
      BY <1>2, <1>4, <1>9, <2>3
    <3>2. r.db = [s.db EXCEPT !.rate = e[2]] /\ DOMAIN r = {"db", "vm", "err"} /\ r.vm = s.vm
      BY <1>3, <3>1
    <3>3. Back(r) /\ r.db.bal = s.db.bal
      BY <1>3, <3>1, <3>2 DEF Back, Tables
    <3> QED
      BY <1>6, <2>3, <3>3
  <2>4. CASE e[1] = "row"
    <3>1. r = [s EXCEPT !.db.row = e[2]] /\ e[2] \in Nat
      BY <1>2, <1>4, <1>9, <2>4
    <3>2. r.db = [s.db EXCEPT !.row = e[2]] /\ DOMAIN r = {"db", "vm", "err"} /\ r.vm = s.vm
      BY <1>3, <3>1
    <3>3. Back(r) /\ r.db.bal = s.db.bal
      BY <1>3, <3>1, <3>2 DEF Back, Tables
    <3> QED
      BY <1>6, <2>4, <3>3
  <2>5. CASE e[1] = "amount"
    <3> DEFINE X == e[2]
               K == e[3]
               V == e[4]
               b == s.db.bal
               c == [b EXCEPT ![X][K] = V]
    <3>0. r = [s EXCEPT !.db.bal[e[2]][e[3]] = e[4]]
      BY <1>2, <1>9, <2>5
    <3>1. r = [s EXCEPT !.db.bal[X][K] = V] /\ X \in Ecos /\ K \in Accounts /\ V \in Int
      BY <1>4, <2>5, <3>0
    <3>2. b \in [Ecos -> [Accounts -> Int]]
      BY <1>3 DEF Tables
    <3>3. r.db = [s.db EXCEPT !.bal = c] /\ DOMAIN r = {"db", "vm", "err"} /\ r.vm = s.vm
      BY <1>3, <3>1
    <3>4. \A x \in Ecos, k \in Accounts : Of(e, x, k) <=> x = X /\ k = K
      BY <2>5 DEF Of
    <3> HIDE DEF X, K, V, b
    <3>5. /\ c \in [Ecos -> [Accounts -> Int]]
          /\ \A x \in Ecos, k \in Accounts : c[x][k] = IF x = X /\ k = K THEN V ELSE b[x][k]
      BY <3>1, <3>2
    <3> HIDE DEF c
    <3>6. Back(r) /\ r.db.bal = c
      BY <1>3, <3>3, <3>5 DEF Back, Tables
    <3> QED
      BY <3>4, <3>5, <3>6 DEF V, b, Restores
  <2>6. CASE e[1] = "NewContract"
    <3> DEFINE o == Without(s.vm.objs, e[2])
               m == [objs |-> o, kids |-> SubSeq(s.vm.kids, 1, Len(s.vm.kids) - 1)]
               f == Fail(s, "not the last contract")
               y == [s EXCEPT !.vm = m]
    <3>1. r = s \/ r = f \/ r = y
      <4>1. r = SysRollbackContract(s, e[2])
        BY <1>2, <1>9, <2>6
      <4> QED
        BY <4>1 DEF SysRollbackContract
    <3>2. \A x \in DOMAIN o : o[x].ver \in Nat
      BY <1>3 DEF Without, ObjsOK
    <3>3. ObjsOK(m)
      <4>1. m.objs = o
        OBVIOUS
      <4> HIDE DEF m, o
      <4> QED
        BY <3>2, <4>1 DEF ObjsOK
    <3> HIDE DEF m
    <3>4. Back(f) /\ f.db.bal = s.db.bal
      BY <1>3 DEF Fail, Back
    <3>5. Back(y) /\ y.db.bal = s.db.bal
      BY <1>3, <3>3 DEF Back
    <3> HIDE DEF y, f
    <3> QED
      BY <1>6, <1>7, <2>6, <3>1, <3>4, <3>5
  <2>7. CASE e[1] = "EditContract"
    <3> DEFINE row == s.db.src[e[2]]
               m == FlushBlock(s.vm, row.name, row.ver)
               y == [s EXCEPT !.vm = m]
    <3>1. r = s \/ (r = y /\ ~ (e[2] > Len(s.db.src)))
      <4>1. r = SysRollbackEditContract(s, e[2])
        BY <1>2, <1>9, <2>7
      <4> QED
        BY <4>1 DEF SysRollbackEditContract
    <3>2. ASSUME ~ (e[2] > Len(s.db.src)) PROVE Back(y) /\ y.db.bal = s.db.bal
      <4>1. e[2] \in 1..Len(s.db.src)
        BY <1>4, <1>8, <2>7, <3>2
      <4>2. row \in Source
        BY <1>8, <4>1
      <4> HIDE DEF row
      <4>3. row.ver \in Nat
        BY <4>2 DEF Source
      <4>4. ObjsOK(m)
        BY <1>3, <4>3, FlushBlockObjs
      <4> HIDE DEF m
      <4>5. y.db = s.db /\ y.vm = m /\ DOMAIN y = {"db", "vm", "err"}
        BY <1>3
      <4> HIDE DEF y
      <4> QED
        BY <1>3, <4>4, <4>5 DEF Back
    <3> HIDE DEF y
    <3> QED
      BY <1>6, <1>7, <2>7, <3>1, <3>2
  <2>8. CASE e[1] = "NewColumn"
    <3> DEFINE y == [s EXCEPT !.db.column = FALSE]
               f == Fail(s, "no column")
               d == [s.db EXCEPT !.column = FALSE]
               on == s.db.column
    <3>1. r = y \/ r = f
      <4>1. r = IF on THEN y ELSE f
        BY <1>2, <1>9, <2>8
      <4> HIDE DEF on, y, f
      <4> QED
        BY <4>1
    <3>2. Back(f) /\ f.db.bal = s.db.bal
      BY <1>3 DEF Fail, Back
    <3>3. d \in Tables /\ d.bal = s.db.bal
      <4>1. DOMAIN s.db = {"bal", "src", "rate", "column", "row"}
        BY <1>3 DEF Tables
      <4>2. d \in [bal : {s.db.bal}, src : {s.db.src}, rate : {s.db.rate}, column : {FALSE},
                   row : {s.db.row}]
        BY <1>3, <4>1, Zenon DEF Tables
      <4> QED
        BY <1>3, <4>2 DEF Tables
    <3>4. y.db = d /\ DOMAIN y = {"db", "vm", "err"} /\ y.vm = s.vm
      BY <1>3
    <3> HIDE DEF y, f, d
    <3>5. Back(y) /\ y.db.bal = s.db.bal
      BY <1>3, <3>3, <3>4 DEF Back
    <3> QED
      BY <1>6, <2>8, <3>1, <3>2, <3>5
  <2> QED
    BY <1>4, <2>1, <2>2, <2>3, <2>4, <2>5, <2>6, <2>7, <2>8
<1> QED
  BY <1>1, <1>7, <1>9 DEF r

Backing(run, s, n, log) ==
    run = [i \in 0..n |-> IF i = 0 THEN s ELSE RollbackEntry(run[i-1], log[n + 1 - i])]

LEMMA BackingExists ==
    ASSUME NEW s, NEW log, NEW n \in Nat
    PROVE  \E run : Backing(run, s, n, log)
<1> DEFINE F(x, i) == RollbackEntry(x, log[n + 1 - i])
           Is(f, m) == f = [i \in 0..m |-> IF i = 0 THEN s ELSE F(f[i-1], i)]
           P == {m \in 0..n : \E f : Is(f, m)}
<1> HIDE DEF F
<1>1. 0 \in P
  <2> DEFINE f == [i \in 0..0 |-> s]
  <2>1. Is(f, 0)
    OBVIOUS
  <2> HIDE DEF f
  <2> QED
    BY <2>1
<1>2. ASSUME NEW m \in 0..n-1, m \in P PROVE m + 1 \in P
  <2>1. PICK f : Is(f, m)
    BY <1>2
  <2> DEFINE g == [i \in 0..m+1 |-> IF i = m + 1 THEN F(f[m], m + 1) ELSE f[i]]
  <2>2. /\ m + 1 # 0 /\ m + 1 \in 0..m+1 /\ (m + 1) - 1 = m /\ m \in 0..m+1 /\ m # m + 1
        /\ \A i \in 0..m+1 : i = m + 1 \/ i \in 0..m
        /\ \A i \in 0..m : i # m + 1 /\ (i # 0 => i - 1 \in 0..m+1 /\ i - 1 # m + 1)
    OBVIOUS
  <2>3. g[m+1] = F(g[m], m + 1) /\ \A i \in 0..m : g[i] = f[i]
    BY <2>2
  <2>4. \A i \in 0..m : f[i] = IF i = 0 THEN s ELSE F(f[i-1], i)
    BY <2>1
  <2>5. \A i \in 0..m+1 : g[i] = IF i = 0 THEN s ELSE F(g[i-1], i)
    <3> TAKE i \in 0..m+1
    <3>1. CASE i = m + 1
      BY <2>2, <2>3, <3>1
    <3>2. CASE i \in 0..m
      <4>1. g[i] = f[i] /\ (i # 0 => i - 1 \in 0..m)
        BY <2>3, <3>2
      <4>2. i # 0 => g[i-1] = f[i-1]
        BY <2>3, <4>1
      <4> QED
        BY <2>4, <3>2, <4>1, <4>2
    <3> QED
      BY <2>2, <3>1, <3>2
  <2>6. Is(g, m + 1)
    <3>1. g = [i \in 0..m+1 |-> g[i]]
      OBVIOUS
    <3> HIDE DEF g
    <3> QED
      BY <2>5, <3>1
  <2> HIDE DEF Is, g
  <2>7. m + 1 \in 0..n
    OBVIOUS
  <2> QED
    BY <2>6, <2>7
<1> HIDE DEF P, Is
<1>3. n \in P
  BY <1>1, <1>2, UpTo
<1> QED
  BY <1>3 DEF P, Is, F, Backing

\* When all entries but the first m are taken back, a balance that has none among them is what it was.
Left(log, m, b0, b) ==
    \A x \in Ecos, k \in Accounts :
      (\A j \in 1..m : ~ Of(log[j], x, k)) => b[x][k] = b0[x][k]

Bals == [Ecos -> [Accounts -> Int]]

LEMMA LeftStep ==
    ASSUME NEW log, NEW b0, NEW b1, Covers(log, b0, b1), NEW m \in 1..Len(log), Len(log) \in Nat,
           NEW b, Left(log, m, b0, b), NEW c, Restores(log[m], b, c)
    PROVE  Left(log, m - 1, b0, c)
<1> SUFFICES ASSUME NEW x \in Ecos, NEW k \in Accounts, \A j \in 1..m-1 : ~ Of(log[j], x, k)
             PROVE  c[x][k] = b0[x][k]
  BY DEF Left
<1>1. CASE Of(log[m], x, k)
  <2>1. log[m][4] = b0[x][k]
    BY <1>1 DEF Covers
  <2> QED
    BY <1>1, <2>1 DEF Restores
<1>2. CASE ~ Of(log[m], x, k)
  <2>1. \A j \in 1..m : j \in 1..m-1 \/ j = m
    OBVIOUS
  <2>2. \A j \in 1..m : ~ Of(log[j], x, k)
    BY <1>2, <2>1
  <2> QED
    BY <1>2, <2>2 DEF Left, Restores
<1> QED
  BY <1>1, <1>2

CoversUnlessFailed(log, b0, s) == s.err = "" => Covers(log, b0, s.db.bal)

\* A transaction that is taken back leaves the balances that were there before it.
LEMMA RollbackTransactionKeeps ==
    ASSUME NEW s, Back(s), NEW log, LogOK(log), NEW b0 \in Bals,
           CoversUnlessFailed(log, b0, s)
    PROVE  LET r == RollbackTransaction(s, log)
           IN  Back(r) /\ (r.err = "" => s.err = "" /\ r.db.bal = b0)
<1> DEFINE n == Len(log)
           run == CHOOSE g : Backing(g, s, n, log)
           b1 == s.db.bal
<1>1. RollbackTransaction(s, log) = run[n]
  BY DEF RollbackTransaction, Backing
<1>2. n \in Nat /\ n = Len(log) /\ \A i \in 1..n : EntryOK(log[i])
  BY ListFacts DEF LogOK
<1>0. (s.err = "" => Covers(log, b0, b1)) /\ b1 = s.db.bal
  BY Zenon DEF CoversUnlessFailed
<1> HIDE DEF n, b1
<1>3. Backing(run, s, n, log)
  BY <1>2, BackingExists
<1> HIDE DEF run
<1>4. run[0] = s /\ \A i \in 1..n : run[i] = RollbackEntry(run[i-1], log[n + 1 - i])
  BY SMTT(30), <1>2, <1>3 DEF Backing
<1> DEFINE Good(x, m) == Back(x) /\ (x.err = "" => s.err = "" /\ Left(log, m, b0, x.db.bal))
           P == {i \in 0..n : Good(run[i], n - i)}
<1>5. 0 \in P
  <2>1. s.err = "" => Left(log, n, b0, b1)
    BY <1>0, <1>2 DEF Covers, Left
  <2>2. n - 0 = n /\ 0 \in 0..n
    BY <1>2
  <2> QED
    BY <1>0, <1>4, <2>1, <2>2
<1>6. ASSUME NEW i \in 0..n-1, i \in P PROVE i + 1 \in P
  <2> DEFINE m == n - i
             y == run[i]
             e == log[m]
             r == RollbackEntry(y, e)
             b == y.db.bal
             c == r.db.bal
  <2>1. /\ i + 1 \in 1..n /\ (i + 1) - 1 = i /\ i + 1 \in 0..n
        /\ n + 1 - (i + 1) = n - i /\ n - i \in 1..n /\ n - (i + 1) = (n - i) - 1
    BY <1>2
  <2>2. run[i+1] = r
    BY <1>4, <2>1
  <2>3. EntryOK(e) /\ m \in 1..n
    BY <1>2, <2>1
  <2>4. Back(y) /\ (y.err = "" => s.err = "" /\ Left(log, m, b0, b))
    BY <1>6
  <2> HIDE DEF y, m
  <2>5. /\ Back(r) /\ (r.err = "" => y.err = "")
        /\ y.err = "" => Restores(e, b, c)
    <3> HIDE DEF e
    <3> QED
      BY <2>3, <2>4, RollbackEntryKeeps
  <2> HIDE DEF r, b, c
  <2>6. y.err = "" => Left(log, m - 1, b0, c)
    <3> SUFFICES ASSUME y.err = "" PROVE Left(log, m - 1, b0, c)
      OBVIOUS
    <3>1. Restores(log[m], b, c)
      BY <2>5 DEF e
    <3>2. Left(log, m, b0, b) /\ m \in 1..Len(log) /\ Len(log) \in Nat
          /\ Covers(log, b0, b1)
      BY <1>0, <1>2, <2>3, <2>4
    <3> QED
      BY <3>1, <3>2, LeftStep
  <2>7. Good(r, m - 1)
    BY <2>4, <2>5, <2>6 DEF c
  <2> HIDE DEF Good
  <2> QED
    BY <2>1, <2>2, <2>7 DEF m
<1> HIDE DEF P
<1>7. n \in P
  BY <1>2, <1>5, <1>6, UpTo
<1> DEFINE r == run[n]
<1>8. Back(r) /\ (r.err = "" => s.err = "" /\ Left(log, 0, b0, r.db.bal))
  <2> HIDE DEF Good
  <2>1. n \in P
    BY <1>7
  <2>2. n - n = 0
    BY <1>2
  <2>3. Good(r, n - n)
    BY <2>1 DEF P
  <2>4. Good(r, 0)
    BY <2>2, <2>3
  <2> USE DEF Good
  <2> HIDE DEF r
  <2> QED
    BY <2>4
<1> HIDE DEF r, Good
<1>9. ASSUME r.err = "" PROVE r.db.bal = b0
  <2> DEFINE b == r.db.bal
  <2>1. b \in Bals
    BY <1>8 DEF Back, Tables, Bals
  <2>2. \A x \in Ecos, k \in Accounts : b[x][k] = b0[x][k]
    <3>1. Left(log, 0, b0, b)
      BY <1>8, <1>9
    <3>2. 1..0 = {}
      OBVIOUS
    <3> HIDE DEF b
    <3> QED
      BY <3>1, <3>2 DEF Left
  <2> HIDE DEF b
  <2>3. \A x \in Ecos : b[x] = b0[x]
    BY <2>1, <2>2 DEF Bals
  <2>4. b = b0
    BY <2>1, <2>3 DEF Bals
  <2> QED
    BY <2>4 DEF b
<1> QED
  BY <1>1, <1>8, <1>9 DEF r

\* What a block's transactions did: balances between them that their entries lead from one to the next.
BlockOK(u) == IsList(u) /\ \A i \in 1..Len(u) : u[i].tx \in Txs /\ LogOK(u[i].log)

Chained(g, u, b0, b1) ==
    /\ g[0] = b0 /\ g[Len(u)] = b1
    /\ \A i \in 0..Len(u) : g[i] \in Bals
    /\ \A i \in 1..Len(u) : Covers(u[i].log, g[i-1], g[i])

BlockCovers(u, b0, b1) == \E g : Chained(g, u, b0, b1)

BlockBacking(run, s, n, u) ==
    run = [i \in 0..n |-> IF i = 0 THEN s ELSE RollbackTransaction(run[i-1], u[n + 1 - i].log)]

LEMMA BlockBackingExists ==
    ASSUME NEW s, NEW u, NEW n \in Nat
    PROVE  \E run : BlockBacking(run, s, n, u)
<1> DEFINE F(x, i) == RollbackTransaction(x, u[n + 1 - i].log)
           Is(f, m) == f = [i \in 0..m |-> IF i = 0 THEN s ELSE F(f[i-1], i)]
           P == {m \in 0..n : \E f : Is(f, m)}
<1> HIDE DEF F
<1>1. 0 \in P
  <2> DEFINE f == [i \in 0..0 |-> s]
  <2>1. Is(f, 0)
    OBVIOUS
  <2> HIDE DEF f
  <2> QED
    BY <2>1
<1>2. ASSUME NEW m \in 0..n-1, m \in P PROVE m + 1 \in P
  <2>1. PICK f : Is(f, m)
    BY <1>2
  <2> DEFINE g == [i \in 0..m+1 |-> IF i = m + 1 THEN F(f[m], m + 1) ELSE f[i]]
  <2>2. /\ m + 1 # 0 /\ m + 1 \in 0..m+1 /\ (m + 1) - 1 = m /\ m \in 0..m+1 /\ m # m + 1
        /\ \A i \in 0..m+1 : i = m + 1 \/ i \in 0..m
        /\ \A i \in 0..m : i # m + 1 /\ (i # 0 => i - 1 \in 0..m+1 /\ i - 1 # m + 1)
    OBVIOUS
  <2>3. g[m+1] = F(g[m], m + 1) /\ \A i \in 0..m : g[i] = f[i]
    BY <2>2
  <2>4. \A i \in 0..m : f[i] = IF i = 0 THEN s ELSE F(f[i-1], i)
    BY <2>1
  <2>5. \A i \in 0..m+1 : g[i] = IF i = 0 THEN s ELSE F(g[i-1], i)
    <3> TAKE i \in 0..m+1
    <3>1. CASE i = m + 1
      BY <2>2, <2>3, <3>1
    <3>2. CASE i \in 0..m
      <4>1. g[i] = f[i] /\ (i # 0 => i - 1 \in 0..m)
        BY <2>3, <3>2
      <4>2. i # 0 => g[i-1] = f[i-1]
        BY <2>3, <4>1
      <4> QED
        BY <2>4, <3>2, <4>1, <4>2
    <3> QED
      BY <2>2, <3>1, <3>2
  <2>6. Is(g, m + 1)
    <3>1. g = [i \in 0..m+1 |-> g[i]]
      OBVIOUS
    <3> HIDE DEF g
    <3> QED
      BY <2>5, <3>1
  <2> HIDE DEF Is, g
  <2>7. m + 1 \in 0..n
    OBVIOUS
  <2> QED
    BY <2>6, <2>7
<1> HIDE DEF P, Is
<1>3. n \in P
  BY <1>1, <1>2, UpTo
<1> QED
  BY <1>3 DEF P, Is, F, BlockBacking

\* A block that is taken back leaves the balances that were there before it.
LEMMA RolledBackKeeps ==
    ASSUME NEW s, Back(s), NEW u, BlockOK(u), NEW b0, BlockCovers(u, b0, s.db.bal)
    PROVE  LET r == RolledBack(s, u)
           IN  Back(r) /\ (r.err = "" => r.db.bal = b0)
<1> DEFINE n == Len(u)
           run == CHOOSE g : BlockBacking(g, s, n, u)
           b1 == s.db.bal
<1>1. RolledBack(s, u) = run[n]
  BY DEF RolledBack, BlockBacking
<1>2. n \in Nat /\ n = Len(u) /\ \A i \in 1..n : LogOK(u[i].log)
  BY ListFacts DEF BlockOK
<1>3. b1 = s.db.bal /\ BlockCovers(u, b0, b1)
  OBVIOUS
<1> HIDE DEF n, b1
<1>4. BlockBacking(run, s, n, u)
  BY <1>2, BlockBackingExists
<1> HIDE DEF run
<1>5. run[0] = s /\ \A i \in 1..n : run[i] = RollbackTransaction(run[i-1], u[n + 1 - i].log)
  BY <1>2, <1>4 DEF BlockBacking
<1>6. PICK g : Chained(g, u, b0, b1)
  BY <1>3 DEF BlockCovers
<1>7. /\ g[0] = b0 /\ g[n] = b1 /\ \A i \in 0..n : g[i] \in Bals
      /\ \A i \in 1..n : Covers(u[i].log, g[i-1], g[i])
  BY <1>2, <1>6 DEF Chained
<1> DEFINE Good(x, m) == Back(x) /\ (x.err = "" => x.db.bal = g[m])
           P == {i \in 0..n : Good(run[i], n - i)}
<1>8. 0 \in P
  <2>1. n - 0 = n /\ 0 \in 0..n
    BY <1>2
  <2> QED
    BY <1>3, <1>5, <1>7, <2>1
<1>9. ASSUME NEW i \in 0..n-1, i \in P PROVE i + 1 \in P
  <2> DEFINE m == n - i
             y == run[i]
             log == u[m].log
             r == RollbackTransaction(y, log)
             b == y.db.bal
             c == g[m - 1]
  <2>1. /\ i + 1 \in 1..n /\ (i + 1) - 1 = i /\ i + 1 \in 0..n
        /\ n + 1 - (i + 1) = n - i /\ n - i \in 1..n /\ n - (i + 1) = (n - i) - 1
        /\ n - i - 1 \in 0..n
    BY <1>2
  <2>2. run[i+1] = r
    BY <1>5, <2>1
  <2>3. LogOK(log) /\ c \in Bals /\ Covers(log, c, g[m])
    BY <1>2, <1>7, <2>1
  <2>4. Back(y) /\ (y.err = "" => b = g[m])
    BY <1>9
  <2> HIDE DEF y, m
  <2>5. CoversUnlessFailed(log, c, y)
    BY <2>3, <2>4 DEF CoversUnlessFailed
  <2> HIDE DEF log, c
  <2>6. Back(r) /\ (r.err = "" => r.db.bal = c)
    BY <2>3, <2>4, <2>5, RollbackTransactionKeeps
  <2> HIDE DEF r
  <2>7. Good(r, m - 1)
    BY <2>6 DEF c
  <2> HIDE DEF Good
  <2> QED
    BY <2>1, <2>2, <2>7 DEF m
<1> HIDE DEF P
<1>10. n \in P
  BY <1>2, <1>8, <1>9, UpTo
<1> HIDE DEF Good
<1>11. n - n = 0 /\ Good(run[n], n - n)
  BY <1>2, <1>10 DEF P
<1>12. Good(run[n], 0)
  BY <1>11
<1> DEFINE r == run[n]
<1>13. Back(r) /\ (r.err = "" => r.db.bal = g[0])
  BY <1>12 DEF Good
<1> HIDE DEF r
<1> QED
  BY <1>1, <1>7, <1>13 DEF r

LEMMA BlockCoversEmpty ==
    ASSUME NEW u, Len(u) = 0, NEW b \in Bals
    PROVE  BlockCovers(u, b, b)
<1> DEFINE g == [i \in 0..0 |-> b]
<1>1. g[0] = b
  OBVIOUS
<1> HIDE DEF g
<1>2. /\ g[0] = b /\ g[Len(u)] = b
      /\ \A i \in 0..Len(u) : g[i] \in Bals
      /\ \A i \in 1..Len(u) : FALSE
  BY <1>1
<1>3. Chained(g, u, b, b)
  BY <1>2 DEF Chained
<1> QED
  BY <1>3 DEF BlockCovers

LEMMA BlockCoversAppend ==
    ASSUME NEW u, IsList(u), NEW b0, NEW b1, BlockCovers(u, b0, b1),
           NEW x, NEW b2 \in Bals, Covers(x.log, b1, b2)
    PROVE  BlockCovers(Append(u, x), b0, b2)
<1> DEFINE n == Len(u)
           w == Append(u, x)
<1>1. n \in Nat
  BY ListFacts
<1>2. Len(w) = n + 1 /\ w[n+1] = x /\ \A i \in 1..n : w[i] = u[i]
  BY Appended
<1>3. PICK g : Chained(g, u, b0, b1)
  BY DEF BlockCovers
<1>4. /\ g[0] = b0 /\ g[n] = b1 /\ \A i \in 0..n : g[i] \in Bals
      /\ \A i \in 1..n : Covers(u[i].log, g[i-1], g[i])
  BY <1>3 DEF Chained
<1> HIDE DEF n, w
<1> DEFINE h == [i \in 0..n+1 |-> IF i = n + 1 THEN b2 ELSE g[i]]
<1>5. h[n+1] = b2 /\ \A i \in 0..n : h[i] = g[i]
  BY <1>1
<1> HIDE DEF h
<1>6. \A i \in 0..n+1 : h[i] \in Bals
  <2> TAKE i \in 0..n+1
  <2>1. i = n + 1 \/ i \in 0..n
    BY <1>1
  <2> QED
    BY <1>4, <1>5, <2>1
<1>7. ASSUME NEW i \in 1..n+1 PROVE Covers(w[i].log, h[i-1], h[i])
  <2>1. CASE i = n + 1
    <3>1. i - 1 = n /\ n \in 0..n
      BY <1>1, <2>1
    <3>2. h[i-1] = b1 /\ h[i] = b2 /\ w[i] = x
      BY <1>2, <1>4, <1>5, <2>1, <3>1
    <3> QED
      BY <3>2
  <2>2. CASE i \in 1..n
    <3>1. i - 1 \in 0..n /\ i \in 0..n
      BY <1>1, <2>2
    <3>2. h[i-1] = g[i-1] /\ h[i] = g[i] /\ w[i] = u[i]
      BY <1>2, <1>5, <2>2, <3>1
    <3> QED
      BY <1>4, <2>2, <3>2
  <2>3. i = n + 1 \/ i \in 1..n
    BY <1>1
  <2> QED
    BY <2>1, <2>2, <2>3
<1>8. h[0] = b0 /\ h[n+1] = b2
  BY <1>1, <1>4, <1>5
<1>9. Chained(h, w, b0, b2)
  BY <1>2, <1>6, <1>7, <1>8 DEF Chained
<1> QED
  BY <1>9 DEF BlockCovers, w

\* What a node has played: balances between the blocks that their entries lead from one to the next,
\* each of them with all the money.
BlocksOK(us) == IsList(us) /\ \A i \in 1..Len(us) : BlockOK(us[i])

Past(h, us, b) ==
    /\ h[Len(us)] = b
    /\ \A i \in 0..Len(us) : h[i] \in Bals /\ Money(h[i])
    /\ \A i \in 1..Len(us) : BlockCovers(us[i], h[i-1], h[i])

HistoryOK(us, b) == \E h : Past(h, us, b)

LEMMA HistoryEmpty ==
    ASSUME NEW us, Len(us) = 0, NEW b \in Bals, Money(b)
    PROVE  HistoryOK(us, b)
<1> DEFINE h == [i \in 0..0 |-> b]
<1>1. h[0] = b
  OBVIOUS
<1> HIDE DEF h
<1>2. /\ h[Len(us)] = b
      /\ \A i \in 0..Len(us) : i = 0
      /\ \A i \in 1..Len(us) : FALSE
  BY <1>1
<1>3. \A i \in 0..Len(us) : h[i] \in Bals /\ Money(h[i])
  BY <1>1, <1>2
<1>4. Past(h, us, b)
  BY <1>2, <1>3 DEF Past
<1> QED
  BY <1>4 DEF HistoryOK

LEMMA HistoryAppend ==
    ASSUME NEW us, IsList(us), NEW b1, HistoryOK(us, b1),
           NEW u, NEW b2 \in Bals, Money(b2), BlockCovers(u, b1, b2)
    PROVE  HistoryOK(Append(us, u), b2)
<1> DEFINE n == Len(us)
           w == Append(us, u)
<1>1. n \in Nat
  BY ListFacts
<1>2. Len(w) = n + 1 /\ w[n+1] = u /\ \A i \in 1..n : w[i] = us[i]
  BY Appended
<1>3. PICK g : Past(g, us, b1)
  BY DEF HistoryOK
<1>4. /\ g[n] = b1 /\ \A i \in 0..n : g[i] \in Bals /\ Money(g[i])
      /\ \A i \in 1..n : BlockCovers(us[i], g[i-1], g[i])
  BY <1>3 DEF Past
<1> HIDE DEF n, w
<1> DEFINE h == [i \in 0..n+1 |-> IF i = n + 1 THEN b2 ELSE g[i]]
<1>5. h[n+1] = b2 /\ \A i \in 0..n : h[i] = g[i]
  BY <1>1
<1> HIDE DEF h
<1>6. \A i \in 0..n+1 : h[i] \in Bals /\ Money(h[i])
  <2> TAKE i \in 0..n+1
  <2>1. i = n + 1 \/ i \in 0..n
    BY <1>1
  <2> QED
    BY <1>4, <1>5, <2>1
<1>7. ASSUME NEW i \in 1..n+1 PROVE BlockCovers(w[i], h[i-1], h[i])
  <2>1. CASE i = n + 1
    <3>1. i - 1 = n /\ n \in 0..n
      BY <1>1, <2>1
    <3>2. h[i-1] = b1 /\ h[i] = b2 /\ w[i] = u
      BY <1>2, <1>4, <1>5, <2>1, <3>1
    <3> QED
      BY <3>2
  <2>2. CASE i \in 1..n
    <3>1. i - 1 \in 0..n /\ i \in 0..n
      BY <1>1, <2>2
    <3>2. h[i-1] = g[i-1] /\ h[i] = g[i] /\ w[i] = us[i]
      BY <1>2, <1>5, <2>2, <3>1
    <3> QED
      BY <1>4, <2>2, <3>2
  <2>3. i = n + 1 \/ i \in 1..n
    BY <1>1
  <2> QED
    BY <2>1, <2>2, <2>3
<1>8. Past(h, w, b2)
  BY <1>2, <1>5, <1>6, <1>7 DEF Past
<1> QED
  BY <1>8 DEF HistoryOK, w

LEMMA BlocksAppend ==
    ASSUME NEW us, BlocksOK(us), NEW u, BlockOK(u)
    PROVE  BlocksOK(Append(us, u))
<1>1. Len(us) \in Nat /\ \A i \in 1..Len(us)+1 : i \in 1..Len(us) \/ i = Len(us) + 1
  BY ListFacts DEF BlocksOK
<1> QED
  BY <1>1, Appended DEF BlocksOK

\* The first elements of a list.
LEMMA Shortened ==
    ASSUME NEW q, IsList(q), NEW m \in 0..Len(q)
    PROVE  LET p == SubSeq(q, 1, m)
           IN  IsList(p) /\ Len(p) = m /\ \A i \in 1..m : p[i] = q[i]
<1>1. PICK S : q \in Seq(S)
  BY DEF IsList
<1>2. Len(q) \in Nat /\ \A i \in 1..m : q[i] \in S
  BY <1>1
<1> DEFINE p == SubSeq(q, 1, m)
<1>3. p \in Seq(S) /\ Len(p) = m /\ \A i \in 1..m : p[i] = q[i]
  BY <1>1, <1>2
<1> HIDE DEF p
<1> QED
  BY <1>3 DEF IsList, p

\* The last block of a node, and what was before it.
LEMMA HistoryLast ==
    ASSUME NEW us, BlocksOK(us), NEW b, HistoryOK(us, b), us # <<>>
    PROVE  /\ BlockOK(Last(us)) /\ BlocksOK(Front(us))
           /\ Len(Front(us)) <= Len(us)
           /\ \E b0 : /\ b0 \in Bals /\ Money(b0)
                      /\ BlockCovers(Last(us), b0, b) /\ HistoryOK(Front(us), b0)
<1> DEFINE n == Len(us)
           f == SubSeq(us, 1, n - 1)
<1>1. n \in Nat /\ n # 0
  <2>1. PICK S : us \in Seq(S)
    BY DEF BlocksOK, IsList
  <2> QED
    BY <2>1
<1>2. Last(us) = us[n] /\ Front(us) = f
  BY DEF Last, Front
<1>3. n - 1 \in 0..n /\ n \in 1..n /\ IsList(us) /\ \A i \in 1..n-1 : i \in 1..n /\ i \in 0..n-1 /\ i - 1 \in 0..n-1
  BY <1>1 DEF BlocksOK
<1>4. \A i \in 1..n : BlockOK(us[i])
  BY DEF BlocksOK
<1>5. IsList(f) /\ Len(f) = n - 1 /\ \A i \in 1..n-1 : f[i] = us[i]
  BY <1>3, Shortened
<1>6. PICK h : Past(h, us, b)
  BY DEF HistoryOK
<1>7. /\ h[n] = b /\ \A i \in 0..n : h[i] \in Bals /\ Money(h[i])
      /\ \A i \in 1..n : BlockCovers(us[i], h[i-1], h[i])
  BY <1>6 DEF Past
<1> HIDE DEF n, f
<1>8. BlocksOK(f)
  BY <1>3, <1>4, <1>5 DEF BlocksOK
<1>9. Past(h, f, h[n-1])
  <2>1. \A i \in 0..n-1 : i \in 0..n
    BY <1>1
  <2>2. \A i \in 1..n-1 : BlockCovers(f[i], h[i-1], h[i])
    BY <1>3, <1>5, <1>7
  <2>3. \A i \in 0..n-1 : h[i] \in Bals /\ Money(h[i])
    BY <1>7, <2>1
  <2> QED
    BY <1>5, <2>2, <2>3 DEF Past
<1>10. HistoryOK(f, h[n-1])
  BY <1>9 DEF HistoryOK
<1>11. BlockCovers(us[n], h[n-1], b) /\ h[n-1] \in Bals /\ Money(h[n-1])
  BY <1>1, <1>3, <1>7
<1>12. Len(f) <= n
  BY <1>1, <1>5
<1> QED
  BY <1>2, <1>3, <1>4, <1>8, <1>10, <1>11, <1>12 DEF n

-----------------------------------------------------------------------------
(* The inductive invariant.                                                  *)

\* A node: its tables, compiled contracts, cached rate and blocks, of the `len' that there are.
NodeOK(d, m, c, us, len) ==
    /\ d \in Tables /\ Money(d.bal) /\ ObjsOK(m) /\ c \in Nat
    /\ BlocksOK(us) /\ HistoryOK(us, d.bal) /\ Len(us) <= len

PlayFields == {"on", "node", "gen", "fork", "todo", "key", "db", "fuel", "undo", "start",
               "fair", "fresh", "old", "sys", "first"}

\* The block that is played: what it needs to be well formed, ...
PlayingOK(p) ==
    /\ DOMAIN p = PlayFields /\ p.on = TRUE
    /\ p.node \in Nodes /\ p.key \in Nodes
    /\ p.todo \in Seq(Txs)
    /\ p.db \in Tables /\ Money(p.db.bal)
    /\ BlockOK(p.undo) /\ ObjsOK(p.start)
    /\ p.fuel \in Nat /\ p.fuel <= MaxBlockFuel

\* ... and how it continues its node's blocks.
Continues(p, us, b, len) ==
    /\ BlockCovers(p.undo, b, p.db.bal)
    /\ p.gen => Len(us) = len /\ len < MaxBlocks
    /\ ~ p.gen => Len(us) < len

ChainOK(c) ==
    /\ IsList(c) /\ Len(c) <= MaxBlocks
    /\ \A i \in 1..Len(c) : c[i].by \in Nodes /\ BlockOK(c[i].undo)

Marks ==
    /\ spent \subseteq Txs /\ agrees \subseteq Nodes
    /\ stained \subseteq Nodes \X {"vm", "cache"}
    /\ jammed \subseteq Nodes /\ faults \in 0..MaxFaults

Nodewise ==
    /\ DOMAIN db = Nodes /\ DOMAIN vm = Nodes /\ DOMAIN cache = Nodes /\ DOMAIN undo = Nodes
    /\ \A n \in Nodes : NodeOK(db[n], vm[n], cache[n], undo[n], Len(chain))

PlayInv ==
    \/ play = Idle
    \/ /\ PlayingOK(play)
       /\ Continues(play, undo[play.node], db[play.node].bal, Len(chain))

IInv == Nodewise /\ PlayInv /\ ChainOK(chain) /\ Marks

\* What the next transaction comes to.
LEMMA ResultsFrom ==
    ASSUME IInv, play.on, play.todo # <<>>, NEW r \in Results
    PROVE  LET t == Head(play.todo)
           IN  /\ t \in Txs /\ play.key \in Accounts /\ play.fuel \in Nat
               /\ Running(Begun, play.db.bal) /\ Begun.db = play.db
               /\ \E i \in 0..Len(Code[t]), late \in BOOLEAN, q \in Orders(Tokens[t]) :
                    r = CheckLimit(CallContract(Begun, t, i, q, play.key), play.fuel, late)
<1> DEFINE n == play.node
           t == Head(play.todo)
           b == play.db.bal
           used == play.fuel
           key == play.key
           s == [db |-> play.db, vm |-> vm[n], cache |-> cache[n], log |-> <<>>, flush |-> <<>>,
                 sys |-> FALSE, fuel |-> 0, err |-> "", kind |-> "error"]
<1>1. PlayingOK(play)
  BY DEF IInv, PlayInv, Idle
<1>2. /\ n \in Nodes /\ key \in Accounts /\ play.todo \in Seq(Txs) /\ play.db \in Tables
      /\ Money(b) /\ used \in Nat
  BY <1>1, PlayAssumption DEF PlayingOK
<1>3. t \in Txs
  BY <1>2
<1>4. ObjsOK(vm[n]) /\ cache[n] \in Nat
  BY <1>2 DEF IInv, Nodewise, NodeOK
<1>5. \E i \in 0..Len(Code[t]), late \in BOOLEAN, q \in Orders(Tokens[t]) :
        r = CheckLimit(CallContract(s, t, i, q, key), used, late)
  <2> DEFINE all == Len(Code[t])
             heavy == play.gen /\ t \in Heavy
  <2>1. all \in Nat
    BY <1>3, CodeFacts
  <2>2. PICK run \in Runs(t), q \in Orders(Tokens[t]) :
          r = CheckLimit(CallContract(Begun, t, run[1], q, key), used, run[2])
    BY DEF Results
  <2>3. Runs(t) = {<<all, FALSE>>} \cup IF heavy THEN {<<i, TRUE>> : i \in 0..all} ELSE {}
    BY DEF Runs
  <2>4. s = Begun
    BY DEF Begun
  <2> HIDE DEF heavy, s, t, all
  <2>5. run[1] \in 0..all /\ run[2] \in BOOLEAN
    <3> DEFINE cut == {<<i, TRUE>> : i \in 0..all}
    <3>1. run \in {<<all, FALSE>>} \/ run \in cut
      <4> HIDE DEF cut
      <4> QED
        BY <2>2, <2>3 DEF cut
    <3>2. CASE run = <<all, FALSE>>
      BY <2>1, <3>2
    <3>3. CASE run \in cut
      <4>1. PICK i \in 0..all : run = <<i, TRUE>>
        BY <3>3
      <4> QED
        BY <4>1
    <3> HIDE DEF cut
    <3> QED
      BY <3>1, <3>2, <3>3
  <2> DEFINE i0 == run[1]
             l0 == run[2]
  <2>6. i0 \in 0..Len(Code[t]) /\ l0 \in BOOLEAN /\ q \in Orders(Tokens[t])
    BY <2>2, <2>5 DEF all
  <2>7. r = CheckLimit(CallContract(s, t, i0, q, key), used, l0)
    BY <2>2, <2>4
  <2> HIDE DEF i0, l0
  <2> QED
    BY <2>6, <2>7, Zenon
<1>6. Running(s, b) /\ s.db = play.db
  <2>1. /\ DOMAIN s = Fields /\ s.db = play.db /\ s.vm = vm[n] /\ s.cache = cache[n]
        /\ s.log = <<>> /\ s.flush = <<>> /\ s.fuel = 0
    BY DEF Fields
  <2>2. IsList(<<>>) /\ Len(<<>>) = 0
    <3>1. <<>> \in Seq({}) /\ Len(<<>>) = 0
      OBVIOUS
    <3> QED
      BY <3>1 DEF IsList
  <2> DEFINE l == s.log
  <2>3. IsList(l) /\ Len(l) = 0 /\ \A j \in 1..Len(l) : FALSE
    BY <2>1, <2>2
  <2>4. l = s.log /\ l = s.flush
    BY <2>1
  <2> HIDE DEF s, l
  <2>5. LogOK(l) /\ FlushOK(l)
    BY <2>3 DEF LogOK, FlushOK
  <2>6. Covers(l, b, b)
    BY <2>3 DEF Covers
  <2> QED
    BY <1>2, <1>4, <2>1, <2>4, <2>5, <2>6 DEF Running
<1>7. s = Begun
  BY DEF Begun
<1> HIDE DEF s
<1> QED
  BY <1>2, <1>3, <1>5, <1>6, <1>7 DEF b, t, used, key

LEMMA ResultsRunning ==
    ASSUME IInv, play.on, play.todo # <<>>, NEW r \in Results
    PROVE  /\ Running(r, play.db.bal) /\ Head(play.todo) \in Txs
           /\ r.err = "" => r.fuel + play.fuel <= MaxBlockFuel
<1> DEFINE t == Head(play.todo)
           b == play.db.bal
           used == play.fuel
           key == play.key
<1>1. /\ t \in Txs /\ key \in Accounts /\ used \in Nat
      /\ Running(Begun, b) /\ Begun.db.bal = b
      /\ \E i \in 0..Len(Code[t]), late \in BOOLEAN, q \in Orders(Tokens[t]) :
           r = CheckLimit(CallContract(Begun, t, i, q, key), used, late)
  BY ResultsFrom
<1> HIDE DEF t, b, used, key
<1>2. PICK i \in 0..Len(Code[t]), late \in BOOLEAN, q \in Orders(Tokens[t]) :
        r = CheckLimit(CallContract(Begun, t, i, q, key), used, late)
  BY <1>1
<1> DEFINE c == CallContract(Begun, t, i, q, key)
<1>3. Running(c, b)
  BY <1>1, CallContractRunning
<1>4. r = CheckLimit(c, used, late)
  BY <1>2
<1> HIDE DEF c
<1>5. Running(r, b) /\ (r.err = "" => r.fuel + used <= MaxBlockFuel)
  BY <1>1, <1>3, <1>4, CheckLimitRunning
<1> QED
  BY <1>1, <1>5 DEF b, t, used

\* The memory of the nodes, which changes without their tables and blocks.
Memories ==
    /\ DOMAIN vm = Nodes /\ DOMAIN cache = Nodes
    /\ \A n \in Nodes : ObjsOK(vm[n]) /\ cache[n] \in Nat

LEMMA MemoriesOK ==
    ASSUME Nodewise
    PROVE  Memories
  BY DEF Nodewise, NodeOK, Memories

LEMMA MemoriesNodewise ==
    ASSUME Nodewise, Memories', UNCHANGED <<db, undo, chain>>
    PROVE  Nodewise'
<1>1. ASSUME NEW n \in Nodes PROVE NodeOK(db[n], vm'[n], cache'[n], undo[n], Len(chain))
  BY DEF Nodewise, NodeOK, Memories
<1> QED
  BY <1>1 DEF Nodewise, Memories

LEMMA MemoryChanged ==
    ASSUME Memories, NEW n \in Nodes, NEW m, ObjsOK(m), NEW c \in Nat,
           vm' = [vm EXCEPT ![n] = m], cache' = [cache EXCEPT ![n] = c]
    PROVE  Memories'
<1>1. \A x \in Nodes : (vm'[x] = vm[x] \/ vm'[x] = m) /\ (cache'[x] = cache[x] \/ cache'[x] = c)
  BY DEF Memories
<1>2. DOMAIN vm' = Nodes /\ DOMAIN cache' = Nodes
  BY DEF Memories
<1>3. ASSUME NEW x \in Nodes PROVE ObjsOK(vm'[x]) /\ cache'[x] \in Nat
  BY <1>1 DEF Memories
<1> QED
  BY <1>2, <1>3 DEF Memories

LEMMA GapsOK ==
    ASSUME NEW n \in Nodes, NEW flushed, NEW read
    PROVE  Gaps(n, flushed, read) \subseteq Nodes \X {"vm", "cache"}
<1> DEFINE a == IF flushed THEN {<<n, "vm">>} ELSE {}
           b == IF read THEN {<<n, "cache">>} ELSE {}
<1>1. Gaps(n, flushed, read) = a \cup b
  BY DEF Gaps
<1>2. a \subseteq {<<n, "vm">>} /\ b \subseteq {<<n, "cache">>}
  OBVIOUS
<1>3. <<n, "vm">> \in Nodes \X {"vm", "cache"} /\ <<n, "cache">> \in Nodes \X {"vm", "cache"}
  OBVIOUS
<1> HIDE DEF a, b
<1> QED
  BY <1>1, <1>2, <1>3

\* The block goes on, with what it has and fewer transactions to come.
LEMMA PlayShorter ==
    ASSUME NEW p, PlayingOK(p), NEW q, DOMAIN q = PlayFields,
           q.on = p.on, q.node = p.node, q.key = p.key, q.gen = p.gen, q.db = p.db,
           q.undo = p.undo, q.start = p.start, q.fuel = p.fuel, q.todo \in Seq(Txs),
           NEW us, NEW b, NEW len, Continues(p, us, b, len)
    PROVE  PlayingOK(q) /\ Continues(q, us, b, len)
  BY DEF PlayingOK, Continues

\* What is true whenever a transaction is played.
LEMMA Played ==
    ASSUME IInv, play.on, play.todo # <<>>
    PROVE  /\ PlayingOK(play) /\ DOMAIN play = PlayFields
           /\ play.node \in Nodes /\ Memories
           /\ Continues(play, undo[play.node], db[play.node].bal, Len(chain))
           /\ Tail(play.todo) \in Seq(Txs) /\ Head(play.todo) \in Txs
           /\ play.db.rate \in Nat
<1>1. /\ PlayingOK(play)
      /\ Continues(play, undo[play.node], db[play.node].bal, Len(chain))
  BY DEF IInv, PlayInv, Idle
<1>2. play.node \in Nodes /\ DOMAIN play = PlayFields /\ play.todo \in Seq(Txs) /\ play.db \in Tables
  BY <1>1 DEF PlayingOK
<1>3. play.db.rate \in Nat
  BY <1>2 DEF Tables
<1> QED
  BY <1>1, <1>2, <1>3, MemoriesOK DEF IInv

LEMMA KeepKeeps ==
    ASSUME IInv, play.on, play.todo # <<>>, NEW r \in Results, Keep(r)
    PROVE  IInv'
<1> DEFINE n == play.node
           b0 == db[n].bal
           b1 == play.db.bal
           b2 == r.db.bal
           u == play.undo
           done == [tx |-> Head(play.todo), log |-> r.log, kind |-> r.kind]
           len == Len(chain)
<1>1. /\ Running(r, b1) /\ r.err = "" /\ r.fuel + play.fuel <= MaxBlockFuel
  BY ResultsRunning DEF Keep
<1>2. /\ r.db \in Tables /\ Money(b2) /\ ObjsOK(r.vm) /\ r.cache \in Nat /\ r.fuel \in Nat
      /\ LogOK(r.log) /\ Covers(r.log, b1, b2)
  BY <1>1 DEF Running
<1>3. /\ PlayingOK(play) /\ DOMAIN play = PlayFields /\ n \in Nodes /\ Memories
      /\ Continues(play, undo[n], b0, len)
      /\ Tail(play.todo) \in Seq(Txs) /\ Head(play.todo) \in Txs
  BY Played
<1>4. Memories'
  BY <1>2, <1>3, MemoryChanged DEF Keep
<1>5. Nodewise'
  BY <1>4, MemoriesNodewise DEF IInv, Keep
<1>6. /\ DOMAIN play' = PlayFields
      /\ play'.on = play.on /\ play'.node = n /\ play'.key = play.key /\ play'.gen = play.gen
      /\ play'.start = play.start
      /\ play'.todo = Tail(play.todo) /\ play'.db = r.db /\ play'.fuel = play.fuel + r.fuel
      /\ play'.undo = Append(u, done)
  BY <1>3 DEF Keep, PlayFields
<1>7. /\ done.tx = Head(play.todo) /\ done.log = r.log
  OBVIOUS
<1>8. IsList(u) /\ BlockOK(u) /\ play.fuel \in Nat
  BY <1>3 DEF PlayingOK, BlockOK
<1> HIDE DEF done, n, u
<1>9. BlockOK(Append(u, done))
  <2>1. Len(u) \in Nat /\ \A i \in 1..Len(u)+1 : i \in 1..Len(u) \/ i = Len(u) + 1
    BY <1>8, ListFacts
  <2>2. done.tx \in Txs /\ LogOK(done.log)
    BY <1>2, <1>3, <1>7
  <2> QED
    BY <1>8, <2>1, <2>2, Appended DEF BlockOK
<1>10. BlockCovers(Append(u, done), b0, b2)
  <2>1. BlockCovers(u, b0, b1)
    BY <1>3 DEF Continues, u
  <2>2. b2 \in Bals /\ Covers(done.log, b1, b2)
    BY <1>2, <1>7 DEF Tables, Bals
  <2> HIDE DEF b0, b1, b2
  <2> QED
    BY <1>8, <2>1, <2>2, BlockCoversAppend
<1>11. PlayingOK(play')
  <2>1. play'.fuel \in Nat /\ play'.fuel <= MaxBlockFuel
    <3> DEFINE x == play.fuel
               y == r.fuel
               z == play'.fuel
    <3>1. x \in Nat /\ y \in Nat /\ y + x <= MaxBlockFuel /\ z = x + y
      BY <1>1, <1>2, <1>6, <1>8
    <3>2. MaxBlockFuel \in Nat
      BY PlayAssumption
    <3> HIDE DEF x, y, z
    <3>3. z \in Nat /\ z <= MaxBlockFuel
      BY <3>1, <3>2
    <3> QED
      BY <3>3 DEF z
  <2> QED
    BY <1>2, <1>3, <1>6, <1>9, <2>1 DEF PlayingOK
<1>12. Continues(play', undo[n], b0, len)
  BY <1>3, <1>6, <1>10 DEF Continues
<1>13. PlayInv'
  BY <1>6, <1>11, <1>12 DEF PlayInv, Keep
<1>14. Marks'
  BY <1>3, GapsOK DEF IInv, Marks, Keep, n
<1>15. ChainOK(chain')
  BY DEF IInv, Keep
<1> QED
  BY <1>5, <1>13, <1>14, <1>15 DEF IInv

\* The memory after a transaction that ended with an error.
LEMMA TakenBack ==
    ASSUME IInv, play.on, play.todo # <<>>, NEW r \in Results
    PROVE  /\ ObjsOK(UndoFlush(r.vm, r.flush)) /\ r.cache \in Nat
           /\ (IF r.sys THEN play.db.rate ELSE r.cache) \in Nat
<1>1. ObjsOK(r.vm) /\ FlushOK(r.flush) /\ r.cache \in Nat
  BY ResultsRunning DEF Running
<1>2. play.db.rate \in Nat
  BY Played
<1> QED
  BY <1>1, <1>2, UndoFlushObjs

LEMMA SkipKeeps ==
    ASSUME IInv, play.on, play.todo # <<>>, NEW r \in Results, Skip(r)
    PROVE  IInv'
<1> DEFINE n == play.node
           b == db[n].bal
           m == UndoFlush(r.vm, r.flush)
           c == IF r.sys THEN play.db.rate ELSE r.cache
<1>1. /\ PlayingOK(play) /\ DOMAIN play = PlayFields /\ n \in Nodes /\ Memories
      /\ Continues(play, undo[n], b, Len(chain))
      /\ Tail(play.todo) \in Seq(Txs) /\ Head(play.todo) \in Txs
  BY Played
<1>2. ObjsOK(m) /\ c \in Nat
  BY TakenBack
<1>3. vm' = [vm EXCEPT ![n] = m] /\ cache' = [cache EXCEPT ![n] = c]
  BY DEF Skip, TakeBack
<1>4. Memories'
  <2> HIDE DEF m, c, n
  <2> QED
    BY <1>1, <1>2, <1>3, MemoryChanged
<1>5. Nodewise'
  BY <1>4, MemoriesNodewise DEF IInv, Skip
<1>6. /\ DOMAIN play' = PlayFields
      /\ play'.on = play.on /\ play'.node = n /\ play'.key = play.key /\ play'.gen = play.gen
      /\ play'.start = play.start /\ play'.db = play.db /\ play'.fuel = play.fuel
      /\ play'.undo = play.undo /\ play'.todo = Tail(play.todo)
  BY <1>1 DEF Skip, PlayFields
<1>7. PlayingOK(play') /\ Continues(play', undo[n], b, Len(chain))
  BY <1>1, <1>6, PlayShorter
<1>8. PlayInv'
  BY <1>6, <1>7 DEF PlayInv, Skip
<1>9. Marks'
  BY <1>1 DEF IInv, Marks, Skip
<1>10. ChainOK(chain')
  BY DEF IInv, Skip
<1> QED
  BY <1>5, <1>8, <1>9, <1>10 DEF IInv

LEMMA StopKeeps ==
    ASSUME IInv, play.on, play.todo # <<>>, NEW r \in Results, Stop(r)
    PROVE  IInv'
<1> DEFINE n == play.node
           b == db[n].bal
           m == UndoFlush(r.vm, r.flush)
           c == r.cache
           p == [play EXCEPT !.todo = <<>>]
           some == play.first
<1>1. /\ PlayingOK(play) /\ DOMAIN play = PlayFields /\ n \in Nodes /\ Memories
      /\ Continues(play, undo[n], b, Len(chain)) /\ Head(play.todo) \in Txs
  BY Played
<1>2. ObjsOK(m) /\ c \in Nat
  BY TakenBack
<1>3. vm' = [vm EXCEPT ![n] = m] /\ cache' = [cache EXCEPT ![n] = c]
  BY DEF Stop
<1>4. Memories'
  <2> HIDE DEF m, c, n
  <2> QED
    BY <1>1, <1>2, <1>3, MemoryChanged
<1>5. Nodewise'
  BY <1>4, MemoriesNodewise DEF IInv, Stop
<1>6. /\ DOMAIN p = PlayFields
      /\ p.on = play.on /\ p.node = n /\ p.key = play.key /\ p.gen = play.gen
      /\ p.start = play.start /\ p.db = play.db /\ p.fuel = play.fuel
      /\ p.undo = play.undo /\ p.todo = <<>>
  BY <1>1 DEF PlayFields
<1>7. <<>> \in Seq(Txs)
  OBVIOUS
<1>8. play' = IF some THEN Idle ELSE p
  BY DEF Stop
<1> HIDE DEF p, some
<1>9. PlayingOK(p) /\ Continues(p, undo[n], b, Len(chain))
  BY <1>1, <1>6, <1>7, PlayShorter
<1>10. PlayInv'
  <2>1. play' = Idle \/ play' = p
    BY <1>8
  <2> QED
    BY <1>6, <1>9, <2>1 DEF PlayInv, Stop
<1>11. Marks'
  BY <1>1, GapsOK DEF IInv, Marks, Stop
<1>12. ChainOK(chain')
  BY DEF IInv, Stop
<1> QED
  BY <1>5, <1>10, <1>11, <1>12 DEF IInv

\* A block that is left leaves a memory that is well formed.
LEMMA LeaveKeeps ==
    ASSUME IInv, play.on, PlayingOK(play), NEW m, ObjsOK(m), Leave(m),
           NEW c \in Nat, cache' = [cache EXCEPT ![play.node] = c],
           faults' \in 0..MaxFaults
    PROVE  IInv'
<1> DEFINE n == play.node
           o == IF play.fork THEN RollbackSmartVMObjects(m, play.start) ELSE m
           lost == IF play.fork THEN play.old ELSE play.old \/ play.fresh
<1>1. n \in Nodes /\ ObjsOK(play.start) /\ Memories
  BY MemoriesOK DEF IInv, PlayingOK
<1>2. ObjsOK(o)
  <2> DEFINE k == RollbackSmartVMObjects(m, play.start)
  <2>1. ObjsOK(k)
    <3>1. k.objs = play.start.objs
      BY DEF RollbackSmartVMObjects
    <3> HIDE DEF k
    <3> QED
      BY <1>1, <3>1 DEF ObjsOK
  <2>2. o = k \/ o = m
    OBVIOUS
  <2> HIDE DEF k, o
  <2> QED
    BY <2>1, <2>2
<1>3. vm' = [vm EXCEPT ![n] = o] /\ stained' = stained \cup Gaps(n, lost, play.sys)
  BY DEF Leave
<1> HIDE DEF o, n, lost
<1>4. Memories'
  BY <1>1, <1>2, <1>3, MemoryChanged DEF n
<1>5. Nodewise'
  BY <1>4, MemoriesNodewise DEF IInv, Leave
<1>6. PlayInv'
  BY DEF PlayInv, Leave
<1>7. Marks'
  BY <1>1, <1>3, GapsOK DEF IInv, Marks, Leave
<1>8. ChainOK(chain')
  BY DEF IInv, Leave
<1> QED
  BY <1>5, <1>6, <1>7, <1>8 DEF IInv

LEMMA RejectKeeps ==
    ASSUME IInv, play.on, play.todo # <<>>, NEW r \in Results, Reject(r)
    PROVE  IInv'
<1> DEFINE m == UndoFlush(r.vm, r.flush)
           c == IF r.sys THEN play.db.rate ELSE r.cache
<1>1. PlayingOK(play)
  BY Played
<1>2. ObjsOK(m) /\ c \in Nat
  BY TakenBack
<1>3. Leave(m) /\ cache' = [cache EXCEPT ![play.node] = c] /\ faults' \in 0..MaxFaults
  BY DEF Reject, IInv, Marks
<1> HIDE DEF m, c
<1> QED
  BY <1>1, <1>2, <1>3, LeaveKeeps

LEMMA DropKeeps ==
    ASSUME IInv, Drop
    PROVE  IInv'
<1> DEFINE n == play.node
           m == vm[n]
           both == play.fork /\ play.sys
           c == IF both THEN play.db.rate ELSE cache[n]
<1>1. PlayingOK(play) /\ play.on
  BY DEF IInv, PlayInv, Idle, Drop
<1>2. n \in Nodes /\ play.db \in Tables /\ Memories
  BY <1>1, MemoriesOK DEF PlayingOK, IInv
<1>3. ObjsOK(m) /\ cache[n] \in Nat /\ play.db.rate \in Nat
  BY <1>2 DEF Memories, Tables
<1>4. c \in Nat
  BY <1>3
<1>5. Leave(m) /\ cache' = [cache EXCEPT ![n] = c]
  BY DEF Drop
<1>6. faults' \in 0..MaxFaults
  BY PlayAssumption DEF Drop, IInv, Marks
<1> HIDE DEF m, c
<1> QED
  BY <1>1, <1>3, <1>4, <1>5, <1>6, LeaveKeeps

LEMMA PlayTxKeeps ==
    ASSUME IInv, PlayTx
    PROVE  IInv'
<1>1. play.on /\ play.todo # <<>>
  BY DEF PlayTx
<1>2. PICK r \in Results : Keep(r) \/ Skip(r) \/ Stop(r) \/ Reject(r)
  BY DEF PlayTx
<1> QED
  BY <1>1, <1>2, KeepKeeps, SkipKeeps, StopKeeps, RejectKeeps

\* A block that there is one more of.
LEMMA ChainAppend ==
    ASSUME NEW c, ChainOK(c), Len(c) < MaxBlocks, NEW b, b.by \in Nodes, BlockOK(b.undo)
    PROVE  ChainOK(Append(c, b))
<1>1. IsList(c) /\ Len(c) \in Nat /\ MaxBlocks \in Nat
  BY ListFacts, PlayAssumption DEF ChainOK
<1>2. \A i \in 1..Len(c)+1 : i \in 1..Len(c) \/ i = Len(c) + 1
  BY <1>1
<1>3. Len(c) + 1 <= MaxBlocks
  BY <1>1
<1> QED
  BY <1>1, <1>2, <1>3, Appended DEF ChainOK

\* A node whose tables and blocks stay is as it should be in a longer chain.
LEMMA NodeLonger ==
    ASSUME NEW d, NEW m, NEW c, NEW us, NEW len \in Nat, NodeOK(d, m, c, us, len),
           NEW k \in Nat, len <= k
    PROVE  NodeOK(d, m, c, us, k)
<1>1. Len(us) \in Nat
  BY ListFacts DEF NodeOK, BlocksOK
<1>2. Len(us) <= k
  BY <1>1 DEF NodeOK
<1> QED
  BY <1>2 DEF NodeOK

LEMMA CommitKeeps ==
    ASSUME IInv, Commit
    PROVE  IInv'
<1> DEFINE n == play.node
           us == undo[n]
           u == play.undo
           len == Len(chain)
           b0 == db[n].bal
           b1 == play.db.bal
           read == play.fork /\ play.sys
           c == IF read THEN play.db.rate ELSE cache[n]
           b == [by |-> n, undo |-> play.undo, db |-> play.db, fair |-> play.fair /\ n \in agrees]
           gen == play.gen
<1>1. PlayingOK(play) /\ Continues(play, us, b0, len)
  BY DEF IInv, PlayInv, Idle, Commit
<1>2. n \in Nodes /\ play.db \in Tables /\ BlockOK(u) /\ Money(b1)
  BY <1>1 DEF PlayingOK
<1>3. NodeOK(db[n], vm[n], cache[n], us, len) /\ Memories
  BY <1>2, MemoriesOK DEF IInv, Nodewise
<1>4. c \in Nat
  <2>1. cache[n] \in Nat /\ play.db.rate \in Nat
    BY <1>2, <1>3 DEF Memories, Tables
  <2> QED
    BY <2>1
<1>5. cache' = [cache EXCEPT ![n] = c] /\ vm' = vm
  BY DEF Commit
<1>6. /\ ChainOK(chain) /\ len \in Nat
  BY ListFacts DEF IInv, ChainOK
<1>7. PlayInv'
  BY DEF PlayInv, Commit
<1>8. spent' \subseteq Txs
  <2>1. \A i \in DOMAIN u : u[i].tx \in Txs
    BY <1>2, ListFacts DEF BlockOK
  <2> QED
    BY <2>1 DEF Commit, IInv, Marks
<1>9. Marks'
  <2>1. stained' \subseteq stained /\ agrees' \subseteq agrees /\ jammed' = jammed /\ faults' = faults
    BY DEF Commit
  <2> QED
    BY <1>8, <2>1 DEF IInv, Marks
<1>10. CASE u = <<>>
  <2>1. UNCHANGED <<db, undo, chain>>
    BY <1>10 DEF Commit
  <2>2. Memories'
    <3> HIDE DEF c, n
    <3>1. /\ \A x \in Nodes : vm'[x] = vm[x] /\ (cache'[x] = cache[x] \/ cache'[x] = c)
          /\ DOMAIN vm' = Nodes /\ DOMAIN cache' = Nodes
      BY <1>3, <1>5 DEF Memories
    <3> QED
      BY <1>3, <1>4, <3>1 DEF Memories
  <2>3. Nodewise'
    BY <2>1, <2>2, MemoriesNodewise DEF IInv
  <2> QED
    BY <1>6, <1>7, <1>9, <2>1, <2>3 DEF IInv
<1>11. CASE u # <<>>
  <2>1. /\ db' = [db EXCEPT ![n] = play.db] /\ undo' = [undo EXCEPT ![n] = Append(us, u)]
        /\ chain' = IF gen THEN Append(chain, b) ELSE chain
    BY <1>11 DEF Commit
  <2>2. (gen => Len(us) = len /\ len < MaxBlocks) /\ (~ gen => Len(us) < len)
    BY <1>1 DEF Continues
  <2>3. b.by = n /\ b.undo = u
    OBVIOUS
  <2>4. BlockCovers(u, b0, b1)
    BY <1>1 DEF Continues
  <2>5. IsList(us) /\ BlocksOK(us) /\ HistoryOK(us, b0) /\ Len(us) \in Nat /\ b1 \in Bals
    BY <1>2, <1>3, ListFacts DEF NodeOK, BlocksOK, Tables, Bals
  <2> DEFINE ws == Append(us, u)
             d == play.db
  <2>6. BlocksOK(ws) /\ Len(ws) = Len(us) + 1
    <3> HIDE DEF u, us
    <3> QED
      BY <1>2, <2>5, BlocksAppend, Appended
  <2>7. HistoryOK(ws, b1)
    <3> HIDE DEF u, us, b0, b1
    <3> QED
      BY <1>2, <2>4, <2>5, HistoryAppend
  <2> HIDE DEF b, ws, gen
  <2>8. ChainOK(chain') /\ Len(chain') \in Nat /\ len <= Len(chain') /\ Len(ws) <= Len(chain')
    <3>1. CASE gen
      <4>1. chain' = Append(chain, b) /\ ChainOK(chain')
        BY <1>2, <1>6, <2>1, <2>2, <2>3, <3>1, ChainAppend
      <4>2. Len(chain') = len + 1
        BY <1>6, <4>1, Appended DEF ChainOK
      <4> QED
        BY <1>6, <2>2, <2>5, <2>6, <3>1, <4>1, <4>2
    <3>2. CASE ~ gen
      <4>1. chain' = chain
        BY <2>1, <3>2
      <4> QED
        BY <1>6, <2>2, <2>5, <2>6, <3>2, <4>1
    <3> QED
      BY <3>1, <3>2
  <2>9. NodeOK(d, vm[n], c, ws, Len(chain'))
    BY <1>2, <1>3, <1>4, <2>6, <2>7, <2>8 DEF NodeOK
  <2>10. ASSUME NEW x \in Nodes PROVE NodeOK(db'[x], vm'[x], cache'[x], undo'[x], Len(chain'))
    <3>1. CASE x = n
      <4>1. db'[x] = d /\ vm'[x] = vm[n] /\ cache'[x] = c /\ undo'[x] = ws
        <5> HIDE DEF c, n, d
        <5> QED
          BY <1>2, <1>3, <1>5, <2>1, <3>1 DEF IInv, Nodewise, ws, d
      <4> QED
        BY <2>9, <4>1
    <3>2. CASE x # n
      <4>1. db'[x] = db[x] /\ vm'[x] = vm[x] /\ cache'[x] = cache[x] /\ undo'[x] = undo[x]
        <5> HIDE DEF c, n
        <5> QED
          BY <1>2, <1>3, <1>5, <2>1, <3>2 DEF IInv, Nodewise
      <4>2. NodeOK(db[x], vm[x], cache[x], undo[x], len)
        BY DEF IInv, Nodewise
      <4> HIDE DEF len
      <4>3. NodeOK(db[x], vm[x], cache[x], undo[x], Len(chain'))
        BY <1>6, <2>8, <4>2, NodeLonger
      <4> QED
        BY <4>1, <4>3
    <3> QED
      BY <3>1, <3>2
  <2>11. DOMAIN db' = Nodes /\ DOMAIN vm' = Nodes /\ DOMAIN cache' = Nodes /\ DOMAIN undo' = Nodes
    <3> HIDE DEF c, n
    <3> QED
      BY <1>5, <2>1 DEF IInv, Nodewise
  <2> QED
    BY <1>7, <1>9, <2>8, <2>10, <2>11 DEF IInv, Nodewise
<1> QED
  BY <1>10, <1>11

LEMMA StartPlayKeeps ==
    ASSUME IInv, NEW n \in Nodes, NEW gen \in BOOLEAN, NEW fork, NEW todo \in Seq(Txs),
           StartPlay(n, gen, fork, todo),
           gen => Len(undo[n]) = Len(chain) /\ Len(chain) < MaxBlocks,
           ~ gen => Len(undo[n]) < Len(chain)
    PROVE  IInv'
<1> DEFINE key == IF gen THEN n ELSE chain[Len(undo[n]) + 1].by
           b == db[n].bal
<1>1. NodeOK(db[n], vm[n], cache[n], undo[n], Len(chain))
  BY DEF IInv, Nodewise
<1>2. Len(undo[n]) \in Nat /\ Len(chain) \in Nat
  BY <1>1, ListFacts DEF NodeOK, BlocksOK, IInv, ChainOK
<1>3. key \in Nodes
  <2>1. CASE gen
    BY <2>1
  <2>2. CASE ~ gen
    <3>1. Len(undo[n]) + 1 \in 1..Len(chain)
      BY <1>2, <2>2
    <3>2. chain[Len(undo[n]) + 1].by \in Nodes
      BY <3>1 DEF IInv, ChainOK
    <3> QED
      BY <2>2, <3>2
  <2> QED
    BY <2>1, <2>2
<1>4. /\ DOMAIN play' = PlayFields /\ play'.on = TRUE /\ play'.node = n /\ play'.gen = gen
      /\ play'.todo = todo /\ play'.key = key /\ play'.db = db[n] /\ play'.fuel = 0
      /\ play'.undo = <<>> /\ play'.start = vm[n]
  BY DEF StartPlay, PlayFields
<1>5. UNCHANGED <<db, vm, cache, undo, chain, spent, agrees, stained, jammed, faults>>
  BY DEF StartPlay
<1> HIDE DEF key
<1>6. BlockOK(play'.undo) /\ Len(play'.undo) = 0
  <2>1. <<>> \in Seq({}) /\ Len(<<>>) = 0
    OBVIOUS
  <2>2. IsList(<<>>)
    BY <2>1 DEF IsList
  <2> DEFINE l == <<>>
  <2>3. IsList(l) /\ Len(l) = 0 /\ l = play'.undo
    BY <1>4, <2>1, <2>2
  <2> HIDE DEF l
  <2>4. \A i \in 1..Len(l) : FALSE
    BY <2>3
  <2> QED
    BY <2>3, <2>4 DEF BlockOK
<1>7. MaxBlockFuel \in Nat
  BY PlayAssumption
<1>8. db[n] \in Tables /\ Money(b) /\ ObjsOK(vm[n]) /\ b \in Bals
  BY <1>1 DEF NodeOK, Tables, Bals
<1>9. PlayingOK(play')
  <2>1. play'.fuel \in Nat /\ play'.fuel <= MaxBlockFuel
    BY <1>4, <1>7
  <2> QED
    BY <1>3, <1>4, <1>6, <1>8, <2>1 DEF PlayingOK
<1>10. Continues(play', undo[n], b, Len(chain))
  <2>1. BlockCovers(play'.undo, b, b)
    <3> HIDE DEF b
    <3> QED
      BY <1>6, <1>8, BlockCoversEmpty
  <2> QED
    BY <1>4, <2>1 DEF Continues
<1>11. PlayInv'
  BY <1>4, <1>5, <1>9, <1>10 DEF PlayInv
<1>12. Nodewise' /\ ChainOK(chain') /\ Marks'
  BY <1>5 DEF IInv, Nodewise, Marks
<1> QED
  BY <1>11, <1>12 DEF IInv

LEMMA GenerateKeeps ==
    ASSUME IInv, NEW n \in Nodes, Generate(n)
    PROVE  IInv'
<1>1. Len(undo[n]) = Len(chain) /\ Len(chain) < MaxBlocks
  BY DEF Generate
<1>0. PICK k \in 1..MaxTxs : \E q \in [1..k -> Txs \ spent] : StartPlay(n, TRUE, FALSE, q)
  BY DEF Generate
<1>2. PICK q \in [1..k -> Txs \ spent] : StartPlay(n, TRUE, FALSE, q)
  BY <1>0
<1>3. q \in Seq(Txs)
  <2>1. k \in Nat /\ q \in [1..k -> Txs]
    BY PlayAssumption
  <2> QED
    BY <2>1
<1> QED
  BY <1>1, <1>2, <1>3, StartPlayKeeps

LEMMA ReceiveKeeps ==
    ASSUME IInv, NEW n \in Nodes, Receive(n)
    PROVE  IInv'
<1> DEFINE txs == chain[Len(undo[n]) + 1].undo
           todo == [i \in DOMAIN txs |-> txs[i].tx]
<1>1. Len(undo[n]) < Len(chain)
  BY DEF Receive
<1>2. PICK fork \in BOOLEAN : StartPlay(n, FALSE, fork, todo)
  BY DEF Receive
<1>3. Len(undo[n]) \in Nat /\ Len(chain) \in Nat
  BY ListFacts DEF IInv, Nodewise, NodeOK, BlocksOK, ChainOK
<1>4. Len(undo[n]) + 1 \in 1..Len(chain)
  BY <1>1, <1>3
<1>5. BlockOK(txs)
  BY <1>4 DEF IInv, ChainOK
<1> HIDE DEF txs
<1>6. Len(txs) \in Nat /\ DOMAIN txs = 1..Len(txs) /\ \A i \in 1..Len(txs) : txs[i].tx \in Txs
  BY <1>5, ListFacts DEF BlockOK
<1>7. todo \in [1..Len(txs) -> Txs]
  BY <1>6
<1>8. todo \in Seq(Txs)
  <2> HIDE DEF todo
  <2> QED
    BY <1>6, <1>7
<1> HIDE DEF todo
<1> QED
  BY <1>1, <1>2, <1>8, StartPlayKeeps

\* A bounded set of numbers has a greatest one.
LEMMA Greatest ==
    ASSUME NEW N \in Nat, NEW S, S \subseteq 0..N, S # {}
    PROVE  \E h \in S : \A x \in S : x <= h
<1> SUFFICES ASSUME \A h \in S : \E x \in S : ~ (x <= h) PROVE FALSE
  OBVIOUS
<1> DEFINE P == {i \in 0..N : \A x \in S : x <= N - i}
<1>1. 0 \in P
  BY SMT
<1>2. ASSUME NEW i \in 0..N-1, i \in P PROVE i + 1 \in P
  <2>1. \A x \in S : x <= N - i
    BY <1>2
  <2>2. \A x \in S : x # N - i
    BY <2>1
  <2>3. \A x \in S : x \in 0..N
    OBVIOUS
  <2>4. \A x \in S : x <= N - (i + 1)
    BY <1>2, <2>1, <2>2, <2>3
  <2> QED
    BY <1>2, <2>4
<1> HIDE DEF P
<1>3. N \in P
  BY <1>1, <1>2, UpTo
<1>4. \A x \in S : x <= N - N /\ x \in 0..N
  BY <1>3 DEF P
<1>5. \A x, y \in S : x <= y
  BY <1>4
<1> QED
  BY <1>5

LEMMA RollbackBlockKeeps ==
    ASSUME IInv, NEW n \in Nodes, RollbackBlock(n)
    PROVE  IInv'
<1> DEFINE us == undo[n]
           u == Last(us)
           b == db[n].bal
           s == [db |-> db[n], vm |-> vm[n], err |-> ""]
           r == RolledBack(s, u)
           kept == [undo EXCEPT ![n] = Front(@)]
           S == {Len(kept[m]) : m \in Nodes}
           top == CHOOSE h \in S : \A m \in Nodes : Len(kept[m]) <= h
           len == Len(chain)
           rate == \E i \in DOMAIN u : \E j \in DOMAIN u[i].log : u[i].log[j][1] = "rate"
<1>1. us # <<>> /\ play = Idle /\ play' = play
  BY DEF RollbackBlock, IInv, PlayInv, PlayingOK
<1>0. faults' = faults + 1 /\ faults < MaxFaults
  BY DEF RollbackBlock
<1>2. /\ cache' = cache
      /\ spent' = spent /\ agrees' = agrees /\ vm' = [vm EXCEPT ![n] = r.vm]
      /\ r.err # "" => /\ jammed' = jammed \cup {n}
                       /\ stained' = stained \cup Gaps(n, TRUE, FALSE)
                       /\ UNCHANGED <<db, undo, chain>>
      /\ r.err = "" => /\ db' = [db EXCEPT ![n] = r.db] /\ undo' = kept
                       /\ chain' = SubSeq(chain, 1, top)
                       /\ stained' = stained \cup Gaps(n, FALSE, rate)
                       /\ jammed' = jammed
  BY DEF RollbackBlock
<1>3. NodeOK(db[n], vm[n], cache[n], us, len) /\ Memories /\ Nodewise /\ ChainOK(chain)
  BY MemoriesOK DEF IInv, Nodewise
<1>4. len \in Nat /\ IsList(chain)
  BY <1>3, ListFacts DEF ChainOK
<1>5. BlocksOK(us) /\ HistoryOK(us, b) /\ Len(us) <= len /\ IsList(us)
  BY <1>3 DEF NodeOK, BlocksOK
<1>6. Back(s) /\ s.db.bal = b
  BY <1>3 DEF Back, NodeOK
<1> DEFINE front == Front(us)
<1> HIDE DEF s
<1>7. /\ BlockOK(u) /\ BlocksOK(front) /\ Len(front) <= Len(us)
      /\ \E b0 : b0 \in Bals /\ Money(b0) /\ BlockCovers(u, b0, b) /\ HistoryOK(front, b0)
  <2> HIDE DEF us, b
  <2> QED
    BY <1>1, <1>5, HistoryLast DEF u, front
<1>8. PICK b0 : b0 \in Bals /\ Money(b0) /\ BlockCovers(u, b0, b) /\ HistoryOK(front, b0)
  BY <1>7
<1>9. Back(r) /\ (r.err = "" => r.db.bal = b0)
  <2>1. BlockCovers(u, b0, s.db.bal)
    BY <1>6, <1>8
  <2> HIDE DEF u
  <2> QED
    BY <1>6, <1>7, <2>1, RolledBackKeeps
<1>10. ObjsOK(r.vm) /\ r.db \in Tables
  BY <1>9 DEF Back
<1>11. Marks'
  <2>1. faults' \in 0..MaxFaults
    <3>1. faults \in 0..MaxFaults /\ MaxFaults \in Nat
      BY PlayAssumption DEF IInv, Marks
    <3> QED
      BY <1>0, <3>1
  <2>2. stained' \subseteq Nodes \X {"vm", "cache"} /\ jammed' \subseteq Nodes
    <3>1. stained \subseteq Nodes \X {"vm", "cache"} /\ jammed \subseteq Nodes
      BY DEF IInv, Marks
    <3>2. Gaps(n, TRUE, FALSE) \subseteq Nodes \X {"vm", "cache"}
      BY GapsOK
    <3>3. Gaps(n, FALSE, rate) \subseteq Nodes \X {"vm", "cache"}
      <4> HIDE DEF rate
      <4> QED
        BY GapsOK
    <3> HIDE DEF r, kept, top, rate
    <3> QED
      BY <1>2, <3>1, <3>2, <3>3
  <2> QED
    BY <1>2, <2>1, <2>2 DEF IInv, Marks
<1>12. PlayInv'
  BY <1>1 DEF PlayInv
<1> HIDE DEF r, top, kept, rate, front, u
<1>13. /\ DOMAIN vm' = Nodes /\ vm'[n] = r.vm
       /\ \A x \in Nodes : x # n => vm'[x] = vm[x]
  BY <1>2, <1>3 DEF Memories
<1>14. Memories'
  BY <1>2, <1>3, <1>10, <1>13 DEF Memories
<1>15. CASE r.err # ""
  <2>1. UNCHANGED <<db, undo, chain>>
    BY <1>2, <1>15
  <2>2. Nodewise'
    BY <1>3, <1>14, <2>1, MemoriesNodewise
  <2> QED
    BY <1>3, <1>11, <1>12, <2>1, <2>2 DEF IInv
<1>16. CASE r.err = ""
  <2>1. db' = [db EXCEPT ![n] = r.db] /\ undo' = kept /\ chain' = SubSeq(chain, 1, top)
    BY <1>2, <1>16
  <2>2. /\ DOMAIN kept = Nodes /\ kept[n] = front
        /\ \A x \in Nodes : x # n => kept[x] = undo[x]
    BY <1>3 DEF kept, front, Nodewise
  <2>3. ASSUME NEW x \in Nodes
        PROVE  BlocksOK(kept[x]) /\ Len(kept[x]) \in 0..len
    <3>1. CASE x = n
      <4>1. Len(front) \in Nat /\ Len(us) \in Nat
        BY <1>5, <1>7, ListFacts DEF BlocksOK
      <4> QED
        BY <1>4, <1>5, <1>7, <2>2, <3>1, <4>1
    <3>2. CASE x # n
      <4>1. BlocksOK(undo[x]) /\ Len(undo[x]) <= len
        BY <1>3 DEF Nodewise, NodeOK
      <4>2. Len(undo[x]) \in Nat
        BY <4>1, ListFacts DEF BlocksOK
      <4> QED
        BY <1>4, <2>2, <3>2, <4>1, <4>2
    <3> QED
      BY <3>1, <3>2
  <2>4. top \in 0..len /\ \A x \in Nodes : Len(kept[x]) <= top
    <3>1. S \subseteq 0..len /\ S # {}
      BY <2>3
    <3> HIDE DEF S
    <3>2. \E h \in S : \A x \in S : x <= h
      BY <1>4, <3>1, Greatest
    <3>3. \A x \in Nodes : Len(kept[x]) \in S
      BY DEF S
    <3>4. \E h \in S : \A m \in Nodes : Len(kept[m]) <= h
      BY <3>2, <3>3
    <3> QED
      BY <3>1, <3>4 DEF top
  <2>5. Len(chain') = top /\ IsList(chain') /\ \A i \in 1..top : chain'[i] = chain[i]
    BY <1>4, <2>1, <2>4, Shortened
  <2>6. ChainOK(chain')
    <3>1. \A i \in 1..top : i \in 1..len
      BY <1>4, <2>4
    <3>2. Len(chain') <= MaxBlocks
      BY <1>3, <1>4, <2>4, <2>5, PlayAssumption DEF ChainOK
    <3> QED
      BY <1>3, <2>5, <3>1, <3>2 DEF ChainOK
  <2>7. ASSUME NEW x \in Nodes PROVE NodeOK(db'[x], vm'[x], cache'[x], undo'[x], Len(chain'))
    <3>1. CASE x = n
      <4>1. db'[x] = r.db /\ vm'[x] = r.vm /\ cache'[x] = cache[n] /\ undo'[x] = front
        BY <1>2, <1>3, <1>13, <2>1, <2>2, <3>1 DEF Nodewise
      <4>2. r.db.bal = b0 /\ cache[n] \in Nat /\ Len(front) <= top
        BY <1>3, <1>9, <1>16, <2>2, <2>4 DEF Memories
      <4>3. NodeOK(r.db, r.vm, cache[n], front, top)
        BY <1>7, <1>8, <1>10, <4>2 DEF NodeOK
      <4> QED
        BY <2>5, <4>1, <4>3
    <3>2. CASE x # n
      <4>1. db'[x] = db[x] /\ vm'[x] = vm[x] /\ cache'[x] = cache[x] /\ undo'[x] = undo[x]
        BY <1>2, <1>3, <1>13, <2>1, <2>2, <3>2 DEF Nodewise
      <4>2. Len(undo[x]) <= top
        BY <2>2, <2>4, <3>2
      <4>3. NodeOK(db[x], vm[x], cache[x], undo[x], top)
        BY <1>3, <4>2 DEF Nodewise, NodeOK
      <4> QED
        BY <2>5, <4>1, <4>3
    <3> QED
      BY <3>1, <3>2
  <2>8. DOMAIN db' = Nodes /\ DOMAIN vm' = Nodes /\ DOMAIN cache' = Nodes /\ DOMAIN undo' = Nodes
    BY <1>2, <1>3, <1>13, <2>1, <2>2 DEF Nodewise
  <2>9. Nodewise'
    BY <2>7, <2>8 DEF Nodewise
  <2> QED
    BY <1>11, <1>12, <2>6, <2>9 DEF IInv
<1> QED
  BY <1>15, <1>16

\* The compiled contracts of a database.
LEMMA LoadedObjs ==
    ASSUME NEW src \in Seq(Source)
    PROVE  ObjsOK(LoadContracts(src))
<1> DEFINE m == LoadContracts(src)
           names == {src[i].name : i \in DOMAIN src}
           at(c) == CHOOSE i \in DOMAIN src : src[i].name = c
           o == [c \in names |-> [id |-> at(c), ver |-> src[at(c)].ver]]
<1>1. m.objs = o
  BY DEF LoadContracts
<1>2. \A i \in DOMAIN src : src[i].ver \in Nat
  <2>1. \A i \in DOMAIN src : src[i] \in Source
    OBVIOUS
  <2> QED
    BY <2>1 DEF Source
<1>3. ASSUME NEW c \in names PROVE o[c].ver \in Nat
  <2>1. \E i \in DOMAIN src : src[i].name = c
    OBVIOUS
  <2>2. at(c) \in DOMAIN src
    BY <2>1
  <2>3. o[c].ver = src[at(c)].ver
    OBVIOUS
  <2> HIDE DEF at, o
  <2> QED
    BY <1>2, <2>2, <2>3
<1>4. DOMAIN o = names
  OBVIOUS
<1> HIDE DEF m, o, names
<1>5. ObjsOK(m)
  BY <1>1, <1>3, <1>4 DEF ObjsOK
<1> QED
  BY <1>5 DEF m

LEMMA RestartKeeps ==
    ASSUME IInv, NEW n \in Nodes, Restart(n)
    PROVE  IInv'
<1> DEFINE m == LoadContracts(db[n].src)
           c == db[n].rate
<1>1. vm' = [vm EXCEPT ![n] = m] /\ cache' = [cache EXCEPT ![n] = c]
  BY DEF Restart
<1>2. UNCHANGED <<db, undo, play, chain, spent, agrees, faults>>
  BY DEF Restart
<1>3. db[n] \in Tables /\ Memories /\ Nodewise
  BY MemoriesOK DEF IInv, Nodewise, NodeOK
<1>4. ObjsOK(m) /\ c \in Nat
  BY <1>3, SrcFacts, LoadedObjs DEF Tables
<1> HIDE DEF m, c
<1>5. Memories'
  BY <1>1, <1>3, <1>4, MemoryChanged
<1>6. Nodewise'
  BY <1>2, <1>3, <1>5, MemoriesNodewise
<1>7. Marks'
  <2>1. stained' \subseteq stained /\ jammed' \subseteq jammed
    BY DEF Restart
  <2> QED
    BY <1>2, <2>1 DEF IInv, Marks
<1>8. PlayInv' /\ ChainOK(chain')
  BY <1>2 DEF IInv, PlayInv
<1> QED
  BY <1>6, <1>7, <1>8 DEF IInv

LEMMA InitOK ==
    ASSUME Init
    PROVE  IInv
<1> DEFINE b == [e \in Ecos |-> [k \in Accounts |-> Amount]]
           first == [name |-> "a", ver |-> 1]
           l == <<>>
<1>1. b \in Bals /\ Amount \in Nat
  <2>1. Amount \in Nat
    BY PlayAssumption
  <2> QED
    BY <2>1 DEF Bals
<1>2. Money(b)
  <2>1. ASSUME NEW e \in Ecos
        PROVE  /\ \A k \in Accounts : b[e][k] >= 0
               /\ Total(b[e]) = Cardinality(Accounts) * Amount
    <3> DEFINE x == b[e]
    <3>1. x \in [Accounts -> Int] /\ \A k \in Accounts : x[k] = Amount
      BY <1>1
    <3> HIDE DEF b, x
    <3>2. Total(x) = Cardinality(Accounts) * Amount
      BY <3>1, TotalAtFirst
    <3>3. \A k \in Accounts : x[k] >= 0
      BY <1>1, <3>1
    <3> QED
      BY <3>2, <3>3 DEF x
  <2> HIDE DEF b
  <2> QED
    BY <2>1 DEF Money
<1>3. Genesis.src = <<first>> /\ Genesis.bal = b /\ Genesis.rate = 1
  BY DEF Genesis
<1>4. <<first>> \in Seq(Source)
  <2>1. first \in Source
    BY DEF Source, Names
  <2> HIDE DEF first
  <2> QED
    BY <2>1
<1>5. Genesis \in Tables
  <2> DEFINE src == <<first>>
  <2>1. Genesis = [bal |-> b, src |-> src, rate |-> 1, column |-> FALSE, row |-> 0]
    BY DEF Genesis
  <2> HIDE DEF b, src
  <2> QED
    BY <1>1, <1>4, <2>1 DEF Tables, Bals, src
<1>6. ObjsOK(LoadContracts(Genesis.src))
  <2> DEFINE src == <<first>>
  <2> HIDE DEF src
  <2> QED
    BY <1>3, <1>4, LoadedObjs DEF src
<1>7. IsList(l) /\ Len(l) = 0 /\ \A i \in 1..Len(l) : FALSE
  <2>1. <<>> \in Seq({}) /\ Len(<<>>) = 0
    OBVIOUS
  <2>2. IsList(<<>>)
    BY <2>1 DEF IsList
  <2> QED
    BY <2>1, <2>2
<1>8. /\ play = Idle /\ chain = l /\ spent = {} /\ agrees = Nodes /\ stained = {} /\ jammed = {}
      /\ faults = 0
      /\ DOMAIN db = Nodes /\ DOMAIN vm = Nodes /\ DOMAIN cache = Nodes /\ DOMAIN undo = Nodes
      /\ \A n \in Nodes : /\ db[n] = Genesis /\ vm[n] = LoadContracts(Genesis.src)
                          /\ cache[n] = 1 /\ undo[n] = l
  BY <1>3 DEF Init
<1> HIDE DEF l, b
<1>9. BlocksOK(l) /\ HistoryOK(l, b) /\ Len(l) <= Len(l)
  BY <1>1, <1>2, <1>7, HistoryEmpty DEF BlocksOK
<1>10. NodeOK(Genesis, LoadContracts(Genesis.src), 1, l, Len(l))
  BY <1>2, <1>3, <1>5, <1>6, <1>9 DEF NodeOK
<1>11. Nodewise
  BY <1>8, <1>10 DEF Nodewise
<1>12. ChainOK(chain)
  BY <1>7, <1>8, PlayAssumption DEF ChainOK
<1>13. Marks
  BY <1>8, PlayAssumption DEF Marks
<1> QED
  BY <1>8, <1>11, <1>12, <1>13 DEF IInv, PlayInv

LEMMA NextKeeps ==
    ASSUME IInv, [Next]_vars
    PROVE  IInv'
<1>1. CASE Next
  BY <1>1, PlayTxKeeps, CommitKeeps, DropKeeps, GenerateKeeps, ReceiveKeeps, RollbackBlockKeeps,
     RestartKeeps DEF Next
<1>2. CASE UNCHANGED vars
  BY <1>2 DEF vars, IInv, Nodewise, PlayInv, Marks
<1> QED
  BY <1>1, <1>2

LEMMA Always ==
    Spec => []IInv
<1>1. Init => IInv
  BY InitOK
<1>2. IInv /\ [Next]_vars => IInv'
  BY NextKeeps
<1> QED
  BY <1>1, <1>2, PTL DEF Spec

-----------------------------------------------------------------------------
\* Every node's tables, caches, blocks and marks are well formed, nobody owes, and no block has
\* more fuel than it may.
THEOREM TypeCorrect ==
    Spec => []TypeOK
<1>1. IInv => TypeOK
  <2> SUFFICES ASSUME IInv PROVE TypeOK
    OBVIOUS
  <2>1. ASSUME NEW n \in Nodes
        PROVE  /\ db[n].bal \in [Ecos -> [Accounts -> Nat]]
               /\ db[n].rate \in Nat /\ db[n].row \in Nat /\ db[n].column \in BOOLEAN
               /\ cache[n] \in Nat /\ Len(undo[n]) <= Len(chain)
    <3>1. db[n] \in Tables /\ Money(db[n].bal) /\ cache[n] \in Nat /\ Len(undo[n]) <= Len(chain)
      BY DEF IInv, Nodewise, NodeOK
    <3> DEFINE b == db[n].bal
    <3>2. /\ b \in [Ecos -> [Accounts -> Int]] /\ \A e \in Ecos, k \in Accounts : b[e][k] >= 0
      BY <3>1 DEF Tables, Money
    <3> HIDE DEF b
    <3>3. \A e \in Ecos : b[e] \in [Accounts -> Nat]
      BY <3>2
    <3>4. b \in [Ecos -> [Accounts -> Nat]]
      BY <3>2, <3>3
    <3>5. db[n].rate \in Nat /\ db[n].row \in Nat /\ db[n].column \in BOOLEAN
      BY <3>1 DEF Tables
    <3> QED
      BY <3>1, <3>4, <3>5 DEF b
  <2>2. play = Idle \/ (play.node \in Nodes /\ play.fuel <= MaxBlockFuel)
    BY DEF IInv, PlayInv, PlayingOK
  <2>3. Len(chain) <= MaxBlocks
    BY DEF IInv, ChainOK
  <2>4. /\ spent \subseteq Txs /\ agrees \subseteq Nodes
        /\ stained \subseteq Nodes \X {"vm", "cache"} /\ jammed \subseteq Nodes
    BY DEF IInv, Marks
  <2>5. faults <= MaxFaults
    BY PlayAssumption DEF IInv, Marks
  <2> QED
    BY <2>1, <2>2, <2>3, <2>4, <2>5 DEF TypeOK
<1> QED
  BY <1>1, Always, PTL

\* No contract, payment, fine, skipped, rejected or rolled back block makes money or loses it, for
\* any nodes, contracts, prices and limits.
THEOREM MoneyIsKept ==
    Spec => []MoneyStays
<1>1. IInv => MoneyStays
  BY DEF IInv, Nodewise, NodeOK, Money, MoneyStays
<1> QED
  BY <1>1, Always, PTL

-----------------------------------------------------------------------------
(* What a contract that fails is charged.                                    *)

LEMMA PayerFacts ==
    ASSUME NEW t \in Txs
    PROVE  Payer[t] \in Accounts /\ Wallet \in Accounts
  BY PlayAssumption

\* The tables d differ from d0 by what the payer of t pays in its tokens.
Charged(d0, d, t) ==
    /\ d.src = d0.src /\ d.rate = d0.rate /\ d.column = d0.column /\ d.row = d0.row
    /\ \A e \in Ecos, k \in Accounts :
         /\ e \notin Tokens[t] => d.bal[e][k] = d0.bal[e][k]
         /\ k # Payer[t] => d.bal[e][k] >= d0.bal[e][k]

\* A payment of its payer, made or refused.
Sent(s, r, t, e, sum) ==
    /\ r.fuel = s.fuel /\ r.err \in {s.err, "taxes"}
    /\ r.db.src = s.db.src /\ r.db.rate = s.db.rate
    /\ r.db.column = s.db.column /\ r.db.row = s.db.row
    /\ \A x \in Ecos, k \in Accounts :
         /\ x # e => r.db.bal[x][k] = s.db.bal[x][k]
         /\ k # Payer[t] => r.db.bal[x][k] >= s.db.bal[x][k]
    /\ r.db.bal[e][Payer[t]] >= s.db.bal[e][Payer[t]] - sum

LEMMA MoveSends ==
    ASSUME NEW s, NEW b0, Running(s, b0), NEW t \in Txs, NEW e \in Ecos, NEW to \in Accounts,
           NEW sum \in Nat
    PROVE  Sent(s, Move(s, e, Payer[t], to, sum), t, e, sum)
<1> DEFINE p == Payer[t]
           r == Move(s, e, p, to, sum)
           f == Fail(s, "taxes")
<1>1. p \in Accounts /\ sum \in Int
  BY PlayAssumption
<1>2. DOMAIN s = Fields /\ s.db \in Tables
  BY DEF Running
<1>3. \A x \in Ecos, k \in Accounts : s.db.bal[x][k] \in Int
  BY <1>2 DEF Tables
<1>4. \/ r = f
      \/ /\ \A x \in Ecos, j \in Accounts : r.db.bal[x][j] =
              s.db.bal[x][j] + (IF x = e /\ j = to THEN sum ELSE 0)
                             - (IF x = e /\ j = p THEN sum ELSE 0)
         /\ r.db.src = s.db.src /\ r.db.rate = s.db.rate
         /\ r.db.column = s.db.column /\ r.db.row = s.db.row
         /\ r.fuel = s.fuel /\ r.err = s.err
  <2> HIDE DEF p
  <2> QED
    BY <1>1, MoveFields
<1>5. f.db = s.db /\ f.fuel = s.fuel /\ f.err = "taxes"
  BY <1>2, FailFields
<1> SUFFICES Sent(s, r, t, e, sum)
  OBVIOUS
<1> HIDE DEF r, f, p
<1>6. CASE r = f
  <2>1. r.db = s.db /\ r.fuel = s.fuel /\ r.err = "taxes"
    BY <1>5, <1>6
  <2>2. \A x \in Ecos, k \in Accounts : s.db.bal[x][k] >= s.db.bal[x][k]
    BY <1>3
  <2>3. s.db.bal[e][p] >= s.db.bal[e][p] - sum
    BY <1>1, <1>3
  <2> QED
    BY <2>1, <2>2, <2>3 DEF Sent, p
<1>7. CASE r # f
  <2>1. ASSUME NEW x \in Ecos, NEW j \in Accounts
        PROVE  /\ x # e => r.db.bal[x][j] = s.db.bal[x][j]
               /\ j # p => r.db.bal[x][j] >= s.db.bal[x][j]
    <3> DEFINE A == IF x = e /\ j = to THEN sum ELSE 0
               B == IF x = e /\ j = p THEN sum ELSE 0
               y == s.db.bal[x][j]
    <3>1. A \in Nat /\ y \in Int /\ (x # e => A = 0 /\ B = 0) /\ (j # p => B = 0)
      BY <1>3
    <3>2. r.db.bal[x][j] = y + A - B
      BY <1>4, <1>7
    <3> HIDE DEF A, B, y
    <3>3. (x # e => r.db.bal[x][j] = y) /\ (j # p => r.db.bal[x][j] >= y)
      BY <3>1, <3>2
    <3> QED
      BY <3>3 DEF y
  <2>2. r.db.bal[e][p] >= s.db.bal[e][p] - sum
    <3> DEFINE A == IF e = e /\ p = to THEN sum ELSE 0
               B == IF e = e /\ p = p THEN sum ELSE 0
               x == s.db.bal[e][p]
    <3>1. A \in Nat /\ B = sum /\ x \in Int
      BY <1>1, <1>3
    <3>2. r.db.bal[e][p] = x + A - B
      BY <1>1, <1>4, <1>7
    <3> HIDE DEF A, B, x
    <3>3. r.db.bal[e][p] >= x - sum
      BY <3>1, <3>2
    <3> QED
      BY <3>3 DEF x
  <2> QED
    BY <1>4, <1>7, <2>1, <2>2 DEF Sent, p
<1> QED
  BY <1>6, <1>7

LEMMA AddAmountPays ==
    ASSUME NEW s, DOMAIN s = Fields, s.db \in Tables,
           NEW e \in Ecos, NEW k \in Accounts, NEW sum \in Int
    PROVE  /\ AddAmount(s, e, k, sum).db.bal[e][k] = s.db.bal[e][k] + sum
           /\ AddAmount(s, e, k, sum).err = s.err
  BY AddAmountFields

\* A payment that the payer can make is not refused.
LEMMA MoveSucceeds ==
    ASSUME NEW s, NEW b0, Running(s, b0), NEW e \in Ecos, NEW from \in Accounts,
           NEW to \in Accounts, NEW sum \in Nat, s.db.bal[e][from] >= sum
    PROVE  Move(s, e, from, to, sum).err = s.err
<1> DEFINE p == AddAmount(s, e, to, sum)
           r == AddAmount(p, e, from, 0 - sum)
<1>1. DOMAIN s = Fields /\ s.db \in Tables /\ 0 - sum \in Int /\ sum \in Int
  BY DEF Running
<1>2. /\ DOMAIN p = Fields /\ p.db \in Tables
      /\ p.db.bal[e][to] = s.db.bal[e][to] + sum
      /\ \A x \in Ecos, j \in Accounts :
           ~ (x = e /\ j = to) => p.db.bal[x][j] = s.db.bal[x][j]
      /\ p.err = s.err
  BY <1>1, AddAmountFields
<1>3. Move(s, e, from, to, sum) =
        IF p.db.bal[e][to] < 0 \/ r.db.bal[e][from] < 0 THEN Fail(s, "taxes") ELSE r
  BY DEF Move
<1> HIDE DEF p
<1>4. r.db.bal[e][from] = p.db.bal[e][from] + (0 - sum) /\ r.err = p.err
  BY <1>1, <1>2, AddAmountPays
<1> HIDE DEF r
<1>5. /\ s.db.bal[e][to] \in Int /\ s.db.bal[e][to] >= 0 /\ s.db.bal[e][from] \in Int
  BY DEF Running, Tables, Money
<1>6. p.db.bal[e][to] >= 0 /\ r.db.bal[e][from] >= 0
  <2>1. CASE from = to
    BY <1>2, <1>4, <1>5, <2>1
  <2>2. CASE from # to
    BY <1>2, <1>4, <1>5, <2>2
  <2> QED
    BY <2>1, <2>2
<1>7. p.db.bal[e][to] \in Int /\ r.db.bal[e][from] \in Int
  <2>1. p.db.bal[e][to] \in Int /\ p.db.bal[e][from] \in Int
    BY <1>2 DEF Tables
  <2> QED
    BY <1>4, <2>1
<1> QED
  BY <1>2, <1>3, <1>4, <1>6, <1>7

\* Nothing is sent, or one payment after another.
LEMMA SentNothing ==
    ASSUME NEW s, DOMAIN s = Fields, s.db \in Tables, NEW t \in Txs, NEW e \in Ecos, NEW sum \in Nat
    PROVE  Sent(s, s, t, e, sum) /\ Sent(s, Fail(s, "taxes"), t, e, sum)
<1> DEFINE p == Payer[t]
           f == Fail(s, "taxes")
<1>1. f.db = s.db /\ f.fuel = s.fuel /\ f.err = "taxes"
  BY FailFields
<1>2. p \in Accounts /\ \A x \in Ecos, k \in Accounts : s.db.bal[x][k] \in Int
  BY PlayAssumption DEF Tables
<1>3. /\ \A x \in Ecos, k \in Accounts : s.db.bal[x][k] >= s.db.bal[x][k]
      /\ s.db.bal[e][p] >= s.db.bal[e][p] - sum
  BY <1>2
<1> HIDE DEF f
<1>4. Sent(s, s, t, e, sum) /\ Sent(s, f, t, e, sum)
  BY <1>1, <1>3 DEF Sent
<1> QED
  BY <1>4 DEF f

LEMMA SentTwice ==
    ASSUME NEW s, s.db \in Tables, NEW q, q.db \in Tables, NEW r, r.db \in Tables,
           NEW t \in Txs, NEW e \in Ecos, NEW a \in Nat, NEW b \in Nat,
           Sent(s, q, t, e, a), Sent(q, r, t, e, b)
    PROVE  Sent(s, r, t, e, a + b)
<1> DEFINE p == Payer[t]
<1>1. /\ p \in Accounts
      /\ \A x \in Ecos, k \in Accounts : /\ s.db.bal[x][k] \in Int /\ q.db.bal[x][k] \in Int
                                         /\ r.db.bal[x][k] \in Int
  <2>1. ASSUME NEW d \in Tables PROVE \A x \in Ecos, k \in Accounts : d.bal[x][k] \in Int
    BY DEF Tables
  <2> QED
    BY <2>1, PayerFacts
<1>2. /\ q.db.bal[e][p] >= s.db.bal[e][p] - a /\ r.db.bal[e][p] >= q.db.bal[e][p] - b
  BY DEF Sent
<1>3. r.db.bal[e][p] >= s.db.bal[e][p] - (a + b)
  <2> DEFINE x == s.db.bal[e][p]
             y == q.db.bal[e][p]
             z == r.db.bal[e][p]
  <2>1. x \in Int /\ y \in Int /\ z \in Int /\ y >= x - a /\ z >= y - b
    BY <1>1, <1>2
  <2> HIDE DEF x, y, z
  <2>2. z >= x - (a + b)
    BY <2>1
  <2> QED
    BY <2>2 DEF x, z
<1>4. ASSUME NEW x \in Ecos, NEW k \in Accounts
      PROVE  /\ x # e => r.db.bal[x][k] = s.db.bal[x][k]
             /\ k # p => r.db.bal[x][k] >= s.db.bal[x][k]
  <2>1. x # e => r.db.bal[x][k] = q.db.bal[x][k] /\ q.db.bal[x][k] = s.db.bal[x][k]
    BY DEF Sent
  <2>2. k # p => r.db.bal[x][k] >= q.db.bal[x][k] /\ q.db.bal[x][k] >= s.db.bal[x][k]
    BY DEF Sent
  <2>3. s.db.bal[x][k] \in Int /\ q.db.bal[x][k] \in Int /\ r.db.bal[x][k] \in Int
    BY <1>1
  <2> QED
    BY <2>1, <2>2, <2>3
<1>5. /\ r.fuel = s.fuel /\ r.err \in {s.err, "taxes"}
      /\ r.db.src = s.db.src /\ r.db.rate = s.db.rate
      /\ r.db.column = s.db.column /\ r.db.row = s.db.row
  BY DEF Sent
<1> QED
  BY <1>3, <1>4, <1>5 DEF Sent

\* The share of the taxes.
LEMMA Taxes ==
    ASSUME TaxesSize <= 100, NEW money \in Nat
    PROVE  /\ (money * TaxesSize) \div 100 \in Nat
           /\ money - ((money * TaxesSize) \div 100) \in Nat
<1>0. TaxesSize \in Nat
  BY PlayAssumption
<1>1. TaxesSize \in 0..100
  BY <1>0
<1> DEFINE m == money * TaxesSize
           d == m \div 100
<1>2. m \in Nat /\ m <= money * 100
  BY <1>1
<1> HIDE DEF m
<1>3. d \in Nat /\ d <= money
  BY <1>2
<1> HIDE DEF d
<1>4. money - d \in Nat
  BY <1>3
<1> QED
  BY <1>3, <1>4 DEF m, d

\* What one token pays.
LEMMA PayOneSends ==
    ASSUME TaxesSize <= 100, NEW s, NEW b0, Running(s, b0), NEW t \in Txs, NEW e \in Ecos,
           NEW money \in Nat, NEW amount, NEW key \in Accounts
    PROVE  Sent(s, PayOne(s, t, e, money, amount, key), t, e, money)
<1> DEFINE taxes == (money * TaxesSize) \div 100
           rest == money - taxes
           paid == Move(s, e, Payer[t], key, rest)
           more == Move(paid, e, Payer[t], Wallet, taxes)
           f == Fail(s, "taxes")
           poor == amount[e] < money
           r == PayOne(s, t, e, money, amount, key)
<1>1. r = IF s.err # "" THEN s ELSE IF poor THEN f ELSE IF paid.err # "" THEN paid ELSE more
  BY DEF PayOne
<1>2. taxes \in Nat /\ rest \in Nat
  BY Taxes
<1>3. rest + taxes = money
  <2>1. taxes \in Int
    BY <1>2
  <2> HIDE DEF taxes
  <2> QED
    BY <2>1
<1> HIDE DEF taxes, rest
<1>4. Payer[t] \in Accounts /\ Wallet \in Accounts /\ taxes \in Int /\ rest \in Int
  BY <1>2, PayerFacts
<1>5. Running(paid, b0) /\ Sent(s, paid, t, e, rest)
  BY <1>2, <1>4, MoveRunning, MoveSends
<1> HIDE DEF paid
<1>6. Running(more, b0) /\ Sent(paid, more, t, e, taxes)
  BY <1>2, <1>4, <1>5, MoveRunning, MoveSends
<1>7. /\ DOMAIN s = Fields /\ s.db \in Tables /\ paid.db \in Tables /\ more.db \in Tables
      /\ DOMAIN paid = Fields
  BY <1>5, <1>6 DEF Running
<1> HIDE DEF more
<1>8. Sent(s, s, t, e, money) /\ Sent(s, f, t, e, money)
  BY <1>7, SentNothing
<1>9. Sent(s, more, t, e, money)
  BY <1>2, <1>3, <1>5, <1>6, <1>7, SentTwice
<1>10. Sent(s, paid, t, e, money)
  <2>1. Sent(paid, paid, t, e, taxes)
    BY <1>2, <1>7, SentNothing
  <2> QED
    BY <1>2, <1>3, <1>5, <1>7, <2>1, SentTwice
<1> HIDE DEF r, f, poor
<1>11. Sent(s, r, t, e, money)
  BY <1>1, <1>8, <1>9, <1>10
<1> QED
  BY <1>11 DEF r

\* A payer who has the money of a token pays it.
Able(s, t, e, money, amount) ==
    s.err = "" /\ ~ (amount[e] < money) /\ s.db.bal[e][Payer[t]] >= money

LEMMA PayOneSucceeds ==
    ASSUME TaxesSize <= 100, NEW s, NEW b0, Running(s, b0), NEW t \in Txs, NEW e \in Ecos,
           NEW money \in Nat, NEW amount, NEW key \in Accounts,
           Able(s, t, e, money, amount)
    PROVE  PayOne(s, t, e, money, amount, key).err = ""
<1> DEFINE p == Payer[t]
           taxes == (money * TaxesSize) \div 100
           rest == money - taxes
           paid == Move(s, e, p, key, rest)
           more == Move(paid, e, p, Wallet, taxes)
           r == PayOne(s, t, e, money, amount, key)
<1>1. r = IF paid.err # "" THEN paid ELSE more
  BY DEF PayOne, Able
<1>2. taxes \in Nat /\ rest \in Nat
  BY Taxes
<1>3. rest = money - taxes
  OBVIOUS
<1> HIDE DEF taxes, rest
<1>4. p \in Accounts /\ Wallet \in Accounts /\ taxes \in Int /\ rest \in Int
  BY <1>2, PayerFacts
<1>5. Running(paid, b0) /\ Sent(s, paid, t, e, rest)
  BY <1>2, <1>4, MoveRunning, MoveSends
<1> DEFINE x == s.db.bal[e][p]
           y == paid.db.bal[e][p]
<1>6. x \in Int /\ y \in Int /\ y >= x - rest /\ x >= money
  <2>1. s.db \in Tables /\ paid.db \in Tables
    BY <1>5 DEF Running
  <2>2. x \in Int /\ y \in Int
    <3> HIDE DEF paid, p
    <3> QED
      BY <1>4, <2>1 DEF Tables
  <2> QED
    BY <1>5, <2>2 DEF Sent, Able
<1> HIDE DEF x, y
<1>7. x >= rest /\ y >= taxes
  <2>1. rest \in Int /\ taxes \in Int /\ taxes >= 0 /\ money \in Int /\ rest = money - taxes
    BY <1>2, <1>3
  <2> QED
    BY <1>6, <2>1
<1>8. paid.err = ""
  <2>1. s.db.bal[e][p] >= rest
    BY <1>7 DEF x
  <2> HIDE DEF p
  <2>2. paid.err = s.err
    BY <1>2, <1>4, <2>1, MoveSucceeds
  <2> QED
    BY <2>2 DEF Able
<1> HIDE DEF paid
<1>9. more.err = ""
  <2>1. paid.db.bal[e][p] >= taxes
    BY <1>7 DEF y
  <2> HIDE DEF p
  <2>2. more.err = paid.err
    BY <1>2, <1>4, <1>5, <2>1, MoveSucceeds
  <2> QED
    BY <1>8, <2>2
<1> QED
  BY <1>1, <1>8, <1>9

\* A payment of a token of t is a charge of t.
LEMMA SentCharged ==
    ASSUME NEW d \in Tables, NEW s, s.db \in Tables, NEW r, r.db \in Tables, NEW t \in Txs,
           NEW e \in Tokens[t], NEW sum, Charged(d, s.db, t), Sent(s, r, t, e, sum)
    PROVE  Charged(d, r.db, t)
<1> DEFINE f == s.db
           g == r.db
<1>1. /\ f.src = d.src /\ f.rate = d.rate /\ f.column = d.column /\ f.row = d.row
      /\ \A x \in Ecos, k \in Accounts :
           /\ x \notin Tokens[t] => f.bal[x][k] = d.bal[x][k]
           /\ k # Payer[t] => f.bal[x][k] >= d.bal[x][k]
  BY DEF Charged
<1>2. /\ g.src = f.src /\ g.rate = f.rate /\ g.column = f.column /\ g.row = f.row
      /\ \A x \in Ecos, k \in Accounts : /\ x # e => g.bal[x][k] = f.bal[x][k]
                                         /\ k # Payer[t] => g.bal[x][k] >= f.bal[x][k]
  BY DEF Sent
<1>3. \A x \in Ecos, k \in Accounts :
        d.bal[x][k] \in Int /\ f.bal[x][k] \in Int /\ g.bal[x][k] \in Int
  <2>1. ASSUME NEW h \in Tables PROVE \A x \in Ecos, k \in Accounts : h.bal[x][k] \in Int
    BY DEF Tables
  <2> QED
    BY <2>1
<1> HIDE DEF f, g
<1>4. ASSUME NEW x \in Ecos, NEW k \in Accounts
      PROVE  /\ x \notin Tokens[t] => g.bal[x][k] = d.bal[x][k]
             /\ k # Payer[t] => g.bal[x][k] >= d.bal[x][k]
  <2>1. x \notin Tokens[t] => x # e
    OBVIOUS
  <2>2. k # Payer[t] => g.bal[x][k] >= f.bal[x][k] /\ f.bal[x][k] >= d.bal[x][k]
    BY <1>1, <1>2
  <2>3. d.bal[x][k] \in Int /\ f.bal[x][k] \in Int /\ g.bal[x][k] \in Int
    BY <1>3
  <2> QED
    BY <1>1, <1>2, <2>1, <2>2, <2>3
<1>5. Charged(d, g, t)
  BY <1>1, <1>2, <1>4 DEF Charged
<1> QED
  BY <1>5 DEF g

\* Each token of t pays once.
PaysOnce(pay, t) ==
    /\ PayOK(pay, t)
    /\ \A i \in 1..Len(pay.ecos) : pay.ecos[i] \in Tokens[t]
    /\ \A i, j \in 1..Len(pay.ecos) : pay.ecos[i] = pay.ecos[j] => i = j

LEMMA PayContractCharges ==
    ASSUME TaxesSize <= 100, NEW s, NEW b0, Running(s, b0), NEW t \in Txs, NEW pay,
           PaysOnce(pay, t), NEW key \in Accounts, NEW fine
    PROVE  LET r == PayContract(s, t, pay, key, fine)
           IN  Charged(s.db, r.db, t) /\ r.fuel = s.fuel
<1> DEFINE n == Len(pay.ecos)
           money == Bills(s.fuel, t, pay, fine)
           amount == [e \in Ecos |-> pay.bal[e][Payer[t]]]
           ecos == pay.ecos
           out == PayContract(s, t, pay, key, fine)
           d == s.db
           fuel == s.fuel
<1>1. n \in Nat /\ \A i \in 1..n : ecos[i] \in Ecos /\ ecos[i] \in Tokens[t]
  BY DEF PayOK, PaysOnce
<1>2. \A i \in 1..n : money[i] \in Nat
  <2>1. s.fuel \in Nat
    BY DEF Running
  <2> QED
    BY <2>1, BillsNat DEF PaysOnce
<1>3. \E run : PaySteps(run, s, t, n, ecos, money, amount, key) /\ out = run[n]
  BY <1>1, PayContractSteps
<1>4. d \in Tables /\ Charged(d, d, t)
  <2>1. d \in Tables
    BY DEF Running
  <2> HIDE DEF d
  <2>2. \A x \in Ecos, k \in Accounts : d.bal[x][k] \in Int
    BY <2>1 DEF Tables
  <2>3. \A x \in Ecos, k \in Accounts : d.bal[x][k] >= d.bal[x][k]
    BY <2>2
  <2> QED
    BY <2>1, <2>3 DEF Charged
<1>5. d = s.db /\ fuel = s.fuel
  OBVIOUS
<1> HIDE DEF n, money, amount, ecos, out, d, fuel
<1>6. PICK run : PaySteps(run, s, t, n, ecos, money, amount, key) /\ out = run[n]
  BY <1>3
<1> DEFINE Good(x) == Running(x, b0) /\ Charged(d, x.db, t) /\ x.fuel = fuel
           P == {i \in 0..n : Good(run[i])}
<1>7. 0 \in P
  BY <1>1, <1>4, <1>5, <1>6 DEF PaySteps
<1>8. ASSUME NEW i \in 0..n-1, i \in P PROVE i + 1 \in P
  <2>1. i + 1 \in 1..n /\ (i + 1) - 1 = i /\ i + 1 \in 0..n
    BY <1>1
  <2> DEFINE e == ecos[i+1]
             x == run[i]
             m == money[i+1]
             y == PayOne(x, t, e, m, amount, key)
  <2>2. run[i+1] = y /\ e \in Ecos /\ e \in Tokens[t] /\ m \in Nat
    BY <1>1, <1>2, <1>6, <2>1 DEF PaySteps
  <2>3. Good(x)
    BY <1>8
  <2> HIDE DEF e, x, m
  <2>4. Running(y, b0) /\ Sent(x, y, t, e, m)
    BY <2>2, <2>3, PayOneRunning, PayOneSends
  <2> HIDE DEF y
  <2>5. x.db \in Tables /\ y.db \in Tables
    BY <2>3, <2>4 DEF Running
  <2>6. Charged(d, y.db, t)
    BY <1>4, <2>2, <2>3, <2>4, <2>5, SentCharged
  <2>7. y.fuel = fuel
    BY <2>3, <2>4 DEF Sent
  <2>8. Good(y)
    BY <2>4, <2>6, <2>7
  <2> HIDE DEF Good
  <2> QED
    BY <2>1, <2>2, <2>8
<1> HIDE DEF P
<1>9. n \in P
  BY <1>1, <1>7, <1>8, UpTo
<1>10. Charged(d, out.db, t) /\ out.fuel = fuel
  BY <1>6, <1>9 DEF P
<1> QED
  BY <1>10 DEF out, d, fuel

\* A payer who had the money before the contract ran, and has it, pays every token.
Solvent(s, t, pay, fine) ==
    /\ s.err = ""
    /\ \A i \in 1..Len(pay.ecos) :
         /\ s.db.bal[pay.ecos[i]][Payer[t]] >= Bills(s.fuel, t, pay, fine)[i]
         /\ ~ (pay.bal[pay.ecos[i]][Payer[t]] < Bills(s.fuel, t, pay, fine)[i])

LEMMA PayContractSucceeds ==
    ASSUME TaxesSize <= 100, NEW s, NEW b0, Running(s, b0), NEW t \in Txs, NEW pay,
           PaysOnce(pay, t), NEW key \in Accounts, NEW fine, Solvent(s, t, pay, fine)
    PROVE  PayContract(s, t, pay, key, fine).err = ""
<1> DEFINE n == Len(pay.ecos)
           money == Bills(s.fuel, t, pay, fine)
           amount == [e \in Ecos |-> pay.bal[e][Payer[t]]]
           ecos == pay.ecos
           out == PayContract(s, t, pay, key, fine)
           p == Payer[t]
           b == s.db.bal
<1>1. n \in Nat /\ \A i \in 1..n : ecos[i] \in Ecos /\ ecos[i] \in Tokens[t]
  BY DEF PayOK, PaysOnce
<1>2. \A i \in 1..n : money[i] \in Nat
  <2>1. s.fuel \in Nat
    BY DEF Running
  <2> QED
    BY <2>1, BillsNat DEF PaysOnce
<1>3. \E run : PaySteps(run, s, t, n, ecos, money, amount, key) /\ out = run[n]
  BY <1>1, PayContractSteps
<1>4. \A i, j \in 1..n : ecos[i] = ecos[j] => i = j
  BY DEF PaysOnce
<1>5. /\ p \in Accounts
      /\ \A i \in 1..n : b[ecos[i]][p] >= money[i] /\ ~ (amount[ecos[i]] < money[i])
  <2>1. p \in Accounts
    BY PayerFacts
  <2>2. \A i \in 1..n : amount[ecos[i]] = pay.bal[ecos[i]][p]
    BY <1>1
  <2> QED
    BY <2>1, <2>2 DEF Solvent
<1>6. s.err = "" /\ b = s.db.bal
  BY DEF Solvent
<1> HIDE DEF n, money, amount, ecos, out, b
<1>7. PICK run : PaySteps(run, s, t, n, ecos, money, amount, key) /\ out = run[n]
  BY <1>3
<1> DEFINE Good(x, i) == /\ Running(x, b0) /\ x.err = ""
                         /\ \A j \in i+1..n : x.db.bal[ecos[j]][p] = b[ecos[j]][p]
           P == {i \in 0..n : Good(run[i], i)}
<1>8. 0 \in P
  <2>1. run[0] = s /\ 0 \in 0..n
    BY <1>1, <1>7 DEF PaySteps
  <2>2. Good(s, 0)
    BY <1>6
  <2> HIDE DEF Good
  <2> QED
    BY <2>1, <2>2
<1>9. ASSUME NEW i \in 0..n-1, i \in P PROVE i + 1 \in P
  <2>1. /\ i + 1 \in 1..n /\ (i + 1) - 1 = i /\ i + 1 \in 0..n /\ i + 1 \in i+1..n
        /\ \A j \in (i + 1) + 1..n : j \in i+1..n /\ j \in 1..n /\ j # i + 1
    BY <1>1
  <2> DEFINE e == ecos[i+1]
             x == run[i]
             m == money[i+1]
             y == PayOne(x, t, e, m, amount, key)
  <2>2. run[i+1] = y /\ e \in Ecos /\ e \in Tokens[t] /\ m \in Nat
    BY <1>1, <1>2, <1>7, <2>1 DEF PaySteps
  <2>12. b[e][p] >= m /\ ~ (amount[e] < m)
    BY <1>5, <2>1
  <2>3. Good(x, i)
    BY <1>9
  <2>4. \A j \in (i + 1) + 1..n : ecos[j] # e /\ ecos[j] \in Ecos
    BY <1>1, <1>4, <2>1
  <2>5. x.db.bal[e][p] = b[e][p]
    BY <2>1, <2>3
  <2> HIDE DEF e, x, m
  <2>6. Able(x, t, e, m, amount)
    BY <2>3, <2>5, <2>12 DEF Able
  <2>7. Running(x, b0)
    BY <2>3
  <2>8. Running(y, b0) /\ Sent(x, y, t, e, m)
    BY <2>2, <2>7, PayOneRunning, PayOneSends
  <2>9. y.err = ""
    BY <2>2, <2>6, <2>7, PayOneSucceeds
  <2> HIDE DEF y
  <2>10. \A j \in (i + 1) + 1..n : y.db.bal[ecos[j]][p] = x.db.bal[ecos[j]][p]
    BY <1>5, <2>4, <2>8 DEF Sent
  <2>11. Good(y, i + 1)
    <3>1. \A j \in (i + 1) + 1..n : x.db.bal[ecos[j]][p] = b[ecos[j]][p]
      BY <2>1, <2>3
    <3>2. \A j \in (i + 1) + 1..n : y.db.bal[ecos[j]][p] = b[ecos[j]][p]
      BY <2>10, <3>1
    <3> QED
      BY <2>8, <2>9, <3>2
  <2> HIDE DEF Good
  <2> QED
    BY <2>1, <2>2, <2>11
<1> HIDE DEF P
<1>10. n \in P
  BY <1>1, <1>8, <1>9, UpTo
<1> QED
  BY <1>7, <1>10 DEF P, out

\* No function of a contract changes the fuel.
LEMMA LogFuel ==
    ASSUME NEW s, DOMAIN s = Fields, NEW e
    PROVE  DOMAIN Log(s, e) = Fields /\ Log(s, e).fuel = s.fuel
  BY DEF Log, Fields

LEMMA FailFuel ==
    ASSUME NEW s, DOMAIN s = Fields, NEW x
    PROVE  Fail(s, x).fuel = s.fuel /\ Fail(s, x).err = x
  BY DEF Fail, Fields

LEMMA FunctionsFuel ==
    ASSUME NEW s, DOMAIN s = Fields, NEW c
    PROVE  /\ CreateContract(s, c).fuel = s.fuel /\ UpdateContract(s, c).fuel = s.fuel
           /\ UpdateSysParam(s, c).fuel = s.fuel /\ CreateColumn(s).fuel = s.fuel
           /\ CallOther(s, c).fuel = s.fuel
<1>1. CreateContract(s, c).fuel = s.fuel
  <2> DEFINE u == Log(s, <<"insert", Len(s.db.src) + 1>>)
             t == Log(u, <<"NewContract", c>>)
             r == [t EXCEPT !.db.src = Append(@, [name |-> c, ver |-> 1]),
                            !.flush = Append(@, FlushInfo(s.vm, c)),
                            !.vm = FlushBlock(@, c, 1)]
             f == Fail(s, "contract exists")
             there == c \in DOMAIN s.vm.objs \/ \E i \in DOMAIN s.db.src : s.db.src[i].name = c
  <2>1. CreateContract(s, c) = IF there THEN f ELSE r
    BY DEF CreateContract
  <2>2. DOMAIN t = Fields /\ t.fuel = s.fuel
    BY LogFuel
  <2> HIDE DEF t
  <2>3. r.fuel = t.fuel
    BY <2>2 DEF Fields
  <2>4. f.fuel = s.fuel
    BY FailFuel
  <2> HIDE DEF r, f
  <2> QED
    BY <2>1, <2>2, <2>3, <2>4
<1>2. UpdateContract(s, c).fuel = s.fuel
  <2> DEFINE ids == {i \in DOMAIN s.db.src : s.db.src[i].name = c}
             id == CHOOSE i \in ids : TRUE
             u == Log(s, <<"EditContract", id>>)
             t == Log(u, <<"value", id, s.db.src[id].ver>>)
             v == s.db.src[id].ver + 1
             r == [t EXCEPT !.db.src[id].ver = v,
                            !.flush = Append(@, FlushInfo(s.vm, c)),
                            !.vm = FlushBlock(@, c, v)]
             f == Fail(s, "no contract")
  <2>1. UpdateContract(s, c) = IF ids = {} THEN f ELSE r
    BY DEF UpdateContract
  <2>2. DOMAIN t = Fields /\ t.fuel = s.fuel
    BY LogFuel
  <2> HIDE DEF t, v, id
  <2>3. r.fuel = t.fuel
    BY <2>2 DEF Fields
  <2>4. f.fuel = s.fuel
    BY FailFuel
  <2> HIDE DEF r, f
  <2> QED
    BY <2>1, <2>2, <2>3, <2>4
<1>3. UpdateSysParam(s, c).fuel = s.fuel
  BY LogFuel DEF UpdateSysParam, Fields
<1>4. CreateColumn(s).fuel = s.fuel
  <2> DEFINE t == Log(s, <<"NewColumn">>)
             r == [t EXCEPT !.db.column = TRUE]
             f == Fail(s, "column exists")
  <2>1. CreateColumn(s) = IF s.db.column THEN f ELSE r
    BY DEF CreateColumn
  <2>2. DOMAIN t = Fields /\ t.fuel = s.fuel
    BY LogFuel
  <2> HIDE DEF t
  <2>3. r.fuel = t.fuel
    BY <2>2 DEF Fields
  <2>4. f.fuel = s.fuel
    BY FailFuel
  <2> HIDE DEF r, f
  <2> QED
    BY <2>1, <2>2, <2>3, <2>4
<1>5. CallOther(s, c).fuel = s.fuel
  <2> DEFINE t == Log(s, <<"row", s.db.row>>)
             r == [t EXCEPT !.db.row = s.vm.objs[c].ver]
             f == Fail(s, "unknown contract")
  <2>1. CallOther(s, c) = IF c \notin DOMAIN s.vm.objs THEN f ELSE r
    BY DEF CallOther
  <2>2. DOMAIN t = Fields /\ t.fuel = s.fuel
    BY LogFuel
  <2> HIDE DEF t
  <2>3. r.fuel = t.fuel
    BY <2>2 DEF Fields
  <2>4. f.fuel = s.fuel
    BY FailFuel
  <2> HIDE DEF r, f
  <2> QED
    BY <2>1, <2>2, <2>3, <2>4
<1> QED
  BY <1>1, <1>2, <1>3, <1>4, <1>5

\* A call uses one fuel at most.
LEMMA ExecFuel ==
    ASSUME NEW s, NEW b0, Running(s, b0), NEW t \in Txs, NEW i \in 1..Len(Code[t])
    PROVE  Exec(s, t, Code[t][i]).fuel \in {s.fuel, s.fuel + 1}
<1> DEFINE op == Code[t][i]
           r == [s EXCEPT !.fuel = @ + 1]
           e == Exec(s, t, op)
<1>1. /\ op[1] \in {"create", "edit", "rate", "column", "call", "send", "error"}
      /\ op[1] \in {"rate", "send"} => op[2] \in Nat
  BY CodeFacts
<1> HIDE DEF op
<1>2. /\ s.err # "" => e = s
      /\ s.err = "" =>
        /\ op[1] = "create" => e = CreateContract(r, op[2])
        /\ op[1] = "edit"   => e = UpdateContract(r, op[2])
        /\ op[1] = "rate"   => e = UpdateSysParam(r, op[2])
        /\ op[1] = "column" => e = CreateColumn(r)
        /\ op[1] = "call"   => e = CallOther(r, op[2])
        /\ op[1] = "send"   => e = Move(r, 1, Payer[t], Wallet, op[2])
        /\ op[1] = "error"  => e = Fail(r, "error")
  BY DEF Exec
<1>3. /\ DOMAIN s = Fields /\ s.db \in Tables /\ ObjsOK(s.vm) /\ FlushOK(s.flush)
      /\ s.cache \in Nat /\ s.fuel \in Nat
  BY DEF Running
<1>4. /\ DOMAIN r = Fields /\ r.db = s.db /\ r.log = s.log /\ r.vm = s.vm /\ r.flush = s.flush
      /\ r.cache = s.cache /\ r.fuel = s.fuel + 1
  BY <1>3 DEF Fields
<1> HIDE DEF e, r
<1>5. Running(r, b0)
  <2>1. r.fuel \in Nat
    BY <1>3, <1>4
  <2> QED
    BY <1>3, <1>4, <2>1, OtherRunning
<1>6. op[1] = "send" => Move(r, 1, Payer[t], Wallet, op[2]).fuel = r.fuel
  <2> SUFFICES ASSUME op[1] = "send"
               PROVE  Move(r, 1, Payer[t], Wallet, op[2]).fuel = r.fuel
    OBVIOUS
  <2> DEFINE m == Move(r, 1, Payer[t], Wallet, op[2])
  <2>1. op[2] \in Nat /\ 1 \in Ecos /\ Wallet \in Accounts
    BY <1>1, PlayAssumption
  <2>2. Sent(r, m, t, 1, op[2])
    BY <1>5, <2>1, MoveSends
  <2> QED
    BY <2>2 DEF Sent
<1>7. s.err = "" => e.fuel = r.fuel
  <2>1. \A c : /\ CreateContract(r, c).fuel = r.fuel /\ UpdateContract(r, c).fuel = r.fuel
               /\ UpdateSysParam(r, c).fuel = r.fuel /\ CreateColumn(r).fuel = r.fuel
               /\ CallOther(r, c).fuel = r.fuel
    BY <1>4, FunctionsFuel
  <2>2. Fail(r, "error").fuel = r.fuel
    BY <1>4, FailFuel
  <2> SUFFICES ASSUME s.err = "" PROVE e.fuel = r.fuel
    OBVIOUS
  <2> QED
    BY <1>1, <1>2, <1>6, <2>1, <2>2
<1>8. e.fuel \in {s.fuel, s.fuel + 1}
  BY <1>2, <1>4, <1>7
<1> QED
  BY <1>8 DEF e, op

\* A run uses the fuel of its calls, or leaves what was there.
LEMMA VMRunFuel ==
    ASSUME NEW s, NEW b0, Running(s, b0), NEW t \in Txs, NEW n \in 0..Len(Code[t])
    PROVE  VMRun(s, t, n).fuel <= s.fuel + Len(Code[t])
<1> DEFINE out == VMRun(s, t, n)
           all == Len(Code[t])
           fuel == s.fuel
<1>1. all \in Nat /\ n \in Nat /\ n <= all
  BY CodeFacts
<1>2. \E run : RunSteps(run, s, t, n) /\ RunEnds(run[n], out, fuel)
  BY <1>1, VMRunSteps
<1>3. fuel \in Nat /\ fuel = s.fuel
  BY DEF Running
<1> HIDE DEF out, fuel
<1>4. PICK run : RunSteps(run, s, t, n) /\ RunEnds(run[n], out, fuel)
  BY <1>2
<1> DEFINE Good(x, i) == Running(x, b0) /\ x.fuel \in Nat /\ x.fuel <= fuel + i
           P == {i \in 0..n : Good(run[i], i)}
<1>5. 0 \in P
  <2>1. run[0] = s /\ 0 \in 0..n
    BY <1>1, <1>4 DEF RunSteps
  <2>2. Good(s, 0)
    BY <1>3
  <2> HIDE DEF Good
  <2> QED
    BY <2>1, <2>2
<1>6. ASSUME NEW i \in 0..n-1, i \in P PROVE i + 1 \in P
  <2>1. i + 1 \in 1..n /\ (i + 1) - 1 = i /\ i + 1 \in 1..Len(Code[t]) /\ i + 1 \in 0..n
    BY <1>1
  <2> DEFINE x == run[i]
             y == Exec(x, t, Code[t][i+1])
  <2>2. run[i+1] = y
    BY <1>4, <2>1 DEF RunSteps
  <2>3. Good(x, i)
    BY <1>6
  <2> HIDE DEF x
  <2>4. Running(y, b0) /\ y.fuel \in {x.fuel, x.fuel + 1}
    BY <2>1, <2>3, ExecRunning, ExecFuel
  <2> HIDE DEF y
  <2>5. y.fuel \in Nat /\ y.fuel <= fuel + (i + 1)
    <3>1. x.fuel \in Nat /\ x.fuel <= fuel + i /\ fuel \in Nat /\ i \in Nat
      BY <1>1, <1>3, <2>3
    <3> QED
      BY <2>4, <3>1
  <2>6. Good(y, i + 1)
    BY <2>4, <2>5
  <2> HIDE DEF Good
  <2> QED
    BY <2>1, <2>2, <2>6
<1> HIDE DEF P
<1>7. n \in P
  BY <1>1, <1>5, <1>6, UpTo
<1> DEFINE end == run[n]
<1>8. Running(end, b0) /\ end.fuel \in Nat /\ end.fuel <= fuel + all
  <2>1. Good(end, n)
    BY <1>7 DEF P
  <2>2. end.fuel \in Nat /\ end.fuel <= fuel + n
    BY <2>1
  <2> HIDE DEF end
  <2> QED
    BY <1>1, <1>3, <2>1, <2>2
<1>9. PICK cut : /\ cut = end \/ cut = Fail(end, "time limit")
                 /\ (out = cut /\ cut.err = "") \/ out = Refuelled(cut, fuel)
  BY <1>4 DEF RunEnds
<1> HIDE DEF end
<1>10. DOMAIN cut = Fields /\ cut.fuel = end.fuel
  <2>1. DOMAIN end = Fields
    BY <1>8 DEF Running
  <2>2. LET f == Fail(end, "time limit") IN DOMAIN f = Fields /\ f.fuel = end.fuel
    BY <2>1, FailFields
  <2> QED
    BY <1>9, <2>1, <2>2
<1>11. Refuelled(cut, fuel).fuel = fuel
  BY <1>10 DEF Refuelled, Fields
<1>12. out.fuel = end.fuel \/ out.fuel = fuel
  BY <1>9, <1>10, <1>11
<1>13. out.fuel <= fuel + all
  BY <1>1, <1>3, <1>8, <1>12
<1> QED
  BY <1>13 DEF out, fuel

\* The payer does not have what the contract may have cost.
Poor(s, t) ==
    \E e \in Tokens[t] : s.db.bal[e][Payer[t]] < (Size[t] + Len(Code[t]) + Storage[t]) * s.cache

\* What is kept of a contract that failed.
Ended(s, r, t) ==
    r.err = "" => /\ r.kind = "failed" => Charged(s.db, r.db, t)
                  /\ r.kind = "unpaid" => r.db = s.db /\ Poor(s, t)

LEMMA KindFields ==
    ASSUME NEW s, DOMAIN s = Fields, NEW k
    PROVE  OfKind(s, k).kind = k /\ OfKind(s, k).db = s.db /\ OfKind(s, k).err = s.err
  BY DEF OfKind, Fields

LEMMA SavepointFields ==
    ASSUME NEW s, DOMAIN s = Fields, NEW saved
    PROVE  LET r == RollbackSavepoint(s, saved)
           IN  r.db = saved.db /\ r.err = "" /\ r.fuel = s.fuel
  BY DEF RollbackSavepoint, Fields

LEMMA OrdersPayOnce ==
    ASSUME NEW t \in Txs, NEW q \in Orders(Tokens[t]), NEW b, NEW rate \in Nat
    PROVE  PaysOnce([bal |-> b, rate |-> rate, ecos |-> q], t)
<1> DEFINE n == Cardinality(Tokens[t])
           pay == [bal |-> b, rate |-> rate, ecos |-> q]
<1>1. Len(q) \in Nat /\ \A i \in 1..Len(q) : q[i] \in Tokens[t] /\ q[i] \in Ecos
  BY OrdersPay
<1>2. n \in Nat
  BY PlayAssumption, FS_CardinalityType
<1> HIDE DEF n
<1>3. q \in [1..n -> Tokens[t]] /\ \A i, j \in DOMAIN q : q[i] = q[j] => i = j
  BY DEF Orders, n
<1>4. Len(q) = n
  BY <1>2, <1>3
<1>5. \A i, j \in 1..Len(q) : q[i] = q[j] => i = j
  BY <1>3, <1>4
<1>6. pay.ecos = q /\ pay.rate \in Nat
  OBVIOUS
<1> HIDE DEF pay
<1>7. PaysOnce(pay, t)
  BY <1>1, <1>5, <1>6 DEF PaysOnce, PayOK
<1> QED
  BY <1>7 DEF pay

\* The payer of a contract that cost no more than it may can pay if he is not poor.
LEMMA RichPays ==
    ASSUME NEW s, NEW b0, Running(s, b0), NEW t \in Txs, NEW fuel \in Nat,
           fuel <= Size[t] + Len(Code[t]) + Storage[t], ~ Poor(s, t), NEW e \in Tokens[t]
    PROVE  s.db.bal[e][Payer[t]] >= fuel * s.cache
<1>1. s.cache \in Nat /\ s.db \in Tables /\ e \in Ecos
  BY DEF Running, Ecos
<1>2. Size[t] \in Nat /\ Len(Code[t]) \in Nat /\ Storage[t] \in Nat /\ Payer[t] \in Accounts
  <2>1. Size[t] \in Nat /\ Storage[t] \in Nat
    BY PlayAssumption
  <2> QED
    BY <2>1, CodeFacts, PayerFacts
<1> DEFINE x == s.db.bal[e][Payer[t]]
           most == Size[t] + Len(Code[t]) + Storage[t]
           rate == s.cache
<1>3. x \in Int
  BY <1>1, <1>2 DEF Tables
<1>4. ~ (x < most * rate)
  BY DEF Poor
<1>5. most \in Nat /\ rate \in Nat /\ fuel <= most
  BY <1>1, <1>2
<1> HIDE DEF x, most, rate
<1>6. fuel * rate <= most * rate /\ fuel * rate \in Int /\ most * rate \in Int
  BY <1>5
<1>7. x >= fuel * rate
  <2> DEFINE u == fuel * rate
             v == most * rate
  <2>1. u <= v /\ u \in Int /\ v \in Int /\ ~ (x < v)
    BY <1>4, <1>6
  <2> HIDE DEF u, v
  <2>2. x >= u
    BY <1>3, <2>1
  <2> QED
    BY <2>2 DEF u
<1> QED
  BY <1>7 DEF x, rate

LEMMA CallContractEnds ==
    ASSUME TaxesSize <= 100, NEW s, NEW b0, Running(s, b0), s.db.bal = b0, NEW t \in Txs,
           NEW upto \in 0..Len(Code[t]), NEW ecos \in Orders(Tokens[t]), NEW key \in Accounts
    PROVE  Ended(s, CallContract(s, t, upto, ecos, key), t)
<1> DEFINE s1 == Refuelled(s, Size[t])
           ready == PrepareMultiPay(s1, t, ecos)
           pay == [bal |-> s.db.bal, rate |-> s.cache, ecos |-> ecos]
           ran == VMRun(ready, t, upto)
           run2 == PayContract(ran, t, pay, key, FALSE)
           paid == IF ran.err = "" THEN run2 ELSE ran
           back == RollbackSavepoint(paid, s)
           fined == PayContract(back, t, pay, key, TRUE)
           free == VMRun(s1, t, upto)
           last == RollbackSavepoint(fined, s)
           k1 == OfKind(free, "ok")
           k2 == OfKind(paid, "ok")
           k3 == OfKind(fined, "failed")
           k4 == OfKind(last, "unpaid")
           e2 == ready.err # ""
           e3 == paid.err = ""
           e4 == fined.err = ""
           r == CallContract(s, t, upto, ecos, key)
           most == Size[t] + Len(Code[t])
<1>1. r = CASE t \in Free -> k1
            [] t \notin Free /\ e2 -> ready
            [] t \notin Free /\ ready.err = "" /\ e3 -> k2
            [] t \notin Free /\ ready.err = "" /\ paid.err # "" /\ e4 -> k3
            [] OTHER -> k4
  BY DEF CallContract, OfKind, Refuelled
<1>2. e2 <=> ~ (ready.err = "")
  OBVIOUS
<1>3. e3 <=> ~ (paid.err # "")
  OBVIOUS
<1>4. \/ r = k1 \/ r = k2 \/ r = k3
      \/ r = ready /\ e2
      \/ r = k4 /\ ~ e4
  <2> DEFINE q2 == ready.err = ""
             q3 == paid.err # ""
  <2>1. r = CASE t \in Free -> k1
              [] t \notin Free /\ e2 -> ready
              [] t \notin Free /\ q2 /\ e3 -> k2
              [] t \notin Free /\ q2 /\ q3 /\ e4 -> k3
              [] OTHER -> k4
    BY <1>1
  <2>2. (e2 <=> ~ q2) /\ (e3 <=> ~ q3)
    BY <1>2, <1>3
  <2> HIDE DEF q2, q3, e2, e3, e4, k1, k2, k3, k4, ready, r
  <2>3. CASE t \in Free
    BY <2>1, <2>3
  <2>4. CASE t \notin Free /\ e2
    BY <2>1, <2>2, <2>4
  <2>5. CASE t \notin Free /\ q2 /\ e3
    BY <2>1, <2>2, <2>5
  <2>6. CASE t \notin Free /\ q2 /\ q3 /\ e4
    BY <2>1, <2>2, <2>6
  <2>7. CASE t \notin Free /\ q2 /\ q3 /\ ~ e4
    BY <2>1, <2>2, <2>7
  <2> QED
    BY <2>2, <2>3, <2>4, <2>5, <2>6, <2>7
<1> HIDE DEF k1, k2, k3, k4, r, e4
<1>5. Size[t] \in Nat /\ Len(Code[t]) \in Nat
  <2>1. Size[t] \in Nat
    BY PlayAssumption
  <2> QED
    BY <2>1, CodeFacts
<1>6. Running(s1, b0) /\ s1.fuel = Size[t] /\ DOMAIN s = Fields /\ s.cache \in Nat
  <2>1. DOMAIN s = Fields /\ s.cache \in Nat
    BY DEF Running
  <2>2. s1.fuel = Size[t]
    BY <2>1 DEF Refuelled, Fields
  <2> QED
    BY <1>5, <2>1, <2>2, RefuelledRunning
<1> HIDE DEF s1
<1>7. Running(ready, b0) /\ ready.fuel = Size[t]
  <2> DEFINE f == Fail(s1, "balance")
  <2>1. ready = f \/ ready = s1
    BY DEF PrepareMultiPay
  <2>2. Running(f, b0)
    BY <1>6, FailRunning
  <2>3. f.fuel = s1.fuel
    <3>1. DOMAIN s1 = Fields
      BY <1>6 DEF Running
    <3> QED
      BY <3>1, FailFuel
  <2> HIDE DEF f, ready
  <2> QED
    BY <1>6, <2>1, <2>2, <2>3
<1>8. PaysOnce(pay, t) /\ PayOK(pay, t) /\ pay.bal = s.db.bal /\ pay.rate = s.cache
  <2>1. PaysOnce(pay, t)
    BY <1>6, OrdersPayOnce
  <2> QED
    BY <2>1 DEF PaysOnce
<1> HIDE DEF ready, pay
<1>9. Running(free, b0) /\ Running(ran, b0) /\ ran.fuel <= most
  <2>1. ran.fuel <= ready.fuel + Len(Code[t])
    BY <1>7, VMRunFuel
  <2> QED
    BY <1>6, <1>7, <2>1, VMRunRunning
<1> HIDE DEF free, ran
<1>10. Running(run2, b0) /\ run2.fuel = ran.fuel
  <2>1. t \in Txs /\ key \in Accounts /\ TaxesSize <= 100
    OBVIOUS
  <2>2. Running(run2, b0)
    BY ONLY <1>8, <1>9, <2>1, PayContractRunning
  <2>3. PaysOnce(pay, t) /\ Running(ran, b0)
    BY <1>8, <1>9
  <2>4. PICK fine : fine = FALSE
    OBVIOUS
  <2>5. PICK after : after = PayContract(ran, t, pay, key, fine)
    OBVIOUS
  <2>6. Charged(ran.db, after.db, t) /\ after.fuel = ran.fuel
    BY ONLY <2>1, <2>3, <2>5, PayContractCharges
  <2>7. after = run2
    BY <2>4, <2>5
  <2> QED
    BY <2>2, <2>6, <2>7
<1> HIDE DEF run2
<1>11. Running(paid, b0) /\ paid.fuel <= most
  <2>1. paid = run2 \/ paid = ran
    OBVIOUS
  <2> HIDE DEF paid
  <2> QED
    BY <1>9, <1>10, <2>1
<1> HIDE DEF paid
<1>12. Running(back, b0) /\ back.db = s.db /\ back.err = "" /\ back.fuel = paid.fuel
  <2>1. DOMAIN paid = Fields
    BY <1>11 DEF Running
  <2> QED
    BY <1>11, <2>1, SavepointRunning, SavepointFields
<1> HIDE DEF back
<1>13. Running(fined, b0) /\ Charged(s.db, fined.db, t)
  <2>1. Charged(back.db, fined.db, t)
    BY <1>8, <1>12, PayContractCharges
  <2> QED
    BY <1>8, <1>12, <2>1, PayContractRunning
<1>14. fined.err # "" => Poor(s, t)
  <2> SUFFICES ASSUME ~ Poor(s, t) PROVE fined.err = ""
    OBVIOUS
  <2>1. back.fuel \in Nat /\ back.fuel <= most /\ Storage[t] \in Nat
    BY <1>11, <1>12, PlayAssumption DEF Running
  <2>2. ASSUME NEW i \in 1..Len(pay.ecos)
        PROVE  LET x == s.db.bal[pay.ecos[i]][Payer[t]]
                   m == Bills(back.fuel, t, pay, TRUE)[i]
               IN  x >= m /\ ~ (x < m)
    <3> DEFINE e == pay.ecos[i]
               x == s.db.bal[e][Payer[t]]
               m == Bills(back.fuel, t, pay, TRUE)[i]
               fuel == Bill(back.fuel, t, pay.ecos, i, TRUE)
    <3>1. e \in Tokens[t] /\ e \in Ecos /\ s.db \in Tables
      BY <1>8 DEF PaysOnce, PayOK, Running
    <3>2. fuel \in Nat /\ fuel <= back.fuel + Storage[t]
      BY <2>1, BillNat
    <3>3. m = fuel * s.cache
      BY <1>8 DEF Bills
    <3> HIDE DEF e, fuel, m
    <3>4. x \in Int
      BY <3>1, PayerFacts DEF Tables
    <3>5. fuel <= Size[t] + Len(Code[t]) + Storage[t]
      BY <1>5, <2>1, <3>2 DEF most
    <3>6. x >= fuel * s.cache
      BY <3>1, <3>2, <3>5, RichPays
    <3>7. m \in Int
      BY <1>6, <3>2, <3>3
    <3> HIDE DEF x
    <3>8. x >= m /\ ~ (x < m)
      BY <3>3, <3>4, <3>6, <3>7
    <3> QED
      BY <3>8 DEF x, m, e
  <2>3. Solvent(back, t, pay, TRUE)
    BY <1>8, <1>12, <2>2 DEF Solvent
  <2> QED
    BY <1>8, <1>12, <2>3, PayContractSucceeds
<1>15. last.db = s.db /\ DOMAIN last = Fields /\ DOMAIN fined = Fields
  <2>1. Running(last, b0)
    BY <1>13, SavepointRunning
  <2>2. DOMAIN fined = Fields
    BY <1>13 DEF Running
  <2> HIDE DEF fined
  <2> QED
    BY <2>1, <2>2, SavepointFields DEF Running
<1> HIDE DEF fined, last, most
<1>16. /\ k1.kind = "ok" /\ k2.kind = "ok"
       /\ k3.kind = "failed" /\ k3.db = fined.db
       /\ k4.kind = "unpaid" /\ k4.db = s.db
  <2>1. DOMAIN free = Fields /\ DOMAIN paid = Fields
    BY <1>9, <1>11 DEF Running
  <2> QED
    BY <1>15, <2>1, KindFields DEF k1, k2, k3, k4
<1>17. Ended(s, k1, t) /\ Ended(s, k2, t)
  BY <1>16 DEF Ended
<1>18. Ended(s, k3, t)
  BY <1>13, <1>16 DEF Ended
<1>19. ~ e4 => Ended(s, k4, t)
  BY <1>14, <1>16 DEF Ended, e4
<1>20. e2 => Ended(s, ready, t)
  BY DEF Ended
<1> HIDE DEF e2
<1>21. Ended(s, r, t)
  BY <1>4, <1>17, <1>18, <1>19, <1>20
<1> QED
  BY <1>21 DEF r

\* The limits keep what a contract did, or make an error of it.
LEMMA ResultsEnd ==
    ASSUME TaxesSize <= 100, IInv, play.on, play.todo # <<>>, NEW r \in Results
    PROVE  Ended(Begun, r, Head(play.todo))
<1> DEFINE t == Head(play.todo)
           b == play.db.bal
           used == play.fuel
           key == play.key
<1>1. /\ t \in Txs /\ key \in Accounts /\ used \in Nat
      /\ Running(Begun, b) /\ Begun.db.bal = b
      /\ \E i \in 0..Len(Code[t]), late \in BOOLEAN, q \in Orders(Tokens[t]) :
           r = CheckLimit(CallContract(Begun, t, i, q, key), used, late)
  BY ResultsFrom
<1> HIDE DEF t, b, used, key
<1>2. PICK i \in 0..Len(Code[t]), late \in BOOLEAN, q \in Orders(Tokens[t]) :
        r = CheckLimit(CallContract(Begun, t, i, q, key), used, late)
  BY <1>1
<1> DEFINE c == CallContract(Begun, t, i, q, key)
           f1 == Fail(c, "stop")
           f2 == Fail(c, "tx fuel")
<1>3. Running(c, b) /\ Ended(Begun, c, t)
  BY <1>1, CallContractRunning, CallContractEnds
<1>4. r = CheckLimit(c, used, late)
  BY <1>2
<1> HIDE DEF c
<1>5. r \in {c, f1, f2}
  BY <1>4 DEF CheckLimit, FuelLimit
<1>6. f1.err = "stop" /\ f2.err = "tx fuel"
  <2>1. DOMAIN c = Fields
    BY <1>3 DEF Running
  <2> QED
    BY <2>1, FailFuel
<1> HIDE DEF f1, f2
<1>7. Ended(Begun, f1, t) /\ Ended(Begun, f2, t)
  BY <1>6 DEF Ended
<1>8. Ended(Begun, r, t)
  BY <1>3, <1>5, <1>7
<1> QED
  BY <1>8 DEF t

\* Only a transaction that is kept makes the list of a block longer.
LEMMA OthersAddNone ==
    ASSUME IInv, [Next]_vars, play.on, play'.on, ~ (\E r \in Results : play.todo # <<>> /\ Keep(r))
    PROVE  play'.undo = play.undo
<1> USE DEF Idle
<1>1. DOMAIN play = PlayFields
  BY DEF IInv, PlayInv, PlayingOK
<1>2. ASSUME NEW r, Skip(r) PROVE play'.undo = play.undo
  BY <1>1, <1>2 DEF Skip, PlayFields
<1>3. ASSUME NEW r, Stop(r) PROVE play'.undo = play.undo
  <2> DEFINE p == [play EXCEPT !.todo = <<>>]
  <2>1. play' = IF play.first THEN Idle ELSE p
    BY <1>3 DEF Stop
  <2>2. p.undo = play.undo
    BY <1>1 DEF PlayFields
  <2> HIDE DEF p
  <2> QED
    BY <2>1, <2>2
<1>4. ASSUME NEW r, Reject(r) PROVE FALSE
  BY <1>4 DEF Reject, Leave
<1>5. CASE PlayTx
  BY <1>2, <1>3, <1>4, <1>5 DEF PlayTx
<1>6. CASE Commit
  BY <1>6 DEF Commit
<1>7. CASE Drop
  BY <1>7 DEF Drop, Leave
<1>8. ASSUME NEW n \in Nodes, Generate(n) \/ Receive(n) PROVE FALSE
  <2>1. ASSUME NEW gen, NEW fork, NEW todo, StartPlay(n, gen, fork, todo) PROVE FALSE
    BY <2>1 DEF StartPlay
  <2> QED
    BY <1>8, <2>1 DEF Generate, Receive
<1>9. ASSUME NEW n \in Nodes, RollbackBlock(n) \/ Restart(n) PROVE play' = play
  BY <1>9 DEF RollbackBlock, Restart
<1>10. CASE UNCHANGED vars
  BY <1>10 DEF vars
<1> QED
  BY <1>5, <1>6, <1>7, <1>8, <1>9, <1>10 DEF Next

\* What a step leaves when a transaction ends in it.
LEMMA EndsKept ==
    ASSUME IInv, [Next]_vars, NEW kind, Ends(kind)
    PROVE  /\ play.on /\ play.todo # <<>>
           /\ \E r \in Results : r.err = "" /\ r.kind = kind /\ play'.db = r.db
<1> DEFINE u == play.undo
<1>1. play.on /\ play'.on /\ Len(play'.undo) > Len(u) /\ Last(play'.undo).kind = kind
  BY DEF Ends
<1>2. DOMAIN play = PlayFields /\ IsList(u)
  BY <1>1 DEF IInv, PlayInv, PlayingOK, BlockOK, Idle
<1>3. Len(u) \in Nat
  BY <1>2, ListFacts
<1>4. play'.undo # u
  BY <1>1, <1>3
<1>5. PICK r \in Results : play.todo # <<>> /\ Keep(r)
  BY <1>1, <1>4, OthersAddNone
<1> DEFINE done == [tx |-> Head(play.todo), log |-> r.log, kind |-> r.kind]
<1>6. play'.undo = Append(u, done) /\ play'.db = r.db /\ r.err = ""
  BY <1>2, <1>5 DEF Keep, PlayFields
<1>7. done.kind = r.kind
  OBVIOUS
<1> HIDE DEF u, done
<1>8. Len(Append(u, done)) = Len(u) + 1 /\ Append(u, done)[Len(u) + 1] = done
  BY <1>2, Appended
<1>9. Last(play'.undo) = done
  BY <1>6, <1>8 DEF Last
<1> QED
  BY <1>1, <1>5, <1>6, <1>7, <1>9

\* A charge is a payment of the payer and nothing else.
LEMMA ChargedOnlyPays ==
    ASSUME NEW t \in Txs, play.db \in Tables, play'.db \in Tables, Charged(play.db, play'.db, t)
    PROVE  OnlyPays(t)
<1> DEFINE d == play.db
           f == play'.db
<1>1. /\ f.src = d.src /\ f.rate = d.rate /\ f.column = d.column /\ f.row = d.row
      /\ \A x \in Ecos, k \in Accounts :
           /\ x \notin Tokens[t] => f.bal[x][k] = d.bal[x][k]
           /\ k # Payer[t] => f.bal[x][k] >= d.bal[x][k]
  BY DEF Charged
<1>2. \A x \in Ecos : d.bal[x] \in [Accounts -> Int] /\ f.bal[x] \in [Accounts -> Int]
  BY DEF Tables
<1>3. [f EXCEPT !.bal = d.bal] = d
  BY <1>1 DEF Tables
<1>4. \A e \in Ecos \ Tokens[t] : f.bal[e] = d.bal[e]
  BY <1>1, <1>2
<1>5. \A e \in Tokens[t], k \in Accounts \ {Payer[t]} : f.bal[e][k] >= d.bal[e][k]
  <2>1. Tokens[t] \subseteq Ecos
    BY DEF Ecos
  <2> QED
    BY <1>1, <2>1
<1> QED
  BY <1>3, <1>4, <1>5 DEF OnlyPays

\* A contract that fails changes nothing but what its payer pays, and one that is not paid for
\* changes nothing at all and had a payer who could not pay it, where the taxes are a share of
\* what is paid: the code accepts any size that is not negative (smart_p.go:116).
THEOREM FailureOnlyPays ==
    ASSUME TaxesSize <= 100
    PROVE  Spec => FailedOnlyPays
<1>1. ASSUME IInv, [Next]_vars, Ends("failed") PROVE OnlyPays(Head(play.todo))
  <2> DEFINE t == Head(play.todo)
             d == play.db
  <2>1. play.on /\ play.todo # <<>>
    BY <1>1, EndsKept
  <2>2. PICK r \in Results : r.err = "" /\ r.kind = "failed" /\ play'.db = r.db
    BY <1>1, EndsKept
  <2>3. Ended(Begun, r, t)
    BY <1>1, <2>1, ResultsEnd
  <2>4. Begun.db = d
    BY DEF Begun
  <2>5. Charged(d, r.db, t)
    BY <2>2, <2>3, <2>4 DEF Ended
  <2>6. Running(r, d.bal) /\ t \in Txs
    BY <1>1, <2>1, ResultsRunning
  <2>7. r.db \in Tables /\ d \in Tables
    BY <1>1, <2>1, <2>6, Played DEF Running, PlayingOK
  <2> HIDE DEF t
  <2>8. OnlyPays(t)
    BY <2>2, <2>5, <2>6, <2>7, ChargedOnlyPays
  <2> QED
    BY <2>8 DEF t
<1>2. ASSUME IInv, [Next]_vars, Ends("unpaid") PROVE PoorIsFree(Head(play.todo))
  <2> DEFINE t == Head(play.todo)
  <2>1. play.on /\ play.todo # <<>>
    BY <1>2, EndsKept
  <2>2. PICK r \in Results : r.err = "" /\ r.kind = "unpaid" /\ play'.db = r.db
    BY <1>2, EndsKept
  <2>3. Ended(Begun, r, t)
    BY <1>2, <2>1, ResultsEnd
  <2>4. Begun.db = play.db /\ Begun.cache = cache[play.node]
    BY DEF Begun
  <2>5. r.db = play.db /\ Poor(Begun, t)
    BY <2>2, <2>3, <2>4 DEF Ended
  <2> HIDE DEF t
  <2>6. \E e \in Tokens[t] :
          play.db.bal[e][Payer[t]] < (Size[t] + Len(Code[t]) + Storage[t]) * cache[play.node]
    BY <2>4, <2>5 DEF Poor
  <2>7. PoorIsFree(t)
    BY <2>2, <2>5, <2>6 DEF PoorIsFree
  <2> QED
    BY <2>7 DEF t
<1>3. IInv /\ [Next]_vars =>
        /\ Ends("failed") => OnlyPays(Head(play.todo))
        /\ Ends("unpaid") => PoorIsFree(Head(play.todo))
  BY <1>1, <1>2
<1> QED
  BY <1>3, Always, PTL DEF Spec, FailedOnlyPays

-----------------------------------------------------------------------------
(* The compiled contracts, what a flush does to them and how it is undone.   *)

\* A table of contracts: every name once, and every contract has been written.
Sound(src) ==
    /\ src \in Seq(Source)
    /\ \A i \in 1..Len(src) : src[i].ver # 0
    /\ \A i, j \in 1..Len(src) : src[i].name = src[j].name => i = j

IsFcn(f) == f = [c \in DOMAIN f |-> f[c]]

\* The compiled contracts of a table, without a choice.
Loaded(m, src) ==
    /\ m = [objs |-> m.objs, kids |-> src] /\ IsFcn(m.objs)
    /\ DOMAIN m.objs = {src[i].name : i \in 1..Len(src)}
    /\ \A i \in 1..Len(src) : m.objs[src[i].name] = [id |-> i, ver |-> src[i].ver]

LEMMA SoundFacts ==
    ASSUME NEW src, Sound(src)
    PROVE  /\ src \in Seq(Source) /\ Len(src) \in Nat /\ DOMAIN src = 1..Len(src)
           /\ \A i \in 1..Len(src) : /\ src[i] \in Source /\ src[i].ver # 0 /\ src[i].ver \in Nat
                                     /\ src[i].name \in Names
                                     /\ src[i] = [name |-> src[i].name, ver |-> src[i].ver]
<1>1. src \in Seq(Source) /\ Len(src) \in Nat /\ DOMAIN src = 1..Len(src)
  BY DEF Sound
<1>2. ASSUME NEW i \in 1..Len(src)
      PROVE  /\ src[i] \in Source /\ src[i].ver # 0 /\ src[i].ver \in Nat /\ src[i].name \in Names
             /\ src[i] = [name |-> src[i].name, ver |-> src[i].ver]
  <2> DEFINE x == src[i]
  <2>1. x \in Source /\ x.ver # 0
    BY <1>1 DEF Sound
  <2> HIDE DEF x
  <2>2. x.ver \in Nat /\ x.name \in Names /\ x = [name |-> x.name, ver |-> x.ver]
    BY <2>1 DEF Source
  <2> QED
    BY <2>1, <2>2 DEF x
<1> QED
  BY <1>1, <1>2

LEMMA SourceShort ==
    ASSUME NEW src \in Seq(Source), NEW m \in 0..Len(src)
    PROVE  LET new == SubSeq(src, 1, m)
           IN  new \in Seq(Source) /\ Len(new) = m /\ \A i \in 1..m : new[i] = src[i]
<1>1. Len(src) \in Nat /\ \A i \in 1..m : src[i] \in Source
  OBVIOUS
<1>2. SubSeq(src, 1, m) \in Seq(Source)
  BY <1>1, SubSeqProperties
<1> QED
  BY <1>1, <1>2

LEMMA LoadLoaded ==
    ASSUME NEW src, Sound(src)
    PROVE  Loaded(LoadContracts(src), src)
<1> DEFINE m == LoadContracts(src)
           ns == {src[i].name : i \in DOMAIN src}
           at(c) == CHOOSE i \in DOMAIN src : src[i].name = c
           o == [c \in ns |-> [id |-> at(c), ver |-> src[at(c)].ver]]
<1>1. m = [objs |-> o, kids |-> src]
  BY DEF LoadContracts
<1>2. DOMAIN src = 1..Len(src) /\ \A i, j \in 1..Len(src) : src[i].name = src[j].name => i = j
  BY SoundFacts DEF Sound
<1>3. ASSUME NEW i \in 1..Len(src) PROVE at(src[i].name) = i
  <2>1. \E j \in DOMAIN src : src[j].name = src[i].name
    BY <1>2
  <2>2. at(src[i].name) \in DOMAIN src /\ src[at(src[i].name)].name = src[i].name
    BY <2>1
  <2> QED
    BY <1>2, <2>2
<1> HIDE DEF at
<1>4. \A i \in 1..Len(src) : o[src[i].name] = [id |-> i, ver |-> src[i].ver]
  BY <1>2, <1>3
<1>5. IsFcn(o) /\ DOMAIN o = ns
  BY DEF IsFcn
<1> HIDE DEF o, m
<1>6. m.objs = o /\ m = [objs |-> m.objs, kids |-> src]
  BY <1>1
<1>7. ns = {src[i].name : i \in 1..Len(src)}
  BY <1>2
<1>8. Loaded(m, src)
  BY <1>4, <1>5, <1>6, <1>7 DEF Loaded
<1> QED
  BY <1>8 DEF m

LEMMA LoadedOnce ==
    ASSUME NEW src, NEW m, NEW k, Loaded(m, src), Loaded(k, src)
    PROVE  m = k
<1> DEFINE f == m.objs
           g == k.objs
           ns == {src[i].name : i \in 1..Len(src)}
           at(i) == [id |-> i, ver |-> src[i].ver]
<1>0. /\ m = [objs |-> f, kids |-> src] /\ IsFcn(f) /\ DOMAIN f = ns
      /\ \A i \in 1..Len(src) : f[src[i].name] = at(i)
  BY DEF Loaded
<1>00. /\ k = [objs |-> g, kids |-> src] /\ IsFcn(g) /\ DOMAIN g = ns
       /\ \A i \in 1..Len(src) : g[src[i].name] = at(i)
  BY DEF Loaded
<1> HIDE DEF f, g, at
<1>1. /\ m = [objs |-> f, kids |-> src] /\ k = [objs |-> g, kids |-> src]
      /\ IsFcn(f) /\ IsFcn(g) /\ DOMAIN f = DOMAIN g
      /\ DOMAIN f = ns
      /\ \A i \in 1..Len(src) : f[src[i].name] = g[src[i].name]
  BY <1>0, <1>00
<1>2. \A c \in DOMAIN f : f[c] = g[c]
  BY <1>1
<1>3. f = g
  BY <1>1, <1>2 DEF IsFcn
<1> QED
  BY <1>1, <1>3

LEMMA LoadIs ==
    ASSUME NEW src, Sound(src), NEW m, Loaded(m, src)
    PROVE  m = LoadContracts(src)
  BY LoadLoaded, LoadedOnce

HasWith(g, f, x, v) ==
    /\ IsFcn(g) /\ DOMAIN g = DOMAIN f \cup {x} /\ g[x] = v
    /\ \A y \in DOMAIN f : y # x => g[y] = f[y]

LEMMA WithFacts ==
    ASSUME NEW f, NEW x, NEW v
    PROVE  HasWith(With(f, x, v), f, x, v)
<1> DEFINE g == With(f, x, v)
<1>1. g = [y \in DOMAIN f \cup {x} |-> IF y = x THEN v ELSE f[y]]
  BY DEF With
<1>2. DOMAIN g = DOMAIN f \cup {x} /\ g[x] = v /\ \A y \in DOMAIN f : y # x => g[y] = f[y]
  BY <1>1
<1>3. IsFcn(g)
  BY <1>1, <1>2 DEF IsFcn
<1> HIDE DEF g
<1>4. HasWith(g, f, x, v)
  BY <1>2, <1>3 DEF HasWith
<1> QED
  BY <1>4 DEF g

LEMMA WithoutFacts ==
    ASSUME NEW f, NEW x
    PROVE  LET g == Without(f, x)
           IN  /\ IsFcn(g) /\ DOMAIN g = DOMAIN f \ {x}
               /\ \A y \in DOMAIN f : y # x => g[y] = f[y]
  BY DEF Without, IsFcn

\* A contract with a new name.
LEMMA LoadAppend ==
    ASSUME NEW src, Sound(src), NEW c \in Names, \A i \in 1..Len(src) : src[i].name # c,
           NEW v \in Nat, v # 0
    PROVE  LET new == Append(src, [name |-> c, ver |-> v])
           IN  /\ Sound(new)
               /\ FlushBlock(LoadContracts(src), c, v) = LoadContracts(new)
               /\ c \notin DOMAIN LoadContracts(src).objs
<1> DEFINE n == Len(src)
           row == [name |-> c, ver |-> v]
           new == Append(src, row)
           m == LoadContracts(src)
           k == FlushBlock(m, c, v)
<1>1. Loaded(m, src) /\ src \in Seq(Source) /\ n \in Nat
  BY LoadLoaded, SoundFacts
<1>2. row \in Source /\ row.name = c /\ row.ver = v
  BY DEF Source
<1> HIDE DEF row
<1>3. /\ new \in Seq(Source) /\ Len(new) = n + 1 /\ new[n+1] = row
      /\ \A i \in 1..n : new[i] = src[i]
  BY <1>1, <1>2, AppendProperties
<1> HIDE DEF new, m
<1>4. \A i \in 1..n+1 : i \in 1..n \/ i = n + 1
  BY <1>1
<1>5. Sound(new)
  <2>1. \A i \in 1..n+1 : new[i].ver # 0
    BY <1>2, <1>3, <1>4 DEF Sound
  <2>2. \A i, j \in 1..n+1 : new[i].name = new[j].name => i = j
    BY <1>2, <1>3, <1>4 DEF Sound
  <2> QED
    BY <1>3, <2>1, <2>2 DEF Sound
<1>6. /\ m = [objs |-> m.objs, kids |-> src] /\ m.kids = src
      /\ DOMAIN m.objs = {src[i].name : i \in 1..n}
      /\ \A i \in 1..n : m.objs[src[i].name] = [id |-> i, ver |-> src[i].ver]
  BY <1>1 DEF Loaded
<1>7. c \notin DOMAIN m.objs
  BY <1>6
<1> DEFINE entry == [id |-> n + 1, ver |-> v]
           o == With(m.objs, c, entry)
<1>8. k = [objs |-> o, kids |-> new]
  <2>1. n + 1 > n
    BY <1>1
  <2> QED
    BY <1>6, <1>7, <2>1 DEF FlushBlock, new, row
<1>9. /\ IsFcn(o) /\ DOMAIN o = DOMAIN m.objs \cup {c} /\ o[c] = entry
      /\ \A x \in DOMAIN m.objs : x # c => o[x] = m.objs[x]
  <2>1. HasWith(o, m.objs, c, entry)
    BY WithFacts
  <2> HIDE DEF o, entry
  <2> QED
    BY <2>1 DEF HasWith
<1> HIDE DEF o, k
<1>10. Loaded(k, new)
  <2>1. k.objs = o /\ k = [objs |-> k.objs, kids |-> new]
    BY <1>8
  <2>2. DOMAIN o = {new[i].name : i \in 1..n+1}
    <3>1. \A i \in 1..n+1 : new[i].name \in DOMAIN o
      BY <1>2, <1>3, <1>4, <1>6, <1>9
    <3>2. n + 1 \in 1..n+1 /\ \A i \in 1..n : i \in 1..n+1
      BY <1>1
    <3>3. \A x \in DOMAIN o : \E i \in 1..n+1 : x = new[i].name
      BY <1>2, <1>3, <1>6, <1>9, <3>2
    <3> QED
      BY <3>1, <3>3
  <2>3. ASSUME NEW i \in 1..n+1 PROVE o[new[i].name] = [id |-> i, ver |-> new[i].ver]
    <3>1. CASE i = n + 1
      BY <1>2, <1>3, <1>9, <3>1
    <3>2. CASE i \in 1..n
      <4>1. new[i] = src[i] /\ src[i].name \in DOMAIN m.objs /\ src[i].name # c
        BY <1>3, <1>6, <3>2
      <4> QED
        BY <1>6, <1>9, <3>2, <4>1
    <3> QED
      BY <1>4, <3>1, <3>2
  <2> QED
    BY <1>3, <1>9, <2>1, <2>2, <2>3 DEF Loaded
<1>11. k = LoadContracts(new)
  BY <1>5, <1>10, LoadIs
<1> QED
  BY <1>5, <1>7, <1>11 DEF k, m, new, row

\* A contract that is written anew.
LEMMA LoadEdit ==
    ASSUME NEW src, Sound(src), NEW id \in 1..Len(src), NEW v \in Nat, v # 0
    PROVE  LET new == [src EXCEPT ![id] = [name |-> src[id].name, ver |-> v]]
           IN  /\ Sound(new) /\ Len(new) = Len(src)
               /\ FlushBlock(LoadContracts(src), src[id].name, v) = LoadContracts(new)
<1> DEFINE n == Len(src)
           c == src[id].name
           row == [name |-> c, ver |-> v]
           new == [src EXCEPT ![id] = row]
           m == LoadContracts(src)
           k == FlushBlock(m, c, v)
<1>1. /\ Loaded(m, src) /\ src \in Seq(Source) /\ n \in Nat /\ DOMAIN src = 1..n /\ c \in Names
      /\ id \in 1..n
  BY LoadLoaded, SoundFacts
<1>2. row \in Source /\ row.name = c /\ row.ver = v
  BY <1>1 DEF Source
<1>0. \A i \in 1..n : c = src[i].name => i = id
  BY DEF Sound
<1>00. c = src[id].name
  OBVIOUS
<1> HIDE DEF row, c
<1>3. /\ new \in Seq(Source) /\ Len(new) = n /\ new[id] = row
      /\ \A i \in 1..n : i # id => new[i] = src[i]
  BY <1>1, <1>2
<1> HIDE DEF new, m
<1>4. \A i \in 1..n : new[i].name = src[i].name
  BY <1>00, <1>1, <1>2, <1>3
<1>5. Sound(new)
  <2>1. \A i \in 1..n : new[i].ver # 0
    BY <1>2, <1>3 DEF Sound
  <2>2. \A i, j \in 1..n : new[i].name = new[j].name => i = j
    BY <1>4 DEF Sound
  <2> QED
    BY <1>3, <2>1, <2>2 DEF Sound
<1>6. /\ m = [objs |-> m.objs, kids |-> src] /\ m.kids = src
      /\ DOMAIN m.objs = {src[i].name : i \in 1..n}
      /\ \A i \in 1..n : m.objs[src[i].name] = [id |-> i, ver |-> src[i].ver]
  BY <1>1 DEF Loaded
<1>7. c \in DOMAIN m.objs /\ m.objs[c].id = id
  <2>1. m.objs[src[id].name] = [id |-> id, ver |-> src[id].ver]
    BY <1>1, <1>6
  <2>2. src[id].name \in DOMAIN m.objs
    BY <1>1, <1>6
  <2> QED
    BY <1>00, <2>1, <2>2
<1> DEFINE entry == [id |-> id, ver |-> v]
           o == With(m.objs, c, entry)
<1>8. k = [objs |-> o, kids |-> new]
  <2>1. ~ (id > n)
    BY <1>1
  <2> QED
    BY <1>6, <1>7, <2>1 DEF FlushBlock, new, row
<1>9. /\ IsFcn(o) /\ DOMAIN o = DOMAIN m.objs \cup {c} /\ o[c] = entry
      /\ \A x \in DOMAIN m.objs : x # c => o[x] = m.objs[x]
  <2>1. HasWith(o, m.objs, c, entry)
    BY WithFacts
  <2> HIDE DEF o, entry
  <2> QED
    BY <2>1 DEF HasWith
<1> HIDE DEF o, k
<1>10. Loaded(k, new)
  <2>1. k.objs = o /\ k = [objs |-> k.objs, kids |-> new]
    BY <1>8
  <2>2. DOMAIN o = {new[i].name : i \in 1..n}
    BY <1>4, <1>6, <1>7, <1>9
  <2>3. ASSUME NEW i \in 1..n PROVE o[new[i].name] = [id |-> i, ver |-> new[i].ver]
    <3>1. CASE i = id
      BY <1>2, <1>3, <1>9, <3>1
    <3>2. CASE i # id
      <4>1. new[i] = src[i] /\ src[i].name \in DOMAIN m.objs /\ src[i].name # c
        BY <1>0, <1>3, <1>6, <3>2
      <4> QED
        BY <1>6, <1>9, <4>1
    <3> QED
      BY <3>1, <3>2
  <2> QED
    BY <1>3, <1>9, <2>1, <2>2, <2>3 DEF Loaded
<1>11. k = LoadContracts(new)
  BY <1>5, <1>10, LoadIs
<1> QED
  BY <1>3, <1>5, <1>11 DEF k, m, new, row, c

\* The last contract is taken away.
LEMMA LoadShort ==
    ASSUME NEW src, Sound(src), NEW c, Len(src) # 0, src[Len(src)].name = c
    PROVE  LET new == SubSeq(src, 1, Len(src) - 1)
               m == LoadContracts(src)
           IN  /\ Sound(new)
               /\ [objs |-> Without(m.objs, c), kids |-> new] = LoadContracts(new)
               /\ c \in DOMAIN m.objs /\ m.objs[c].id = Len(src) /\ m.kids = src
               /\ \A i \in 1..Len(new) : new[i].name # c
<1> DEFINE n == Len(src)
           new == SubSeq(src, 1, n - 1)
           m == LoadContracts(src)
           o == Without(m.objs, c)
           k == [objs |-> o, kids |-> new]
<1>1. Loaded(m, src) /\ src \in Seq(Source) /\ n \in Nat /\ n # 0 /\ src[n].name = c
  BY LoadLoaded, SoundFacts
<1>2. n - 1 \in 0..n /\ n \in 1..n /\ \A i \in 1..n-1 : i \in 1..n /\ i # n
  BY <1>1
<1>3. new \in Seq(Source) /\ Len(new) = n - 1 /\ \A i \in 1..n-1 : new[i] = src[i]
  BY <1>1, <1>2, SourceShort
<1> HIDE DEF new, m
<1>4. Sound(new)
  <2>1. \A i \in 1..n-1 : new[i].ver # 0
    BY <1>2, <1>3 DEF Sound
  <2>2. \A i, j \in 1..n-1 : new[i].name = new[j].name => i = j
    BY <1>2, <1>3 DEF Sound
  <2> QED
    BY <1>3, <2>1, <2>2 DEF Sound
<1>6. /\ m.kids = src /\ DOMAIN m.objs = {src[i].name : i \in 1..n}
      /\ \A i \in 1..n : m.objs[src[i].name] = [id |-> i, ver |-> src[i].ver]
  BY <1>1 DEF Loaded
<1>7. c \in DOMAIN m.objs /\ m.objs[c].id = n
  <2>1. m.objs[src[n].name] = [id |-> n, ver |-> src[n].ver] /\ src[n].name \in DOMAIN m.objs
    BY <1>2, <1>6
  <2> QED
    BY <1>1, <2>1
<1>8. \A i \in 1..n-1 : new[i].name # c
  BY <1>1, <1>2, <1>3 DEF Sound
<1>9. IsFcn(o) /\ DOMAIN o = DOMAIN m.objs \ {c} /\ \A x \in DOMAIN m.objs : x # c => o[x] = m.objs[x]
  BY WithoutFacts
<1> HIDE DEF o
<1>10. Loaded(k, new)
  <2>1. k.objs = o /\ k = [objs |-> k.objs, kids |-> new]
    OBVIOUS
  <2>2. DOMAIN o = {new[i].name : i \in 1..n-1}
    <3>1. \A i \in 1..n-1 : new[i].name \in DOMAIN o
      BY <1>2, <1>3, <1>6, <1>8, <1>9
    <3>2. \A x \in DOMAIN o : \E i \in 1..n-1 : x = new[i].name
      <4> TAKE x \in DOMAIN o
      <4>1. PICK i \in 1..n : x = src[i].name
        BY <1>6, <1>9
      <4>2. i # n
        BY <1>1, <1>9, <4>1
      <4>3. i \in 1..n-1
        BY <1>1, <4>1, <4>2
      <4> QED
        BY <1>3, <4>1, <4>3
    <3> QED
      BY <3>1, <3>2
  <2>3. \A i \in 1..n-1 : o[new[i].name] = [id |-> i, ver |-> new[i].ver]
    <3> TAKE i \in 1..n-1
    <3>1. new[i] = src[i] /\ i \in 1..n /\ src[i].name \in DOMAIN m.objs /\ src[i].name # c
      BY <1>2, <1>3, <1>6, <1>8
    <3> QED
      BY <1>6, <1>9, <3>1
  <2> HIDE DEF k
  <2> QED
    BY <1>3, <1>9, <2>1, <2>2, <2>3 DEF Loaded
<1>11. k = LoadContracts(new)
  BY <1>4, <1>10, LoadIs
<1> QED
  BY <1>3, <1>4, <1>6, <1>7, <1>8, <1>11 DEF k, m, new, o

\* Compiled contracts in which every name has a place.
GoodVM(m) ==
    /\ m = [objs |-> m.objs, kids |-> m.kids] /\ IsFcn(m.objs)
    /\ m.kids \in Seq(Source) /\ \A i \in 1..Len(m.kids) : m.kids[i].ver # 0
    /\ \A c \in DOMAIN m.objs :
         /\ m.objs[c].id \in 1..Len(m.kids) /\ m.objs[c].ver \in Nat
         /\ m.objs[c] = [id |-> m.objs[c].id, ver |-> m.objs[c].ver]

LEMMA LoadGood ==
    ASSUME NEW src, Sound(src)
    PROVE  GoodVM(LoadContracts(src))
<1> DEFINE m == LoadContracts(src)
           n == Len(src)
<1>1. Loaded(m, src)
  BY LoadLoaded
<1>2. src \in Seq(Source) /\ \A i \in 1..n : src[i].ver # 0 /\ src[i].ver \in Nat
  BY SoundFacts
<1> HIDE DEF m, n
<1>3. /\ m = [objs |-> m.objs, kids |-> src] /\ m.kids = src /\ IsFcn(m.objs)
      /\ DOMAIN m.objs = {src[i].name : i \in 1..n}
      /\ \A i \in 1..n : m.objs[src[i].name] = [id |-> i, ver |-> src[i].ver]
  BY <1>1 DEF Loaded, n
<1>4. ASSUME NEW c \in DOMAIN m.objs
      PROVE  /\ m.objs[c].id \in 1..n /\ m.objs[c].ver \in Nat
             /\ m.objs[c] = [id |-> m.objs[c].id, ver |-> m.objs[c].ver]
  <2>1. PICK i \in 1..n : c = src[i].name
    BY <1>3
  <2> DEFINE x == m.objs[c]
             v == src[i].ver
  <2>2. x = [id |-> i, ver |-> v] /\ v \in Nat
    BY <1>2, <1>3, <2>1
  <2> HIDE DEF x, v
  <2>3. x.id = i /\ x.ver = v /\ x = [id |-> x.id, ver |-> x.ver]
    BY <2>2
  <2> QED
    BY <2>2, <2>3 DEF x
<1>5. GoodVM(m)
  BY <1>2, <1>3, <1>4 DEF GoodVM, n
<1> QED
  BY <1>5 DEF m

LEMMA WithBack ==
    ASSUME NEW f, IsFcn(f), NEW c, NEW x
    PROVE  /\ c \in DOMAIN f => With(With(f, c, x), c, f[c]) = f
           /\ c \notin DOMAIN f => Without(With(f, c, x), c) = f
<1> DEFINE g == With(f, c, x)
           h == With(g, c, f[c])
           w == Without(g, c)
<1>1. HasWith(g, f, c, x)
  BY WithFacts
<1>2. HasWith(h, g, c, f[c])
  BY WithFacts
<1>3. IsFcn(w) /\ DOMAIN w = DOMAIN g \ {c} /\ \A y \in DOMAIN g : y # c => w[y] = g[y]
  BY WithoutFacts
<1> HIDE DEF g, h, w
<1>4. ASSUME c \in DOMAIN f PROVE h = f
  <2>1. IsFcn(h) /\ DOMAIN h = DOMAIN f /\ \A y \in DOMAIN f : h[y] = f[y]
    BY <1>1, <1>2, <1>4 DEF HasWith
  <2> QED
    BY <2>1 DEF IsFcn
<1>5. ASSUME c \notin DOMAIN f PROVE w = f
  <2>1. DOMAIN w = DOMAIN f /\ \A y \in DOMAIN f : w[y] = f[y]
    BY <1>1, <1>3, <1>5 DEF HasWith
  <2> QED
    BY <1>3, <2>1 DEF IsFcn
<1> QED
  BY <1>4, <1>5 DEF g, h, w

\* A flush, and how it is taken back.
LEMMA FlushUndone ==
    ASSUME NEW m, GoodVM(m), NEW c \in Names, NEW v \in Nat, v # 0
    PROVE  LET k == FlushBlock(m, c, v)
               f == FlushInfo(m, c)
           IN  /\ GoodVM(k) /\ UndoOne(k, f) = m
               /\ DOMAIN k.objs = DOMAIN m.objs \cup {c}
               /\ f.prev = None <=> c \notin DOMAIN m.objs
<1> DEFINE o == m.objs
           q == m.kids
           n == Len(q)
           row == [name |-> c, ver |-> v]
           k == FlushBlock(m, c, v)
           f == FlushInfo(m, c)
<1>1. /\ m = [objs |-> o, kids |-> q] /\ IsFcn(o) /\ q \in Seq(Source) /\ n \in Nat
      /\ DOMAIN q = 1..n
      /\ \A i \in 1..n : q[i].ver # 0 /\ q[i] \in Source
      /\ \A x \in DOMAIN o : /\ o[x].id \in 1..n /\ o[x].ver \in Nat
                             /\ o[x] = [id |-> o[x].id, ver |-> o[x].ver]
  BY DEF GoodVM
<1>2. row \in Source /\ row.ver # 0 /\ None.ver = 0
  BY DEF Source, None
<1>3. /\ f = IF c \in DOMAIN o
             THEN [id |-> o[c].id, prev |-> q[o[c].id], info |-> o[c].ver, name |-> c]
             ELSE [id |-> n + 1, prev |-> None, info |-> 0, name |-> c]
  BY DEF FlushInfo
<1>4. /\ k = LET id == IF c \in DOMAIN o THEN o[c].id ELSE n + 1
             IN  [objs |-> With(o, c, [id |-> id, ver |-> v]),
                  kids |-> IF id > n THEN Append(q, row) ELSE [q EXCEPT ![id] = row]]
  BY DEF FlushBlock
<1>5. UndoOne(k, f) =
        IF f.prev # None
        THEN [objs |-> With(k.objs, f.name, [id |-> f.id, ver |-> f.info]),
              kids |-> [k.kids EXCEPT ![f.id] = f.prev]]
        ELSE IF f.id # Len(k.kids) THEN k
        ELSE [objs |-> Without(k.objs, f.name), kids |-> SubSeq(k.kids, 1, f.id - 1)]
  BY DEF UndoOne
<1> HIDE DEF o, q, n, row, k, f
\* The tables with the new contract are good, whatever place it has.
<1>6. ASSUME NEW id \in Nat, NEW p, p \in Seq(Source), id \in 1..Len(p), n <= Len(p),
             \A i \in 1..Len(p) : p[i].ver # 0,
             k = [objs |-> With(o, c, [id |-> id, ver |-> v]), kids |-> p]
      PROVE  GoodVM(k) /\ DOMAIN k.objs = DOMAIN o \cup {c}
  <2> DEFINE entry == [id |-> id, ver |-> v]
             g == With(o, c, entry)
  <2>1. HasWith(g, o, c, entry)
    BY WithFacts
  <2>2. entry.id = id /\ entry.ver = v /\ entry = [id |-> entry.id, ver |-> entry.ver]
    OBVIOUS
  <2>3. k.objs = g /\ k.kids = p /\ k = [objs |-> g, kids |-> p]
    BY <1>6
  <2> HIDE DEF g, entry
  <2>4. IsFcn(g) /\ DOMAIN g = DOMAIN o \cup {c}
    BY <2>1 DEF HasWith
  <2>5. ASSUME NEW x \in DOMAIN g
        PROVE  /\ g[x].id \in 1..Len(p) /\ g[x].ver \in Nat
               /\ g[x] = [id |-> g[x].id, ver |-> g[x].ver]
    <3>1. CASE x = c
      <4>1. g[x] = entry
        BY <2>1, <3>1 DEF HasWith
      <4> QED
        BY <1>6, <2>2, <4>1
    <3>2. CASE x # c
      <4>1. g[x] = o[x] /\ x \in DOMAIN o
        BY <2>1, <2>4, <3>2 DEF HasWith
      <4>2. o[x].id \in 1..n /\ \A i \in 1..n : i \in 1..Len(p)
        BY <1>1, <1>6, <4>1
      <4> QED
        BY <1>1, <4>1, <4>2
    <3> QED
      BY <3>1, <3>2
  <2> QED
    BY <1>6, <2>3, <2>4, <2>5 DEF GoodVM
<1>7. CASE c \in DOMAIN o
  <2> DEFINE id == o[c].id
             entry == [id |-> id, ver |-> v]
             p == [q EXCEPT ![id] = row]
             was == [id |-> id, ver |-> o[c].ver]
  <2>1. id \in 1..n /\ ~ (id > n) /\ id \in Nat
    BY <1>1, <1>7
  <2>2. k = [objs |-> With(o, c, entry), kids |-> p]
    BY <1>4, <1>7, <2>1
  <2>3. /\ p \in Seq(Source) /\ Len(p) = n /\ p[id] = row
        /\ \A i \in 1..n : i # id => p[i] = q[i]
    BY <1>1, <1>2, <2>1
  <2>4. f.prev = q[id] /\ f.id = id /\ f.info = o[c].ver /\ f.name = c
    BY <1>3, <1>7
  <2>5. was = o[c]
    BY <1>1, <1>7
  <2> HIDE DEF entry, was, id
  <2>6. [p EXCEPT ![id] = q[id]] = q
    <3> DEFINE w == [p EXCEPT ![id] = q[id]]
    <3> HIDE DEF p
    <3>1. w \in Seq(Source) /\ Len(w) = n /\ \A i \in 1..n : w[i] = q[i]
      BY <1>1, <2>1, <2>3
    <3> HIDE DEF w
    <3>2. w = q
      BY <1>1, <3>1, SeqEqual DEF n
    <3> QED
      BY <3>2 DEF w
  <2>7. \A i \in 1..n : p[i].ver # 0
    BY <1>1, <1>2, <2>3
  <2> HIDE DEF p
  <2>8. GoodVM(k) /\ DOMAIN k.objs = DOMAIN o \cup {c}
    <3>1. id \in 1..Len(p) /\ n <= Len(p) /\ \A i \in 1..Len(p) : p[i].ver # 0
      BY <1>1, <2>1, <2>3, <2>7
    <3>2. k = [objs |-> With(o, c, [id |-> id, ver |-> v]), kids |-> p]
      BY <2>2 DEF entry
    <3> QED
      BY <1>6, <2>1, <2>3, <3>1, <3>2
  <2>9. f.prev # None
    BY <1>1, <1>2, <2>1, <2>4
  <2>10. UndoOne(k, f) = m
    <3>1. k.objs = With(o, c, entry) /\ k.kids = p
      BY <2>2
    <3>2. With(k.objs, c, was) = o
      BY <1>1, <1>7, <2>5, <3>1, WithBack
    <3>3. UndoOne(k, f) = [objs |-> With(k.objs, c, was), kids |-> [p EXCEPT ![id] = q[id]]]
      BY <1>5, <2>4, <2>9, <3>1 DEF was
    <3> QED
      BY <1>1, <2>6, <3>2, <3>3
  <2> QED
    BY <1>7, <2>8, <2>9, <2>10 DEF k, f, o
<1>8. CASE c \notin DOMAIN o
  <2> DEFINE id == n + 1
             entry == [id |-> id, ver |-> v]
             p == Append(q, row)
  <2>1. id > n /\ id \in Nat /\ id # 0 /\ id - 1 = n /\ n <= id /\ id \in 1..id
        /\ \A i \in 1..id : i = id \/ i \in 1..n
    BY <1>1
  <2>2. k = [objs |-> With(o, c, entry), kids |-> p]
    BY <1>4, <1>8, <2>1
  <2>3. /\ p \in Seq(Source) /\ Len(p) = id /\ p[id] = row
        /\ \A i \in 1..n : p[i] = q[i]
    BY <1>1, <1>2, AppendProperties
  <2>4. f.prev = None /\ f.id = id /\ f.name = c
    BY <1>3, <1>8
  <2>5. SubSeq(p, 1, n) = q
    <3>1. n \in 0..Len(p)
      BY <1>1, <2>3
    <3> DEFINE w == SubSeq(p, 1, n)
    <3> HIDE DEF p
    <3>2. w \in Seq(Source) /\ Len(w) = n /\ \A i \in 1..n : w[i] = p[i]
      BY <2>3, <3>1, SourceShort
    <3> HIDE DEF w
    <3>3. \A i \in 1..n : w[i] = q[i]
      BY <2>3, <3>2
    <3>4. w = q
      BY <1>1, <3>2, <3>3, SeqEqual DEF n
    <3> QED
      BY <3>4 DEF w
  <2> HIDE DEF entry, id, p
  <2>6. \A i \in 1..id : p[i].ver # 0
    BY <1>1, <1>2, <2>1, <2>3
  <2>7. GoodVM(k) /\ DOMAIN k.objs = DOMAIN o \cup {c}
    BY <1>6, <2>1, <2>2, <2>3, <2>6 DEF entry
  <2>8. UndoOne(k, f) = m
    <3>1. k.objs = With(o, c, entry) /\ k.kids = p
      BY <2>2
    <3>2. Without(k.objs, c) = o
      BY <1>1, <1>8, <3>1, WithBack
    <3>3. UndoOne(k, f) = [objs |-> Without(k.objs, c), kids |-> SubSeq(p, 1, n)]
      BY <1>5, <2>1, <2>3, <2>4, <3>1
    <3> QED
      BY <1>1, <2>5, <3>2, <3>3
  <2> QED
    BY <1>8, <2>4, <2>7, <2>8 DEF k, f, o
<1> QED
  BY <1>7, <1>8

UndoSteps(run, m, n, q) ==
    run[0] = m /\ \A i \in 1..n : run[i] = UndoOne(run[i-1], q[n + 1 - i])

LEMMA UndoingSteps ==
    ASSUME NEW m, NEW q, NEW n \in Nat, NEW run, Undoing(run, m, n, q)
    PROVE  UndoSteps(run, m, n, q)
<1>1. run = [i \in 0..n |-> IF i = 0 THEN m ELSE UndoOne(run[i-1], q[n + 1 - i])]
  BY DEF Undoing
<1>2. 0 \in 0..n /\ \A i \in 1..n : i \in 0..n /\ i # 0
  OBVIOUS
<1> QED
  BY <1>1, <1>2, Zenon DEF UndoSteps

\* The last flush is undone first.
LEMMA UndoAppended ==
    ASSUME NEW m, NEW q, IsList(q), NEW f
    PROVE  UndoFlush(m, Append(q, f)) = UndoFlush(UndoOne(m, f), q)
<1> DEFINE n == Len(q)
           w == Append(q, f)
           k == UndoOne(m, f)
           r1 == CHOOSE g : Undoing(g, m, n + 1, w)
           r2 == CHOOSE g : Undoing(g, k, n, q)
<1>1. n \in Nat /\ Len(w) = n + 1 /\ w[n+1] = f /\ \A i \in 1..n : w[i] = q[i]
  BY ListFacts, Appended
<1>2. UndoFlush(m, w) = r1[n+1]
  <2> HIDE DEF w, n
  <2>1. UndoFlush(m, w) = (CHOOSE g : Undoing(g, m, Len(w), w))[Len(w)]
    BY DEF UndoFlush, Undoing
  <2> QED
    BY <1>1, <2>1
<1>3. UndoFlush(k, q) = r2[n]
  BY DEF UndoFlush, Undoing
<1> HIDE DEF n, w, k
<1>4. n + 1 \in Nat
  BY <1>1
<1>5. Undoing(r1, m, n + 1, w) /\ Undoing(r2, k, n, q)
  BY <1>1, <1>4, UndoingExists
<1> HIDE DEF r1, r2
<1>6. r1[0] = m /\ \A i \in 1..n+1 : r1[i] = UndoOne(r1[i-1], w[(n + 1) + 1 - i])
  <2>1. UndoSteps(r1, m, n + 1, w)
    BY <1>4, <1>5, UndoingSteps
  <2> QED
    BY <2>1, Zenon DEF UndoSteps
<1>7. r2[0] = k /\ \A i \in 1..n : r2[i] = UndoOne(r2[i-1], q[n + 1 - i])
  <2>1. UndoSteps(r2, k, n, q)
    BY <1>1, <1>5, UndoingSteps
  <2> QED
    BY <2>1, Zenon DEF UndoSteps
<1> DEFINE P == {i \in 0..n : r2[i] = r1[i+1]}
<1>8. 0 \in P
  <2>1. 1 \in 1..n+1 /\ 1 - 1 = 0 /\ (n + 1) + 1 - 1 = n + 1 /\ 0 + 1 = 1 /\ 0 \in 0..n
    BY <1>1
  <2>2. r1[1] = k
    BY <1>1, <1>6, <2>1 DEF k
  <2> QED
    BY <1>7, <2>1, <2>2
<1>9. ASSUME NEW i \in 0..n-1, i \in P PROVE i + 1 \in P
  <2>1. /\ i + 1 \in 1..n /\ (i + 1) - 1 = i /\ i + 1 \in 0..n /\ n + 1 - (i + 1) \in 1..n
        /\ (i + 1) + 1 \in 1..n+1 /\ ((i + 1) + 1) - 1 = i + 1
        /\ (n + 1) + 1 - ((i + 1) + 1) = n + 1 - (i + 1)
    BY <1>1
  <2>2. r2[i+1] = UndoOne(r2[i], q[n + 1 - (i + 1)])
    BY <1>7, <2>1
  <2>3. r1[(i+1)+1] = UndoOne(r1[i+1], w[n + 1 - (i + 1)])
    BY <1>6, <2>1
  <2> QED
    BY <1>1, <1>9, <2>1, <2>2, <2>3
<1> HIDE DEF P
<1>10. n \in P
  BY <1>1, <1>8, <1>9, UpTo
<1> QED
  BY <1>2, <1>3, <1>10 DEF P, w, k

LEMMA UndoNothing ==
    ASSUME NEW m
    PROVE  UndoFlush(m, <<>>) = m
<1> DEFINE run == CHOOSE g : Undoing(g, m, 0, <<>>)
<1>1. UndoFlush(m, <<>>) = run[0]
  <2>1. UndoFlush(m, <<>>) = (CHOOSE g : Undoing(g, m, Len(<<>>), <<>>))[Len(<<>>)]
    BY DEF UndoFlush, Undoing
  <2> QED
    BY <2>1
<1>2. Undoing(run, m, 0, <<>>)
  BY UndoingExists
<1> HIDE DEF run
<1>3. run[0] = m
  BY <1>2 DEF Undoing
<1> QED
  BY <1>1, <1>3

-----------------------------------------------------------------------------
(* Rolling back, one entry and one transaction at a time.                    *)

BackSteps(run, m, n, q) ==
    run[0] = m /\ \A i \in 1..n : run[i] = RollbackEntry(run[i-1], q[n + 1 - i])

LEMMA BackingSteps ==
    ASSUME NEW m, NEW q, NEW n \in Nat, NEW run, Backing(run, m, n, q)
    PROVE  BackSteps(run, m, n, q)
<1>1. run = [i \in 0..n |-> IF i = 0 THEN m ELSE RollbackEntry(run[i-1], q[n + 1 - i])]
  BY DEF Backing
<1>2. 0 \in 0..n /\ \A i \in 1..n : i \in 0..n /\ i # 0
  OBVIOUS
<1> QED
  BY <1>1, <1>2, Zenon DEF BackSteps

\* The last entry is taken back first.
LEMMA BackAppended ==
    ASSUME NEW m, NEW q, IsList(q), NEW f
    PROVE  RollbackTransaction(m, Append(q, f)) = RollbackTransaction(RollbackEntry(m, f), q)
<1> DEFINE n == Len(q)
           w == Append(q, f)
           k == RollbackEntry(m, f)
           r1 == CHOOSE g : Backing(g, m, n + 1, w)
           r2 == CHOOSE g : Backing(g, k, n, q)
<1>1. n \in Nat /\ Len(w) = n + 1 /\ w[n+1] = f /\ \A i \in 1..n : w[i] = q[i]
  BY ListFacts, Appended
<1>2. RollbackTransaction(m, w) = r1[n+1]
  <2> HIDE DEF w, n
  <2>1. RollbackTransaction(m, w) = (CHOOSE g : Backing(g, m, Len(w), w))[Len(w)]
    BY DEF RollbackTransaction, Backing
  <2> QED
    BY <1>1, <2>1
<1>3. RollbackTransaction(k, q) = r2[n]
  BY DEF RollbackTransaction, Backing
<1> HIDE DEF n, w, k
<1>4. n + 1 \in Nat
  BY <1>1
<1>5. Backing(r1, m, n + 1, w) /\ Backing(r2, k, n, q)
  BY <1>1, <1>4, BackingExists
<1> HIDE DEF r1, r2
<1>6. r1[0] = m /\ \A i \in 1..n+1 : r1[i] = RollbackEntry(r1[i-1], w[(n + 1) + 1 - i])
  <2>1. BackSteps(r1, m, n + 1, w)
    BY <1>4, <1>5, BackingSteps
  <2> QED
    BY <2>1, Zenon DEF BackSteps
<1>7. r2[0] = k /\ \A i \in 1..n : r2[i] = RollbackEntry(r2[i-1], q[n + 1 - i])
  <2>1. BackSteps(r2, k, n, q)
    BY <1>1, <1>5, BackingSteps
  <2> QED
    BY <2>1, Zenon DEF BackSteps
<1> DEFINE P == {i \in 0..n : r2[i] = r1[i+1]}
<1>8. 0 \in P
  <2>1. 1 \in 1..n+1 /\ 1 - 1 = 0 /\ (n + 1) + 1 - 1 = n + 1 /\ 0 + 1 = 1 /\ 0 \in 0..n
    BY <1>1
  <2>2. r1[1] = k
    BY <1>1, <1>6, <2>1 DEF k
  <2> QED
    BY <1>7, <2>1, <2>2
<1>9. ASSUME NEW i \in 0..n-1, i \in P PROVE i + 1 \in P
  <2>1. /\ i + 1 \in 1..n /\ (i + 1) - 1 = i /\ i + 1 \in 0..n /\ n + 1 - (i + 1) \in 1..n
        /\ (i + 1) + 1 \in 1..n+1 /\ ((i + 1) + 1) - 1 = i + 1
        /\ (n + 1) + 1 - ((i + 1) + 1) = n + 1 - (i + 1)
    BY <1>1
  <2>2. r2[i+1] = RollbackEntry(r2[i], q[n + 1 - (i + 1)])
    BY <1>7, <2>1
  <2>3. r1[(i+1)+1] = RollbackEntry(r1[i+1], w[n + 1 - (i + 1)])
    BY <1>6, <2>1
  <2> QED
    BY <1>1, <1>9, <2>1, <2>2, <2>3
<1> HIDE DEF P
<1>10. n \in P
  BY <1>1, <1>8, <1>9, UpTo
<1> QED
  BY <1>2, <1>3, <1>10 DEF P, w, k

LEMMA BackNothing ==
    ASSUME NEW m
    PROVE  RollbackTransaction(m, <<>>) = m
<1> DEFINE run == CHOOSE g : Backing(g, m, 0, <<>>)
<1>1. RollbackTransaction(m, <<>>) = run[0]
  <2>1. RollbackTransaction(m, <<>>) = (CHOOSE g : Backing(g, m, Len(<<>>), <<>>))[Len(<<>>)]
    BY DEF RollbackTransaction, Backing
  <2> QED
    BY <2>1
<1>2. Backing(run, m, 0, <<>>)
  BY BackingExists
<1> HIDE DEF run
<1>3. run[0] = m
  BY <1>2 DEF Backing
<1> QED
  BY <1>1, <1>3

Failed(s) == s.err # ""

LEMMA BackFailed ==
    ASSUME NEW m, Failed(m), NEW q, IsList(q)
    PROVE  RollbackTransaction(m, q) = m
<1> DEFINE n == Len(q)
           run == CHOOSE g : Backing(g, m, n, q)
<1>1. n \in Nat
  BY ListFacts
<1>2. RollbackTransaction(m, q) = run[n]
  BY DEF RollbackTransaction, Backing
<1> HIDE DEF n
<1>3. Backing(run, m, n, q)
  BY <1>1, BackingExists
<1> HIDE DEF run
<1>4. run[0] = m /\ \A i \in 1..n : run[i] = RollbackEntry(run[i-1], q[n + 1 - i])
  <2>1. BackSteps(run, m, n, q)
    BY <1>1, <1>3, BackingSteps
  <2> QED
    BY <2>1, Zenon DEF BackSteps
<1> DEFINE P == {i \in 0..n : run[i] = m}
<1>5. 0 \in P
  BY <1>1, <1>4
<1>6. ASSUME NEW i \in 0..n-1, i \in P PROVE i + 1 \in P
  <2>1. i + 1 \in 1..n /\ (i + 1) - 1 = i /\ i + 1 \in 0..n
    BY <1>1
  <2> DEFINE e == q[n + 1 - (i + 1)]
  <2>2. run[i+1] = RollbackEntry(m, e)
    BY <1>4, <1>6, <2>1
  <2> HIDE DEF e
  <2>3. RollbackEntry(m, e) = m
    BY DEF RollbackEntry, Failed
  <2> QED
    BY <2>1, <2>2, <2>3
<1> HIDE DEF P
<1>7. n \in P
  BY <1>1, <1>5, <1>6, UpTo
<1> QED
  BY <1>2, <1>7 DEF P

BlockSteps(run, m, n, q) ==
    run[0] = m /\ \A i \in 1..n : run[i] = RollbackTransaction(run[i-1], q[n + 1 - i].log)

LEMMA BlockBackingSteps ==
    ASSUME NEW m, NEW q, NEW n \in Nat, NEW run, BlockBacking(run, m, n, q)
    PROVE  BlockSteps(run, m, n, q)
<1>1. run = [i \in 0..n |-> IF i = 0 THEN m ELSE RollbackTransaction(run[i-1], q[n + 1 - i].log)]
  BY DEF BlockBacking
<1>2. 0 \in 0..n /\ \A i \in 1..n : i \in 0..n /\ i # 0
  OBVIOUS
<1> QED
  BY <1>1, <1>2, Zenon DEF BlockSteps

\* The last transaction is taken back first.
LEMMA BlockAppended ==
    ASSUME NEW m, NEW q, IsList(q), NEW f
    PROVE  RolledBack(m, Append(q, f)) = RolledBack(RollbackTransaction(m, f.log), q)
<1> DEFINE n == Len(q)
           w == Append(q, f)
           k == RollbackTransaction(m, f.log)
           r1 == CHOOSE g : BlockBacking(g, m, n + 1, w)
           r2 == CHOOSE g : BlockBacking(g, k, n, q)
<1>1. n \in Nat /\ Len(w) = n + 1 /\ w[n+1] = f /\ \A i \in 1..n : w[i] = q[i]
  BY ListFacts, Appended
<1>2. RolledBack(m, w) = r1[n+1]
  <2> HIDE DEF w, n
  <2>1. RolledBack(m, w) = (CHOOSE g : BlockBacking(g, m, Len(w), w))[Len(w)]
    BY DEF RolledBack, BlockBacking
  <2> QED
    BY <1>1, <2>1
<1>3. RolledBack(k, q) = r2[n]
  BY DEF RolledBack, BlockBacking
<1> HIDE DEF n, w, k
<1>4. n + 1 \in Nat
  BY <1>1
<1>5. BlockBacking(r1, m, n + 1, w) /\ BlockBacking(r2, k, n, q)
  BY <1>1, <1>4, BlockBackingExists
<1> HIDE DEF r1, r2
<1>6. r1[0] = m /\ \A i \in 1..n+1 : r1[i] = RollbackTransaction(r1[i-1], w[(n + 1) + 1 - i].log)
  <2>1. BlockSteps(r1, m, n + 1, w)
    BY <1>4, <1>5, BlockBackingSteps
  <2> QED
    BY <2>1, Zenon DEF BlockSteps
<1>7. r2[0] = k /\ \A i \in 1..n : r2[i] = RollbackTransaction(r2[i-1], q[n + 1 - i].log)
  <2>1. BlockSteps(r2, k, n, q)
    BY <1>1, <1>5, BlockBackingSteps
  <2> QED
    BY <2>1, Zenon DEF BlockSteps
<1> DEFINE P == {i \in 0..n : r2[i] = r1[i+1]}
<1>8. 0 \in P
  <2>1. 1 \in 1..n+1 /\ 1 - 1 = 0 /\ (n + 1) + 1 - 1 = n + 1 /\ 0 + 1 = 1 /\ 0 \in 0..n
    BY <1>1
  <2>2. r1[1] = k
    BY <1>1, <1>6, <2>1 DEF k
  <2> QED
    BY <1>7, <2>1, <2>2
<1>9. ASSUME NEW i \in 0..n-1, i \in P PROVE i + 1 \in P
  <2>1. /\ i + 1 \in 1..n /\ (i + 1) - 1 = i /\ i + 1 \in 0..n /\ n + 1 - (i + 1) \in 1..n
        /\ (i + 1) + 1 \in 1..n+1 /\ ((i + 1) + 1) - 1 = i + 1
        /\ (n + 1) + 1 - ((i + 1) + 1) = n + 1 - (i + 1)
    BY <1>1
  <2>2. r2[i+1] = RollbackTransaction(r2[i], q[n + 1 - (i + 1)].log)
    BY <1>7, <2>1
  <2>3. r1[(i+1)+1] = RollbackTransaction(r1[i+1], w[n + 1 - (i + 1)].log)
    BY <1>6, <2>1
  <2> QED
    BY <1>1, <1>9, <2>1, <2>2, <2>3
<1> HIDE DEF P
<1>10. n \in P
  BY <1>1, <1>8, <1>9, UpTo
<1> QED
  BY <1>2, <1>3, <1>10 DEF P, w, k

LEMMA BlockNothing ==
    ASSUME NEW m
    PROVE  RolledBack(m, <<>>) = m
<1> DEFINE run == CHOOSE g : BlockBacking(g, m, 0, <<>>)
<1>1. RolledBack(m, <<>>) = run[0]
  <2>1. RolledBack(m, <<>>) = (CHOOSE g : BlockBacking(g, m, Len(<<>>), <<>>))[Len(<<>>)]
    BY DEF RolledBack, BlockBacking
  <2> QED
    BY <2>1
<1>2. BlockBacking(run, m, 0, <<>>)
  BY BlockBackingExists
<1> HIDE DEF run
<1>3. run[0] = m
  BY <1>2 DEF BlockBacking
<1> QED
  BY <1>1, <1>3

LEMMA BlockFailed ==
    ASSUME NEW m, Failed(m), NEW q, IsList(q), \A i \in 1..Len(q) : IsList(q[i].log)
    PROVE  RolledBack(m, q) = m
<1> DEFINE n == Len(q)
           run == CHOOSE g : BlockBacking(g, m, n, q)
<1>1. n \in Nat
  BY ListFacts
<1>2. RolledBack(m, q) = run[n]
  BY DEF RolledBack, BlockBacking
<1> HIDE DEF n
<1>3. BlockBacking(run, m, n, q)
  BY <1>1, BlockBackingExists
<1> HIDE DEF run
<1>4. run[0] = m /\ \A i \in 1..n : run[i] = RollbackTransaction(run[i-1], q[n + 1 - i].log)
  <2>1. BlockSteps(run, m, n, q)
    BY <1>1, <1>3, BlockBackingSteps
  <2> QED
    BY <2>1, Zenon DEF BlockSteps
<1> DEFINE P == {i \in 0..n : run[i] = m}
<1>5. 0 \in P
  BY <1>1, <1>4
<1>6. ASSUME NEW i \in 0..n-1, i \in P PROVE i + 1 \in P
  <2>1. i + 1 \in 1..n /\ (i + 1) - 1 = i /\ i + 1 \in 0..n
    BY <1>1
  <2> DEFINE e == q[n + 1 - (i + 1)].log
  <2>2. run[i+1] = RollbackTransaction(m, e)
    BY <1>4, <1>6, <2>1
  <2>4. IsList(e)
    <3>1. n + 1 - (i + 1) \in 1..n
      BY <1>1
    <3> QED
      BY <3>1 DEF n
  <2> HIDE DEF e
  <2>3. RollbackTransaction(m, e) = m
    BY <2>4, BackFailed
  <2> QED
    BY <2>1, <2>2, <2>3
<1> HIDE DEF P
<1>7. n \in P
  BY <1>1, <1>5, <1>6, UpTo
<1> QED
  BY <1>2, <1>7 DEF P

-----------------------------------------------------------------------------
(* What the entries of a transaction restore.  They led from the tables d to *)
(* the tables e; they are taken back from tables y whose cells are those of  *)
(* e or, where a savepoint has restored them already, those of d.            *)

MixedCell(a, b, c) == c = a \/ c = b

MixedBal(a, b, c) == \A x \in Ecos, k \in Accounts : MixedCell(a[x][k], b[x][k], c[x][k])

\* The contracts of e are those of d and some more.
Extends(a, b) == Len(a) <= Len(b) /\ \A i \in 1..Len(a) : b[i].name = a[i].name

MixedSrc(a, b, c) ==
    /\ Sound(c) /\ Len(a) <= Len(c) /\ Len(c) <= Len(b)
    /\ \A i \in 1..Len(c) :
         /\ c[i].name = b[i].name
         /\ c[i].ver = b[i].ver \/ (i <= Len(a) /\ c[i].ver = a[i].ver)

Mixed(d, e, y) ==
    /\ y \in Tables
    /\ MixedSrc(d.src, e.src, y.src) /\ MixedBal(d.bal, e.bal, y.bal)
    /\ MixedCell(d.rate, e.rate, y.rate) /\ MixedCell(d.row, e.row, y.row)
    /\ MixedCell(d.column, e.column, y.column)

LEMMA TablesSame ==
    ASSUME NEW d \in Tables, NEW y \in Tables, y.bal = d.bal, y.src = d.src, y.rate = d.rate,
           y.row = d.row, y.column = d.column
    PROVE  y = d
  BY DEF Tables

LEMMA MixedSame ==
    ASSUME NEW d \in Tables, Sound(d.src), NEW y, Mixed(d, d, y)
    PROVE  y = d
<1> DEFINE a == d.src
           c == y.src
           p == d.bal
           q == y.bal
<1>1. /\ y \in Tables /\ MixedSrc(a, a, c) /\ MixedBal(p, q, p) /\ MixedBal(p, p, q)
      /\ y.rate = d.rate /\ y.row = d.row /\ y.column = d.column
  BY DEF Mixed, MixedCell, MixedBal
<1>2. p \in Bals /\ q \in Bals
  BY <1>1 DEF Tables, Bals
<1>3. Sound(a) /\ Sound(c)
  BY <1>1 DEF MixedSrc
<1> HIDE DEF a, c, p, q
<1>4. /\ a \in Seq(Source) /\ Len(a) \in Nat /\ \A i \in 1..Len(a) : a[i] = [name |-> a[i].name, ver |-> a[i].ver]
  BY <1>3, SoundFacts
<1>5. /\ c \in Seq(Source) /\ Len(c) \in Nat /\ \A i \in 1..Len(c) : c[i] = [name |-> c[i].name, ver |-> c[i].ver]
  BY <1>3, SoundFacts
<1>6. Len(c) = Len(a) /\ \A i \in 1..Len(c) : c[i].name = a[i].name /\ c[i].ver = a[i].ver
  BY <1>1, <1>4, <1>5 DEF MixedSrc
<1>7. \A i \in 1..Len(c) : c[i] = a[i]
  <2> TAKE i \in 1..Len(c)
  <2> DEFINE x == c[i]
             z == a[i]
  <2>1. x = [name |-> x.name, ver |-> x.ver] /\ z = [name |-> z.name, ver |-> z.ver]
    BY <1>4, <1>5, <1>6
  <2>2. x.name = z.name /\ x.ver = z.ver
    BY <1>6
  <2> HIDE DEF x, z
  <2>3. x = z
    BY <2>1, <2>2
  <2> QED
    BY <2>3 DEF x, z
<1>8. c = a
  BY <1>4, <1>5, <1>6, <1>7, SeqEqual
<1>9. q = p
  <2>1. \A x \in Ecos, k \in Accounts : q[x][k] = p[x][k]
    BY <1>1 DEF MixedBal, MixedCell
  <2>2. \A x \in Ecos : q[x] = p[x]
    BY <1>2, <2>1 DEF Bals
  <2> QED
    BY <1>2, <2>2 DEF Bals
<1> QED
  BY <1>1, <1>8, <1>9, TablesSame DEF a, c, p, q

LEMMA MixedEnds ==
    ASSUME NEW d \in Tables, Sound(d.src), NEW e \in Tables, Sound(e.src), Extends(d.src, e.src)
    PROVE  Mixed(d, e, d) /\ Mixed(d, e, e)
<1> DEFINE a == d.src
           b == e.src
<1>1. Sound(a) /\ Sound(b) /\ Extends(a, b)
  OBVIOUS
<1> HIDE DEF a, b
<1>2. Len(a) \in Nat /\ Len(b) \in Nat
  BY <1>1, SoundFacts
<1>3. MixedSrc(a, b, a)
  BY <1>1, <1>2 DEF MixedSrc, Extends
<1>4. MixedSrc(a, b, b)
  BY <1>1, <1>2 DEF MixedSrc, Extends
<1>5. MixedBal(d.bal, e.bal, d.bal) /\ MixedBal(d.bal, e.bal, e.bal)
  BY DEF MixedBal, MixedCell
<1> QED
  BY <1>3, <1>4, <1>5 DEF Mixed, MixedCell, a, b

State(y, v) == [db |-> y, vm |-> v, err |-> ""]

HasColumn(log) == \E i \in 1..Len(log) : log[i] = <<"NewColumn">>

\* How a rollback to d ends; with the compiled contracts of the tables it only fails for a column.
Undone(r, d, trusted, column) ==
    /\ ~ Failed(r) => r = State(d, r.vm)
    /\ trusted => /\ ~ Failed(r) => r.vm = LoadContracts(d.src)
                  /\ Failed(r) => column

Undoes(d, log, e, clean) ==
    \A y, v : Mixed(d, e, y) =>
      Undone(RollbackTransaction(State(y, v), log), d, v = LoadContracts(y.src),
             HasColumn(log) /\ (clean => y.column # e.column))

\* Taking some entries back leads from e2 to e1.
Reaches(r, d, e1, e2, y2, v2, column) ==
    \/ Failed(r) /\ (v2 = LoadContracts(y2.src) => column /\ y2.column # e2.column)
    \/ \E y, v : /\ r = State(y, v) /\ Mixed(d, e1, y)
                 /\ v2 = LoadContracts(y2.src) => v = LoadContracts(y.src)
                 /\ y.column # e1.column => y2.column # e2.column

LEMMA UndoesNothing ==
    ASSUME NEW d \in Tables, Sound(d.src), NEW clean
    PROVE  Undoes(d, <<>>, d, clean)
<1> SUFFICES ASSUME NEW y, NEW v, Mixed(d, d, y)
             PROVE  Undone(RollbackTransaction(State(y, v), <<>>), d, v = LoadContracts(y.src),
                           HasColumn(<<>>) /\ (clean => y.column # d.column))
  BY DEF Undoes
<1>1. y = d
  BY MixedSame
<1> DEFINE r == State(y, v)
<1>2. RollbackTransaction(r, <<>>) = r
  BY BackNothing
<1>3. r = State(y, v) /\ r.vm = v /\ ~ Failed(r)
  BY DEF State, Failed
<1> HIDE DEF r
<1> QED
  BY <1>1, <1>2, <1>3 DEF Undone, r

LEMMA UndoesAfter ==
    ASSUME NEW d, NEW log, IsList(log), NEW e1, NEW clean, Undoes(d, log, e1, clean),
           NEW r, NEW e2, NEW y2, NEW v2, NEW more, HasColumn(log) => HasColumn(more),
           Reaches(r, d, e1, e2, y2, v2, HasColumn(more))
    PROVE  Undone(RollbackTransaction(r, log), d, v2 = LoadContracts(y2.src),
                  HasColumn(more) /\ (clean => y2.column # e2.column))
<1> DEFINE out == RollbackTransaction(r, log)
<1>1. CASE Failed(r) /\ (v2 = LoadContracts(y2.src) => HasColumn(more) /\ y2.column # e2.column)
  <2>1. out = r
    BY <1>1, BackFailed
  <2> QED
    BY <1>1, <2>1 DEF Undone
<1>2. CASE \E y, v : /\ r = State(y, v) /\ Mixed(d, e1, y)
                     /\ v2 = LoadContracts(y2.src) => v = LoadContracts(y.src)
                     /\ y.column # e1.column => y2.column # e2.column
  <2>1. PICK y, v : /\ r = State(y, v) /\ Mixed(d, e1, y)
                    /\ v2 = LoadContracts(y2.src) => v = LoadContracts(y.src)
                    /\ y.column # e1.column => y2.column # e2.column
    BY <1>2
  <2>2. Undone(out, d, v = LoadContracts(y.src), HasColumn(log) /\ (clean => y.column # e1.column))
    BY <2>1 DEF Undoes
  <2> HIDE DEF out
  <2> QED
    BY <2>1, <2>2 DEF Undone, out
<1> QED
  BY <1>1, <1>2 DEF Reaches

LEMMA ColumnAppend ==
    ASSUME NEW log, IsList(log), NEW x
    PROVE  HasColumn(Append(log, x)) <=> HasColumn(log) \/ x = <<"NewColumn">>
<1> DEFINE n == Len(log)
           w == Append(log, x)
<1>1. n \in Nat /\ Len(w) = n + 1 /\ w[n+1] = x /\ \A i \in 1..n : w[i] = log[i]
  BY ListFacts, Appended
<1>2. n + 1 \in 1..n+1 /\ \A i \in 1..n+1 : i = n + 1 \/ i \in 1..n
  BY <1>1
<1>3. \A i \in 1..n : i \in 1..n+1
  BY <1>1
<1> HIDE DEF n, w
<1>4. HasColumn(w) <=> \E i \in 1..n+1 : w[i] = <<"NewColumn">>
  BY <1>1 DEF HasColumn
<1>5. HasColumn(log) <=> \E i \in 1..n : log[i] = <<"NewColumn">>
  BY DEF HasColumn, n
<1>6. (\E i \in 1..n+1 : w[i] = <<"NewColumn">>)
        <=> (\E i \in 1..n : log[i] = <<"NewColumn">>) \/ x = <<"NewColumn">>
  BY <1>1, <1>2, <1>3
<1> QED
  BY <1>4, <1>5, <1>6 DEF w

\* One more entry, ...
LEMMA UndoesOne ==
    ASSUME NEW d, NEW log, IsList(log), NEW e1, NEW clean, Undoes(d, log, e1, clean),
           NEW e2, NEW x,
           \A y, v : Mixed(d, e2, y) =>
             Reaches(RollbackEntry(State(y, v), x), d, e1, e2, y, v, x = <<"NewColumn">>)
    PROVE  Undoes(d, Append(log, x), e2, clean)
<1> DEFINE w == Append(log, x)
<1> SUFFICES ASSUME NEW y, NEW v, Mixed(d, e2, y)
             PROVE  Undone(RollbackTransaction(State(y, v), w), d, v = LoadContracts(y.src),
                           HasColumn(w) /\ (clean => y.column # e2.column))
  BY DEF Undoes
<1> DEFINE r == RollbackEntry(State(y, v), x)
<1>1. RollbackTransaction(State(y, v), w) = RollbackTransaction(r, log)
  BY BackAppended
<1>2. Reaches(r, d, e1, e2, y, v, x = <<"NewColumn">>)
  OBVIOUS
<1>3. HasColumn(w) <=> HasColumn(log) \/ x = <<"NewColumn">>
  BY ColumnAppend
<1> HIDE DEF r, w
<1>4. Reaches(r, d, e1, e2, y, v, HasColumn(w))
  BY <1>2, <1>3 DEF Reaches
<1>5. Undone(RollbackTransaction(r, log), d, v = LoadContracts(y.src),
             HasColumn(w) /\ (clean => y.column # e2.column))
  BY <1>3, <1>4, UndoesAfter
<1> QED
  BY <1>1, <1>5

\* ... or two that belong together.
LEMMA UndoesTwo ==
    ASSUME NEW d, NEW log, IsList(log), NEW e1, NEW clean, Undoes(d, log, e1, clean),
           NEW e2, NEW x1, NEW x2,
           \A y, v : Mixed(d, e2, y) =>
             Reaches(RollbackEntry(RollbackEntry(State(y, v), x2), x1), d, e1, e2, y, v, FALSE)
    PROVE  Undoes(d, Append(Append(log, x1), x2), e2, clean)
<1> DEFINE u == Append(log, x1)
           w == Append(u, x2)
<1>0. IsList(u)
  BY Appended
<1>3. HasColumn(log) => HasColumn(w)
  <2>1. HasColumn(u) <=> HasColumn(log) \/ x1 = <<"NewColumn">>
    BY ColumnAppend
  <2> HIDE DEF u
  <2>2. HasColumn(w) <=> HasColumn(u) \/ x2 = <<"NewColumn">>
    BY <1>0, ColumnAppend
  <2> QED
    BY <2>1, <2>2
<1> SUFFICES ASSUME NEW y, NEW v, Mixed(d, e2, y)
             PROVE  Undone(RollbackTransaction(State(y, v), w), d, v = LoadContracts(y.src),
                           HasColumn(w) /\ (clean => y.column # e2.column))
  BY DEF Undoes
<1> DEFINE r2 == RollbackEntry(State(y, v), x2)
           r == RollbackEntry(r2, x1)
<1>1. RollbackTransaction(State(y, v), w) = RollbackTransaction(r, log)
  <2>1. RollbackTransaction(r2, u) = RollbackTransaction(r, log)
    BY BackAppended
  <2> HIDE DEF u, r
  <2>2. RollbackTransaction(State(y, v), w) = RollbackTransaction(r2, u)
    BY <1>0, BackAppended
  <2> QED
    BY <2>1, <2>2
<1>2. Reaches(r, d, e1, e2, y, v, FALSE)
  OBVIOUS
<1> HIDE DEF r, r2, w, u
<1>4. Reaches(r, d, e1, e2, y, v, HasColumn(w))
  BY <1>2 DEF Reaches
<1>5. Undone(RollbackTransaction(r, log), d, v = LoadContracts(y.src),
             HasColumn(w) /\ (clean => y.column # e2.column))
  BY <1>3, <1>4, UndoesAfter
<1> QED
  BY <1>1, <1>5

-----------------------------------------------------------------------------
(* The entries one by one.                                                   *)

Rated(y, x) == [y EXCEPT !.rate = x]
Rowed(y, x) == [y EXCEPT !.row = x]
Columned(y, x) == [y EXCEPT !.column = x]
Sourced(y, x) == [y EXCEPT !.src = x]
Paid(y, e, k, x) == [y EXCEPT !.bal[e][k] = x]

SameBut(y, z, F) ==
    /\ z \in Tables
    /\ "bal" \notin F => z.bal = y.bal
    /\ "src" \notin F => z.src = y.src
    /\ "rate" \notin F => z.rate = y.rate
    /\ "row" \notin F => z.row = y.row
    /\ "column" \notin F => z.column = y.column

LEMMA RatedFields ==
    ASSUME NEW y \in Tables, NEW x \in Nat
    PROVE  SameBut(y, Rated(y, x), {"rate"}) /\ Rated(y, x).rate = x
  BY DEF Tables, Rated, SameBut

LEMMA RowedFields ==
    ASSUME NEW y \in Tables, NEW x \in Nat
    PROVE  SameBut(y, Rowed(y, x), {"row"}) /\ Rowed(y, x).row = x
  BY DEF Tables, Rowed, SameBut

LEMMA ColumnedFields ==
    ASSUME NEW y \in Tables, NEW x \in BOOLEAN
    PROVE  SameBut(y, Columned(y, x), {"column"}) /\ Columned(y, x).column = x
  BY DEF Tables, Columned, SameBut

LEMMA SourcedFields ==
    ASSUME NEW y \in Tables, NEW x \in Seq(Source)
    PROVE  SameBut(y, Sourced(y, x), {"src"}) /\ Sourced(y, x).src = x
  BY DEF Tables, Sourced, SameBut

BalBut(b, c, e, k, x) ==
    c[e][k] = x /\ \A f \in Ecos, j \in Accounts : ~ (f = e /\ j = k) => c[f][j] = b[f][j]

LEMMA PaidFields ==
    ASSUME NEW y \in Tables, NEW e \in Ecos, NEW k \in Accounts, NEW x \in Int
    PROVE  SameBut(y, Paid(y, e, k, x), {"bal"}) /\ BalBut(y.bal, Paid(y, e, k, x).bal, e, k, x)
<1> DEFINE b == y.bal
           c == [b EXCEPT ![e][k] = x]
<1>1. b \in [Ecos -> [Accounts -> Int]]
  BY DEF Tables
<1>2. Paid(y, e, k, x) = [y EXCEPT !.bal = c]
  BY DEF Paid
<1>3. c \in [Ecos -> [Accounts -> Int]] /\ BalBut(b, c, e, k, x)
  <2> HIDE DEF b
  <2> QED
    BY <1>1 DEF BalBut
<1> HIDE DEF c
<1>4. [y EXCEPT !.bal = c] \in Tables /\ [y EXCEPT !.bal = c].bal = c
  BY <1>3 DEF Tables
<1>5. SameBut(y, [y EXCEPT !.bal = c], {"bal"})
  BY <1>3, <1>4 DEF Tables, SameBut
<1> QED
  BY <1>2, <1>3, <1>4, <1>5 DEF b

\* Rates, rows, columns and balances.
LEMMA EntriesSimple ==
    ASSUME NEW y \in Tables, NEW v, NEW x
    PROVE  /\ RollbackEntry(State(y, v), <<"rate", x>>) = State(Rated(y, x), v)
           /\ RollbackEntry(State(y, v), <<"row", x>>) = State(Rowed(y, x), v)
           /\ y.column => RollbackEntry(State(y, v), <<"NewColumn">>) = State(Columned(y, FALSE), v)
           /\ ~ y.column => Failed(RollbackEntry(State(y, v), <<"NewColumn">>))
<1>1. RollbackEntry(State(y, v), <<"rate", x>>) = State(Rated(y, x), v)
  BY DEF RollbackEntry, State, Rated
<1>2. RollbackEntry(State(y, v), <<"row", x>>) = State(Rowed(y, x), v)
  BY DEF RollbackEntry, State, Rowed
<1>3. ASSUME y.column
      PROVE  RollbackEntry(State(y, v), <<"NewColumn">>) = State(Columned(y, FALSE), v)
  BY <1>3 DEF RollbackEntry, State, Columned
<1>4. ASSUME ~ y.column
      PROVE  Failed(RollbackEntry(State(y, v), <<"NewColumn">>))
  BY <1>4 DEF RollbackEntry, State, Fail, Failed
<1> QED
  BY <1>1, <1>2, <1>3, <1>4

LEMMA EntryAmount ==
    ASSUME NEW y \in Tables, NEW v, NEW e \in Ecos, NEW k \in Accounts, NEW x \in Int
    PROVE  RollbackEntry(State(y, v), <<"amount", e, k, x>>) = State(Paid(y, e, k, x), v)
  BY DEF RollbackEntry, State, Paid

\* Only one field of e2 is not that of e1.
LEMMA BackRate ==
    ASSUME NEW d \in Tables, NEW e1 \in Tables, NEW e2, SameBut(e1, e2, {"rate"}),
           NEW y, NEW v, Mixed(d, e2, y)
    PROVE  Reaches(RollbackEntry(State(y, v), <<"rate", e1.rate>>), d, e1, e2, y, v, FALSE)
<1> DEFINE z == Rated(y, e1.rate)
<1>1. y \in Tables /\ e1.rate \in Nat
  BY DEF Mixed, Tables
<1>2. RollbackEntry(State(y, v), <<"rate", e1.rate>>) = State(z, v)
  BY <1>1, EntriesSimple
<1>3. SameBut(y, z, {"rate"}) /\ z.rate = e1.rate
  BY <1>1, RatedFields
<1> HIDE DEF z
<1>4. Mixed(d, e1, z)
  BY <1>3 DEF Mixed, SameBut, MixedCell
<1> QED
  BY <1>2, <1>3, <1>4 DEF Reaches, SameBut

LEMMA BackRow ==
    ASSUME NEW d \in Tables, NEW e1 \in Tables, NEW e2, SameBut(e1, e2, {"row"}),
           NEW y, NEW v, Mixed(d, e2, y)
    PROVE  Reaches(RollbackEntry(State(y, v), <<"row", e1.row>>), d, e1, e2, y, v, FALSE)
<1> DEFINE z == Rowed(y, e1.row)
<1>1. y \in Tables /\ e1.row \in Nat
  BY DEF Mixed, Tables
<1>2. RollbackEntry(State(y, v), <<"row", e1.row>>) = State(z, v)
  BY <1>1, EntriesSimple
<1>3. SameBut(y, z, {"row"}) /\ z.row = e1.row
  BY <1>1, RowedFields
<1> HIDE DEF z
<1>4. Mixed(d, e1, z)
  BY <1>3 DEF Mixed, SameBut, MixedCell
<1> QED
  BY <1>2, <1>3, <1>4 DEF Reaches, SameBut

\* A savepoint may have taken the column back already.
LEMMA BackColumn ==
    ASSUME NEW d \in Tables, NEW e1 \in Tables, NEW e2, SameBut(e1, e2, {"column"}),
           e1.column = FALSE, e2.column = TRUE,
           NEW y, NEW v, Mixed(d, e2, y)
    PROVE  Reaches(RollbackEntry(State(y, v), <<"NewColumn">>), d, e1, e2, y, v, TRUE)
<1> DEFINE z == Columned(y, FALSE)
           r == RollbackEntry(State(y, v), <<"NewColumn">>)
<1>1. y \in Tables /\ y.column \in BOOLEAN
  BY DEF Mixed, Tables
<1>2. (y.column => r = State(z, v)) /\ (~ y.column => Failed(r))
  BY <1>1, EntriesSimple
<1>3. SameBut(y, z, {"column"}) /\ z.column = FALSE
  BY <1>1, ColumnedFields
<1> HIDE DEF z, r
<1>4. Mixed(d, e1, z)
  BY <1>3 DEF Mixed, SameBut, MixedCell
<1>5. CASE y.column
  BY <1>2, <1>3, <1>4, <1>5 DEF Reaches, SameBut, r
<1>6. CASE ~ y.column
  BY <1>1, <1>2, <1>6 DEF Reaches, r
<1> QED
  BY <1>5, <1>6

LEMMA BackAmount ==
    ASSUME NEW d \in Tables, NEW e1 \in Tables, NEW e2, SameBut(e1, e2, {"bal"}),
           NEW e \in Ecos, NEW k \in Accounts,
           \A f \in Ecos, j \in Accounts : ~ (f = e /\ j = k) => e2.bal[f][j] = e1.bal[f][j],
           NEW y, NEW v, Mixed(d, e2, y)
    PROVE  Reaches(RollbackEntry(State(y, v), <<"amount", e, k, e1.bal[e][k]>>), d, e1, e2, y, v, FALSE)
<1> DEFINE x == e1.bal[e][k]
           z == Paid(y, e, k, x)
<1>1. y \in Tables /\ x \in Int
  BY DEF Mixed, Tables
<1>2. RollbackEntry(State(y, v), <<"amount", e, k, x>>) = State(z, v)
  BY <1>1, EntryAmount
<1>3. SameBut(y, z, {"bal"}) /\ BalBut(y.bal, z.bal, e, k, x)
  BY <1>1, PaidFields
<1> HIDE DEF z
<1>4. MixedBal(d.bal, e1.bal, z.bal)
  BY <1>3 DEF MixedBal, MixedCell, BalBut, Mixed
<1>5. Mixed(d, e1, z)
  BY <1>3, <1>4 DEF Mixed, SameBut
<1> QED
  BY <1>2, <1>3, <1>5 DEF Reaches, SameBut, x

-----------------------------------------------------------------------------
(* Contracts.                                                                *)

LEMMA EntryFailed ==
    ASSUME NEW s, Failed(s), NEW x
    PROVE  RollbackEntry(s, x) = s
  BY DEF RollbackEntry, Failed

CutLast(v, c) == [objs |-> Without(v.objs, c), kids |-> SubSeq(v.kids, 1, Len(v.kids) - 1)]

LEMMA EntryNewContract ==
    ASSUME NEW y, NEW v, NEW c
    PROVE  LET r == RollbackEntry(State(y, v), <<"NewContract", c>>)
           IN  \/ c \notin DOMAIN v.objs /\ r = State(y, v)
               \/ c \in DOMAIN v.objs /\ v.objs[c].id # Len(v.kids) /\ Failed(r)
               \/ c \in DOMAIN v.objs /\ v.objs[c].id = Len(v.kids) /\ r = State(y, CutLast(v, c))
<1> DEFINE s == State(y, v)
           r == RollbackEntry(s, <<"NewContract", c>>)
<1>1. s.err = "" /\ s.db = y /\ s.vm = v
  BY DEF State
<1>2. r = SysRollbackContract(s, c)
  BY <1>1 DEF RollbackEntry
<1>3. CASE c \notin DOMAIN v.objs
  <2>1. r = s
    BY <1>1, <1>2, <1>3 DEF SysRollbackContract
  <2> QED
    BY <1>3, <2>1
<1>4. CASE c \in DOMAIN v.objs /\ v.objs[c].id # Len(v.kids)
  <2>1. r = Fail(s, "not the last contract")
    BY <1>1, <1>2, <1>4 DEF SysRollbackContract
  <2>2. Failed(Fail(s, "not the last contract"))
    BY DEF Fail, Failed, State
  <2> QED
    BY <1>4, <2>1, <2>2
<1>5. CASE c \in DOMAIN v.objs /\ v.objs[c].id = Len(v.kids)
  <2>1. r = [s EXCEPT !.vm = [objs |-> Without(@.objs, c), kids |-> SubSeq(@.kids, 1, Len(@.kids) - 1)]]
    BY <1>1, <1>2, <1>5 DEF SysRollbackContract
  <2>2. r = State(y, CutLast(v, c))
    BY <2>1 DEF CutLast, State
  <2> QED
    BY <1>5, <2>2
<1> QED
  BY <1>3, <1>4, <1>5

LEMMA EntryInsert ==
    ASSUME NEW y \in Tables, NEW v, NEW id \in Nat
    PROVE  LET r == RollbackEntry(State(y, v), <<"insert", id>>)
           IN  /\ id > Len(y.src) => r = State(y, v)
               /\ ~ (id > Len(y.src)) => r = State(Sourced(y, SubSeq(y.src, 1, id - 1)), v)
<1> DEFINE s == State(y, v)
           r == RollbackEntry(s, <<"insert", id>>)
<1>1. s.err = "" /\ s.db = y /\ s.vm = v
  BY DEF State
<1>2. CASE id > Len(y.src)
  BY <1>1, <1>2 DEF RollbackEntry
<1>3. CASE ~ (id > Len(y.src))
  <2>1. r = [s EXCEPT !.db.src = SubSeq(@, 1, id - 1)]
    BY <1>1, <1>3 DEF RollbackEntry
  <2>2. r = State(Sourced(y, SubSeq(y.src, 1, id - 1)), v)
    BY <2>1 DEF State, Sourced
  <2> QED
    BY <1>3, <2>2
<1> QED
  BY <1>2, <1>3

LEMMA MixedShort ==
    ASSUME NEW a, NEW b, Sound(b), Len(a) \in Nat, Len(a) <= Len(b), NEW x \in Source,
           NEW c, MixedSrc(a, Append(b, x), c)
    PROVE  /\ Len(c) <= Len(b) => MixedSrc(a, b, c)
           /\ Len(c) > Len(b) => /\ Len(c) = Len(b) + 1 /\ c[Len(c)].name = x.name
                                 /\ MixedSrc(a, b, SubSeq(c, 1, Len(b)))
<1> DEFINE e == Append(b, x)
           z == SubSeq(c, 1, Len(b))
<1>1. b \in Seq(Source) /\ Len(b) \in Nat
  BY SoundFacts
<1>2. Len(e) = Len(b) + 1 /\ e[Len(b) + 1] = x /\ \A i \in 1..Len(b) : e[i] = b[i]
  BY <1>1
<1>3. Sound(c) /\ c \in Seq(Source) /\ Len(c) \in Nat
  BY SoundFacts DEF MixedSrc
<1>4. MixedSrc(a, e, c)
  OBVIOUS
<1> HIDE DEF e
<1>5. ASSUME Len(c) <= Len(b)
      PROVE  MixedSrc(a, b, c)
  BY <1>1, <1>2, <1>3, <1>4, <1>5 DEF MixedSrc
<1>6. ASSUME Len(c) > Len(b)
      PROVE  Len(c) = Len(b) + 1 /\ c[Len(c)].name = x.name /\ MixedSrc(a, b, z)
  <2>1. Len(c) = Len(b) + 1
    BY <1>1, <1>2, <1>3, <1>4, <1>6 DEF MixedSrc
  <2>2. c[Len(c)].name = x.name
    BY <1>1, <1>2, <1>3, <1>4, <2>1 DEF MixedSrc
  <2>3. Len(b) \in 0..Len(c)
    BY <1>1, <1>3, <2>1
  <2>4. z \in Seq(Source) /\ Len(z) = Len(b) /\ \A i \in 1..Len(b) : z[i] = c[i]
    BY <1>3, <2>3, SourceShort
  <2> HIDE DEF z
  <2>5. \A i \in 1..Len(b) : i \in 1..Len(c)
    BY <1>1, <2>1
  <2>6. Sound(z)
    BY <1>3, <2>4, <2>5 DEF Sound
  <2>7. \A i \in 1..Len(b) : /\ z[i].name = b[i].name
                             /\ z[i].ver = b[i].ver \/ (i <= Len(a) /\ z[i].ver = a[i].ver)
    BY <1>2, <1>4, <2>4, <2>5 DEF MixedSrc
  <2>8. MixedSrc(a, b, z)
    BY <1>1, <2>4, <2>6, <2>7 DEF MixedSrc
  <2> QED
    BY <2>1, <2>2, <2>8
<1> QED
  BY <1>5, <1>6

LEMMA LoadNames ==
    ASSUME NEW src, Sound(src)
    PROVE  DOMAIN LoadContracts(src).objs = {src[i].name : i \in 1..Len(src)}
  BY LoadLoaded DEF Loaded

NewIn(b, c) == \A i \in 1..Len(b) : b[i].name # c

LEMMA Reached ==
    ASSUME NEW d, NEW e1, NEW e2, NEW y2, NEW v2, NEW y, NEW v, NEW column, Mixed(d, e1, y),
           v2 = LoadContracts(y2.src) => v = LoadContracts(y.src),
           y.column # e1.column => y2.column # e2.column
    PROVE  Reaches(State(y, v), d, e1, e2, y2, v2, column)
  BY DEF Reaches

LEMMA BackCreate ==
    ASSUME NEW d \in Tables, NEW e1 \in Tables, Sound(e1.src), Len(d.src) <= Len(e1.src),
           NEW c \in Names, NewIn(e1.src, c),
           NEW e2, SameBut(e1, e2, {"src"}),
           e2.src = Append(e1.src, [name |-> c, ver |-> 1]),
           NEW y, NEW v, Mixed(d, e2, y)
    PROVE  Reaches(RollbackEntry(RollbackEntry(State(y, v), <<"NewContract", c>>),
                                 <<"insert", Len(e1.src) + 1>>), d, e1, e2, y, v, FALSE)
<1> DEFINE a == d.src
           b == e1.src
           w == y.src
           x == [name |-> c, ver |-> 1]
           id == Len(b) + 1
           short == SubSeq(w, 1, Len(b))
           z == Sourced(y, short)
           r1 == RollbackEntry(State(y, v), <<"NewContract", c>>)
           r == RollbackEntry(r1, <<"insert", id>>)
           trusted == v = LoadContracts(w)
<1>1. y \in Tables /\ MixedSrc(a, Append(b, x), w) /\ x \in Source /\ x.name = c
  BY DEF Mixed, Source
<1>2. Len(a) \in Nat /\ Len(b) \in Nat /\ b \in Seq(Source)
  BY SoundFacts, SrcFacts
<1>3. /\ Len(w) <= Len(b) => MixedSrc(a, b, w)
      /\ Len(w) > Len(b) => Len(w) = id /\ w[Len(w)].name = c /\ MixedSrc(a, b, short)
  <2> HIDE DEF a, b, w, x
  <2>1. Sound(b) /\ Len(a) <= Len(b)
    BY DEF a, b
  <2>2. /\ Len(w) <= Len(b) => MixedSrc(a, b, w)
        /\ Len(w) > Len(b) => /\ Len(w) = Len(b) + 1 /\ w[Len(w)].name = x.name
                              /\ MixedSrc(a, b, SubSeq(w, 1, Len(b)))
    BY <1>1, <1>2, <2>1, MixedShort
  <2> QED
    BY <1>1, <2>2
<1>4. Sound(w) /\ Len(w) \in Nat /\ w \in Seq(Source)
  BY <1>1, SoundFacts DEF MixedSrc
<1>5. ASSUME Len(w) <= Len(b), trusted
      PROVE  c \notin DOMAIN v.objs
  <2>1. MixedSrc(a, b, w)
    BY <1>3, <1>5
  <2>2. DOMAIN v.objs = {w[i].name : i \in 1..Len(w)}
    BY <1>4, <1>5, LoadNames
  <2>3. \A i \in 1..Len(w) : i \in 1..Len(b) /\ w[i].name = b[i].name
    BY <1>2, <1>4, <1>5, <2>1 DEF MixedSrc
  <2>4. \A i \in 1..Len(b) : b[i].name # c
    BY DEF NewIn
  <2> QED
    BY <2>2, <2>3, <2>4
<1>6. ASSUME Len(w) > Len(b), trusted
      PROVE  /\ c \in DOMAIN v.objs /\ v.objs[c].id = Len(v.kids)
             /\ CutLast(v, c) = LoadContracts(short)
  <2> DEFINE new == SubSeq(w, 1, Len(w) - 1)
  <2>1. Len(w) = Len(b) + 1 /\ w[Len(w)].name = c /\ Len(w) # 0 /\ Len(w) - 1 = Len(b)
    BY <1>2, <1>3, <1>4, <1>6
  <2>2. new = short
    BY <2>1
  <2>3. /\ [objs |-> Without(v.objs, c), kids |-> new] = LoadContracts(new)
        /\ c \in DOMAIN v.objs /\ v.objs[c].id = Len(w) /\ v.kids = w
    <3> HIDE DEF w
    <3> QED
      BY <1>4, <1>6, <2>1, LoadShort
  <2>4. CutLast(v, c) = [objs |-> Without(v.objs, c), kids |-> new]
    BY <2>3 DEF CutLast
  <2> QED
    BY <2>2, <2>3, <2>4
<1>7. ASSUME Len(w) > Len(b)
      PROVE  short \in Seq(Source)
  <2>1. Sound(short)
    BY <1>3, <1>7 DEF MixedSrc
  <2> QED
    BY <2>1 DEF Sound
<1>8. ASSUME Len(w) <= Len(b)
      PROVE  Mixed(d, e1, y)
  <2>1. MixedSrc(a, b, w)
    BY <1>3, <1>8
  <2> QED
    BY <2>1 DEF Mixed, SameBut
<1>9. ASSUME Len(w) > Len(b)
      PROVE  Mixed(d, e1, z) /\ z.src = short /\ z.column = y.column
  <2>1. MixedSrc(a, b, short) /\ short \in Seq(Source)
    BY <1>2, <1>3, <1>4, <1>7, <1>9
  <2>2. SameBut(y, z, {"src"}) /\ z.src = short
    <3> HIDE DEF short
    <3> QED
      BY <1>1, <2>1, SourcedFields
  <2> HIDE DEF z, short
  <2>3. Mixed(d, e1, z)
    BY <2>1, <2>2 DEF Mixed, SameBut
  <2> QED
    BY <2>2, <2>3 DEF SameBut
<1>10. e2.column = e1.column
  BY DEF SameBut
<1>11. \A u : /\ Len(w) <= Len(b) => RollbackEntry(State(y, u), <<"insert", id>>) = State(y, u)
              /\ Len(w) > Len(b) => RollbackEntry(State(y, u), <<"insert", id>>) = State(z, u)
  <2> TAKE u
  <2>1. id \in Nat /\ id - 1 = Len(b) /\ (id > Len(w) <=> Len(w) <= Len(b))
    BY <1>2, <1>4
  <2> HIDE DEF id
  <2>2. /\ id > Len(y.src) => RollbackEntry(State(y, u), <<"insert", id>>) = State(y, u)
        /\ ~ (id > Len(y.src)) => RollbackEntry(State(y, u), <<"insert", id>>)
                                    = State(Sourced(y, SubSeq(y.src, 1, id - 1)), u)
    BY <1>1, <2>1, EntryInsert
  <2> QED
    BY <1>2, <1>4, <2>1, <2>2
<1>12. \/ c \notin DOMAIN v.objs /\ r1 = State(y, v)
       \/ c \in DOMAIN v.objs /\ v.objs[c].id # Len(v.kids) /\ Failed(r1)
       \/ c \in DOMAIN v.objs /\ v.objs[c].id = Len(v.kids) /\ r1 = State(y, CutLast(v, c))
  BY EntryNewContract
<1>13. Failed(r1) => Failed(r)
  BY EntryFailed
<1>14. \A u : u = LoadContracts(w) <=> u = LoadContracts(y.src)
  OBVIOUS
<1>15. Len(w) <= Len(b) \/ Len(w) > Len(b)
  BY <1>2, <1>4
<1> DEFINE few == Len(w) <= Len(b)
           many == Len(w) > Len(b)
           k == CutLast(v, c)
           ins == <<"insert", id>>
<1>16. /\ r = RollbackEntry(r1, ins) /\ (few \/ many)
       /\ few => Mixed(d, e1, y)
       /\ many => Mixed(d, e1, z) /\ z.src = short /\ z.column = y.column
       /\ few => \A u : RollbackEntry(State(y, u), ins) = State(y, u)
       /\ many => \A u : RollbackEntry(State(y, u), ins) = State(z, u)
       /\ few /\ trusted => c \notin DOMAIN v.objs
       /\ many /\ trusted => /\ c \in DOMAIN v.objs /\ v.objs[c].id = Len(v.kids)
                             /\ k = LoadContracts(short)
       /\ trusted <=> v = LoadContracts(y.src)
  BY <1>5, <1>6, <1>8, <1>9, <1>11, <1>15
<1> HIDE DEF few, many, k, ins, z, short, r1, r, trusted, w, a, b, id
<1>17. CASE c \notin DOMAIN v.objs /\ r1 = State(y, v)
  <2>1. CASE few
    <3>1. r = State(y, v) /\ Mixed(d, e1, y)
      BY <1>16, <1>17, <2>1
    <3>2. v = LoadContracts(y.src) => v = LoadContracts(y.src)
      BY <1>16, <1>17, <2>1
    <3>3. y.column # e1.column => y.column # e2.column
      BY <1>10, <1>16, <2>1
    <3> QED
      BY <3>1, <3>2, <3>3, Reached DEF r, r1, id, b, ins
  <2>2. CASE many
    <3>1. r = State(z, v) /\ Mixed(d, e1, z)
      BY <1>16, <1>17, <2>2
    <3>2. v = LoadContracts(y.src) => v = LoadContracts(z.src)
      BY <1>16, <1>17, <2>2
    <3>3. z.column # e1.column => y.column # e2.column
      BY <1>10, <1>16, <2>2
    <3> QED
      BY <3>1, <3>2, <3>3, Reached DEF r, r1, id, b, ins
  <2> QED
    BY <1>16, <2>1, <2>2 DEF r, r1, id, b
<1>18. CASE c \in DOMAIN v.objs /\ v.objs[c].id # Len(v.kids) /\ Failed(r1)
  BY <1>13, <1>16, <1>18 DEF Reaches, r, r1, id, b
<1>19. CASE c \in DOMAIN v.objs /\ v.objs[c].id = Len(v.kids) /\ r1 = State(y, k)
  <2>1. CASE few
    <3>1. r = State(y, k) /\ Mixed(d, e1, y)
      BY <1>16, <1>19, <2>1
    <3>2. v = LoadContracts(y.src) => k = LoadContracts(y.src)
      BY <1>16, <1>19, <2>1
    <3>3. y.column # e1.column => y.column # e2.column
      BY <1>10, <1>16, <2>1
    <3> QED
      BY <3>1, <3>2, <3>3, Reached DEF r, r1, id, b, ins
  <2>2. CASE many
    <3>1. r = State(z, k) /\ Mixed(d, e1, z)
      BY <1>16, <1>19, <2>2
    <3>2. v = LoadContracts(y.src) => k = LoadContracts(z.src)
      BY <1>16, <1>19, <2>2
    <3>3. z.column # e1.column => y.column # e2.column
      BY <1>10, <1>16, <2>2
    <3> QED
      BY <3>1, <3>2, <3>3, Reached DEF r, r1, id, b, ins
  <2> QED
    BY <1>16, <2>1, <2>2 DEF r, r1, id, b
<1> QED
  BY <1>12, <1>17, <1>18, <1>19 DEF k

-----------------------------------------------------------------------------

Versioned(src, id, x) == [src EXCEPT ![id] = [name |-> src[id].name, ver |-> x]]

LEMMA VersionedFacts ==
    ASSUME NEW src, Sound(src), NEW id \in 1..Len(src), NEW x \in Nat, x # 0
    PROVE  LET new == Versioned(src, id, x)
           IN  /\ Sound(new) /\ Len(new) = Len(src) /\ new \in Seq(Source)
               /\ new[id].name = src[id].name /\ new[id].ver = x
               /\ \A i \in 1..Len(src) : i # id => new[i] = src[i]
               /\ \A i \in 1..Len(src) : new[i].name = src[i].name
               /\ FlushBlock(LoadContracts(src), src[id].name, x) = LoadContracts(new)
<1> DEFINE new == Versioned(src, id, x)
<1>1. /\ Sound(new) /\ Len(new) = Len(src)
      /\ FlushBlock(LoadContracts(src), src[id].name, x) = LoadContracts(new)
  BY LoadEdit DEF Versioned
<1>2. new \in Seq(Source)
  BY <1>1 DEF Sound
<1>3. DOMAIN src = 1..Len(src)
  BY SoundFacts
<1>4. new[id].name = src[id].name /\ new[id].ver = x /\ \A i \in 1..Len(src) : i # id => new[i] = src[i]
  BY <1>3 DEF Versioned
<1>5. \A i \in 1..Len(src) : new[i].name = src[i].name
  BY <1>4
<1> HIDE DEF new
<1> QED
  BY <1>1, <1>2, <1>4, <1>5 DEF new

LEMMA EntryValue ==
    ASSUME NEW y \in Tables, NEW v, NEW id \in Nat, NEW x
    PROVE  LET r == RollbackEntry(State(y, v), <<"value", id, x>>)
           IN  /\ id > Len(y.src) => r = State(y, v)
               /\ id \in 1..Len(y.src) => r = State(Sourced(y, [y.src EXCEPT ![id].ver = x]), v)
<1> DEFINE s == State(y, v)
           r == RollbackEntry(s, <<"value", id, x>>)
<1>1. s.err = "" /\ s.db = y /\ s.vm = v
  BY DEF State
<1>2. ASSUME id > Len(y.src)
      PROVE  r = s
  BY <1>1, <1>2 DEF RollbackEntry
<1>3. ASSUME id \in 1..Len(y.src)
      PROVE  r = State(Sourced(y, [y.src EXCEPT ![id].ver = x]), v)
  <2>1. ~ (id > Len(y.src))
    BY <1>3, SrcFacts
  <2>2. r = [s EXCEPT !.db.src[id].ver = x]
    BY <1>1, <2>1 DEF RollbackEntry
  <2>3. r = State(Sourced(y, [y.src EXCEPT ![id].ver = x]), v)
    BY <2>2 DEF State, Sourced
  <2> QED
    BY <2>3
<1> QED
  BY <1>2, <1>3

LEMMA StateVM ==
    ASSUME NEW y, NEW v, NEW k
    PROVE  [State(y, v) EXCEPT !.vm = k] = State(y, k)
<1>1. \A x : [[db |-> y, vm |-> v, err |-> x] EXCEPT !.vm = k] = [db |-> y, vm |-> k, err |-> x]
  OBVIOUS
<1> QED
  BY <1>1 DEF State

LEMMA EntryEdit ==
    ASSUME NEW y \in Tables, NEW v, NEW id \in Nat
    PROVE  LET r == RollbackEntry(State(y, v), <<"EditContract", id>>)
           IN  /\ id > Len(y.src) => r = State(y, v)
               /\ ~ (id > Len(y.src)) => r = State(y, FlushBlock(v, y.src[id].name, y.src[id].ver))
<1> DEFINE s == State(y, v)
           r == RollbackEntry(s, <<"EditContract", id>>)
<1>1. s.err = "" /\ s.db = y /\ s.vm = v
  BY DEF State
<1>2. r = SysRollbackEditContract(s, id)
  BY <1>1 DEF RollbackEntry
<1>3. ASSUME id > Len(y.src)
      PROVE  r = s
  BY <1>1, <1>2, <1>3 DEF SysRollbackEditContract
<1>4. ASSUME ~ (id > Len(y.src))
      PROVE  r = State(y, FlushBlock(v, y.src[id].name, y.src[id].ver))
  <2>1. r = [s EXCEPT !.vm = FlushBlock(@, s.db.src[id].name, s.db.src[id].ver)]
    BY <1>1, <1>2, <1>4 DEF SysRollbackEditContract
  <2>2. r = [s EXCEPT !.vm = FlushBlock(v, y.src[id].name, y.src[id].ver)]
    BY <1>1, <2>1
  <2> DEFINE k == FlushBlock(v, y.src[id].name, y.src[id].ver)
  <2> HIDE DEF k
  <2>3. [s EXCEPT !.vm = k] = State(y, k)
    BY StateVM
  <2> QED
    BY <2>2, <2>3 DEF k
<1> QED
  BY <1>3, <1>4

LEMMA VersionSet ==
    ASSUME NEW src, Sound(src), NEW id \in 1..Len(src), NEW x
    PROVE  [src EXCEPT ![id].ver = x] = Versioned(src, id, x)
<1>1. src \in Seq(Source) /\ src[id] = [name |-> src[id].name, ver |-> src[id].ver]
  BY SoundFacts
<1>2. [src[id] EXCEPT !.ver = x] = [name |-> src[id].name, ver |-> x]
  <2> DEFINE z == src[id]
             p == z.name
             q == z.ver
  <2>1. z = [name |-> p, ver |-> q]
    BY <1>1
  <2> HIDE DEF z, p, q
  <2>2. [z EXCEPT !.ver = x] = [name |-> p, ver |-> x]
    BY <2>1
  <2> QED
    BY <2>2 DEF z, p
<1> QED
  BY <1>1, <1>2 DEF Versioned

LEMMA BackEdit ==
    ASSUME NEW d \in Tables, NEW e1 \in Tables, Sound(e1.src), NEW id \in 1..Len(e1.src), NEW x,
           NEW e2, SameBut(e1, e2, {"src"}), e2.src = Versioned(e1.src, id, x), x \in Nat, x # 0,
           NEW y, NEW v, Mixed(d, e2, y)
    PROVE  Reaches(RollbackEntry(RollbackEntry(State(y, v), <<"value", id, e1.src[id].ver>>),
                                 <<"EditContract", id>>), d, e1, e2, y, v, FALSE)
<1> DEFINE a == d.src
           b == e1.src
           w == y.src
           old == b[id].ver
           new == Versioned(w, id, old)
           z == Sourced(y, new)
           c == w[id].name
           r1 == RollbackEntry(State(y, v), <<"value", id, old>>)
           r == RollbackEntry(r1, <<"EditContract", id>>)
           e == Versioned(b, id, x)
<1>1. y \in Tables /\ MixedSrc(a, e, w) /\ e2.column = e1.column
  BY DEF Mixed, SameBut
<1>2. /\ Sound(b) /\ b \in Seq(Source) /\ Len(b) \in Nat /\ old \in Nat /\ old # 0
      /\ id \in 1..Len(b) /\ id \in Nat
  <2>0. old = b[id].ver
    OBVIOUS
  <2>1. Sound(b) /\ id \in 1..Len(b)
    OBVIOUS
  <2> HIDE DEF b, old
  <2>2. Sound(b) /\ b \in Seq(Source) /\ Len(b) \in Nat
    BY <2>1, SoundFacts
  <2>3. b[id].ver \in Nat /\ b[id].ver # 0
    BY <2>1, SoundFacts
  <2> QED
    BY <2>0, <2>1, <2>2, <2>3
<1>3. /\ Sound(e) /\ Len(e) = Len(b) /\ \A i \in 1..Len(b) : e[i].name = b[i].name
      /\ \A i \in 1..Len(b) : i # id => e[i] = b[i]
  <2> HIDE DEF b
  <2> QED
    BY <1>2, VersionedFacts
<1>4. Sound(w) /\ Len(w) \in Nat
  BY <1>1, SoundFacts DEF MixedSrc
<1>5. ASSUME id > Len(w)
      PROVE  Reaches(r, d, e1, e2, y, v, FALSE)
  <2>0. id > Len(y.src) /\ id \in Nat
    BY <1>2, <1>5
  <2>1. r1 = State(y, v)
    <3> HIDE DEF old
    <3> QED
      BY <1>1, <2>0, EntryValue
  <2>2. r = State(y, v)
    BY <1>1, <1>2, <1>5, <2>1, EntryEdit
  <2>3. MixedSrc(a, b, w)
    <3> HIDE DEF a, b, w, e
    <3>1. Len(w) <= Len(b) /\ \A i \in 1..Len(w) : i \in 1..Len(b) /\ i # id
      BY <1>1, <1>2, <1>3, <1>4, <1>5 DEF MixedSrc
    <3> QED
      BY <1>1, <1>2, <1>3, <1>4, <3>1 DEF MixedSrc
  <2>4. Mixed(d, e1, y)
    BY <2>3 DEF Mixed, SameBut
  <2> HIDE DEF r
  <2> QED
    BY <1>1, <2>2, <2>4, Reached
<1>6. ASSUME ~ (id > Len(w))
      PROVE  Reaches(r, d, e1, e2, y, v, FALSE)
  <2>1. id \in 1..Len(w)
    BY <1>2, <1>4, <1>6
  <2>2. /\ Sound(new) /\ Len(new) = Len(w) /\ new \in Seq(Source)
        /\ new[id].name = c /\ new[id].ver = old
        /\ \A i \in 1..Len(w) : i # id => new[i] = w[i]
        /\ \A i \in 1..Len(w) : new[i].name = w[i].name
        /\ FlushBlock(LoadContracts(w), c, old) = LoadContracts(new)
    <3> HIDE DEF w, old
    <3> QED
      BY <1>2, <1>4, <2>1, VersionedFacts
  <2>3. [w EXCEPT ![id].ver = old] = new
    <3> HIDE DEF w, old
    <3> QED
      BY <1>4, <2>1, VersionSet
  <2>4. r1 = State(z, v)
    <3>1. r1 = State(Sourced(y, [w EXCEPT ![id].ver = old]), v)
      BY <1>1, <1>2, <2>1, EntryValue
    <3> QED
      BY <2>3, <3>1
  <2>5. SameBut(y, z, {"src"}) /\ z.src = new
    <3> HIDE DEF new
    <3> QED
      BY <1>1, <2>2, SourcedFields
  <2>6. z \in Tables
    BY <2>5 DEF SameBut
  <2>7. r = State(z, FlushBlock(v, c, old))
    <3>1. ~ (id > Len(z.src))
      BY <1>6, <2>2, <2>5
    <3> HIDE DEF z, new, r1
    <3>2. RollbackEntry(State(z, v), <<"EditContract", id>>) = State(z, FlushBlock(v, z.src[id].name, z.src[id].ver))
      BY <1>2, <2>6, <3>1, EntryEdit
    <3> QED
      BY <2>2, <2>4, <2>5, <3>2
  <2>8. MixedSrc(a, b, new)
    <3>1. \A i \in 1..Len(w) : i \in 1..Len(b)
      BY <1>1, <1>2, <1>3, <1>4 DEF MixedSrc
    <3> HIDE DEF a, b, w, new, e
    <3>2. \A i \in 1..Len(w) : new[i].name = b[i].name
      BY <1>1, <1>3, <2>2, <3>1 DEF MixedSrc
    <3>3. \A i \in 1..Len(w) : new[i].ver = b[i].ver \/ (i <= Len(a) /\ new[i].ver = a[i].ver)
      <4> TAKE i \in 1..Len(w)
      <4>1. CASE i = id
        BY <2>2, <4>1 DEF old
      <4>2. CASE i # id
        <5>1. new[i] = w[i] /\ e[i] = b[i]
          BY <1>3, <2>2, <3>1, <4>2
        <5> QED
          BY <1>1, <5>1 DEF MixedSrc
      <4> QED
        BY <4>1, <4>2
    <3>4. Len(a) <= Len(new) /\ Len(new) <= Len(b)
      BY <1>1, <1>3, <2>2 DEF MixedSrc
    <3> QED
      BY <2>2, <3>2, <3>3, <3>4 DEF MixedSrc
  <2> HIDE DEF new, z, r, r1
  <2>9. Mixed(d, e1, z)
    BY <2>5, <2>8 DEF Mixed, SameBut
  <2>10. v = LoadContracts(y.src) => FlushBlock(v, c, old) = LoadContracts(z.src)
    BY <2>2, <2>5
  <2>11. z.column = y.column
    BY <2>5 DEF SameBut
  <2> QED
    BY <1>1, <2>7, <2>9, <2>10, <2>11, Reached DEF r
<1> HIDE DEF r
<1> QED
  BY <1>5, <1>6 DEF r

-----------------------------------------------------------------------------
(* What a transaction has done to the tables, from d to e, and what its      *)
(* entries say of it; saved, once a savepoint has brought d back.            *)

NoRate(log) == \A i \in 1..Len(log) : log[i][1] # "rate"

Trail(d, log, e, saved) ==
    /\ Sound(e.src) /\ Extends(d.src, e.src)
    /\ Undoes(d, log, e, ~ saved)
    /\ NoRate(log) => e.rate = d.rate
    /\ saved => SameBut(d, e, {"bal"})

LEMMA ExtendsSelf ==
    ASSUME NEW src, Sound(src)
    PROVE  Extends(src, src)
  BY SoundFacts DEF Extends

LEMMA TrailStart ==
    ASSUME NEW d \in Tables, Sound(d.src)
    PROVE  Trail(d, <<>>, d, FALSE)
<1>1. Undoes(d, <<>>, d, ~ FALSE)
  BY UndoesNothing
<1>2. Extends(d.src, d.src)
  BY ExtendsSelf
<1> QED
  BY <1>1, <1>2 DEF Trail

LEMMA NoRateAppend ==
    ASSUME NEW log, IsList(log), NEW x
    PROVE  NoRate(Append(log, x)) => NoRate(log) /\ x[1] # "rate"
<1> DEFINE w == Append(log, x)
<1>1. Len(log) \in Nat /\ Len(w) = Len(log) + 1 /\ w[Len(log)+1] = x /\ \A i \in 1..Len(log) : w[i] = log[i]
  BY ListFacts, Appended
<1>2. Len(log) + 1 \in 1..Len(w) /\ \A i \in 1..Len(log) : i \in 1..Len(w)
  BY <1>1
<1> HIDE DEF w
<1> SUFFICES ASSUME NoRate(w)
             PROVE  NoRate(log) /\ x[1] # "rate"
  BY DEF w
<1>3. \A i \in 1..Len(w) : w[i][1] # "rate"
  BY DEF NoRate
<1>4. x[1] # "rate"
  BY <1>1, <1>2, <1>3
<1>5. \A i \in 1..Len(log) : log[i][1] # "rate"
  BY <1>1, <1>2, <1>3
<1> QED
  BY <1>4, <1>5 DEF NoRate

LEMMA TrailOne ==
    ASSUME NEW d, NEW log, IsList(log), NEW e1, NEW saved, Trail(d, log, e1, saved),
           NEW e2, NEW x, x[1] = "rate" \/ e2.rate = e1.rate,
           Sound(e2.src), Extends(d.src, e2.src), saved => SameBut(d, e2, {"bal"}),
           \A y, v : Mixed(d, e2, y) =>
             Reaches(RollbackEntry(State(y, v), x), d, e1, e2, y, v, x = <<"NewColumn">>)
    PROVE  Trail(d, Append(log, x), e2, saved)
<1>1. Undoes(d, Append(log, x), e2, ~ saved)
  <2>1. Undoes(d, log, e1, ~ saved)
    BY DEF Trail
  <2> QED
    BY <2>1, UndoesOne
<1>2. NoRate(Append(log, x)) => e2.rate = d.rate
  BY NoRateAppend DEF Trail
<1> QED
  BY <1>1, <1>2 DEF Trail

LEMMA TrailTwo ==
    ASSUME NEW d, NEW log, IsList(log), NEW e1, NEW saved, Trail(d, log, e1, saved),
           NEW e2, NEW x1, NEW x2, e2.rate = e1.rate,
           Sound(e2.src), Extends(d.src, e2.src), saved => SameBut(d, e2, {"bal"}),
           \A y, v : Mixed(d, e2, y) =>
             Reaches(RollbackEntry(RollbackEntry(State(y, v), x2), x1), d, e1, e2, y, v, FALSE)
    PROVE  Trail(d, Append(Append(log, x1), x2), e2, saved)
<1>1. Undoes(d, Append(Append(log, x1), x2), e2, ~ saved)
  <2>1. Undoes(d, log, e1, ~ saved)
    BY DEF Trail
  <2> QED
    BY <2>1, UndoesTwo
<1> DEFINE u == Append(log, x1)
<1>2. IsList(u) /\ (NoRate(u) => NoRate(log))
  BY Appended, NoRateAppend
<1> HIDE DEF u
<1>3. NoRate(Append(u, x2)) => NoRate(u)
  BY <1>2, NoRateAppend
<1>4. NoRate(Append(u, x2)) => e2.rate = d.rate
  BY <1>2, <1>3 DEF Trail
<1> QED
  BY <1>1, <1>4 DEF Trail, u

LEMMA TrailRate ==
    ASSUME NEW d \in Tables, NEW log, IsList(log), NEW e1 \in Tables, Trail(d, log, e1, FALSE),
           NEW e2, SameBut(e1, e2, {"rate"})
    PROVE  Trail(d, Append(log, <<"rate", e1.rate>>), e2, FALSE)
<1> DEFINE x == <<"rate", e1.rate>>
<1>1. x[1] = "rate" /\ x # <<"NewColumn">>
  OBVIOUS
<1>2. \A y, v : Mixed(d, e2, y) => Reaches(RollbackEntry(State(y, v), x), d, e1, e2, y, v, FALSE)
  BY BackRate
<1>3. Sound(e2.src) /\ Extends(d.src, e2.src)
  BY DEF SameBut, Trail
<1> HIDE DEF x
<1>4. \A y, v : Mixed(d, e2, y) => Reaches(RollbackEntry(State(y, v), x), d, e1, e2, y, v, x = <<"NewColumn">>)
  BY <1>1, <1>2
<1> QED
  BY <1>1, <1>3, <1>4, TrailOne DEF x

LEMMA TrailRow ==
    ASSUME NEW d \in Tables, NEW log, IsList(log), NEW e1 \in Tables, Trail(d, log, e1, FALSE),
           NEW e2, SameBut(e1, e2, {"row"})
    PROVE  Trail(d, Append(log, <<"row", e1.row>>), e2, FALSE)
<1> DEFINE x == <<"row", e1.row>>
<1>1. x # <<"NewColumn">> /\ e2.rate = e1.rate
  BY DEF SameBut
<1>2. \A y, v : Mixed(d, e2, y) => Reaches(RollbackEntry(State(y, v), x), d, e1, e2, y, v, FALSE)
  BY BackRow
<1>3. Sound(e2.src) /\ Extends(d.src, e2.src)
  BY DEF SameBut, Trail
<1> HIDE DEF x
<1>4. \A y, v : Mixed(d, e2, y) => Reaches(RollbackEntry(State(y, v), x), d, e1, e2, y, v, x = <<"NewColumn">>)
  BY <1>1, <1>2
<1> QED
  BY <1>1, <1>3, <1>4, TrailOne DEF x

LEMMA TrailColumn ==
    ASSUME NEW d \in Tables, NEW log, IsList(log), NEW e1 \in Tables, Trail(d, log, e1, FALSE),
           NEW e2, SameBut(e1, e2, {"column"}), e1.column = FALSE, e2.column = TRUE
    PROVE  Trail(d, Append(log, <<"NewColumn">>), e2, FALSE)
<1> DEFINE x == <<"NewColumn">>
<1>1. e2.rate = e1.rate
  BY DEF SameBut
<1>2. \A y, v : Mixed(d, e2, y) => Reaches(RollbackEntry(State(y, v), x), d, e1, e2, y, v, TRUE)
  BY BackColumn
<1>3. Sound(e2.src) /\ Extends(d.src, e2.src)
  BY DEF SameBut, Trail
<1>4. \A y, v : Mixed(d, e2, y) => Reaches(RollbackEntry(State(y, v), x), d, e1, e2, y, v, x = <<"NewColumn">>)
  BY <1>2
<1> HIDE DEF x
<1> QED
  BY <1>1, <1>3, <1>4, TrailOne DEF x

LEMMA TrailAmount ==
    ASSUME NEW d \in Tables, NEW log, IsList(log), NEW e1 \in Tables, NEW saved,
           Trail(d, log, e1, saved), NEW e2, SameBut(e1, e2, {"bal"}),
           NEW e \in Ecos, NEW k \in Accounts,
           \A f \in Ecos, j \in Accounts : ~ (f = e /\ j = k) => e2.bal[f][j] = e1.bal[f][j]
    PROVE  Trail(d, Append(log, <<"amount", e, k, e1.bal[e][k]>>), e2, saved)
<1> DEFINE x == <<"amount", e, k, e1.bal[e][k]>>
<1>1. x # <<"NewColumn">> /\ e2.rate = e1.rate
  BY DEF SameBut
<1>2. \A y, v : Mixed(d, e2, y) => Reaches(RollbackEntry(State(y, v), x), d, e1, e2, y, v, FALSE)
  BY BackAmount
<1>3. Sound(e2.src) /\ Extends(d.src, e2.src)
  BY DEF SameBut, Trail
<1>4. saved => SameBut(d, e2, {"bal"})
  BY DEF SameBut, Trail
<1> HIDE DEF x
<1>5. \A y, v : Mixed(d, e2, y) => Reaches(RollbackEntry(State(y, v), x), d, e1, e2, y, v, x = <<"NewColumn">>)
  BY <1>1, <1>2
<1> QED
  BY <1>1, <1>3, <1>4, <1>5, TrailOne DEF x

LEMMA TrailCreate ==
    ASSUME NEW d \in Tables, NEW log, IsList(log), NEW e1 \in Tables, Trail(d, log, e1, FALSE),
           NEW c \in Names, NewIn(e1.src, c), NEW e2, SameBut(e1, e2, {"src"}),
           e2.src = Append(e1.src, [name |-> c, ver |-> 1])
    PROVE  Trail(d, Append(Append(log, <<"insert", Len(e1.src) + 1>>), <<"NewContract", c>>), e2, FALSE)
<1> DEFINE b == e1.src
           new == Append(b, [name |-> c, ver |-> 1])
<1>1. Sound(b) /\ Extends(d.src, b) /\ e2.src = new /\ e2.rate = e1.rate
  BY DEF Trail, SameBut
<1>2. Len(d.src) \in Nat
  BY SrcFacts
<1>3. Sound(new) /\ Extends(d.src, new)
  <2> HIDE DEF b
  <2>1. \A i \in 1..Len(b) : b[i].name # c
    BY DEF NewIn, b
  <2>2. Sound(new)
    BY <1>1, <2>1, LoadAppend
  <2>3. b \in Seq(Source) /\ Len(b) \in Nat
    BY <1>1, SoundFacts
  <2>4. Len(new) = Len(b) + 1 /\ \A i \in 1..Len(b) : new[i] = b[i]
    BY <2>3
  <2> HIDE DEF new
  <2>5. Extends(d.src, new)
    BY <1>1, <1>2, <2>3, <2>4 DEF Extends
  <2> QED
    BY <2>2, <2>5
<1>4. Len(d.src) <= Len(b)
  BY <1>1 DEF Extends
<1>5. \A y, v : Mixed(d, e2, y) =>
        Reaches(RollbackEntry(RollbackEntry(State(y, v), <<"NewContract", c>>),
                              <<"insert", Len(e1.src) + 1>>), d, e1, e2, y, v, FALSE)
  BY <1>1, <1>4, BackCreate
<1> QED
  BY <1>1, <1>3, <1>5, TrailTwo

LEMMA TrailEdit ==
    ASSUME NEW d \in Tables, NEW log, IsList(log), NEW e1 \in Tables, Trail(d, log, e1, FALSE),
           NEW id \in 1..Len(e1.src), NEW x \in Nat, x # 0, NEW e2, SameBut(e1, e2, {"src"}),
           e2.src = Versioned(e1.src, id, x)
    PROVE  Trail(d, Append(Append(log, <<"EditContract", id>>), <<"value", id, e1.src[id].ver>>), e2, FALSE)
<1> DEFINE b == e1.src
           new == Versioned(b, id, x)
<1>1. Sound(b) /\ Extends(d.src, b) /\ e2.src = new /\ e2.rate = e1.rate
  BY DEF Trail, SameBut
<1>2. Len(d.src) \in Nat
  BY SrcFacts
<1>3. Sound(new) /\ Extends(d.src, new)
  <2>0. id \in 1..Len(b)
    OBVIOUS
  <2> HIDE DEF b
  <2>1. Sound(new) /\ Len(new) = Len(b) /\ \A i \in 1..Len(b) : new[i].name = b[i].name
    BY <1>1, <2>0, VersionedFacts
  <2>2. Len(b) \in Nat
    BY <1>1, SoundFacts
  <2> HIDE DEF new
  <2>3. Extends(d.src, new)
    BY <1>1, <1>2, <2>1, <2>2 DEF Extends
  <2> QED
    BY <2>1, <2>3
<1>4. \A y, v : Mixed(d, e2, y) =>
        Reaches(RollbackEntry(RollbackEntry(State(y, v), <<"value", id, e1.src[id].ver>>),
                              <<"EditContract", id>>), d, e1, e2, y, v, FALSE)
  BY <1>1, BackEdit
<1> QED
  BY <1>1, <1>3, <1>4, TrailTwo

LEMMA TrailSaved ==
    ASSUME NEW d \in Tables, Sound(d.src), NEW log, NEW e \in Tables, NEW saved,
           Trail(d, log, e, saved)
    PROVE  Trail(d, log, d, TRUE)
<1>1. Undoes(d, log, d, ~ TRUE)
  <2> SUFFICES ASSUME NEW y, NEW v, Mixed(d, d, y)
               PROVE  Undone(RollbackTransaction(State(y, v), log), d, v = LoadContracts(y.src),
                             HasColumn(log) /\ (~ TRUE => y.column # d.column))
    BY DEF Undoes
  <2>1. Mixed(d, e, y)
    BY MixedSame, MixedEnds DEF Trail
  <2>2. Undone(RollbackTransaction(State(y, v), log), d, v = LoadContracts(y.src),
               HasColumn(log) /\ (~ saved => y.column # e.column))
    BY <2>1 DEF Trail, Undoes
  <2> QED
    BY <2>2 DEF Undone
<1>2. Extends(d.src, d.src)
  BY ExtendsSelf
<1>3. SameBut(d, d, {"bal"})
  BY DEF SameBut
<1> QED
  BY <1>1, <1>2, <1>3 DEF Trail

-----------------------------------------------------------------------------
(* What a transaction has done to the compiled contracts, from v0 to v, when *)
(* it led from the contracts src0 to src, ...                                *)

Begins(src0, src) == Len(src0) <= Len(src) /\ \A i \in 1..Len(src0) : src[i] = src0[i]

OnlyNew(flush) == \A i \in 1..Len(flush) : flush[i].prev = None

Grown(src0, src, flush) ==
    /\ flush = <<>> => src = src0
    /\ OnlyNew(flush) => Begins(src0, src)

MemOK(v0, src0, v, src, flush, saved) ==
    /\ flush = <<>> => v = v0
    /\ GoodVM(v0) => GoodVM(v) /\ UndoFlush(v, flush) = v0
    /\ (~ saved /\ v0 = LoadContracts(src0)) => v = LoadContracts(src) /\ Grown(src0, src, flush)

\* ... and to the cached rate.
RateOK(c0, rate0, c, rate, sys, saved) ==
    /\ ~ sys => c = c0 /\ rate = rate0
    /\ (~ saved /\ c0 = rate0) => c = rate

LEMMA BeginsTwice ==
    ASSUME NEW a, NEW b, NEW c, Len(a) \in Nat, Len(b) \in Nat, Len(c) \in Nat,
           Begins(a, b), Begins(b, c)
    PROVE  Begins(a, c)
  BY DEF Begins

LEMMA MemStart ==
    ASSUME NEW v, NEW src, Sound(src)
    PROVE  MemOK(v, src, v, src, <<>>, FALSE)
<1>1. UndoFlush(v, <<>>) = v
  BY UndoNothing
<1>2. Begins(src, src)
  BY SoundFacts DEF Begins
<1> QED
  BY <1>1, <1>2 DEF MemOK, Grown

LEMMA MemSaved ==
    ASSUME NEW v0, NEW src0, NEW v, NEW src, NEW flush, NEW saved,
           MemOK(v0, src0, v, src, flush, saved)
    PROVE  MemOK(v0, src0, v, src0, flush, TRUE)
  BY DEF MemOK

LEMMA FlushLonger ==
    ASSUME NEW q, IsList(q), NEW f
    PROVE  /\ Append(q, f) # <<>>
           /\ OnlyNew(Append(q, f)) => OnlyNew(q) /\ f.prev = None
<1> DEFINE w == Append(q, f)
           n == Len(q)
<1>1. n \in Nat /\ Len(w) = n + 1 /\ w[n+1] = f /\ \A i \in 1..n : w[i] = q[i]
  BY ListFacts, Appended
<1>2. n + 1 \in 1..Len(w) /\ \A i \in 1..n : i \in 1..Len(w)
  BY <1>1
<1> HIDE DEF w, n
<1>3. w # <<>>
  <2>1. Len(w) # 0
    BY <1>1
  <2> QED
    BY <2>1
<1>4. ASSUME OnlyNew(w)
      PROVE  OnlyNew(q) /\ f.prev = None
  <2>1. \A i \in 1..Len(w) : w[i].prev = None
    BY <1>4 DEF OnlyNew
  <2>2. \A i \in 1..n : q[i].prev = None
    BY <1>1, <1>2, <2>1
  <2>3. f.prev = None
    BY <1>1, <1>2, <2>1
  <2> QED
    BY <2>2, <2>3 DEF OnlyNew, n
<1> QED
  BY <1>3, <1>4 DEF w

LEMMA MemFlush ==
    ASSUME NEW v0, NEW src0, Sound(src0), NEW v, NEW src, Sound(src), NEW flush, IsList(flush),
           MemOK(v0, src0, v, src, flush, FALSE), NEW c \in Names, NEW x \in Nat, x # 0,
           NEW new, Sound(new),
           v = LoadContracts(src) => FlushBlock(v, c, x) = LoadContracts(new),
           v = LoadContracts(src) /\ FlushInfo(v, c).prev = None => Begins(src, new)
    PROVE  MemOK(v0, src0, FlushBlock(v, c, x), new, Append(flush, FlushInfo(v, c)), FALSE)
<1> DEFINE k == FlushBlock(v, c, x)
           f == FlushInfo(v, c)
           w == Append(flush, f)
<1>1. w # <<>> /\ (OnlyNew(w) => OnlyNew(flush) /\ f.prev = None)
  BY FlushLonger
<1>2. GoodVM(v0) => GoodVM(k) /\ UndoFlush(k, w) = v0
  <2> SUFFICES ASSUME GoodVM(v0)
               PROVE  GoodVM(k) /\ UndoFlush(k, w) = v0
    OBVIOUS
  <2>1. GoodVM(v) /\ UndoFlush(v, flush) = v0
    BY DEF MemOK
  <2>2. GoodVM(k) /\ UndoOne(k, f) = v
    BY <2>1, FlushUndone
  <2> HIDE DEF k, f
  <2>3. UndoFlush(k, w) = UndoFlush(UndoOne(k, f), flush)
    BY UndoAppended
  <2> QED
    BY <2>1, <2>2, <2>3
<1>3. v0 = LoadContracts(src0) => k = LoadContracts(new) /\ Grown(src0, new, w)
  <2> SUFFICES ASSUME v0 = LoadContracts(src0)
               PROVE  k = LoadContracts(new) /\ Grown(src0, new, w)
    OBVIOUS
  <2>1. v = LoadContracts(src) /\ Grown(src0, src, flush)
    BY DEF MemOK
  <2>2. Len(src0) \in Nat /\ Len(src) \in Nat /\ Len(new) \in Nat
    BY SoundFacts
  <2>3. k = LoadContracts(new)
    BY <2>1
  <2> HIDE DEF k, w, f
  <2>4. OnlyNew(w) => Begins(src0, new)
    BY <1>1, <2>1, <2>2, BeginsTwice DEF Grown, f
  <2> QED
    BY <1>1, <2>3, <2>4 DEF Grown
<1> HIDE DEF k, w, f
<1> QED
  BY <1>1, <1>2, <1>3 DEF MemOK, k, w, f

\* A running transaction against where it began.
Track(s, b, saved) ==
    /\ Running(s, b.db.bal)
    /\ Trail(b.db, s.log, s.db, saved)
    /\ MemOK(b.vm, b.db.src, s.vm, s.db.src, s.flush, saved)
    /\ RateOK(b.cache, b.db.rate, s.cache, s.db.rate, s.sys, saved)

Alike(r, s) ==
    /\ r.db = s.db /\ r.log = s.log /\ r.vm = s.vm /\ r.flush = s.flush
    /\ r.cache = s.cache /\ r.sys = s.sys

LEMMA TrackAlike ==
    ASSUME NEW s, NEW b, NEW saved, Track(s, b, saved), NEW r, Alike(r, s), Running(r, b.db.bal)
    PROVE  Track(r, b, saved)
  BY DEF Track, Alike

LEMMA TrackFail ==
    ASSUME NEW s, NEW b, NEW saved, Track(s, b, saved), NEW x
    PROVE  Track(Fail(s, x), b, saved)
<1> DEFINE r == Fail(s, x)
<1>1. Running(s, b.db.bal) /\ DOMAIN s = Fields
  BY DEF Track, Running
<1>2. Running(r, b.db.bal)
  BY <1>1, FailRunning
<1>3. Alike(r, s)
  BY <1>1, FailFields DEF Alike
<1> HIDE DEF r
<1> QED
  BY <1>2, <1>3, TrackAlike DEF r

LEMMA TrackFuel ==
    ASSUME NEW s, NEW b, NEW saved, Track(s, b, saved), NEW n \in Nat
    PROVE  Track(Refuelled(s, n), b, saved)
<1> DEFINE r == Refuelled(s, n)
<1>1. Running(s, b.db.bal) /\ DOMAIN s = Fields
  BY DEF Track, Running
<1>2. Running(r, b.db.bal)
  BY <1>1, RefuelledRunning
<1>3. Alike(r, s)
  BY <1>1 DEF Alike, Refuelled, Fields
<1> HIDE DEF r
<1> QED
  BY <1>2, <1>3, TrackAlike DEF r

LEMMA TrackKind ==
    ASSUME NEW s, NEW b, NEW saved, Track(s, b, saved), NEW k
    PROVE  Track(OfKind(s, k), b, saved)
<1> DEFINE r == OfKind(s, k)
<1>1. Running(s, b.db.bal) /\ DOMAIN s = Fields
  BY DEF Track, Running
<1>2. Running(r, b.db.bal)
  BY <1>1, KindRunning
<1>3. Alike(r, s)
  BY <1>1 DEF Alike, OfKind, Fields
<1> HIDE DEF r
<1> QED
  BY <1>2, <1>3, TrackAlike DEF r

-----------------------------------------------------------------------------
(* The functions of a contract, field by field.                              *)

Row(c) == [name |-> c, ver |-> 1]

Created(s, r, c) ==
    /\ NewIn(s.db.src, c) /\ c \notin DOMAIN s.vm.objs
    /\ r.db = Sourced(s.db, Append(s.db.src, Row(c)))
    /\ r.log = Append(Append(s.log, <<"insert", Len(s.db.src) + 1>>), <<"NewContract", c>>)
    /\ r.vm = FlushBlock(s.vm, c, 1) /\ r.flush = Append(s.flush, FlushInfo(s.vm, c))
    /\ r.cache = s.cache /\ r.sys = s.sys

LEMMA CreateFields ==
    ASSUME NEW s, NEW b0, Running(s, b0), NEW c \in Names
    PROVE  \/ CreateContract(s, c) = Fail(s, "contract exists")
           \/ Created(s, CreateContract(s, c), c)
<1> DEFINE id == Len(s.db.src) + 1
           e1 == <<"insert", id>>
           e2 == <<"NewContract", c>>
           u == Log(s, e1)
           t == Log(u, e2)
           row == Row(c)
           src == Append(s.db.src, row)
           f == FlushInfo(s.vm, c)
           k == FlushBlock(s.vm, c, 1)
           r == [t EXCEPT !.db.src = Append(@, row),
                          !.flush = Append(@, f),
                          !.vm = FlushBlock(@, c, 1)]
           there == c \in DOMAIN s.vm.objs \/ \E i \in DOMAIN s.db.src : s.db.src[i].name = c
<1>1. CreateContract(s, c) = IF there THEN Fail(s, "contract exists") ELSE r
  BY DEF CreateContract, Row
<1>2. s.db \in Tables /\ id \in Nat \ {0}
  BY SrcFacts DEF Running
<1>3. EntryOK(e1) /\ EntryOK(e2) /\ e1[1] # "amount" /\ e2[1] # "amount"
  BY <1>2 DEF EntryOK
<1>4. ~ there => NewIn(s.db.src, c) /\ c \notin DOMAIN s.vm.objs
  BY <1>2, SrcFacts DEF NewIn
<1> HIDE DEF e1, e2, there
<1>5. /\ Running(u, b0) /\ u.db = s.db /\ u.vm = s.vm /\ u.flush = s.flush /\ u.cache = s.cache
      /\ u.sys = s.sys /\ u.log = Append(s.log, e1)
  BY <1>3, LogRunning
<1> HIDE DEF u
<1>6. /\ Running(t, b0) /\ t.db = s.db /\ t.vm = s.vm /\ t.flush = s.flush /\ t.cache = s.cache
      /\ t.sys = s.sys /\ t.log = Append(Append(s.log, e1), e2)
  <2>1. /\ Running(t, b0) /\ t.db = u.db /\ t.vm = u.vm /\ t.flush = u.flush /\ t.cache = u.cache
        /\ t.sys = u.sys /\ t.log = Append(u.log, e2)
    <3>1. Running(u, b0) /\ EntryOK(e2) /\ e2[1] # "amount"
      BY <1>3, <1>5
    <3> QED
      BY <3>1, LogRunning
  <2> HIDE DEF t
  <2> QED
    BY <1>5, <2>1
<1>7. DOMAIN t = Fields
  BY <1>6 DEF Running
<1> HIDE DEF t, f, row
<1>8. /\ r.db = [s.db EXCEPT !.src = src] /\ r.log = t.log
      /\ r.vm = k /\ r.flush = Append(s.flush, f)
      /\ r.cache = s.cache /\ r.sys = s.sys
  BY <1>6, <1>7 DEF Fields
<1> HIDE DEF r, src, k
<1>9. r.db = Sourced(s.db, src)
  BY <1>8 DEF Sourced
<1>10. ~ there => Created(s, r, c)
  BY <1>4, <1>6, <1>8, <1>9 DEF Created, src, row, e1, e2, k, f
<1> QED
  BY <1>1, <1>10

Updated(s, r, c, id, x) ==
    /\ id \in 1..Len(s.db.src) /\ s.db.src[id].name = c /\ x = s.db.src[id].ver + 1
    /\ r.db = Sourced(s.db, [s.db.src EXCEPT ![id].ver = x])
    /\ r.log = Append(Append(s.log, <<"EditContract", id>>), <<"value", id, s.db.src[id].ver>>)
    /\ r.vm = FlushBlock(s.vm, c, x) /\ r.flush = Append(s.flush, FlushInfo(s.vm, c))
    /\ r.cache = s.cache /\ r.sys = s.sys

LEMMA UpdateFields ==
    ASSUME NEW s, NEW b0, Running(s, b0), NEW c \in Names
    PROVE  \/ UpdateContract(s, c) = Fail(s, "no contract")
           \/ \E id, x : Updated(s, UpdateContract(s, c), c, id, x)
<1> DEFINE ids == {i \in DOMAIN s.db.src : s.db.src[i].name = c}
           id == CHOOSE i \in ids : TRUE
           old == s.db.src[id].ver
           v == old + 1
           e1 == <<"EditContract", id>>
           e2 == <<"value", id, old>>
           u == Log(s, e1)
           t == Log(u, e2)
           src == [s.db.src EXCEPT ![id].ver = v]
           f == FlushInfo(s.vm, c)
           k == FlushBlock(s.vm, c, v)
           r == [t EXCEPT !.db.src[id].ver = v,
                          !.flush = Append(@, f),
                          !.vm = FlushBlock(@, c, v)]
<1>1. UpdateContract(s, c) = IF ids = {} THEN Fail(s, "no contract") ELSE r
  BY DEF UpdateContract
<1> SUFFICES ASSUME ids # {} PROVE \E j, x : Updated(s, r, c, j, x)
  <2> HIDE DEF ids, r
  <2> QED
    BY <1>1
<1>2. s.db \in Tables
  BY DEF Running
<1>3. id \in DOMAIN s.db.src /\ s.db.src[id].name = c
  OBVIOUS
<1> HIDE DEF id
<1>4. id \in 1..Len(s.db.src) /\ id \in Nat \ {0} /\ s.db.src[id] \in Source
  BY <1>2, <1>3, SrcFacts
<1>5. old \in Nat
  <2> DEFINE row == s.db.src[id]
  <2>2. row \in Source
    BY <1>4
  <2> HIDE DEF row
  <2>3. row.ver \in Nat
    BY <2>2 DEF Source
  <2> QED
    BY <2>3 DEF row
<1> HIDE DEF old
<1>6. EntryOK(e1) /\ EntryOK(e2) /\ e1[1] # "amount" /\ e2[1] # "amount"
  BY <1>4, <1>5 DEF EntryOK
<1> HIDE DEF e1, e2
<1>7. /\ Running(u, b0) /\ u.db = s.db /\ u.vm = s.vm /\ u.flush = s.flush /\ u.cache = s.cache
      /\ u.sys = s.sys /\ u.log = Append(s.log, e1)
  BY <1>6, LogRunning
<1> HIDE DEF u
<1>8. /\ Running(t, b0) /\ t.db = s.db /\ t.vm = s.vm /\ t.flush = s.flush /\ t.cache = s.cache
      /\ t.sys = s.sys /\ t.log = Append(Append(s.log, e1), e2)
  <2>1. /\ Running(t, b0) /\ t.db = u.db /\ t.vm = u.vm /\ t.flush = u.flush /\ t.cache = u.cache
        /\ t.sys = u.sys /\ t.log = Append(u.log, e2)
    <3>1. Running(u, b0) /\ EntryOK(e2) /\ e2[1] # "amount"
      BY <1>6, <1>7
    <3> QED
      BY <3>1, LogRunning
  <2> HIDE DEF t
  <2> QED
    BY <1>7, <2>1
<1>9. DOMAIN t = Fields
  BY <1>8 DEF Running
<1> HIDE DEF t, f
<1>10. /\ r.db = [s.db EXCEPT !.src = src] /\ r.log = t.log
       /\ r.vm = k /\ r.flush = Append(s.flush, f)
       /\ r.cache = s.cache /\ r.sys = s.sys
  <2> HIDE DEF v
  <2> QED
    BY <1>8, <1>9 DEF Fields
<1> HIDE DEF r, src, k
<1>11. r.db = Sourced(s.db, src)
  BY <1>10 DEF Sourced
<1>12. Updated(s, r, c, id, v)
  BY <1>3, <1>4, <1>8, <1>10, <1>11 DEF Updated, src, e1, e2, k, f, old
<1> QED
  BY <1>12

Others(s, r) == r.vm = s.vm /\ r.flush = s.flush

LEMMA ParamFields ==
    ASSUME NEW s, NEW b0, Running(s, b0), NEW rate \in Nat
    PROVE  LET r == UpdateSysParam(s, rate)
           IN  /\ r.db = Rated(s.db, rate) /\ r.log = Append(s.log, <<"rate", s.db.rate>>)
               /\ Others(s, r) /\ r.cache = rate /\ r.sys = TRUE
<1> DEFINE e == <<"rate", s.db.rate>>
           t == Log(s, e)
           r == [t EXCEPT !.db.rate = rate, !.cache = rate, !.sys = TRUE]
<1>1. UpdateSysParam(s, rate) = r
  BY DEF UpdateSysParam
<1>2. s.db \in Tables
  BY DEF Running
<1>3. EntryOK(e) /\ e[1] # "amount"
  BY <1>2 DEF EntryOK, Tables
<1> HIDE DEF e
<1>4. Running(t, b0) /\ t.db = s.db /\ t.vm = s.vm /\ t.flush = s.flush /\ t.log = Append(s.log, e)
  BY <1>3, LogRunning
<1> HIDE DEF t
<1>5. DOMAIN t = Fields
  BY <1>4 DEF Running
<1>6. /\ r.db = [s.db EXCEPT !.rate = rate] /\ r.log = t.log
      /\ r.vm = s.vm /\ r.flush = s.flush /\ r.cache = rate /\ r.sys = TRUE
  BY <1>4, <1>5 DEF Fields
<1> HIDE DEF r
<1> QED
  BY <1>1, <1>4, <1>6 DEF Rated, Others, e

LEMMA ColumnFields ==
    ASSUME NEW s, NEW b0, Running(s, b0)
    PROVE  LET r == CreateColumn(s)
           IN  \/ r = Fail(s, "column exists")
               \/ /\ ~ s.db.column /\ r.db = Columned(s.db, TRUE)
                  /\ r.log = Append(s.log, <<"NewColumn">>)
                  /\ Others(s, r) /\ r.cache = s.cache /\ r.sys = s.sys
<1> DEFINE e == <<"NewColumn">>
           t == Log(s, e)
           r == [t EXCEPT !.db.column = TRUE]
<1>1. CreateColumn(s) = IF s.db.column THEN Fail(s, "column exists") ELSE r
  BY DEF CreateColumn
<1>3. EntryOK(e) /\ e[1] # "amount"
  BY DEF EntryOK
<1> HIDE DEF e
<1>4. /\ Running(t, b0) /\ t.db = s.db /\ t.vm = s.vm /\ t.flush = s.flush /\ t.log = Append(s.log, e)
      /\ t.cache = s.cache /\ t.sys = s.sys
  BY <1>3, LogRunning
<1> HIDE DEF t
<1>5. DOMAIN t = Fields
  BY <1>4 DEF Running
<1>6. /\ r.db = [s.db EXCEPT !.column = TRUE] /\ r.log = t.log
      /\ r.vm = s.vm /\ r.flush = s.flush /\ r.cache = s.cache /\ r.sys = s.sys
  BY <1>4, <1>5 DEF Fields
<1> HIDE DEF r
<1> QED
  BY <1>1, <1>4, <1>6 DEF Columned, Others, e

LEMMA CallFields ==
    ASSUME NEW s, NEW b0, Running(s, b0), NEW c
    PROVE  LET r == CallOther(s, c)
           IN  \/ r = Fail(s, "unknown contract")
               \/ /\ s.vm.objs[c].ver \in Nat /\ r.db = Rowed(s.db, s.vm.objs[c].ver)
                  /\ r.log = Append(s.log, <<"row", s.db.row>>)
                  /\ Others(s, r) /\ r.cache = s.cache /\ r.sys = s.sys
<1> DEFINE e == <<"row", s.db.row>>
           t == Log(s, e)
           v == s.vm.objs[c].ver
           r == [t EXCEPT !.db.row = v]
<1>1. CallOther(s, c) = IF c \notin DOMAIN s.vm.objs THEN Fail(s, "unknown contract") ELSE r
  BY DEF CallOther
<1>2. s.db \in Tables /\ ObjsOK(s.vm)
  BY DEF Running
<1>3. EntryOK(e) /\ e[1] # "amount" /\ (c \in DOMAIN s.vm.objs => v \in Nat)
  BY <1>2 DEF EntryOK, Tables, ObjsOK
<1> HIDE DEF e, v
<1>4. /\ Running(t, b0) /\ t.db = s.db /\ t.vm = s.vm /\ t.flush = s.flush /\ t.log = Append(s.log, e)
      /\ t.cache = s.cache /\ t.sys = s.sys
  BY <1>3, LogRunning
<1> HIDE DEF t
<1>5. DOMAIN t = Fields
  BY <1>4 DEF Running
<1>6. /\ r.db = [s.db EXCEPT !.row = v] /\ r.log = t.log
      /\ r.vm = s.vm /\ r.flush = s.flush /\ r.cache = s.cache /\ r.sys = s.sys
  BY <1>4, <1>5 DEF Fields
<1> HIDE DEF r
<1> QED
  BY <1>1, <1>3, <1>4, <1>6 DEF Rowed, Others, e, v

-----------------------------------------------------------------------------
(* The functions of a contract keep track.                                   *)

\* Where a transaction begins.
Begin(b) == b.db \in Tables /\ Sound(b.db.src)

LEMMA TrackTypes ==
    ASSUME NEW s, NEW b, NEW saved, Track(s, b, saved)
    PROVE  /\ Running(s, b.db.bal) /\ s.db \in Tables /\ Sound(s.db.src)
           /\ IsList(s.log) /\ IsList(s.flush)
  BY DEF Track, Running, Trail, LogOK, FlushOK

LEMMA TrackIs ==
    ASSUME NEW s, NEW b, NEW saved, Running(s, b.db.bal), Trail(b.db, s.log, s.db, saved),
           MemOK(b.vm, b.db.src, s.vm, s.db.src, s.flush, saved),
           RateOK(b.cache, b.db.rate, s.cache, s.db.rate, s.sys, saved)
    PROVE  Track(s, b, saved)
  BY DEF Track

LEMMA CreateTracks ==
    ASSUME NEW s, NEW b, Begin(b), Track(s, b, FALSE), NEW c \in Names
    PROVE  Track(CreateContract(s, c), b, FALSE)
<1> DEFINE r == CreateContract(s, c)
           d == b.db
           e == s.db
           new == Append(e.src, Row(c))
<1>1. /\ Running(s, b.db.bal) /\ e \in Tables /\ Sound(e.src) /\ IsList(s.log) /\ IsList(s.flush)
      /\ d \in Tables /\ Sound(d.src)
  BY TrackTypes DEF Begin
<1>2. Running(r, b.db.bal)
  BY <1>1, CreateContractRunning
<1>3. r = Fail(s, "contract exists") \/ Created(s, r, c)
  BY <1>1, CreateFields
<1> HIDE DEF r
<1>4. CASE r = Fail(s, "contract exists")
  BY <1>4, TrackFail DEF r
<1>5. CASE Created(s, r, c)
  <2>1. /\ NewIn(e.src, c) /\ r.db = Sourced(e, new)
        /\ r.log = Append(Append(s.log, <<"insert", Len(e.src) + 1>>), <<"NewContract", c>>)
        /\ r.vm = FlushBlock(s.vm, c, 1) /\ r.flush = Append(s.flush, FlushInfo(s.vm, c))
        /\ r.cache = s.cache /\ r.sys = s.sys
    BY <1>5 DEF Created
  <2>2. /\ Sound(new) /\ FlushBlock(LoadContracts(e.src), c, 1) = LoadContracts(new)
        /\ Begins(e.src, new)
    <3> DEFINE src == e.src
    <3>1. Sound(src) /\ \A i \in 1..Len(src) : src[i].name # c
      BY <1>1, <2>1 DEF NewIn
    <3> HIDE DEF src
    <3>2. /\ Sound(Append(src, Row(c)))
          /\ FlushBlock(LoadContracts(src), c, 1) = LoadContracts(Append(src, Row(c)))
      BY <3>1, LoadAppend DEF Row
    <3>3. src \in Seq(Source) /\ Len(src) \in Nat
      BY <3>1, SoundFacts
    <3>4. Begins(src, Append(src, Row(c)))
      BY <3>3 DEF Begins
    <3> QED
      BY <3>2, <3>4 DEF src
  <2>3. new \in Seq(Source)
    BY <2>2 DEF Sound
  <2>4. SameBut(e, r.db, {"src"}) /\ r.db.src = new
    <3> HIDE DEF new
    <3> QED
      BY <1>1, <2>1, <2>3, SourcedFields
  <2>5. Trail(d, s.log, e, FALSE)
    BY DEF Track
  <2>6. Trail(d, r.log, r.db, FALSE)
    <3>1. r.db.src = Append(e.src, [name |-> c, ver |-> 1])
      BY <2>4 DEF Row
    <3> HIDE DEF d, e, new
    <3>2. Trail(d, Append(Append(s.log, <<"insert", Len(e.src) + 1>>), <<"NewContract", c>>), r.db, FALSE)
      BY <1>1, <2>1, <2>4, <2>5, <3>1, TrailCreate
    <3> QED
      BY <2>1, <3>2
  <2>7. MemOK(b.vm, d.src, r.vm, new, r.flush, FALSE)
    <3>1. MemOK(b.vm, d.src, s.vm, e.src, s.flush, FALSE)
      BY DEF Track
    <3> DEFINE one == 1
    <3>3. one \in Nat /\ one # 0
      OBVIOUS
    <3>4. FlushBlock(LoadContracts(e.src), c, one) = LoadContracts(new)
      BY <2>2
    <3> HIDE DEF d, e, new, one
    <3>2. MemOK(b.vm, d.src, FlushBlock(s.vm, c, one), new, Append(s.flush, FlushInfo(s.vm, c)), FALSE)
      BY <1>1, <2>2, <3>1, <3>3, <3>4, MemFlush
    <3> USE DEF one
    <3> QED
      BY <2>1, <3>2
  <2>8. RateOK(b.cache, d.rate, r.cache, r.db.rate, r.sys, FALSE)
    BY <2>1, <2>4 DEF Track, SameBut
  <2> QED
    BY <1>2, <2>4, <2>6, <2>7, <2>8, TrackIs DEF r
<1> QED
  BY <1>3, <1>4, <1>5 DEF r

LEMMA UpdateTracks ==
    ASSUME NEW s, NEW b, Begin(b), Track(s, b, FALSE), NEW c \in Names
    PROVE  Track(UpdateContract(s, c), b, FALSE)
<1> DEFINE r == UpdateContract(s, c)
           d == b.db
           e == s.db
<1>1. /\ Running(s, b.db.bal) /\ e \in Tables /\ Sound(e.src) /\ IsList(s.log) /\ IsList(s.flush)
      /\ d \in Tables /\ Sound(d.src)
  BY TrackTypes DEF Begin
<1>2. Running(r, b.db.bal)
  BY <1>1, UpdateContractRunning
<1>3. r = Fail(s, "no contract") \/ \E id, x : Updated(s, r, c, id, x)
  BY <1>1, UpdateFields
<1> HIDE DEF r
<1>4. CASE r = Fail(s, "no contract")
  BY <1>4, TrackFail DEF r
<1>5. ASSUME NEW id, NEW x, Updated(s, r, c, id, x)
      PROVE  Track(r, b, FALSE)
  <2> DEFINE src == e.src
             new == Versioned(src, id, x)
             old == src[id].ver
  <2>1. /\ id \in 1..Len(src) /\ src[id].name = c /\ x = old + 1
        /\ r.db = Sourced(e, [src EXCEPT ![id].ver = x])
        /\ r.log = Append(Append(s.log, <<"EditContract", id>>), <<"value", id, old>>)
        /\ r.vm = FlushBlock(s.vm, c, x) /\ r.flush = Append(s.flush, FlushInfo(s.vm, c))
        /\ r.cache = s.cache /\ r.sys = s.sys
    BY <1>5 DEF Updated
  <2>2. Sound(src)
    BY <1>1
  <2>3. /\ x \in Nat /\ x # 0 /\ src \in Seq(Source) /\ Len(src) \in Nat
        /\ [src EXCEPT ![id].ver = x] = new
        /\ Sound(new) /\ Len(new) = Len(src) /\ new \in Seq(Source)
        /\ FlushBlock(LoadContracts(src), c, x) = LoadContracts(new)
    <3> HIDE DEF src
    <3>1. old \in Nat /\ src \in Seq(Source) /\ Len(src) \in Nat
      BY <2>1, <2>2, SoundFacts
    <3> HIDE DEF old
    <3>2. x \in Nat /\ x # 0
      BY <2>1, <3>1
    <3>3. [src EXCEPT ![id].ver = x] = new
      BY <2>1, <2>2, VersionSet
    <3>4. /\ Sound(new) /\ Len(new) = Len(src) /\ new \in Seq(Source)
          /\ FlushBlock(LoadContracts(src), c, x) = LoadContracts(new)
      BY <2>1, <2>2, <3>2, VersionedFacts
    <3> QED
      BY <3>1, <3>2, <3>3, <3>4
  <2>4. SameBut(e, r.db, {"src"}) /\ r.db.src = new
    <3> HIDE DEF new
    <3>1. r.db = Sourced(e, new)
      BY <2>1, <2>3
    <3> HIDE DEF src, old
    <3> QED
      BY <1>1, <2>3, <3>1, SourcedFields
  <2>5. Trail(d, s.log, e, FALSE)
    BY DEF Track
  <2>6. Trail(d, r.log, r.db, FALSE)
    <3>1. r.db.src = Versioned(e.src, id, x) /\ id \in 1..Len(e.src)
      BY <2>1, <2>4
    <3>2. r.log = Append(Append(s.log, <<"EditContract", id>>), <<"value", id, e.src[id].ver>>)
      BY <2>1
    <3> HIDE DEF d, e, new, src, old
    <3>3. Trail(d, Append(Append(s.log, <<"EditContract", id>>), <<"value", id, e.src[id].ver>>), r.db, FALSE)
      BY <1>1, <2>3, <2>4, <2>5, <3>1, TrailEdit
    <3> QED
      BY <3>2, <3>3
  <2>7. MemOK(b.vm, d.src, r.vm, new, r.flush, FALSE)
    <3>1. MemOK(b.vm, d.src, s.vm, src, s.flush, FALSE)
      BY DEF Track
    <3>2. Sound(d.src)
      BY <1>1
    <3>3. s.vm = LoadContracts(src) => FlushInfo(s.vm, c).prev # None
      <4> SUFFICES ASSUME s.vm = LoadContracts(src)
                   PROVE  FlushInfo(s.vm, c).prev # None
        OBVIOUS
      <4> DEFINE m == s.vm
      <4>1. m = LoadContracts(src)
        OBVIOUS
      <4> HIDE DEF m, src
      <4>2. DOMAIN m.objs = {src[i].name : i \in 1..Len(src)}
        BY <2>2, <4>1, LoadNames
      <4>3. c \in DOMAIN m.objs
        BY <2>1, <4>2
      <4>4. GoodVM(m)
        BY <2>2, <4>1, LoadGood
      <4>5. FlushInfo(m, c).prev = None <=> c \notin DOMAIN m.objs
        BY <2>3, <4>4, FlushUndone
      <4> QED
        BY <4>3, <4>5 DEF m
    <3> HIDE DEF d, e, new, src, old
    <3>4. MemOK(b.vm, d.src, FlushBlock(s.vm, c, x), new, Append(s.flush, FlushInfo(s.vm, c)), FALSE)
      BY <1>1, <2>2, <2>3, <3>1, <3>2, <3>3, MemFlush
    <3> QED
      BY <2>1, <3>4
  <2>8. RateOK(b.cache, d.rate, r.cache, r.db.rate, r.sys, FALSE)
    BY <2>1, <2>4 DEF Track, SameBut
  <2> HIDE DEF new
  <2> QED
    BY <1>2, <2>4, <2>6, <2>7, <2>8, TrackIs
<1> QED
  BY <1>3, <1>4, <1>5 DEF r

LEMMA ParamTracks ==
    ASSUME NEW s, NEW b, Begin(b), Track(s, b, FALSE), NEW rate \in Nat
    PROVE  Track(UpdateSysParam(s, rate), b, FALSE)
<1> DEFINE r == UpdateSysParam(s, rate)
           d == b.db
           e == s.db
<1>1. Running(s, b.db.bal) /\ e \in Tables /\ IsList(s.log) /\ d \in Tables
  BY TrackTypes DEF Begin
<1>2. Running(r, b.db.bal)
  BY <1>1, UpdateSysParamRunning
<1>3. /\ r.db = Rated(e, rate) /\ r.log = Append(s.log, <<"rate", e.rate>>)
      /\ r.vm = s.vm /\ r.flush = s.flush /\ r.cache = rate /\ r.sys = TRUE
  BY <1>1, ParamFields DEF Others
<1> HIDE DEF r
<1>4. SameBut(e, r.db, {"rate"}) /\ r.db.rate = rate
  <2> HIDE DEF e
  <2> QED
    BY <1>1, <1>3, RatedFields
<1>5. Trail(d, s.log, e, FALSE)
  BY DEF Track
<1>6. Trail(d, r.log, r.db, FALSE)
  <2> HIDE DEF d, e
  <2> QED
    BY <1>1, <1>3, <1>4, <1>5, TrailRate
<1>7. MemOK(b.vm, d.src, r.vm, r.db.src, r.flush, FALSE)
  BY <1>3, <1>4 DEF Track, SameBut
<1>8. RateOK(b.cache, d.rate, r.cache, r.db.rate, r.sys, FALSE)
  BY <1>3, <1>4 DEF RateOK
<1> QED
  BY <1>2, <1>6, <1>7, <1>8 DEF Track, r

LEMMA ColumnTracks ==
    ASSUME NEW s, NEW b, Begin(b), Track(s, b, FALSE)
    PROVE  Track(CreateColumn(s), b, FALSE)
<1> DEFINE r == CreateColumn(s)
           d == b.db
           e == s.db
<1>1. Running(s, b.db.bal) /\ e \in Tables /\ IsList(s.log) /\ d \in Tables
  BY TrackTypes DEF Begin
<1>2. Running(r, b.db.bal)
  BY <1>1, CreateColumnRunning
<1>3. \/ r = Fail(s, "column exists")
      \/ /\ ~ e.column /\ r.db = Columned(e, TRUE) /\ r.log = Append(s.log, <<"NewColumn">>)
         /\ r.vm = s.vm /\ r.flush = s.flush /\ r.cache = s.cache /\ r.sys = s.sys
  BY <1>1, ColumnFields DEF Others
<1> HIDE DEF r
<1>4. CASE r = Fail(s, "column exists")
  BY <1>4, TrackFail DEF r
<1>5. CASE /\ ~ e.column /\ r.db = Columned(e, TRUE) /\ r.log = Append(s.log, <<"NewColumn">>)
           /\ r.vm = s.vm /\ r.flush = s.flush /\ r.cache = s.cache /\ r.sys = s.sys
  <2>1. e.column = FALSE
    BY <1>1, <1>5 DEF Tables
  <2>2. SameBut(e, r.db, {"column"}) /\ r.db.column = TRUE
    <3> HIDE DEF e
    <3> QED
      BY <1>1, <1>5, ColumnedFields
  <2>3. Trail(d, s.log, e, FALSE)
    BY DEF Track
  <2>4. Trail(d, r.log, r.db, FALSE)
    <3> HIDE DEF d, e
    <3> QED
      BY <1>1, <1>5, <2>1, <2>2, <2>3, TrailColumn
  <2>5. MemOK(b.vm, d.src, r.vm, r.db.src, r.flush, FALSE)
    BY <1>5, <2>2 DEF Track, SameBut
  <2>6. RateOK(b.cache, d.rate, r.cache, r.db.rate, r.sys, FALSE)
    BY <1>5, <2>2 DEF Track, SameBut
  <2> QED
    BY <1>2, <2>4, <2>5, <2>6, TrackIs DEF r
<1> QED
  BY <1>3, <1>4, <1>5 DEF r

LEMMA CallTracks ==
    ASSUME NEW s, NEW b, Begin(b), Track(s, b, FALSE), NEW c
    PROVE  Track(CallOther(s, c), b, FALSE)
<1> DEFINE r == CallOther(s, c)
           d == b.db
           e == s.db
           v == s.vm.objs[c].ver
<1>1. Running(s, b.db.bal) /\ e \in Tables /\ IsList(s.log) /\ d \in Tables
  BY TrackTypes DEF Begin
<1>2. Running(r, b.db.bal)
  BY <1>1, CallOtherRunning
<1>3. \/ r = Fail(s, "unknown contract")
      \/ /\ v \in Nat /\ r.db = Rowed(e, v) /\ r.log = Append(s.log, <<"row", e.row>>)
         /\ r.vm = s.vm /\ r.flush = s.flush /\ r.cache = s.cache /\ r.sys = s.sys
  BY <1>1, CallFields DEF Others
<1> HIDE DEF r, v
<1>4. CASE r = Fail(s, "unknown contract")
  BY <1>4, TrackFail DEF r
<1>5. CASE /\ v \in Nat /\ r.db = Rowed(e, v) /\ r.log = Append(s.log, <<"row", e.row>>)
           /\ r.vm = s.vm /\ r.flush = s.flush /\ r.cache = s.cache /\ r.sys = s.sys
  <2>2. SameBut(e, r.db, {"row"})
    <3> HIDE DEF e
    <3> QED
      BY <1>1, <1>5, RowedFields
  <2>3. Trail(d, s.log, e, FALSE)
    BY DEF Track
  <2>4. Trail(d, r.log, r.db, FALSE)
    <3> HIDE DEF d, e
    <3> QED
      BY <1>1, <1>5, <2>2, <2>3, TrailRow
  <2>5. MemOK(b.vm, d.src, r.vm, r.db.src, r.flush, FALSE)
    BY <1>5, <2>2 DEF Track, SameBut
  <2>6. RateOK(b.cache, d.rate, r.cache, r.db.rate, r.sys, FALSE)
    BY <1>5, <2>2 DEF Track, SameBut
  <2> QED
    BY <1>2, <2>4, <2>5, <2>6, TrackIs DEF r
<1> QED
  BY <1>3, <1>4, <1>5 DEF r

-----------------------------------------------------------------------------
(* Calls, runs and payments keep track.                                      *)

Trails(s, d, saved) ==
    DOMAIN s = Fields /\ s.db \in Tables /\ IsList(s.log) /\ Trail(d, s.log, s.db, saved)

SameMemory(s, r) ==
    /\ r.db.src = s.db.src /\ r.db.rate = s.db.rate
    /\ r.vm = s.vm /\ r.flush = s.flush /\ r.cache = s.cache /\ r.sys = s.sys

LEMMA AddTrails ==
    ASSUME NEW d \in Tables, NEW s, NEW saved, Trails(s, d, saved),
           NEW e \in Ecos, NEW k \in Accounts, NEW sum \in Int
    PROVE  Trails(AddAmount(s, e, k, sum), d, saved) /\ SameMemory(s, AddAmount(s, e, k, sum))
<1> DEFINE r == AddAmount(s, e, k, sum)
           x == AmountEntry(s, e, k)
<1>0. DOMAIN s = Fields /\ s.db \in Tables
  BY DEF Trails
<1>2. /\ DOMAIN r = Fields /\ r.db \in Tables
      /\ r.db.bal[e][k] = s.db.bal[e][k] + sum
      /\ \A f \in Ecos, j \in Accounts : ~ (f = e /\ j = k) => r.db.bal[f][j] = s.db.bal[f][j]
      /\ r.log = Append(s.log, x)
      /\ r.db.src = s.db.src /\ r.db.rate = s.db.rate
      /\ r.db.column = s.db.column /\ r.db.row = s.db.row
      /\ r.vm = s.vm /\ r.cache = s.cache /\ r.flush = s.flush /\ r.sys = s.sys
      /\ r.fuel = s.fuel /\ r.err = s.err /\ r.kind = s.kind
  BY ZenonT(60), <1>0, AddAmountFields
<1> HIDE DEF r
<1> DEFINE y == s.db
           l == s.log
<1>1. DOMAIN s = Fields /\ y \in Tables /\ IsList(l) /\ Trail(d, l, y, saved)
  BY DEF Trails
<1>3. x = <<"amount", e, k, y.bal[e][k]>>
  BY DEF AmountEntry
<1>9. /\ \A f \in Ecos, j \in Accounts : ~ (f = e /\ j = k) => r.db.bal[f][j] = y.bal[f][j]
      /\ r.log = Append(l, x)
      /\ r.db.src = y.src /\ r.db.rate = y.rate /\ r.db.column = y.column /\ r.db.row = y.row
  BY <1>2
<1> HIDE DEF x, y, l
<1>4. SameBut(y, r.db, {"bal"})
  BY <1>2, <1>9 DEF SameBut
<1>5. Trail(d, Append(l, <<"amount", e, k, y.bal[e][k]>>), r.db, saved)
  BY <1>1, <1>4, <1>9, TrailAmount
<1>6. IsList(r.log)
  BY <1>1, <1>9, Appended
<1>7. Trails(r, d, saved)
  BY <1>2, <1>3, <1>5, <1>6, <1>9 DEF Trails
<1>8. SameMemory(s, r)
  BY <1>2 DEF SameMemory, y
<1> QED
  BY <1>7, <1>8 DEF r

LEMMA MoveTracks ==
    ASSUME NEW s, NEW b, Begin(b), NEW saved, Track(s, b, saved), NEW e \in Ecos,
           NEW from \in Accounts, NEW to \in Accounts, NEW sum \in Int
    PROVE  Track(Move(s, e, from, to, sum), b, saved)
<1> DEFINE d == b.db
           p == AddAmount(s, e, to, sum)
           done == AddAmount(p, e, from, 0 - sum)
           poor == p.db.bal[e][to] < 0 \/ done.db.bal[e][from] < 0
           r == Move(s, e, from, to, sum)
           minus == 0 - sum
<1>1. d \in Tables /\ Running(s, b.db.bal) /\ minus \in Int
  BY TrackTypes DEF Begin
<1>2. Trails(s, d, saved)
  BY TrackTypes DEF Trails, Track, Running
<1>3. Trails(p, d, saved) /\ SameMemory(s, p)
  BY <1>1, <1>2, AddTrails
<1>4. r = IF poor THEN Fail(s, "taxes") ELSE done
  BY DEF Move
<1>5. done = AddAmount(p, e, from, minus)
  OBVIOUS
<1>6. Running(r, b.db.bal)
  BY <1>1, MoveRunning
<1> HIDE DEF p, done, minus, d
<1>7. Trails(done, d, saved) /\ SameMemory(p, done)
  BY <1>1, <1>3, <1>5, AddTrails
<1> HIDE DEF poor, r
<1>8. CASE r = Fail(s, "taxes")
  BY <1>8, TrackFail DEF r
<1>9. CASE r = done
  <2>1. SameMemory(s, r) /\ Trail(d, r.log, r.db, saved)
    BY <1>3, <1>7, <1>9 DEF SameMemory, Trails
  <2>2. MemOK(b.vm, b.db.src, r.vm, r.db.src, r.flush, saved)
    BY <2>1 DEF SameMemory, Track
  <2>3. RateOK(b.cache, b.db.rate, r.cache, r.db.rate, r.sys, saved)
    BY <2>1 DEF SameMemory, Track
  <2> QED
    BY <1>6, <2>1, <2>2, <2>3, TrackIs DEF r, d
<1>10. r = Fail(s, "taxes") \/ r = done
  BY <1>4
<1> QED
  BY <1>8, <1>9, <1>10

LEMMA ExecTracks ==
    ASSUME NEW s, NEW b, Begin(b), Track(s, b, FALSE), NEW t \in Txs, NEW i \in 1..Len(Code[t])
    PROVE  Track(Exec(s, t, Code[t][i]), b, FALSE)
<1> DEFINE op == Code[t][i]
           r == Refuelled(s, s.fuel + 1)
<1>1. /\ op[1] \in {"create", "edit", "rate", "column", "call", "send", "error"}
      /\ op[1] \in {"rate", "send"} => op[2] \in Nat
      /\ op[2] \in Names
  BY CodeFacts
<1> HIDE DEF op
<1>2. Track(r, b, FALSE)
  <2>1. s.fuel + 1 \in Nat
    BY DEF Track, Running
  <2> QED
    BY <2>1, TrackFuel
<1>3. 1 \in Ecos /\ Payer[t] \in Accounts /\ Wallet \in Accounts
  BY PlayAssumption
<1> DEFINE e == Exec(s, t, op)
<1>4. s.err # "" => e = s
  BY DEF Exec
<1>5. s.err = "" =>
        /\ op[1] = "create" => e = CreateContract(r, op[2])
        /\ op[1] = "edit"   => e = UpdateContract(r, op[2])
        /\ op[1] = "rate"   => e = UpdateSysParam(r, op[2])
        /\ op[1] = "column" => e = CreateColumn(r)
        /\ op[1] = "call"   => e = CallOther(r, op[2])
        /\ op[1] = "send"   => e = Move(r, 1, Payer[t], Wallet, op[2])
        /\ op[1] = "error"  => e = Fail(r, "error")
  BY DEF Exec, Refuelled
<1> HIDE DEF e, r
<1>6. CASE s.err # ""
  BY <1>4, <1>6 DEF e, op
<1>7. CASE s.err = ""
  <2>1. CASE op[1] = "create"
    BY <1>1, <1>2, <1>5, <1>7, <2>1, CreateTracks DEF e, op
  <2>2. CASE op[1] = "edit"
    BY <1>1, <1>2, <1>5, <1>7, <2>2, UpdateTracks DEF e, op
  <2>3. CASE op[1] = "rate"
    BY <1>1, <1>2, <1>5, <1>7, <2>3, ParamTracks DEF e, op
  <2>4. CASE op[1] = "column"
    BY <1>2, <1>5, <1>7, <2>4, ColumnTracks DEF e, op
  <2>5. CASE op[1] = "call"
    BY <1>2, <1>5, <1>7, <2>5, CallTracks DEF e, op
  <2>6. CASE op[1] = "send"
    <3>1. op[2] \in Int
      BY <1>1, <2>6
    <3>2. Track(Move(r, 1, Payer[t], Wallet, op[2]), b, FALSE)
      BY <1>2, <1>3, <3>1, MoveTracks
    <3> QED
      BY <1>5, <1>7, <2>6, <3>2 DEF e, op
  <2>7. CASE op[1] = "error"
    BY <1>2, <1>5, <1>7, <2>7, TrackFail DEF e, op
  <2> QED
    BY <1>1, <2>1, <2>2, <2>3, <2>4, <2>5, <2>6, <2>7
<1> QED
  BY <1>6, <1>7

LEMMA VMRunTracks ==
    ASSUME NEW s, NEW b, Begin(b), Track(s, b, FALSE), NEW t \in Txs, NEW n \in 0..Len(Code[t])
    PROVE  Track(VMRun(s, t, n), b, FALSE)
<1>1. Len(Code[t]) \in Nat /\ n \in Nat
  BY CodeFacts
<1>2. PICK run : RunSteps(run, s, t, n) /\ RunEnds(run[n], VMRun(s, t, n), s.fuel)
  BY <1>1, VMRunSteps
<1> DEFINE P == {i \in 0..n : Track(run[i], b, FALSE)}
<1>3. 0 \in P
  <2>1. run[0] = s /\ 0 \in 0..n
    BY <1>1, <1>2 DEF RunSteps
  <2> QED
    BY <2>1
<1>4. ASSUME NEW i \in 0..n-1, i \in P PROVE i + 1 \in P
  <2>1. i + 1 \in 1..n /\ (i + 1) - 1 = i /\ i + 1 \in 1..Len(Code[t]) /\ i + 1 \in 0..n
    BY <1>1
  <2>2. run[i+1] = Exec(run[i], t, Code[t][i+1])
    BY <1>2, <2>1 DEF RunSteps
  <2>3. Track(run[i], b, FALSE)
    BY <1>4
  <2>4. Track(Exec(run[i], t, Code[t][i+1]), b, FALSE)
    BY <2>1, <2>3, ExecTracks
  <2> QED
    BY <2>1, <2>2, <2>4
<1> HIDE DEF P
<1>5. n \in P
  BY <1>1, <1>3, <1>4, UpTo
<1>6. Track(run[n], b, FALSE)
  BY <1>5 DEF P
<1> DEFINE out == VMRun(s, t, n)
           fuel == s.fuel
           end == run[n]
<1>7. PICK cut : /\ cut = end \/ cut = Fail(end, "time limit")
                 /\ (out = cut /\ cut.err = "") \/ out = Refuelled(cut, fuel)
  BY <1>2 DEF RunEnds
<1>8. fuel \in Nat /\ Track(end, b, FALSE)
  BY <1>6 DEF Track, Running
<1> HIDE DEF out, end, fuel
<1>9. Track(cut, b, FALSE)
  BY <1>7, <1>8, TrackFail
<1>10. Track(out, b, FALSE)
  BY <1>7, <1>8, <1>9, TrackFuel
<1> QED
  BY <1>10 DEF out

LEMMA TaxesInt ==
    ASSUME NEW money \in Nat
    PROVE  LET taxes == (money * TaxesSize) \div 100 IN taxes \in Int /\ money - taxes \in Int
<1> DEFINE taxes == (money * TaxesSize) \div 100
           m == money * TaxesSize
<1>1. TaxesSize \in Nat
  BY PlayAssumption
<1>2. m \in Int
  BY <1>1
<1> HIDE DEF m
<1>3. m \div 100 \in Int
  BY <1>2
<1>4. taxes \in Int
  BY <1>3 DEF m
<1> HIDE DEF taxes
<1>5. money - taxes \in Int
  BY <1>4
<1> QED
  BY <1>4, <1>5 DEF taxes

LEMMA PayOneTracks ==
    ASSUME NEW s, NEW b, Begin(b), NEW saved, Track(s, b, saved), NEW t \in Txs, NEW e \in Ecos,
           NEW money \in Nat, NEW amount, NEW key \in Accounts
    PROVE  Track(PayOne(s, t, e, money, amount, key), b, saved)
<1> DEFINE taxes == (money * TaxesSize) \div 100
           rest == money - taxes
           paid == Move(s, e, Payer[t], key, rest)
           more == Move(paid, e, Payer[t], Wallet, taxes)
           f == Fail(s, "taxes")
           poor == amount[e] < money
           r == PayOne(s, t, e, money, amount, key)
<1>1. r = IF s.err # "" THEN s ELSE IF poor THEN f ELSE IF paid.err # "" THEN paid ELSE more
  BY DEF PayOne
<1>2. taxes \in Int /\ rest \in Int
  BY TaxesInt
<1> HIDE DEF taxes, rest
<1>3. Payer[t] \in Accounts /\ Wallet \in Accounts
  BY PayerFacts
<1>4. Track(paid, b, saved)
  BY <1>2, <1>3, MoveTracks
<1> HIDE DEF paid
<1>5. Track(more, b, saved)
  BY <1>2, <1>3, <1>4, MoveTracks
<1>6. Track(f, b, saved)
  BY TrackFail
<1> HIDE DEF r, more, f, poor
<1>7. Track(r, b, saved)
  BY <1>1, <1>4, <1>5, <1>6
<1> QED
  BY <1>7 DEF r

LEMMA PayContractTracks ==
    ASSUME NEW s, NEW b, Begin(b), NEW saved, Track(s, b, saved), NEW t \in Txs, NEW pay,
           PayOK(pay, t), NEW key \in Accounts, NEW fine
    PROVE  Track(PayContract(s, t, pay, key, fine), b, saved)
<1> DEFINE n == Len(pay.ecos)
           money == Bills(s.fuel, t, pay, fine)
           amount == [e \in Ecos |-> pay.bal[e][Payer[t]]]
           ecos == pay.ecos
           out == PayContract(s, t, pay, key, fine)
<1>1. n \in Nat /\ (\A i \in 1..n : ecos[i] \in Ecos)
  BY DEF PayOK
<1>2. \A i \in 1..n : money[i] \in Nat
  <2>1. s.fuel \in Nat
    BY DEF Track, Running
  <2> QED
    BY <2>1, BillsNat
<1>3. \E run : PaySteps(run, s, t, n, ecos, money, amount, key) /\ out = run[n]
  BY <1>1, PayContractSteps
<1> HIDE DEF n, money, amount, ecos, out
<1>4. PICK run : PaySteps(run, s, t, n, ecos, money, amount, key) /\ out = run[n]
  BY <1>3
<1> DEFINE P == {i \in 0..n : Track(run[i], b, saved)}
<1>5. 0 \in P
  BY <1>1, <1>4 DEF PaySteps
<1>6. ASSUME NEW i \in 0..n-1, i \in P PROVE i + 1 \in P
  <2>1. i + 1 \in 1..n /\ (i + 1) - 1 = i /\ i + 1 \in 0..n
    BY <1>1
  <2> DEFINE e == ecos[i+1]
             x == run[i]
             m == money[i+1]
  <2>2. run[i+1] = PayOne(x, t, e, m, amount, key) /\ e \in Ecos /\ m \in Nat
    BY <1>1, <1>2, <1>4, <2>1 DEF PaySteps
  <2>3. Track(x, b, saved)
    BY <1>6
  <2> HIDE DEF e, x, m
  <2>4. Track(PayOne(x, t, e, m, amount, key), b, saved)
    BY <2>2, <2>3, PayOneTracks
  <2> QED
    BY <2>1, <2>2, <2>4
<1> HIDE DEF P
<1>7. n \in P
  BY <1>1, <1>5, <1>6, UpTo
<1>8. Track(out, b, saved)
  BY <1>4, <1>7 DEF P
<1> QED
  BY <1>8 DEF out

-----------------------------------------------------------------------------
(* What becomes of a transaction.                                            *)

LEMMA SavepointTracks ==
    ASSUME NEW b, Begin(b), NEW s, NEW saved, Track(s, b, saved),
           NEW s0, Running(s0, b.db.bal), s0.db = b.db
    PROVE  Track(RollbackSavepoint(s, s0), b, TRUE)
<1> DEFINE r == RollbackSavepoint(s, s0)
           d == b.db
<1>1. /\ Running(s, d.bal) /\ DOMAIN s = Fields /\ s.db \in Tables
      /\ d \in Tables /\ Sound(d.src)
  BY TrackTypes DEF Begin, Running
<1>2. Running(r, d.bal)
  BY <1>1, SavepointRunning
<1>3. /\ r.db = d /\ r.log = s.log /\ r.vm = s.vm /\ r.flush = s.flush
      /\ r.cache = s.cache /\ r.sys = s.sys
  BY <1>1 DEF RollbackSavepoint, Fields
<1> HIDE DEF r
<1>4. Trail(d, s.log, s.db, saved)
  BY DEF Track
<1>5. Trail(d, r.log, r.db, TRUE)
  <2> HIDE DEF d
  <2> QED
    BY <1>1, <1>3, <1>4, TrailSaved
<1>6. MemOK(b.vm, d.src, r.vm, r.db.src, r.flush, TRUE)
  BY <1>3, MemSaved DEF Track
<1>7. RateOK(b.cache, d.rate, r.cache, r.db.rate, r.sys, TRUE)
  BY <1>3 DEF Track, RateOK
<1> QED
  BY <1>2, <1>5, <1>6, <1>7, TrackIs DEF r

Outcome(r, b) ==
    \/ r.kind = "ok" /\ Track(r, b, FALSE)
    \/ r.kind # "ok" /\ Track(r, b, TRUE)
    \/ Failed(r) /\ Track(r, b, FALSE)

LEMMA KindOutcome ==
    ASSUME NEW s, NEW b
    PROVE  /\ Track(s, b, FALSE) => Outcome(OfKind(s, "ok"), b)
           /\ Track(s, b, TRUE) => Outcome(OfKind(s, "failed"), b) /\ Outcome(OfKind(s, "unpaid"), b)
<1>1. ASSUME NEW saved, Track(s, b, saved), NEW k
      PROVE  Track(OfKind(s, k), b, saved) /\ OfKind(s, k).kind = k
  <2>1. DOMAIN s = Fields
    BY <1>1 DEF Track, Running
  <2> QED
    BY <1>1, <2>1, TrackKind, KindFields
<1>2. "failed" # "ok" /\ "unpaid" # "ok"
  OBVIOUS
<1> QED
  BY <1>1, <1>2 DEF Outcome

LEMMA CallContractTracks ==
    ASSUME NEW s, NEW b, Begin(b), Track(s, b, FALSE), s.db = b.db, NEW t \in Txs,
           NEW upto \in 0..Len(Code[t]), NEW ecos \in Orders(Tokens[t]), NEW key \in Accounts
    PROVE  Outcome(CallContract(s, t, upto, ecos, key), b)
<1> DEFINE s1 == Refuelled(s, Size[t])
           ready == PrepareMultiPay(s1, t, ecos)
           pay == [bal |-> s.db.bal, rate |-> s.cache, ecos |-> ecos]
           ran == VMRun(ready, t, upto)
           run2 == PayContract(ran, t, pay, key, FALSE)
           paid == IF ran.err = "" THEN run2 ELSE ran
           back == RollbackSavepoint(paid, s)
           fined == PayContract(back, t, pay, key, TRUE)
           free == VMRun(s1, t, upto)
           last == RollbackSavepoint(fined, s)
           k1 == OfKind(free, "ok")
           k2 == OfKind(paid, "ok")
           k3 == OfKind(fined, "failed")
           k4 == OfKind(last, "unpaid")
           c1 == t \in Free
           c2 == t \notin Free /\ ready.err # ""
           c3 == t \notin Free /\ ready.err = "" /\ paid.err = ""
           c4 == t \notin Free /\ ready.err = "" /\ paid.err # "" /\ fined.err = ""
           r == CallContract(s, t, upto, ecos, key)
<1>1. r = CASE c1 -> k1 [] c2 -> ready [] c3 -> k2 [] c4 -> k3 [] OTHER -> k4
  BY DEF CallContract, OfKind, Refuelled
<1>0. c2 => Failed(ready)
  BY DEF Failed
<1> HIDE DEF c1, c2, c3, c4, k1, k2, k3, k4, r
<1>13. (c2 /\ r = ready) \/ r \in {k1, k2, k3, k4}
  <2> HIDE DEF ready
  <2> QED
    BY <1>1
<1>2. Track(s1, b, FALSE)
  <2>1. Size[t] \in Nat
    BY PlayAssumption
  <2> QED
    BY <2>1, TrackFuel
<1>20. Running(s, b.db.bal)
  BY DEF Track
<1> HIDE DEF s1
<1>3. Track(ready, b, FALSE)
  <2> DEFINE f == Fail(s1, "balance")
  <2>1. ready = f \/ ready = s1
    BY DEF PrepareMultiPay
  <2>2. Track(f, b, FALSE)
    BY <1>2, TrackFail
  <2> HIDE DEF f, ready
  <2> QED
    BY <1>2, <2>1, <2>2
<1>4. PayOK(pay, t)
  <2>1. s.cache \in Nat
    BY <1>20 DEF Running
  <2> QED
    BY <2>1, OrdersPay DEF PayOK
<1> HIDE DEF ready, pay
<1>5. Track(free, b, FALSE) /\ Track(ran, b, FALSE)
  BY <1>2, <1>3, VMRunTracks
<1> HIDE DEF free, ran
<1>6. Track(run2, b, FALSE)
  BY <1>4, <1>5, PayContractTracks
<1> HIDE DEF run2
<1>7. Track(paid, b, FALSE)
  BY <1>5, <1>6
<1> HIDE DEF paid
<1>8. Track(back, b, TRUE)
  BY <1>7, <1>20, SavepointTracks
<1> HIDE DEF back
<1>9. Track(fined, b, TRUE)
  BY <1>4, <1>8, PayContractTracks
<1> HIDE DEF fined
<1>10. Track(last, b, TRUE)
  BY <1>9, <1>20, SavepointTracks
<1> HIDE DEF last
<1>11. Outcome(k1, b) /\ Outcome(k2, b) /\ Outcome(k3, b) /\ Outcome(k4, b)
  BY <1>5, <1>7, <1>9, <1>10, KindOutcome DEF k1, k2, k3, k4
<1>12. c2 => Outcome(ready, b)
  BY <1>0, <1>3 DEF Outcome
<1>14. Outcome(r, b)
  BY <1>11, <1>12, <1>13
<1> QED
  BY <1>14 DEF r

LEMMA FailKind ==
    ASSUME NEW s, DOMAIN s = Fields, NEW x
    PROVE  Fail(s, x).kind = s.kind /\ Fail(s, x).err = x
  BY FailFields

LEMMA FailOutcome ==
    ASSUME NEW s, NEW b, Outcome(s, b), NEW x \in {"stop", "tx fuel"}
    PROVE  Outcome(Fail(s, x), b)
<1>1. \E saved : Track(s, b, saved)
  BY DEF Outcome
<1>2. DOMAIN s = Fields
  BY <1>1 DEF Track, Running
<1> DEFINE r == Fail(s, x)
<1>3. r.kind = s.kind /\ r.err = x
  BY <1>2, FailKind, Zenon
<1>4. \A saved : Track(s, b, saved) => Track(r, b, saved)
  BY TrackFail
<1> HIDE DEF r
<1>5. CASE s.kind = "ok" /\ Track(s, b, FALSE)
  BY <1>3, <1>4, <1>5 DEF Outcome, r
<1>6. CASE s.kind # "ok" /\ Track(s, b, TRUE)
  BY <1>3, <1>4, <1>6 DEF Outcome, r
<1>7. CASE Failed(s) /\ Track(s, b, FALSE)
  <2>1. Failed(r)
    BY <1>3 DEF Failed
  <2> QED
    BY <1>4, <1>7, <2>1 DEF Outcome, r
<1> QED
  BY <1>5, <1>6, <1>7 DEF Outcome

LEMMA CheckLimitOutcome ==
    ASSUME NEW s, NEW b, Outcome(s, b), NEW used, NEW late
    PROVE  Outcome(CheckLimit(s, used, late), b)
<1> DEFINE f1 == Fail(s, "stop")
           f2 == Fail(s, "tx fuel")
           f == FuelLimit(s, used)
           r == CheckLimit(s, used, late)
<1>1. r = s \/ r = f1 \/ r = f
  BY DEF CheckLimit
<1>2. f = f1 \/ f = f2 \/ f = s
  BY DEF FuelLimit
<1>3. Outcome(f1, b) /\ Outcome(f2, b)
  BY FailOutcome
<1> HIDE DEF r, f, f1, f2
<1>4. Outcome(r, b)
  BY <1>1, <1>2, <1>3
<1> QED
  BY <1>4 DEF r

LEMMA BegunTracks ==
    ASSUME NEW b, Running(b, b.db.bal), Begin(b), b.log = <<>>, b.flush = <<>>
    PROVE  Track(b, b, FALSE)
<1>1. Trail(b.db, b.log, b.db, FALSE)
  BY TrailStart DEF Begin
<1>2. MemOK(b.vm, b.db.src, b.vm, b.db.src, b.flush, FALSE)
  BY MemStart DEF Begin
<1>3. RateOK(b.cache, b.db.rate, b.cache, b.db.rate, b.sys, FALSE)
  BY DEF RateOK
<1> QED
  BY <1>1, <1>2, <1>3, TrackIs

LEMMA ResultsOutcome ==
    ASSUME IInv, play.on, play.todo # <<>>, Sound(play.db.src), NEW r \in Results
    PROVE  /\ Outcome(r, Begun) /\ Begin(Begun) /\ Begun.db = play.db
           /\ Begun.vm = vm[play.node] /\ Begun.cache = cache[play.node]
<1> DEFINE t == Head(play.todo)
           key == play.key
<1>1. /\ t \in Txs /\ key \in Accounts
      /\ Running(Begun, play.db.bal) /\ Begun.db = play.db
      /\ \E i \in 0..Len(Code[t]), late \in BOOLEAN, q \in Orders(Tokens[t]) :
           r = CheckLimit(CallContract(Begun, t, i, q, key), play.fuel, late)
  BY ResultsFrom
<1>2. /\ Begun.log = <<>> /\ Begun.flush = <<>>
      /\ Begun.vm = vm[play.node] /\ Begun.cache = cache[play.node]
  BY DEF Begun
<1> HIDE DEF t, key
<1>3. PICK i \in 0..Len(Code[t]), late \in BOOLEAN, q \in Orders(Tokens[t]) :
        r = CheckLimit(CallContract(Begun, t, i, q, key), play.fuel, late)
  BY <1>1
<1>4. Begin(Begun)
  BY <1>1 DEF Begin, Running
<1>5. Track(Begun, Begun, FALSE)
  BY <1>1, <1>2, <1>4, BegunTracks
<1>6. Outcome(CallContract(Begun, t, i, q, key), Begun)
  BY <1>1, <1>4, <1>5, CallContractTracks
<1>7. Outcome(r, Begun)
  BY <1>3, <1>6, CheckLimitOutcome
<1> QED
  BY <1>1, <1>2, <1>4, <1>7

-----------------------------------------------------------------------------
(* Blocks, and the blocks of a node.                                         *)

NoRates(u) == \A i \in 1..Len(u) : NoRate(u[i].log)

BadColumn(u) == \E i \in 1..Len(u) : u[i].kind # "ok" /\ HasColumn(u[i].log)

LogsOK(u) == IsList(u) /\ \A i \in 1..Len(u) : IsList(u[i].log)

BlockUndoes(d, u, e) ==
    /\ \A v : Undone(RolledBack(State(e, v), u), d, v = LoadContracts(e.src), BadColumn(u))
    /\ NoRates(u) => e.rate = d.rate

LEMMA BlockUndoesNothing ==
    ASSUME NEW d
    PROVE  BlockUndoes(d, <<>>, d)
<1> SUFFICES ASSUME NEW v
             PROVE  Undone(RolledBack(State(d, v), <<>>), d, v = LoadContracts(d.src), BadColumn(<<>>))
  BY DEF BlockUndoes
<1> DEFINE r == State(d, v)
<1>1. RolledBack(r, <<>>) = r
  BY BlockNothing
<1>2. r.vm = v /\ ~ Failed(r)
  BY DEF State, Failed
<1> HIDE DEF r
<1> QED
  BY <1>1, <1>2 DEF Undone, r

LEMMA BlockLonger ==
    ASSUME NEW u, LogsOK(u), NEW x, IsList(x.log)
    PROVE  /\ LogsOK(Append(u, x))
           /\ NoRates(Append(u, x)) => NoRates(u) /\ NoRate(x.log)
           /\ BadColumn(u) \/ (x.kind # "ok" /\ HasColumn(x.log)) => BadColumn(Append(u, x))
<1> DEFINE w == Append(u, x)
           n == Len(u)
<1>1. IsList(u) /\ IsList(w) /\ n \in Nat /\ Len(w) = n + 1 /\ w[n+1] = x /\ \A i \in 1..n : w[i] = u[i]
  BY ListFacts, Appended DEF LogsOK
<1>2. n + 1 \in 1..Len(w) /\ (\A i \in 1..n : i \in 1..Len(w)) /\ \A i \in 1..Len(w) : i = n + 1 \/ i \in 1..n
  BY <1>1
<1>3. \A i \in 1..n : IsList(u[i].log)
  BY DEF LogsOK
<1> HIDE DEF w, n
<1>4. \A i \in 1..Len(w) : IsList(w[i].log)
  BY <1>1, <1>2, <1>3
<1>5. LogsOK(w)
  BY <1>1, <1>4 DEF LogsOK
<1>6. ASSUME NoRates(w)
      PROVE  NoRates(u) /\ NoRate(x.log)
  <2>1. \A i \in 1..Len(w) : NoRate(w[i].log)
    BY <1>6 DEF NoRates
  <2>2. \A i \in 1..n : NoRate(u[i].log)
    BY <1>1, <1>2, <2>1
  <2>3. NoRate(x.log)
    BY <1>1, <1>2, <2>1
  <2> QED
    BY <2>2, <2>3 DEF NoRates, n
<1>7. ASSUME BadColumn(u)
      PROVE  BadColumn(w)
  <2>1. PICK i \in 1..n : u[i].kind # "ok" /\ HasColumn(u[i].log)
    BY <1>7 DEF BadColumn, n
  <2>2. i \in 1..Len(w) /\ w[i] = u[i]
    BY <1>1, <1>2
  <2> QED
    BY <2>1, <2>2 DEF BadColumn
<1>8. ASSUME x.kind # "ok", HasColumn(x.log)
      PROVE  BadColumn(w)
  BY <1>1, <1>2, <1>8, Zenon DEF BadColumn
<1> QED
  BY <1>5, <1>6, <1>7, <1>8, Zenon DEF w

\* One transaction more, with what it did.
Did(e, x, e2) ==
    /\ e \in Tables /\ Sound(e.src) /\ e2 \in Tables /\ IsList(x.log)
    /\ \E saved : Trail(e, x.log, e2, saved) /\ (saved => x.kind # "ok")

LEMMA BlockUndoesAppend ==
    ASSUME NEW d, NEW u, LogsOK(u), NEW e, BlockUndoes(d, u, e), NEW x, NEW e2, Did(e, x, e2)
    PROVE  BlockUndoes(d, Append(u, x), e2)
<1> DEFINE w == Append(u, x)
           log == x.log
<1>1. PICK saved : Trail(e, log, e2, saved) /\ (saved => x.kind # "ok")
  BY DEF Did
<1>2. e \in Tables /\ Sound(e.src) /\ e2 \in Tables /\ IsList(log)
  BY DEF Did
<1>3. /\ NoRates(w) => NoRates(u) /\ NoRate(log)
      /\ BadColumn(u) \/ (x.kind # "ok" /\ HasColumn(log)) => BadColumn(w)
  BY <1>2, BlockLonger
<1>4. NoRates(w) => e2.rate = d.rate
  BY <1>1, <1>3 DEF BlockUndoes, Trail
<1>5. ASSUME NEW v
      PROVE  Undone(RolledBack(State(e2, v), w), d, v = LoadContracts(e2.src), BadColumn(w))
  <2> DEFINE s == State(e2, v)
             r == RollbackTransaction(s, log)
             out == RolledBack(r, u)
             trusted == v = LoadContracts(e2.src)
  <2>1. RolledBack(s, w) = out
    BY BlockAppended DEF LogsOK
  <2>2. Mixed(e, e2, e2)
    BY <1>1, <1>2, MixedEnds DEF Trail
  <2>3. Undone(r, e, trusted, HasColumn(log) /\ (~ saved => e2.column # e2.column))
    BY <1>1, <2>2 DEF Trail, Undoes
  <2>4. CASE Failed(r)
    <3>1. out = r
      BY <2>4, BlockFailed DEF LogsOK
    <3>2. trusted => BadColumn(w)
      BY <1>1, <1>3, <2>3, <2>4 DEF Undone
    <3> HIDE DEF out, r, s, w, trusted
    <3> QED
      BY <2>1, <2>4, <3>1, <3>2 DEF Undone, s, trusted
  <2>5. CASE ~ Failed(r)
    <3> DEFINE k == r.vm
    <3>1. r = State(e, k) /\ (trusted => k = LoadContracts(e.src))
      BY <2>3, <2>5 DEF Undone
    <3> HIDE DEF k, r
    <3>2. Undone(out, d, k = LoadContracts(e.src), BadColumn(u))
      BY <3>1 DEF BlockUndoes
    <3> HIDE DEF out, s, w, trusted
    <3> QED
      BY <1>3, <2>1, <3>1, <3>2 DEF Undone, s, trusted, w
  <2> QED
    BY <2>4, <2>5
<1> QED
  BY <1>4, <1>5 DEF BlockUndoes

-----------------------------------------------------------------------------
(* What the tables of a node were before each of its blocks.                 *)

Pasts(h, us, d) ==
    /\ h[Len(us)] = d
    /\ \A i \in 0..Len(us) : h[i] \in Tables /\ Sound(h[i].src)
    /\ \A i \in 1..Len(us) : BlockUndoes(h[i-1], us[i], h[i])

Recalls(us, d) == \E h : Pasts(h, us, d)

LEMMA RecallsNow ==
    ASSUME NEW us, IsList(us), NEW d, Recalls(us, d)
    PROVE  d \in Tables /\ Sound(d.src)
  BY ListFacts DEF Recalls, Pasts

LEMMA RecallsNone ==
    ASSUME NEW us, Len(us) = 0, NEW d \in Tables, Sound(d.src)
    PROVE  Recalls(us, d)
<1> DEFINE h == [i \in 0..0 |-> d]
<1>1. h[0] = d
  OBVIOUS
<1> HIDE DEF h
<1>2. /\ h[Len(us)] = d
      /\ \A i \in 0..Len(us) : i = 0
      /\ \A i \in 1..Len(us) : FALSE
  BY <1>1
<1>3. \A i \in 0..Len(us) : h[i] \in Tables /\ Sound(h[i].src)
  BY <1>1, <1>2
<1>4. Pasts(h, us, d)
  BY <1>2, <1>3 DEF Pasts
<1> QED
  BY <1>4 DEF Recalls

LEMMA RecallsMore ==
    ASSUME NEW us, IsList(us), NEW d, Recalls(us, d),
           NEW u, NEW e \in Tables, Sound(e.src), BlockUndoes(d, u, e)
    PROVE  Recalls(Append(us, u), e)
<1> DEFINE n == Len(us)
           w == Append(us, u)
<1>1. n \in Nat
  BY ListFacts
<1>2. Len(w) = n + 1 /\ w[n+1] = u /\ \A i \in 1..n : w[i] = us[i]
  BY Appended
<1>3. PICK g : Pasts(g, us, d)
  BY DEF Recalls
<1>4. /\ g[n] = d /\ \A i \in 0..n : g[i] \in Tables /\ Sound(g[i].src)
      /\ \A i \in 1..n : BlockUndoes(g[i-1], us[i], g[i])
  BY <1>3 DEF Pasts
<1> HIDE DEF n, w
<1> DEFINE h == [i \in 0..n+1 |-> IF i = n + 1 THEN e ELSE g[i]]
<1>5. h[n+1] = e /\ \A i \in 0..n : h[i] = g[i]
  BY <1>1
<1> HIDE DEF h
<1>6. \A i \in 0..n+1 : h[i] \in Tables /\ Sound(h[i].src)
  <2> TAKE i \in 0..n+1
  <2>1. i = n + 1 \/ i \in 0..n
    BY <1>1
  <2> QED
    BY <1>4, <1>5, <2>1
<1>7. ASSUME NEW i \in 1..n+1 PROVE BlockUndoes(h[i-1], w[i], h[i])
  <2>1. CASE i = n + 1
    <3>1. i - 1 = n /\ n \in 0..n
      BY <1>1, <2>1
    <3>2. h[i-1] = d /\ h[i] = e /\ w[i] = u
      BY <1>2, <1>4, <1>5, <2>1, <3>1
    <3> QED
      BY <3>2
  <2>2. CASE i \in 1..n
    <3>1. i - 1 \in 0..n /\ i \in 0..n
      BY <1>1, <2>2
    <3>2. h[i-1] = g[i-1] /\ h[i] = g[i] /\ w[i] = us[i]
      BY <1>2, <1>5, <2>2, <3>1
    <3> QED
      BY <1>4, <2>2, <3>2
  <2>3. i = n + 1 \/ i \in 1..n
    BY <1>1
  <2> QED
    BY <2>1, <2>2, <2>3
<1>8. Pasts(h, w, e)
  BY <1>2, <1>5, <1>6, <1>7 DEF Pasts
<1> QED
  BY <1>8 DEF Recalls, w

LEMMA RecallsLast ==
    ASSUME NEW us, BlocksOK(us), NEW d, Recalls(us, d), us # <<>>
    PROVE  \E d0 : /\ d0 \in Tables /\ Sound(d0.src) /\ BlockUndoes(d0, Last(us), d)
                   /\ Recalls(Front(us), d0)
<1> DEFINE n == Len(us)
           f == SubSeq(us, 1, n - 1)
<1>1. n \in Nat /\ n # 0
  <2>1. PICK S : us \in Seq(S)
    BY DEF BlocksOK, IsList
  <2> QED
    BY <2>1
<1>2. Last(us) = us[n] /\ Front(us) = f
  BY DEF Last, Front
<1>3. n - 1 \in 0..n /\ n \in 1..n /\ IsList(us) /\ \A i \in 1..n-1 : i \in 1..n /\ i \in 0..n-1 /\ i - 1 \in 0..n-1
  BY <1>1 DEF BlocksOK
<1>5. IsList(f) /\ Len(f) = n - 1 /\ \A i \in 1..n-1 : f[i] = us[i]
  BY <1>3, Shortened
<1>6. PICK h : Pasts(h, us, d)
  BY DEF Recalls
<1>7. /\ h[n] = d /\ \A i \in 0..n : h[i] \in Tables /\ Sound(h[i].src)
      /\ \A i \in 1..n : BlockUndoes(h[i-1], us[i], h[i])
  BY <1>6 DEF Pasts
<1> HIDE DEF n, f
<1>9. Pasts(h, f, h[n-1])
  <2>1. \A i \in 0..n-1 : i \in 0..n
    BY <1>1
  <2>2. \A i \in 1..n-1 : BlockUndoes(h[i-1], f[i], h[i])
    BY <1>3, <1>5, <1>7
  <2>3. \A i \in 0..n-1 : h[i] \in Tables /\ Sound(h[i].src)
    BY <1>7, <2>1
  <2> QED
    BY <1>5, <2>2, <2>3 DEF Pasts
<1>10. Recalls(f, h[n-1])
  BY <1>9 DEF Recalls
<1>11. BlockUndoes(h[n-1], us[n], d) /\ h[n-1] \in Tables /\ Sound(h[n-1].src)
  BY <1>1, <1>3, <1>7
<1> QED
  BY <1>2, <1>10, <1>11

LEMMA BlockLogs ==
    ASSUME NEW u, BlockOK(u)
    PROVE  LogsOK(u)
  BY DEF BlockOK, LogsOK, LogOK

-----------------------------------------------------------------------------
(* The memory of a node, and that of a node that plays a block.              *)

MemAt(d, v, c, sure, read) ==
    /\ sure => v = LoadContracts(d.src)
    /\ read => c = d.rate

PlayMemAt(p, d, v, c, sure, read) ==
    /\ Sound(p.db.src) /\ BlockUndoes(d, p.undo, p.db)
    /\ p.first => p.undo = <<>>
    /\ p.undo = <<>> => p.db = d
    /\ ~ p.sys => p.db.rate = d.rate
    /\ sure => /\ v = LoadContracts(p.db.src) /\ p.start = LoadContracts(d.src)
               /\ ~ p.old => Begins(d.src, p.db.src)
               /\ ~ p.old /\ ~ p.fresh => p.db.src = d.src
    /\ read => c = p.db.rate

Sure(n) == <<n, "vm">> \notin stained
Read(n) == <<n, "cache">> \notin stained

MemInv ==
    /\ \A n \in Nodes : Recalls(undo[n], db[n])
    /\ \A n \in Nodes : ~ Playing(n) => MemAt(db[n], vm[n], cache[n], Sure(n), Read(n))
    /\ play.on => LET n == play.node
                  IN  PlayMemAt(play, db[n], vm[n], cache[n], Sure(n), Read(n))

SameNode(m) ==
    /\ db'[m] = db[m] /\ vm'[m] = vm[m] /\ cache'[m] = cache[m] /\ undo'[m] = undo[m]
    /\ Sure(m)' <=> Sure(m)
    /\ Read(m)' <=> Read(m)

\* A step of node n.
LEMMA MemStep ==
    ASSUME MemInv, NEW n \in Nodes,
           \A m \in Nodes : m # n => SameNode(m) /\ (Playing(m)' <=> Playing(m)),
           (play'.on /\ play'.node # n) => (play' = play /\ play'.node \in Nodes),
           Recalls(undo[n], db[n])',
           ~ Playing(n)' => MemAt(db[n], vm[n], cache[n], Sure(n), Read(n))',
           Playing(n)' => PlayMemAt(play, db[n], vm[n], cache[n], Sure(n), Read(n))'
    PROVE  MemInv'
<1>1. ASSUME NEW m \in Nodes
      PROVE  Recalls(undo[m], db[m])'
  BY Zenon DEF MemInv, SameNode
<1>2. ASSUME NEW m \in Nodes, ~ Playing(m)'
      PROVE  MemAt(db[m], vm[m], cache[m], Sure(m), Read(m))'
  <2>1. CASE m = n
    BY <1>2, <2>1
  <2>2. CASE m # n
    <3>1. MemAt(db[m], vm[m], cache[m], Sure(m), Read(m)) /\ SameNode(m)
      BY <1>2, <2>2 DEF MemInv
    <3> QED
      BY <3>1 DEF SameNode, MemAt
  <2> QED
    BY <2>1, <2>2
<1>3. ASSUME play'.on
      PROVE  PlayMemAt(play, db[play.node], vm[play.node], cache[play.node], Sure(play.node), Read(play.node))'
  <2>1. CASE play'.node = n
    <3>1. Playing(n)'
      BY <1>3, <2>1 DEF Playing
    <3> QED
      BY <2>1, <3>1
  <2>2. CASE play'.node # n
    <3> DEFINE m == play.node
    <3>1. play' = play /\ m \in Nodes /\ m # n /\ play.on
      BY <1>3, <2>2
    <3>2. PlayMemAt(play, db[m], vm[m], cache[m], Sure(m), Read(m)) /\ SameNode(m)
      BY <3>1 DEF MemInv
    <3>3. PlayMemAt(play, db'[m], vm'[m], cache'[m], Sure(m)', Read(m)')
      BY <3>2 DEF SameNode, PlayMemAt
    <3> QED
      BY <3>1, <3>3
  <2> QED
    BY <2>1, <2>2
<1> QED
  BY <1>1, <1>2, <1>3 DEF MemInv

-----------------------------------------------------------------------------
(* The steps of a node, and what they leave of its memory.                   *)

\* The gaps of the memory of n are no gaps of the memory of another node.
LEMMA GapsAdded ==
    ASSUME NEW n, NEW flushed, NEW read, stained' = stained \cup Gaps(n, flushed, read)
    PROVE  /\ \A m : m # n => (Sure(m)' <=> Sure(m)) /\ (Read(m)' <=> Read(m))
           /\ Sure(n)' => Sure(n) /\ ~ flushed
           /\ Read(n)' => Read(n) /\ ~ read
<1> DEFINE a == IF flushed THEN {<<n, "vm">>} ELSE {}
           b == IF read THEN {<<n, "cache">>} ELSE {}
<1>1. stained' = stained \cup (a \cup b)
  BY DEF Gaps
<1>2. /\ \A m : <<m, "vm">> \in a <=> (m = n /\ flushed)
      /\ \A m : <<m, "cache">> \notin a
      /\ \A m : <<m, "cache">> \in b <=> (m = n /\ read)
      /\ \A m : <<m, "vm">> \notin b
  OBVIOUS
<1> HIDE DEF a, b
<1> QED
  BY <1>1, <1>2 DEF Sure, Read

LEMMA CacheCleared ==
    ASSUME NEW n, stained' = stained \ {<<n, "cache">>}
    PROVE  /\ \A m : m # n => (Sure(m)' <=> Sure(m)) /\ (Read(m)' <=> Read(m))
           /\ Sure(n)' => Sure(n)
  BY DEF Sure, Read

LEMMA GapsKept ==
    ASSUME stained' = stained
    PROVE  \A m : (Sure(m)' <=> Sure(m)) /\ (Read(m)' <=> Read(m))
  BY DEF Sure, Read

\* A step of the node n that plays a block, which leaves the tables and the blocks alone.
LEMMA PlayerStep ==
    ASSUME IInv, MemInv, NEW n \in Nodes, play.on, play.node = n, db' = db, undo' = undo,
           NEW v, NEW c, vm' = [vm EXCEPT ![n] = v], cache' = [cache EXCEPT ![n] = c],
           \A m : m # n => (Sure(m)' <=> Sure(m)) /\ (Read(m)' <=> Read(m)),
           \/ play' = Idle /\ MemAt(db[n], v, c, Sure(n)', Read(n)')
           \/ /\ play'.on /\ play'.node = n
              /\ PlayMemAt(play', db[n], v, c, Sure(n)', Read(n)')
    PROVE  MemInv'
<1>2. DOMAIN vm = Nodes /\ DOMAIN cache = Nodes
  BY DEF IInv, Nodewise
<1>3. play' = Idle => ~ play'.on
  BY DEF Idle
<1>4. /\ vm'[n] = v /\ cache'[n] = c
      /\ \A m \in Nodes : m # n => vm'[m] = vm[m] /\ cache'[m] = cache[m]
  BY <1>2
<1>5. \A m \in Nodes : m # n => SameNode(m) /\ (Playing(m)' <=> Playing(m))
  BY <1>3, <1>4 DEF SameNode, Playing
<1>6. Recalls(undo[n], db[n])'
  BY DEF MemInv
<1>7. (play'.on /\ play'.node # n) => (play' = play /\ play'.node \in Nodes)
  BY <1>3
<1>8. ~ Playing(n)' => MemAt(db[n], vm[n], cache[n], Sure(n), Read(n))'
  BY <1>4 DEF Playing
<1>9. Playing(n)' => PlayMemAt(play, db[n], vm[n], cache[n], Sure(n), Read(n))'
  BY <1>3, <1>4 DEF Playing
<1> QED
  BY <1>5, <1>6, <1>7, <1>8, <1>9, MemStep

-----------------------------------------------------------------------------
(* A transaction whose results are taken back.                               *)

\* The node that plays, and what its memory is.
LEMMA PlayerMem ==
    ASSUME IInv, MemInv, play.on
    PROVE  \E n \in Nodes : /\ n = play.node
                            /\ PlayMemAt(play, db[n], vm[n], cache[n], Sure(n), Read(n))
                            /\ db[n] \in Tables /\ Sound(db[n].src)
                            /\ play.db \in Tables /\ PlayingOK(play)
<1>1. PlayingOK(play)
  BY DEF IInv, PlayInv, Idle
<1>2. PICK n \in Nodes : n = play.node
  BY <1>1 DEF PlayingOK
<1>3. PlayMemAt(play, db[n], vm[n], cache[n], Sure(n), Read(n))
  BY <1>2 DEF MemInv
<1>4. IsList(undo[n]) /\ Recalls(undo[n], db[n])
  BY DEF IInv, Nodewise, NodeOK, BlocksOK, MemInv
<1>5. db[n] \in Tables /\ Sound(db[n].src)
  BY <1>4, RecallsNow
<1>6. play.db \in Tables
  BY <1>1 DEF PlayingOK
<1> QED
  BY <1>1, <1>2, <1>3, <1>5, <1>6

\* What is taken back of a transaction is what it did to the memory.
LEMMA ResultTaken ==
    ASSUME IInv, MemInv, NEW n \in Nodes, play.on, play.node = n, play.todo # <<>>, NEW r \in Results
    PROVE  /\ Sure(n) => UndoFlush(r.vm, r.flush) = vm[n]
           /\ ~ r.sys => r.cache = cache[n]
<1>1. PlayMemAt(play, db[n], vm[n], cache[n], Sure(n), Read(n))
  BY DEF MemInv
<1>2. Sound(play.db.src)
  BY <1>1 DEF PlayMemAt
<1>3. Outcome(r, Begun) /\ Begun.vm = vm[n] /\ Begun.cache = cache[n]
  BY <1>2, ResultsOutcome
<1>4. PICK saved : Track(r, Begun, saved)
  BY <1>3 DEF Outcome
<1>5. /\ GoodVM(vm[n]) => UndoFlush(r.vm, r.flush) = vm[n]
      /\ ~ r.sys => r.cache = cache[n]
  BY <1>3, <1>4 DEF Track, MemOK, RateOK
<1>6. Sure(n) => GoodVM(vm[n])
  BY <1>1, <1>2, LoadGood DEF PlayMemAt
<1> QED
  BY <1>5, <1>6

LEMMA PlayMemGoesOn ==
    ASSUME NEW p, NEW q, NEW d, NEW v, NEW c, NEW sure, NEW read, PlayMemAt(p, d, v, c, sure, read),
           q.db = p.db, q.undo = p.undo, q.start = p.start, q.old = p.old, q.fresh = p.fresh,
           q.sys = p.sys, q.first => p.first,
           NEW v2, NEW c2, NEW sure2, NEW read2,
           sure2 => sure /\ v2 = v, read2 => c2 = p.db.rate
    PROVE  PlayMemAt(q, d, v2, c2, sure2, read2)
  BY DEF PlayMemAt

LEMMA SkipTrue ==
    ASSUME IInv, MemInv, play.on, play.todo # <<>>, NEW r \in Results, Skip(r)
    PROVE  MemInv'
<1>1. PICK n \in Nodes : n = play.node /\ PlayMemAt(play, db[n], vm[n], cache[n], Sure(n), Read(n)) /\ PlayingOK(play)
  BY PlayerMem
<1> DEFINE m == UndoFlush(r.vm, r.flush)
           sys == r.sys
           c == IF sys THEN play.db.rate ELSE r.cache
<1>2. (Sure(n) => m = vm[n]) /\ (~ sys => r.cache = cache[n])
  BY <1>1, ResultTaken
<1>3. vm' = [vm EXCEPT ![n] = m] /\ cache' = [cache EXCEPT ![n] = c]
  BY <1>1 DEF Skip, TakeBack
<1>4. /\ db' = db /\ undo' = undo
      /\ stained' = IF sys THEN stained \ {<<n, "cache">>} ELSE stained
  BY <1>1 DEF Skip
<1>5. DOMAIN play = PlayFields /\ play.on
  BY <1>1 DEF PlayingOK
<1>6. /\ play'.on /\ play'.node = n /\ play'.first = FALSE
      /\ play'.db = play.db /\ play'.undo = play.undo /\ play'.start = play.start
      /\ play'.old = play.old /\ play'.fresh = play.fresh /\ play'.sys = play.sys
  BY <1>1, <1>5 DEF Skip, PlayFields
<1> HIDE DEF m, c, sys
<1>7. /\ \A x : x # n => (Sure(x)' <=> Sure(x)) /\ (Read(x)' <=> Read(x))
      /\ Sure(n)' => Sure(n) /\ m = vm[n]
      /\ ~ sys => (Read(n)' <=> Read(n))
  <2>1. CASE sys
    <3>1. stained' = stained \ {<<n, "cache">>}
      BY <1>4, <2>1
    <3> QED
      BY <1>2, <2>1, <3>1, CacheCleared
  <2>2. CASE ~ sys
    <3>1. stained' = stained
      BY <1>4, <2>2
    <3> QED
      BY <1>2, <3>1, GapsKept
  <2> QED
    BY <2>1, <2>2
<1>8. Read(n)' => c = play.db.rate
  <2>1. Read(n) => cache[n] = play.db.rate
    BY <1>1 DEF PlayMemAt
  <2> QED
    BY <1>2, <1>7, <2>1 DEF c
<1>9. PlayMemAt(play', db[n], m, c, Sure(n)', Read(n)')
  BY <1>1, <1>6, <1>7, <1>8, PlayMemGoesOn
<1> QED
  BY <1>1, <1>3, <1>4, <1>6, <1>7, <1>9, PlayerStep DEF Skip

\* A block that is left with nothing in it.
LEMMA LeftEmpty ==
    ASSUME NEW p, NEW d, NEW v, NEW c, NEW sure, NEW read, PlayMemAt(p, d, v, c, sure, read),
           p.undo = <<>>
    PROVE  MemAt(d, v, c, sure, read)
  BY DEF PlayMemAt, MemAt

LEMMA StopTrue ==
    ASSUME IInv, MemInv, play.on, play.todo # <<>>, NEW r \in Results, Stop(r)
    PROVE  MemInv'
<1>1. PICK n \in Nodes : n = play.node /\ PlayMemAt(play, db[n], vm[n], cache[n], Sure(n), Read(n)) /\ PlayingOK(play)
  BY PlayerMem
<1> DEFINE m == UndoFlush(r.vm, r.flush)
           sys == r.sys
           c == r.cache
           p == [play EXCEPT !.todo = <<>>]
           some == play.first
<1>2. (Sure(n) => m = vm[n]) /\ (~ sys => c = cache[n])
  BY <1>1, ResultTaken
<1>3. vm' = [vm EXCEPT ![n] = m] /\ cache' = [cache EXCEPT ![n] = c]
  BY <1>1 DEF Stop
<1>4. /\ db' = db /\ undo' = undo
      /\ stained' = stained \cup Gaps(n, FALSE, sys)
      /\ play' = IF some THEN Idle ELSE p
  BY <1>1 DEF Stop
<1>5. DOMAIN play = PlayFields /\ play.on
  BY <1>1 DEF PlayingOK
<1>6. /\ p.on /\ p.node = n /\ p.first = play.first
      /\ p.db = play.db /\ p.undo = play.undo /\ p.start = play.start
      /\ p.old = play.old /\ p.fresh = play.fresh /\ p.sys = play.sys
  BY <1>1, <1>5 DEF PlayFields
<1>10. some => play.undo = <<>>
  BY <1>1 DEF PlayMemAt
<1> HIDE DEF m, c, sys, p, some
<1>7. /\ \A x : x # n => (Sure(x)' <=> Sure(x)) /\ (Read(x)' <=> Read(x))
      /\ Sure(n)' => Sure(n) /\ m = vm[n]
      /\ Read(n)' => Read(n) /\ ~ sys
  BY <1>2, <1>4, GapsAdded
<1>8. Read(n)' => c = play.db.rate
  <2>1. Read(n) => cache[n] = play.db.rate
    BY <1>1 DEF PlayMemAt
  <2> QED
    BY <1>2, <1>7, <2>1
<1>9. PlayMemAt(p, db[n], m, c, Sure(n)', Read(n)')
  BY <1>1, <1>6, <1>7, <1>8, PlayMemGoesOn
<1>11. \/ play' = Idle /\ MemAt(db[n], m, c, Sure(n)', Read(n)')
       \/ /\ play'.on /\ play'.node = n
          /\ PlayMemAt(play', db[n], m, c, Sure(n)', Read(n)')
  <2>1. CASE some
    <3>1. p.undo = <<>>
      BY <1>6, <1>10, <2>1
    <3>2. MemAt(db[n], m, c, Sure(n)', Read(n)')
      BY <1>9, <3>1, LeftEmpty
    <3> QED
      BY <1>4, <2>1, <3>2
  <2>2. CASE ~ some
    BY <1>4, <1>6, <1>9, <2>2
  <2> QED
    BY <2>1, <2>2
<1> QED
  BY <1>1, <1>3, <1>4, <1>7, <1>11, PlayerStep

\* The names and the number of the contracts bring back those that there were, if all that came
\* to them came after them.
LEMMA ObjectsBack ==
    ASSUME NEW src0, NEW src, Sound(src0), Sound(src), Begins(src0, src)
    PROVE  RollbackSmartVMObjects(LoadContracts(src), LoadContracts(src0)) = LoadContracts(src0)
<1> DEFINE a == LoadContracts(src0)
           b == LoadContracts(src)
           n == Len(src0)
           cut == SubSeq(src, 1, n)
           k == RollbackSmartVMObjects(b, a)
<1>1. Loaded(a, src0) /\ Loaded(b, src)
  BY LoadLoaded
<1>2. /\ src0 \in Seq(Source) /\ src \in Seq(Source) /\ n \in Nat /\ Len(src) \in Nat
      /\ n <= Len(src) /\ \A i \in 1..n : src[i] = src0[i]
  BY SoundFacts DEF Begins
<1>3. IsList(src) /\ n \in 0..Len(src)
  BY <1>2 DEF IsList
<1>4. IsList(cut) /\ Len(cut) = n /\ \A i \in 1..n : cut[i] = src[i]
  BY <1>3, Shortened
<1>5. cut = src0
  <2>1. cut \in Seq(Source)
    BY <1>2, <1>3
  <2> HIDE DEF cut
  <2> QED
    BY <1>2, <1>4, <2>1, SeqEqual
<1>6. k = [objs |-> a.objs, kids |-> SubSeq(b.kids, 1, Len(a.kids))]
  BY DEF RollbackSmartVMObjects
<1> HIDE DEF a, b, k, cut
<1>7. a = [objs |-> a.objs, kids |-> src0] /\ b.kids = src
  BY <1>1 DEF Loaded
<1>8. a.kids = src0
  BY <1>7
<1>9. k = [objs |-> a.objs, kids |-> src0]
  BY <1>5, <1>6, <1>7, <1>8 DEF cut
<1> QED
  BY <1>7, <1>9 DEF k, a, b

\* A node that leaves a block with the memory of what it had of it.
LEMMA LeaveTrue ==
    ASSUME IInv, MemInv, play.on, NEW n \in Nodes, play.node = n, NEW m, Sure(n) => m = vm[n],
           Leave(m), NEW c, cache' = [cache EXCEPT ![n] = c],
           Read(n) /\ ~ play.sys => c = play.db.rate
    PROVE  MemInv'
<1> DEFINE fork == play.fork
           o == IF fork THEN RollbackSmartVMObjects(m, play.start) ELSE m
           lost == IF fork THEN play.old ELSE play.old \/ play.fresh
           sys == play.sys
           d == db[n]
<1>1. /\ PlayMemAt(play, db[n], vm[n], cache[n], Sure(n), Read(n))
      /\ Sound(d.src)
  BY PlayerMem
<1>2. vm' = [vm EXCEPT ![n] = o] /\ stained' = stained \cup Gaps(n, lost, sys)
  BY DEF Leave
<1>3. play' = Idle /\ db' = db /\ undo' = undo
  BY DEF Leave
<1>4. /\ lost <=> play.old \/ (~ fork /\ play.fresh)
      /\ fork => o = RollbackSmartVMObjects(m, play.start)
      /\ ~ fork => o = m
  OBVIOUS
<1> HIDE DEF o, lost, fork, sys
<1>5. /\ \A x : x # n => (Sure(x)' <=> Sure(x)) /\ (Read(x)' <=> Read(x))
      /\ Sure(n)' => Sure(n) /\ ~ lost
      /\ Read(n)' => Read(n) /\ ~ sys
  BY <1>2, GapsAdded
<1>6. ASSUME Sure(n)'
      PROVE  o = LoadContracts(d.src)
  <2>1. /\ m = LoadContracts(play.db.src) /\ play.start = LoadContracts(d.src)
        /\ Begins(d.src, play.db.src) /\ (~ play.fresh => play.db.src = d.src)
        /\ Sound(play.db.src)
    BY <1>1, <1>4, <1>5, <1>6 DEF PlayMemAt
  <2>2. CASE fork
    <3>1. o = RollbackSmartVMObjects(LoadContracts(play.db.src), LoadContracts(d.src))
      BY <1>4, <2>1, <2>2
    <3> HIDE DEF d
    <3> QED
      BY <1>1, <2>1, <3>1, ObjectsBack
  <2>3. CASE ~ fork
    BY <1>4, <1>5, <1>6, <2>1, <2>3
  <2> QED
    BY <2>2, <2>3
<1>7. ASSUME Read(n)'
      PROVE  c = d.rate
  BY <1>1, <1>5, <1>7 DEF PlayMemAt, sys
<1>8. MemAt(db[n], o, c, Sure(n)', Read(n)')
  BY <1>6, <1>7 DEF MemAt
<1> QED
  BY <1>2, <1>3, <1>5, <1>8, PlayerStep

LEMMA RejectTrue ==
    ASSUME IInv, MemInv, play.on, play.todo # <<>>, NEW r \in Results, Reject(r)
    PROVE  MemInv'
<1>1. PICK n \in Nodes : n = play.node /\ PlayMemAt(play, db[n], vm[n], cache[n], Sure(n), Read(n))
  BY PlayerMem
<1> DEFINE m == UndoFlush(r.vm, r.flush)
           sys == r.sys
           c == IF sys THEN play.db.rate ELSE r.cache
<1>2. (Sure(n) => m = vm[n]) /\ (~ sys => r.cache = cache[n])
  BY <1>1, ResultTaken
<1>3. Leave(m) /\ cache' = [cache EXCEPT ![n] = c]
  BY <1>1 DEF Reject
<1> HIDE DEF m, c, sys
<1>4. Read(n) /\ ~ play.sys => c = play.db.rate
  BY <1>1, <1>2 DEF PlayMemAt, c
<1> QED
  BY <1>1, <1>2, <1>3, <1>4, LeaveTrue

LEMMA DropTrue ==
    ASSUME IInv, MemInv, Drop
    PROVE  MemInv'
<1>0. play.on
  BY DEF Drop
<1>1. PICK n \in Nodes : n = play.node /\ PlayMemAt(play, db[n], vm[n], cache[n], Sure(n), Read(n))
  BY <1>0, PlayerMem
<1> DEFINE both == play.fork /\ play.sys
           c == IF both THEN play.db.rate ELSE cache[n]
<1>2. Leave(vm[n]) /\ cache' = [cache EXCEPT ![n] = c]
  BY <1>1 DEF Drop
<1>3. both => play.sys
  OBVIOUS
<1> HIDE DEF c, both
<1>4. Read(n) /\ ~ play.sys => c = play.db.rate
  BY <1>1, <1>3 DEF PlayMemAt, c
<1> QED
  BY <1>0, <1>1, <1>2, <1>4, LeaveTrue

-----------------------------------------------------------------------------
(* A transaction that stays in its block.                                    *)

\* What it put into the memory, by the marks of the block.
FlushMarks(flush, new, edited) ==
    /\ ~ edited => OnlyNew(flush)
    /\ ~ edited /\ ~ new => flush = <<>>

LEMMA FlushMarked ==
    ASSUME NEW flush, IsList(flush)
    PROVE  FlushMarks(flush, \E i \in DOMAIN flush : flush[i].prev = None,
                             \E i \in DOMAIN flush : flush[i].prev # None)
<1>1. DOMAIN flush = 1..Len(flush) /\ Len(flush) \in Nat
  BY ListFacts
<1> DEFINE new == \E i \in DOMAIN flush : flush[i].prev = None
           edited == \E i \in DOMAIN flush : flush[i].prev # None
<1>2. ~ edited => OnlyNew(flush)
  BY <1>1 DEF OnlyNew
<1>3. ~ edited /\ ~ new => Len(flush) = 0
  <2>1. 1 \in 1..Len(flush) \/ Len(flush) = 0
    BY <1>1
  <2> QED
    BY <1>1, <2>1
<1>4. Len(flush) = 0 => flush = <<>>
  <2>1. PICK S : flush \in Seq(S)
    BY DEF IsList
  <2> QED
    BY <2>1
<1> QED
  BY <1>2, <1>3, <1>4 DEF FlushMarks

\* The compiled contracts v are those of the tables e, which began as d and start.
SureMem(d, e, v, start, old, fresh) ==
    /\ v = LoadContracts(e.src) /\ start = LoadContracts(d.src)
    /\ ~ old => Begins(d.src, e.src)
    /\ ~ old /\ ~ fresh => e.src = d.src

LEMMA KeepTrue ==
    ASSUME IInv, MemInv, play.on, play.todo # <<>>, NEW r \in Results, Keep(r)
    PROVE  MemInv'
<1>1. PICK n \in Nodes : /\ n = play.node /\ PlayMemAt(play, db[n], vm[n], cache[n], Sure(n), Read(n))
                         /\ PlayingOK(play) /\ Sound(db[n].src) /\ play.db \in Tables
  BY PlayerMem
<1> DEFINE done == [tx |-> Head(play.todo), log |-> r.log, kind |-> r.kind]
           new == \E i \in DOMAIN r.flush : r.flush[i].prev = None
           edited == \E i \in DOMAIN r.flush : r.flush[i].prev # None
           flush == r.flush
           read == r.sys
           d == db[n]
           e == play.db
           e2 == r.db
           u == play.undo
           w == Append(u, done)
           ok == r.kind = "ok"
<1>2. ~ Failed(r)
  BY DEF Keep, Failed
<1>3. /\ Outcome(r, Begun) /\ Begun.db = e /\ Begun.vm = vm[n] /\ Begun.cache = cache[n] /\ Sound(e.src)
  BY <1>1, ResultsOutcome DEF PlayMemAt
<1>4. PICK saved : Track(r, Begun, saved) /\ (saved <=> ~ ok)
  BY <1>2, <1>3 DEF Outcome
<1>5. /\ Running(r, e.bal) /\ Trail(e, r.log, e2, saved)
      /\ MemOK(vm[n], e.src, r.vm, e2.src, flush, saved)
      /\ RateOK(cache[n], e.rate, r.cache, e2.rate, read, saved)
  BY <1>3, <1>4 DEF Track
<1>6. e2 \in Tables /\ Sound(e2.src) /\ IsList(r.log) /\ IsList(flush) /\ (saved => SameBut(e, e2, {"bal"}))
  BY <1>3, <1>4, <1>5, TrackTypes DEF Trail
<1>7. /\ vm' = [vm EXCEPT ![n] = r.vm] /\ cache' = [cache EXCEPT ![n] = r.cache]
      /\ db' = db /\ undo' = undo
      /\ stained' = IF ok THEN stained ELSE stained \cup Gaps(n, flush # <<>>, read)
  BY <1>1 DEF Keep
<1>8. DOMAIN play = PlayFields /\ play.on
  BY <1>1 DEF PlayingOK
<1>9. /\ play'.on /\ play'.node = n /\ play'.first = FALSE
      /\ play'.db = e2 /\ play'.undo = w /\ play'.start = play.start
      /\ play'.fresh = (play.fresh \/ new) /\ play'.old = (play.old \/ edited)
      /\ play'.sys = (play.sys \/ read)
  BY <1>1, <1>8 DEF Keep, PlayFields
<1>10. FlushMarks(flush, new, edited)
  BY <1>6, FlushMarked
<1>11. done.log = r.log /\ (saved => done.kind # "ok")
  BY <1>4
<1> HIDE DEF new, edited, done, ok, flush, read
<1>12. /\ \A x : x # n => (Sure(x)' <=> Sure(x)) /\ (Read(x)' <=> Read(x))
       /\ Sure(n)' => Sure(n) /\ (saved => flush = <<>>)
       /\ Read(n)' => Read(n) /\ (saved => ~ read)
  <2>1. CASE ok
    <3>1. stained' = stained
      BY <1>7, <2>1
    <3> QED
      BY <1>4, <2>1, <3>1, GapsKept
  <2>2. CASE ~ ok
    <3>1. stained' = stained \cup Gaps(n, flush # <<>>, read)
      BY <1>7, <2>2
    <3> QED
      BY <3>1, GapsAdded
  <2> QED
    BY <2>1, <2>2
<1>13. BlockUndoes(d, w, e2)
  <2>1. Did(e, done, e2)
    BY <1>1, <1>3, <1>5, <1>6, <1>11 DEF Did
  <2>2. LogsOK(u) /\ BlockUndoes(d, u, e)
    BY <1>1, BlockLogs DEF PlayingOK, PlayMemAt
  <2> HIDE DEF d, e, e2, u
  <2> QED
    BY <2>1, <2>2, BlockUndoesAppend
<1>14. w # <<>>
  <2>1. IsList(u)
    BY <1>1 DEF PlayingOK, BlockOK
  <2>2. Len(w) = Len(u) + 1 /\ Len(u) \in Nat
    BY <2>1, Appended, ListFacts
  <2>3. Len(w) # 0
    BY <2>2
  <2> HIDE DEF w
  <2> QED
    BY <2>3
<1>15. ~ play'.sys => e2.rate = d.rate
  BY <1>1, <1>5, <1>9 DEF PlayMemAt, RateOK
<1> DEFINE old == play.old
           fresh == play.fresh
           start == play.start
<1>16. /\ Sure(n) => SureMem(d, e, vm[n], start, old, fresh)
       /\ Read(n) => cache[n] = e.rate
  BY <1>1 DEF PlayMemAt, SureMem
<1> DEFINE old2 == play'.old
           fresh2 == play'.fresh
<1>17. Read(n)' => r.cache = e2.rate
  <2>1. saved => e2.rate = e.rate
    BY <1>6 DEF SameBut
  <2> QED
    BY <1>5, <1>12, <1>16, <2>1 DEF RateOK
<1>19. ASSUME Sure(n)'
       PROVE  SureMem(d, e2, r.vm, start, old2, fresh2)
  <2>1. SureMem(d, e, vm[n], start, old, fresh) /\ (saved => flush = <<>>)
    BY <1>12, <1>16, <1>19
  <2>2. (old2 <=> old \/ edited) /\ (fresh2 <=> fresh \/ new)
    BY <1>9
  <2>3. Sound(d.src) /\ Sound(e.src) /\ Sound(e2.src)
    BY <1>1, <1>3, <1>6
  <2> HIDE DEF d, e, e2, old, fresh, start, old2, fresh2
  <2>4. CASE saved
    <3>1. e2.src = e.src /\ r.vm = vm[n]
      BY <1>5, <1>6, <2>1, <2>4 DEF MemOK, SameBut
    <3> QED
      BY <2>1, <2>2, <3>1 DEF SureMem
  <2>5. CASE ~ saved
    <3>1. r.vm = LoadContracts(e2.src) /\ Grown(e.src, e2.src, flush)
      BY <1>5, <2>1, <2>5 DEF MemOK, SureMem
    <3>2. ASSUME ~ old2 PROVE Begins(d.src, e2.src)
      <4>1. Begins(d.src, e.src) /\ Begins(e.src, e2.src)
        BY <1>10, <2>1, <2>2, <3>1, <3>2 DEF Grown, FlushMarks, SureMem
      <4>2. Len(d.src) \in Nat /\ Len(e.src) \in Nat /\ Len(e2.src) \in Nat
        BY <2>3, SoundFacts
      <4> QED
        BY <4>1, <4>2, BeginsTwice
    <3>3. ASSUME ~ old2, ~ fresh2 PROVE e2.src = d.src
      BY <1>10, <2>1, <2>2, <3>1, <3>3 DEF Grown, FlushMarks, SureMem
    <3> QED
      BY <2>1, <3>1, <3>2, <3>3 DEF SureMem
  <2> QED
    BY <2>4, <2>5
<1>18. PlayMemAt(play', d, r.vm, r.cache, Sure(n)', Read(n)')
  <2> HIDE DEF d, e, e2, w, old2, fresh2
  <2> USE DEF old2, fresh2, start
  <2> QED
    BY <1>6, <1>9, <1>13, <1>14, <1>15, <1>17, <1>19 DEF PlayMemAt, SureMem
<1> QED
  BY <1>1, <1>7, <1>9, <1>12, <1>18, PlayerStep

-----------------------------------------------------------------------------
(* The other steps.                                                          *)

LEMMA CommitTrue ==
    ASSUME IInv, MemInv, Commit
    PROVE  MemInv'
<1>0. play.on
  BY DEF Commit
<1>1. PICK n \in Nodes : /\ n = play.node /\ PlayMemAt(play, db[n], vm[n], cache[n], Sure(n), Read(n))
                         /\ PlayingOK(play) /\ play.db \in Tables
  BY <1>0, PlayerMem
<1> DEFINE u == play.undo
           us == undo[n]
           d == db[n]
           e == play.db
           read == play.fork /\ play.sys
           c == IF read THEN e.rate ELSE cache[n]
           none == u = <<>>
           ws == Append(us, u)
<1>2. /\ play' = Idle /\ vm' = vm /\ cache' = [cache EXCEPT ![n] = c]
      /\ stained' = IF read THEN stained \ {<<n, "cache">>} ELSE stained
      /\ none => db' = db /\ undo' = undo
      /\ ~ none => db' = [db EXCEPT ![n] = e] /\ undo' = [undo EXCEPT ![n] = ws]
  BY <1>1 DEF Commit
<1>3. ~ play'.on
  BY <1>2 DEF Idle
<1>4. /\ DOMAIN db = Nodes /\ DOMAIN vm = Nodes /\ DOMAIN cache = Nodes /\ DOMAIN undo = Nodes
      /\ IsList(us) /\ Recalls(us, d)
  BY DEF IInv, Nodewise, NodeOK, BlocksOK, MemInv
<1>5. BlockUndoes(d, u, e) /\ Sound(e.src) /\ (none => e = d)
  BY <1>1 DEF PlayMemAt
<1> HIDE DEF none, read, ws, c, e, d, u, us
<1>6. /\ \A x : x # n => (Sure(x)' <=> Sure(x)) /\ (Read(x)' <=> Read(x))
      /\ Sure(n)' => Sure(n)
      /\ ~ read => (Read(n)' <=> Read(n))
  <2>1. CASE read
    <3>1. stained' = stained \ {<<n, "cache">>}
      BY <1>2, <2>1
    <3> QED
      BY <2>1, <3>1, CacheCleared
  <2>2. CASE ~ read
    <3>1. stained' = stained
      BY <1>2, <2>2
    <3> QED
      BY <3>1, GapsKept
  <2> QED
    BY <2>1, <2>2
<1>7. /\ cache'[n] = c /\ db'[n] = e /\ (none => undo'[n] = us) /\ (~ none => undo'[n] = ws)
      /\ \A m \in Nodes : m # n => db'[m] = db[m] /\ vm'[m] = vm[m] /\ cache'[m] = cache[m] /\ undo'[m] = undo[m]
  <2>1. CASE none
    BY <1>2, <1>4, <1>5, <2>1 DEF d, us
  <2>2. CASE ~ none
    BY <1>2, <1>4, <2>2
  <2> QED
    BY <2>1, <2>2
<1>8. \A m \in Nodes : m # n => SameNode(m) /\ (Playing(m)' <=> Playing(m))
  BY <1>1, <1>3, <1>6, <1>7 DEF SameNode, Playing
<1>9. Recalls(undo[n], db[n])'
  <2>1. CASE none
    BY <1>4, <1>5, <1>7, <2>1
  <2>2. CASE ~ none
    <3>1. e \in Tables
      BY <1>1 DEF e
    <3>2. Recalls(ws, e)
      BY <1>4, <1>5, <3>1, RecallsMore DEF ws
    <3> QED
      BY <1>7, <2>2, <3>2
  <2> QED
    BY <2>1, <2>2
<1>10. MemAt(db[n], vm[n], cache[n], Sure(n), Read(n))'
  <2>1. (Sure(n) => vm[n] = LoadContracts(e.src)) /\ (Read(n) => cache[n] = e.rate)
    BY <1>1 DEF PlayMemAt, e
  <2>2. Read(n)' => c = e.rate
    BY <1>6, <2>1 DEF c
  <2> QED
    BY <1>2, <1>6, <1>7, <2>1, <2>2 DEF MemAt
<1> QED
  BY <1>3, <1>8, <1>9, <1>10, MemStep DEF Playing

\* What is known of a node that plays no block.
LEMMA IdleMem ==
    ASSUME IInv, MemInv, NEW n \in Nodes, ~ Playing(n)
    PROVE  /\ MemAt(db[n], vm[n], cache[n], Sure(n), Read(n))
           /\ Recalls(undo[n], db[n]) /\ BlocksOK(undo[n]) /\ IsList(undo[n])
           /\ db[n] \in Tables /\ Sound(db[n].src)
<1>1. /\ MemAt(db[n], vm[n], cache[n], Sure(n), Read(n)) /\ Recalls(undo[n], db[n])
  BY DEF MemInv
<1>2. BlocksOK(undo[n]) /\ IsList(undo[n])
  BY DEF IInv, Nodewise, NodeOK, BlocksOK
<1> QED
  BY <1>1, <1>2, RecallsNow

LEMMA StartPlayTrue ==
    ASSUME IInv, MemInv, NEW n \in Nodes, NEW gen, NEW fork, NEW todo, StartPlay(n, gen, fork, todo)
    PROVE  MemInv'
<1>1. ~ play.on
  BY DEF StartPlay
<1>2. /\ play'.on /\ play'.node = n /\ play'.db = db[n] /\ play'.undo = <<>> /\ play'.start = vm[n]
      /\ play'.first = TRUE
  BY DEF StartPlay
<1>3. UNCHANGED <<db, vm, cache, undo, stained>>
  BY DEF StartPlay
<1>4. ~ Playing(n)
  BY <1>1 DEF Playing
<1>5. /\ MemAt(db[n], vm[n], cache[n], Sure(n), Read(n))
      /\ Recalls(undo[n], db[n]) /\ Sound(db[n].src)
  BY <1>4, IdleMem
<1>6. \A m \in Nodes : m # n => SameNode(m) /\ (Playing(m)' <=> Playing(m))
  BY <1>1, <1>2, <1>3 DEF SameNode, Playing, Sure, Read
<1>7. PlayMemAt(play', db[n], vm[n], cache[n], Sure(n), Read(n))
  <2>1. BlockUndoes(db[n], <<>>, db[n])
    BY BlockUndoesNothing
  <2>2. Begins(db[n].src, db[n].src)
    BY <1>5, SoundFacts DEF Begins
  <2> QED
    BY <1>2, <1>5, <2>1, <2>2 DEF PlayMemAt, MemAt
<1>8. PlayMemAt(play, db[n], vm[n], cache[n], Sure(n), Read(n))'
  BY <1>3, <1>7 DEF Sure, Read
<1>9. Recalls(undo[n], db[n])'
  BY <1>3, <1>5
<1> QED
  BY <1>2, <1>6, <1>8, <1>9, MemStep DEF Playing

\* A rate is brought back where there is none to bring back.
LEMMA RatesMarked ==
    ASSUME NEW u, LogsOK(u)
    PROVE  ~ (\E i \in DOMAIN u : \E j \in DOMAIN u[i].log : u[i].log[j][1] = "rate") => NoRates(u)
<1>1. DOMAIN u = 1..Len(u)
  BY ListFacts DEF LogsOK
<1>2. \A i \in 1..Len(u) : DOMAIN u[i].log = 1..Len(u[i].log)
  BY ListFacts DEF LogsOK
<1> QED
  BY <1>1, <1>2 DEF NoRates, NoRate

\* What the rollback of the last block comes to.
LEMMA RollbackEnds ==
    ASSUME IInv, MemInv, NEW n \in Nodes, ~ Playing(n), undo[n] # <<>>
    PROVE  LET r == RolledBack(State(db[n], vm[n]), Last(undo[n]))
           IN  /\ Sure(n) /\ Failed(r) => BadColumn(Last(undo[n]))
               /\ LogsOK(Last(undo[n]))
               /\ ~ Failed(r) =>
                    /\ Recalls(Front(undo[n]), r.db)
                    /\ Sure(n) => r.vm = LoadContracts(r.db.src)
                    /\ Read(n) /\ NoRates(Last(undo[n])) => cache[n] = r.db.rate
<1> DEFINE us == undo[n]
           u == Last(us)
           d == db[n]
           r == RolledBack(State(d, vm[n]), u)
<1>1. /\ MemAt(d, vm[n], cache[n], Sure(n), Read(n)) /\ Recalls(us, d) /\ BlocksOK(us)
  BY IdleMem
<1>2. BlockOK(u)
  BY <1>1, HistoryLast DEF IInv, Nodewise, NodeOK
<1>3. LogsOK(u)
  BY <1>2, BlockLogs
<1> HIDE DEF u, us, d
<1>4. \E d0 : BlockUndoes(d0, u, d) /\ Recalls(Front(us), d0)
  BY <1>1, RecallsLast DEF u, us
<1>5. PICK d0 : BlockUndoes(d0, u, d) /\ Recalls(Front(us), d0)
  BY <1>4
<1>6. Undone(r, d0, vm[n] = LoadContracts(d.src), BadColumn(u)) /\ (NoRates(u) => d.rate = d0.rate)
  BY <1>5 DEF BlockUndoes
<1>7. (Sure(n) => vm[n] = LoadContracts(d.src)) /\ (Read(n) => cache[n] = d.rate)
  BY <1>1 DEF MemAt
<1> HIDE DEF r
<1>8. Sure(n) /\ Failed(r) => BadColumn(u)
  BY <1>6, <1>7 DEF Undone
<1>9. ASSUME ~ Failed(r)
      PROVE  /\ Recalls(Front(us), r.db)
             /\ Sure(n) => r.vm = LoadContracts(r.db.src)
             /\ Read(n) /\ NoRates(u) => cache[n] = r.db.rate
  <2>1. r = State(d0, r.vm) /\ (Sure(n) => r.vm = LoadContracts(d0.src))
    BY <1>6, <1>7, <1>9 DEF Undone
  <2>2. r.db = d0
    <3> DEFINE k == r.vm
    <3>1. r = State(d0, k)
      BY <2>1
    <3> HIDE DEF k
    <3> QED
      BY <3>1 DEF State
  <2> QED
    BY <1>5, <1>6, <1>7, <2>1, <2>2
<1> QED
  BY <1>3, <1>8, <1>9 DEF r, u, us, d

LEMMA RollbackBlockTrue ==
    ASSUME IInv, MemInv, NEW n \in Nodes, RollbackBlock(n)
    PROVE  MemInv'
<1> DEFINE us == undo[n]
           u == Last(us)
           r == RolledBack(State(db[n], vm[n]), u)
           front == Front(us)
           rate == \E i \in DOMAIN u : \E j \in DOMAIN u[i].log : u[i].log[j][1] = "rate"
           k == r.vm
           e == r.db
<1>1. us # <<>> /\ ~ play.on /\ play' = play /\ cache' = cache
  BY DEF RollbackBlock
<1>2. /\ vm' = [vm EXCEPT ![n] = k]
      /\ Failed(r) => stained' = stained \cup Gaps(n, TRUE, FALSE) /\ db' = db /\ undo' = undo
      /\ ~ Failed(r) => /\ db' = [db EXCEPT ![n] = e] /\ undo' = [undo EXCEPT ![n] = front]
                        /\ stained' = stained \cup Gaps(n, FALSE, rate)
  BY DEF RollbackBlock, State, Failed
<1>3. ~ Playing(n)
  BY <1>1 DEF Playing
<1>4. /\ LogsOK(u)
      /\ ~ Failed(r) =>
           /\ Recalls(front, e)
           /\ Sure(n) => k = LoadContracts(e.src)
           /\ Read(n) /\ NoRates(u) => cache[n] = e.rate
  BY <1>1, <1>3, RollbackEnds
<1>5. ~ rate => NoRates(u)
  <2> HIDE DEF u
  <2> QED
    BY <1>4, RatesMarked
<1>6. /\ DOMAIN db = Nodes /\ DOMAIN vm = Nodes /\ DOMAIN undo = Nodes
      /\ MemAt(db[n], vm[n], cache[n], Sure(n), Read(n)) /\ Recalls(us, db[n])
  BY <1>3, IdleMem DEF IInv, Nodewise
<1> DEFINE bad == Failed(r)
<1> HIDE DEF bad, rate, k, e, front, u
<1>7. /\ \A m : m # n => (Sure(m)' <=> Sure(m)) /\ (Read(m)' <=> Read(m))
      /\ Sure(n)' => Sure(n) /\ ~ bad
      /\ Read(n)' => Read(n) /\ (~ bad => ~ rate)
  <2>1. CASE bad
    <3>1. stained' = stained \cup Gaps(n, TRUE, FALSE)
      BY <1>2, <2>1 DEF bad
    <3> QED
      BY <2>1, <3>1, GapsAdded
  <2>2. CASE ~ bad
    <3>1. stained' = stained \cup Gaps(n, FALSE, rate)
      BY <1>2, <2>2 DEF bad
    <3> QED
      BY <2>2, <3>1, GapsAdded
  <2> QED
    BY <2>1, <2>2
<1>8. \A m \in Nodes : m # n => SameNode(m) /\ (Playing(m)' <=> Playing(m))
  <2>1. \A m \in Nodes : m # n => db'[m] = db[m] /\ vm'[m] = vm[m] /\ cache'[m] = cache[m] /\ undo'[m] = undo[m]
    <3>1. CASE bad
      BY <1>1, <1>2, <1>6, <3>1 DEF bad
    <3>2. CASE ~ bad
      BY <1>1, <1>2, <1>6, <3>2 DEF bad
    <3> QED
      BY <3>1, <3>2
  <2> QED
    BY <1>1, <1>7, <2>1 DEF SameNode, Playing
<1>9. Recalls(undo[n], db[n])' /\ MemAt(db[n], vm[n], cache[n], Sure(n), Read(n))'
  <2>1. CASE bad
    <3>1. db' = db /\ undo' = undo
      BY <1>2, <2>1 DEF bad
    <3>2. ~ Sure(n)' /\ (Read(n)' => cache[n] = db[n].rate)
      BY <1>6, <1>7, <2>1 DEF MemAt
    <3> QED
      BY <1>1, <1>6, <3>1, <3>2 DEF MemAt
  <2>2. CASE ~ bad
    <3>1. db'[n] = e /\ undo'[n] = front /\ vm'[n] = k
      BY <1>2, <1>6, <2>2 DEF bad
    <3>2. Recalls(front, e) /\ (Sure(n)' => k = LoadContracts(e.src)) /\ (Read(n)' => cache[n] = e.rate)
      BY <1>4, <1>5, <1>7, <2>2 DEF bad
    <3> QED
      BY <1>1, <3>1, <3>2 DEF MemAt
  <2> QED
    BY <2>1, <2>2
<1> QED
  BY <1>1, <1>8, <1>9, MemStep DEF Playing

LEMMA RestartTrue ==
    ASSUME IInv, MemInv, NEW n \in Nodes, Restart(n)
    PROVE  MemInv'
<1> DEFINE m == LoadContracts(db[n].src)
           c == db[n].rate
<1>1. vm' = [vm EXCEPT ![n] = m] /\ cache' = [cache EXCEPT ![n] = c] /\ ~ Playing(n)
  BY DEF Restart
<1>2. db' = db /\ undo' = undo /\ play' = play /\ stained' = stained \ ({n} \X {"vm", "cache"})
  BY DEF Restart
<1>3. /\ DOMAIN vm = Nodes /\ DOMAIN cache = Nodes
      /\ Recalls(undo[n], db[n])
  BY <1>1, IdleMem DEF IInv, Nodewise
<1>4. \A x : x # n => (Sure(x)' <=> Sure(x)) /\ (Read(x)' <=> Read(x))
  BY <1>2 DEF Sure, Read
<1>5. vm'[n] = m /\ cache'[n] = c /\ \A x \in Nodes : x # n => vm'[x] = vm[x] /\ cache'[x] = cache[x]
  BY <1>1, <1>3
<1>6. \A x \in Nodes : x # n => SameNode(x) /\ (Playing(x)' <=> Playing(x))
  BY <1>2, <1>4, <1>5 DEF SameNode, Playing
<1>7. MemAt(db[n], vm[n], cache[n], Sure(n), Read(n))'
  BY <1>2, <1>5 DEF MemAt
<1>8. ~ Playing(n)'
  BY <1>1, <1>2 DEF Playing
<1>9. play'.on /\ play'.node # n => play' = play /\ play'.node \in Nodes
  BY <1>2 DEF IInv, PlayInv, PlayingOK, Idle
<1> QED
  BY <1>2, <1>3, <1>6, <1>7, <1>8, <1>9, MemStep

LEMMA GenesisSound ==
    Genesis \in Tables /\ Sound(Genesis.src)
<1> DEFINE first == [name |-> "a", ver |-> 1]
           src == <<first>>
           b == Genesis.bal
<1>1. first \in Source /\ first.ver # 0
  BY DEF Source, Names
<1>2. Genesis = [bal |-> b, src |-> src, rate |-> 1, column |-> FALSE, row |-> 0] /\ b \in Bals
  <2>1. Amount \in Nat
    BY PlayAssumption
  <2> QED
    BY <2>1 DEF Genesis, Bals
<1> HIDE DEF first, b
<1>3. src \in Seq(Source) /\ Len(src) = 1 /\ src[1] = first
  BY <1>1
<1> HIDE DEF src
<1>4. \A i \in 1..Len(src) : i = 1
  BY <1>3
<1>5. Sound(src)
  BY <1>1, <1>3, <1>4 DEF Sound
<1>6. Genesis \in Tables
  BY <1>2, <1>3 DEF Tables, Bals
<1>7. Genesis.src = src
  BY <1>2
<1> QED
  BY <1>5, <1>6, <1>7

LEMMA InitTrue ==
    ASSUME Init
    PROVE  MemInv
<1>1. ~ play.on
  BY DEF Init, Idle
<1>2. ASSUME NEW n \in Nodes
      PROVE  Recalls(undo[n], db[n]) /\ MemAt(db[n], vm[n], cache[n], Sure(n), Read(n))
  <2>1. db[n] = Genesis /\ vm[n] = LoadContracts(Genesis.src) /\ cache[n] = Genesis.rate /\ Len(undo[n]) = 0
    BY <1>2 DEF Init
  <2> QED
    BY <2>1, GenesisSound, RecallsNone DEF MemAt
<1> QED
  BY <1>1, <1>2 DEF MemInv

LEMMA PlayTxTrue ==
    ASSUME IInv, MemInv, PlayTx
    PROVE  MemInv'
<1>1. play.on /\ play.todo # <<>>
  BY DEF PlayTx
<1>2. PICK r \in Results : Keep(r) \/ Skip(r) \/ Stop(r) \/ Reject(r)
  BY DEF PlayTx
<1> QED
  BY <1>1, <1>2, KeepTrue, SkipTrue, StopTrue, RejectTrue

LEMMA BeginPlayTrue ==
    ASSUME IInv, MemInv, NEW n \in Nodes, Generate(n) \/ Receive(n)
    PROVE  MemInv'
<1>1. \E gen, fork, todo : StartPlay(n, gen, fork, todo)
  BY Zenon DEF Generate, Receive
<1> QED
  BY <1>1, StartPlayTrue

LEMMA NextTrue ==
    ASSUME IInv, MemInv, [Next]_vars
    PROVE  MemInv'
<1>1. CASE Next
  BY <1>1, PlayTxTrue, CommitTrue, DropTrue, BeginPlayTrue, RollbackBlockTrue, RestartTrue DEF Next
<1>2. CASE UNCHANGED vars
  BY <1>2 DEF vars, MemInv, Playing, Sure, Read
<1> QED
  BY <1>1, <1>2

LEMMA AlwaysTrue ==
    Spec => [](IInv /\ MemInv)
<1>1. Init => IInv /\ MemInv
  BY InitOK, InitTrue
<1>2. IInv /\ MemInv /\ [Next]_vars => (IInv /\ MemInv)'
  BY NextKeeps, NextTrue
<1> QED
  BY <1>1, <1>2, PTL DEF Spec

\* The compiled contracts and the cached rate of a node are those of its tables, in and between its
\* blocks, whatever it skipped, rejected, lost and rolled back, where no gap is known to be.
THEOREM MemoryIsTrue ==
    Spec => []MemoryTrue
<1>1. ASSUME IInv, MemInv, NEW n \in Nodes
      PROVE  LET d == IF Playing(n) THEN play.db ELSE db[n]
             IN  /\ <<n, "vm">> \notin stained => vm[n] = LoadContracts(d.src)
                 /\ <<n, "cache">> \notin stained => cache[n] = d.rate
  <2>1. CASE Playing(n)
    <3>1. PlayMemAt(play, db[n], vm[n], cache[n], Sure(n), Read(n))
      BY <1>1, <2>1 DEF MemInv, Playing
    <3> QED
      BY <2>1, <3>1 DEF PlayMemAt, Sure, Read
  <2>2. CASE ~ Playing(n)
    BY <1>1, <2>2 DEF MemInv, MemAt, Sure, Read
  <2> QED
    BY <2>1, <2>2
<1>2. IInv /\ MemInv => MemoryTrue
  BY <1>1 DEF MemoryTrue
<1> QED
  BY <1>2, AlwaysTrue, PTL

\* A rollback that fails is one of a memory that a gap had left wrong, or of a block with a contract
\* that had made a column and failed.
THEOREM JamsAreKnown ==
    Spec => JamsOnlyIf
<1>1. ASSUME IInv, MemInv, [Next]_vars, NEW n \in jammed' \ jammed
      PROVE  \/ <<n, "vm">> \in stained
             \/ \E i \in DOMAIN Last(undo[n]) :
                  /\ Last(undo[n])[i].kind # "ok"
                  /\ <<"NewColumn">> \in ToSet(Last(undo[n])[i].log)
  <2>1. n \in Nodes /\ RollbackBlock(n) /\ Failed(RolledBack(State(db[n], vm[n]), Last(undo[n])))
    <3>1. ~ (PlayTx \/ Commit \/ Drop) /\ ~ UNCHANGED vars
      <4>1. jammed' # jammed
        BY <1>1
      <4> QED
        BY <4>1, Zenon DEF PlayTx, Keep, Skip, Stop, Reject, Leave, Commit, Drop, vars
    <3>2. PICK m \in Nodes : Generate(m) \/ Receive(m) \/ RollbackBlock(m) \/ Restart(m)
      BY <1>1, <3>1 DEF Next
    <3>3. ~ Restart(m)
      BY <1>1 DEF Restart
    <3>4. ~ (Generate(m) \/ Receive(m))
      BY <1>1, Zenon DEF Generate, Receive, StartPlay
    <3>5. RollbackBlock(m)
      BY <3>2, <3>3, <3>4
    <3>6. Failed(RolledBack(State(db[m], vm[m]), Last(undo[m]))) /\ jammed' = jammed \cup {m}
      BY <1>1, <3>5 DEF RollbackBlock, State, Failed
    <3> QED
      BY <1>1, <3>5, <3>6
  <2> DEFINE u == Last(undo[n])
  <2>2. ~ Playing(n) /\ undo[n] # <<>>
    BY <2>1 DEF RollbackBlock, Playing
  <2>3. (Sure(n) => BadColumn(u)) /\ LogsOK(u)
    BY <1>1, <2>1, <2>2, RollbackEnds
  <2> HIDE DEF u
  <2>4. CASE Sure(n)
    <3>1. PICK i \in 1..Len(u) : u[i].kind # "ok" /\ HasColumn(u[i].log)
      BY <2>3, <2>4 DEF BadColumn
    <3>2. DOMAIN u = 1..Len(u) /\ DOMAIN u[i].log = 1..Len(u[i].log)
      BY <2>3, ListFacts DEF LogsOK
    <3>3. PICK j \in 1..Len(u[i].log) : u[i].log[j] = <<"NewColumn">>
      BY <3>1 DEF HasColumn
    <3>4. <<"NewColumn">> \in ToSet(u[i].log)
      BY <3>2, <3>3 DEF ToSet
    <3> QED
      BY <3>1, <3>2, <3>4 DEF u
  <2>5. CASE ~ Sure(n)
    BY <2>5 DEF Sure
  <2> QED
    BY <2>4, <2>5
<1>2. IInv /\ MemInv /\ [Next]_vars =>
        \A n \in jammed' \ jammed :
          \/ <<n, "vm">> \in stained
          \/ \E i \in DOMAIN Last(undo[n]) :
               /\ Last(undo[n])[i].kind # "ok"
               /\ <<"NewColumn">> \in ToSet(Last(undo[n])[i].log)
  BY <1>1
<1> QED
  BY <1>2, AlwaysTrue, PTL DEF Spec, JamsOnlyIf
=============================================================================
