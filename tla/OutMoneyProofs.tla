--------------------------- MODULE OutMoneyProofs ---------------------------
(***************************************************************************)
(* Every safety property of OutMoney that the run out_money checks holds   *)
(* of every behavior, for all constants that satisfy the assumptions.      *)
(* The first half has the lemmas about sums, about RemoveFirst and Append  *)
(* on an order without repetitions, and about what the operators of        *)
(* ReceiptAllocations preserve, for every finite set of transactions and   *)
(* receipts; the second half has the calls, the dialog and the batches.    *)
(***************************************************************************)
EXTENDS OutMoney, FiniteSetTheorems, SequenceTheorems, WellFoundedInduction, TLAPS

Amounts == 0..MaxAmount

(***************************************************************************)
(* Sums.                                                                   *)
(***************************************************************************)
LEMMA UnitsFinite ==
  ASSUME NEW S, IsFiniteSet(S), NEW f
  PROVE  IsFiniteSet(Units(f, S)) /\ TotalOf(f, S) \in Nat
<1>1. IsFiniteSet(1..MaxAmount)
  BY FS_Interval, AmountAssumption
<1>2. IsFiniteSet(S \X (1..MaxAmount))
  BY <1>1, FS_Product
<1>3. Units(f, S) \subseteq S \X (1..MaxAmount)
  BY DEF Units
<1> QED
  BY <1>2, <1>3, FS_Subset, FS_CardinalityType DEF TotalOf

\* The units of x alone.
LEMMA ColumnSize ==
  ASSUME NEW x, NEW k \in Amounts
  PROVE  IsFiniteSet({x} \X (1..k)) /\ Cardinality({x} \X (1..k)) = k
<1>1. IsFiniteSet(1..k) /\ Cardinality(1..k) = k
  BY FS_Interval, AmountAssumption DEF Amounts
<1>2. IsFiniteSet({x}) /\ Cardinality({x}) = 1
  BY FS_Singleton
<1> QED
  BY <1>1, <1>2, FS_Product, AmountAssumption DEF Amounts

Others(f, S, x) == {u \in Units(f, S) : u[1] # x}

\* A sum is the sum without x plus what x contributes.
LEMMA SumSplit ==
  ASSUME NEW S, IsFiniteSet(S), NEW f \in [S -> Amounts], NEW x \in S
  PROVE  /\ TotalOf(f, S) = Cardinality(Others(f, S, x)) + f[x]
         /\ Cardinality(Others(f, S, x)) \in Nat
<1> DEFINE Rest == Others(f, S, x)
           Column == {x} \X (1..f[x])
<1>1. IsFiniteSet(Units(f, S))
  BY UnitsFinite
<1>2. IsFiniteSet(Rest) /\ Cardinality(Rest) \in Nat
  BY <1>1, FS_Subset, FS_CardinalityType DEF Others
<1>3. f[x] \in Amounts
  OBVIOUS
<1>4. IsFiniteSet(Column) /\ Cardinality(Column) = f[x]
  BY <1>3, ColumnSize
<1>5. Units(f, S) = Rest \cup Column
  BY <1>3, AmountAssumption DEF Units, Amounts, Others
<1>6. Rest \cap Column = {}
  BY DEF Others
<1>7. Cardinality(Rest \cap Column) = 0
  BY <1>6, FS_EmptySet
<1>8. Cardinality(Rest \cup Column) = Cardinality(Rest) + Cardinality(Column) - 0
  BY <1>2, <1>4, <1>7, FS_Union
<1>9. TotalOf(f, S) = Cardinality(Rest) + f[x] - 0
  BY <1>4, <1>5, <1>8 DEF TotalOf
<1>10. f[x] \in Nat
  BY <1>3, AmountAssumption DEF Amounts
<1> HIDE DEF Rest, Column
<1>11. TotalOf(f, S) = Cardinality(Rest) + f[x]
  BY <1>2, <1>9, <1>10
<1> QED
  BY <1>2, <1>11 DEF Rest

(***************************************************************************)
(* Writing one row changes the sum by the difference and nothing else.     *)
(***************************************************************************)
LEMMA SumUpdate ==
  ASSUME NEW S, IsFiniteSet(S), NEW f \in [S -> Amounts], NEW g \in [S -> Amounts],
         NEW x \in S, \A y \in S \ {x} : g[y] = f[y]
  PROVE  TotalOf(g, S) = TotalOf(f, S) - f[x] + g[x]
<1>1. Others(f, S, x) = Others(g, S, x)
  BY DEF Units, Others
<1>2. /\ TotalOf(f, S) = Cardinality(Others(f, S, x)) + f[x]
      /\ TotalOf(g, S) = Cardinality(Others(g, S, x)) + g[x]
      /\ Cardinality(Others(f, S, x)) \in Nat
  BY SumSplit
<1>3. f[x] \in Nat /\ g[x] \in Nat
  BY AmountAssumption DEF Amounts
<1> QED
  BY <1>1, <1>2, <1>3

\* A sum is at least each of its terms.
LEMMA SumBound ==
  ASSUME NEW S, IsFiniteSet(S), NEW f \in [S -> Amounts], NEW x \in S
  PROVE  f[x] <= TotalOf(f, S)
<1>1. /\ TotalOf(f, S) = Cardinality(Others(f, S, x)) + f[x]
      /\ Cardinality(Others(f, S, x)) \in Nat
  BY SumSplit
<1>2. f[x] \in Nat
  BY AmountAssumption DEF Amounts
<1> QED
  BY <1>1, <1>2

\* A sum of zeros is zero.
LEMMA SumZero ==
  ASSUME NEW S, NEW f, \A x \in S : f[x] = 0
  PROVE  TotalOf(f, S) = 0
<1>1. Units(f, S) = {}
  BY AmountAssumption DEF Units
<1> QED
  BY <1>1, FS_EmptySet DEF TotalOf

(***************************************************************************)
(* Removing a row from the order of a receipt leaves a sequence of         *)
(* transactions.                                                           *)
(***************************************************************************)
LEMMA SmallestIsMember ==
  ASSUME NEW I \in SUBSET Nat, I # {}
  PROVE  Min(I) \in I
<1>1. PICK m \in I : \A i \in I : <<i, m>> \notin OpToRel(<, Nat)
  BY NatLessThanWellFounded, WFMin
<1>2. ASSUME NEW i \in I
      PROVE  m <= i
  <2>1. <<i, m>> \in {ss \in Nat \X Nat : ss[1] < ss[2]} <=> i < m
    OBVIOUS
  <2>2. OpToRel(<, Nat) = {ss \in Nat \X Nat : ss[1] < ss[2]}
    BY Zenon DEF OpToRel
  <2>3. <<i, m>> \notin {ss \in Nat \X Nat : ss[1] < ss[2]}
    BY <1>1, <2>2, Zenon
  <2>4. ~(i < m)
    BY <2>1, <2>3
  <2> QED
    BY <2>4
<1> QED
  BY <1>2 DEF Min

LEMMA RemoveFirstType ==
  ASSUME NEW T, NEW s \in Seq(T), NEW e
  PROVE  RemoveFirst(s, e) \in Seq(T)
<1> DEFINE I == {i \in 1..Len(s) : s[i] = e}
<1>1. CASE \E i \in 1..Len(s) : s[i] = e
  <2>1. I \in SUBSET Nat /\ I # {}
    BY <1>1
  <2>2. Min(I) \in 1..Len(s)
    BY <2>1, SmallestIsMember
  <2>3. SelectInSeq(s, LAMBDA v : v = e) = Min(I)
    BY <2>1 DEF SelectInSeq
  <2>4. RemoveFirst(s, e) = RemoveAt(s, Min(I))
    BY <1>1, <2>3 DEF RemoveFirst
  <2> DEFINE k == Min(I)
  <2>5. k \in 1..Len(s) /\ Len(s) \in Nat
    BY <2>2
  <2> HIDE DEF k, I
  <2>6. SubSeq(s, 1, k - 1) \in Seq(T)
    BY <2>5, SubSeqProperties
  <2>7. SubSeq(s, k + 1, Len(s)) \in Seq(T)
    BY <2>5, SubSeqProperties
  <2> QED
    BY <2>4, <2>6, <2>7, ConcatProperties DEF RemoveAt, k
<1>2. CASE ~\E i \in 1..Len(s) : s[i] = e
  BY <1>2 DEF RemoveFirst
<1> QED
  BY <1>1, <1>2

(***************************************************************************)
(* The order of a receipt names every transaction once.  RemoveFirst then  *)
(* takes the transaction out of it, and Append adds one that is not in it. *)
(***************************************************************************)
NoRepeat(s) == \A i, j \in 1..Len(s) : s[i] = s[j] => i = j

LEMMA RemoveFirstIs ==
  ASSUME NEW T, NEW s \in Seq(T), NEW e, NEW k \in 1..Len(s), s[k] = e, NoRepeat(s)
  PROVE  /\ Len(RemoveFirst(s, e)) = Len(s) - 1
         /\ \A i \in 1..Len(s) - 1 : RemoveFirst(s, e)[i] = IF i < k THEN s[i] ELSE s[i + 1]
<1> DEFINE I == {i \in 1..Len(s) : s[i] = e}
<1>1. I = {k}
  BY DEF NoRepeat
<1>2. Min(I) = k
  <2>1. I \in SUBSET Nat /\ I # {}
    BY <1>1
  <2>2. Min(I) \in I
    BY <2>1, SmallestIsMember
  <2> QED
    BY <1>1, <2>2
<1>3. SelectInSeq(s, LAMBDA v : v = e) = Min(I)
  BY <1>1 DEF SelectInSeq
<1>4. RemoveFirst(s, e) = RemoveAt(s, k)
  BY <1>2, <1>3 DEF RemoveFirst
<1> HIDE DEF I
<1> DEFINE a == SubSeq(s, 1, k - 1)
           b == SubSeq(s, k + 1, Len(s))
<1>5. Len(s) \in Nat /\ k \in Nat /\ k >= 1 /\ k <= Len(s)
  OBVIOUS
<1>6. /\ a \in Seq(T) /\ Len(a) = k - 1
      /\ \A i \in 1..k - 1 : a[i] = s[i]
  <2>1. \A i \in 1..k - 1 : s[i] \in T
    BY <1>5
  <2> QED
    BY <1>5, <2>1, SubSeqProperties
<1>7. /\ b \in Seq(T) /\ Len(b) = Len(s) - k
      /\ \A i \in 1..Len(s) - k : b[i] = s[k + i]
  <2>1. \A i \in k + 1..Len(s) : s[i] \in T
    BY <1>5
  <2>2. /\ b \in Seq(T) /\ Len(b) = IF k + 1 <= Len(s) THEN Len(s) - (k + 1) + 1 ELSE 0
        /\ \A i \in 1..Len(s) - (k + 1) + 1 : b[i] = s[(k + 1) + i - 1]
    BY <1>5, <2>1, SubSeqProperties
  <2> HIDE DEF b
  <2>3. \A i \in 1..Len(s) - k : (k + 1) + i - 1 = k + i
    BY <1>5
  <2>4. Len(s) - (k + 1) + 1 = Len(s) - k
    BY <1>5
  <2>5. Len(b) = Len(s) - k
    BY <1>5, <2>2
  <2>6. \A i \in 1..Len(s) - k : b[i] = s[k + i]
    <3> SUFFICES ASSUME NEW i \in 1..Len(s) - k
                 PROVE  b[i] = s[k + i]
      OBVIOUS
    <3>1. i \in 1..Len(s) - (k + 1) + 1
      BY <2>4
    <3>2. b[i] = s[(k + 1) + i - 1]
      BY <2>2, <3>1
    <3>3. (k + 1) + i - 1 = k + i
      BY <2>3
    <3> QED
      BY <3>2, <3>3
  <2> QED
    BY <2>2, <2>5, <2>6
<1> HIDE DEF a, b
<1>8. /\ Len(a \o b) = Len(a) + Len(b)
      /\ \A i \in 1..Len(a) + Len(b) : (a \o b)[i] = IF i <= Len(a) THEN a[i] ELSE b[i - Len(a)]
  BY <1>6, <1>7, ConcatProperties
<1>9. ASSUME NEW i \in 1..Len(s) - 1
      PROVE  (a \o b)[i] = IF i < k THEN s[i] ELSE s[i + 1]
  <2>1. CASE i < k
    <3>1. i \in 1..k - 1 /\ i <= Len(a) /\ i \in 1..Len(a) + Len(b)
      BY <1>5, <1>6, <1>7, <2>1
    <3> QED
      BY <1>6, <1>8, <2>1, <3>1
  <2>2. CASE ~(i < k)
    <3>1. /\ ~(i <= Len(a)) /\ i \in 1..Len(a) + Len(b)
          /\ i - Len(a) \in 1..Len(s) - k /\ k + (i - Len(a)) = i + 1
      BY <1>5, <1>6, <1>7, <2>2
    <3>2. (a \o b)[i] = b[i - Len(a)]
      BY <1>8, <3>1
    <3> QED
      BY <1>7, <2>2, <3>1, <3>2
  <2> QED
    BY <2>1, <2>2
<1>10. Len(a) + Len(b) = Len(s) - 1
  BY <1>5, <1>6, <1>7
<1> QED
  BY <1>4, <1>8, <1>9, <1>10 DEF RemoveAt, a, b

LEMMA MembersAt ==
  ASSUME NEW T, NEW s \in Seq(T)
  PROVE  ToSet(s) = {s[i] : i \in 1..Len(s)} /\ ToSet(s) \subseteq T
BY DEF ToSet

LEMMA RemoveFirstTakes ==
  ASSUME NEW T, NEW s \in Seq(T), NEW e, NoRepeat(s)
  PROVE  /\ ToSet(RemoveFirst(s, e)) = ToSet(s) \ {e}
         /\ NoRepeat(RemoveFirst(s, e))
<1> DEFINE r == RemoveFirst(s, e)
<1>1. r \in Seq(T)
  BY RemoveFirstType
<1>2. CASE \E k \in 1..Len(s) : s[k] = e
  <2>1. PICK k \in 1..Len(s) : s[k] = e
    BY <1>2
  <2>2. /\ Len(r) = Len(s) - 1
        /\ \A i \in 1..Len(s) - 1 : r[i] = IF i < k THEN s[i] ELSE s[i + 1]
    BY <2>1, RemoveFirstIs
  <2> HIDE DEF r
  <2>3. Len(s) \in Nat /\ k \in Nat /\ k >= 1 /\ k <= Len(s)
    OBVIOUS
  <2>4. \A i \in 1..Len(r) : \E j \in 1..Len(s) : j # k /\ r[i] = s[j]
    <3> SUFFICES ASSUME NEW i \in 1..Len(r)
                 PROVE  \E j \in 1..Len(s) : j # k /\ r[i] = s[j]
      OBVIOUS
    <3>1. CASE i < k
      BY <2>2, <2>3, <3>1
    <3>2. CASE ~(i < k)
      <4>1. r[i] = s[i + 1] /\ i + 1 \in 1..Len(s) /\ i + 1 # k
        BY <2>2, <2>3, <3>2
      <4> QED
        BY <4>1
    <3> QED
      BY <3>1, <3>2
  <2>5. \A j \in 1..Len(s) \ {k} : \E i \in 1..Len(r) : r[i] = s[j]
    <3> SUFFICES ASSUME NEW j \in 1..Len(s) \ {k}
                 PROVE  \E i \in 1..Len(r) : r[i] = s[j]
      OBVIOUS
    <3>1. CASE j < k
      <4>1. j \in 1..Len(s) - 1 /\ r[j] = s[j]
        BY <2>2, <2>3, <3>1
      <4> QED
        BY <2>2, <4>1
    <3>2. CASE ~(j < k)
      <4>1. j - 1 \in 1..Len(s) - 1 /\ ~(j - 1 < k) /\ (j - 1) + 1 = j
        BY <2>3, <3>2
      <4>2. r[j - 1] = s[j]
        BY <2>2, <4>1
      <4> QED
        BY <2>2, <4>1, <4>2
    <3> QED
      BY <3>1, <3>2
  <2>6. ToSet(r) = {r[i] : i \in 1..Len(r)} /\ ToSet(s) = {s[j] : j \in 1..Len(s)}
    BY <1>1, MembersAt DEF r
  <2>7. ToSet(r) = ToSet(s) \ {e}
    <3>1. \A j \in 1..Len(s) : s[j] = e <=> j = k
      BY <2>1 DEF NoRepeat
    <3>2. ToSet(r) \subseteq ToSet(s) \ {e}
      BY <2>4, <2>6, <3>1
    <3>3. ToSet(s) \ {e} \subseteq ToSet(r)
      <4> SUFFICES ASSUME NEW j \in 1..Len(s), s[j] # e
                   PROVE  s[j] \in ToSet(r)
        BY <2>6
      <4>1. j \in 1..Len(s) \ {k}
        BY <3>1
      <4>2. PICK i \in 1..Len(r) : r[i] = s[j]
        BY <2>5, <4>1
      <4> QED
        BY <2>6, <4>2
    <3> QED
      BY <3>2, <3>3
  <2>8. NoRepeat(r)
    <3> SUFFICES ASSUME NEW i \in 1..Len(r), NEW j \in 1..Len(r), r[i] = r[j]
                 PROVE  i = j
      BY DEF NoRepeat
    <3> DEFINE at(x) == IF x < k THEN x ELSE x + 1
    <3>1. at(i) \in 1..Len(s) /\ at(j) \in 1..Len(s) /\ s[at(i)] = s[at(j)]
      BY <2>2, <2>3
    <3>2. at(i) = at(j)
      BY <3>1 DEF NoRepeat
    <3> QED
      BY <2>2, <2>3, <3>2
  <2> QED
    BY <2>7, <2>8 DEF r
<1>3. CASE ~\E k \in 1..Len(s) : s[k] = e
  <2>1. r = s
    BY <1>3 DEF RemoveFirst
  <2>2. e \notin ToSet(s)
    BY <1>3, MembersAt
  <2> QED
    BY <2>1, <2>2
<1> QED
  BY <1>2, <1>3

LEMMA AppendAdds ==
  ASSUME NEW T, NEW s \in Seq(T), NEW e \in T, NoRepeat(s), e \notin ToSet(s)
  PROVE  ToSet(Append(s, e)) = ToSet(s) \cup {e} /\ NoRepeat(Append(s, e))
<1> DEFINE r == Append(s, e)
<1>1. /\ r \in Seq(T) /\ Len(r) = Len(s) + 1
      /\ \A i \in 1..Len(s) : r[i] = s[i]
      /\ r[Len(s) + 1] = e
  BY AppendProperties
<1>2. ToSet(r) = {r[i] : i \in 1..Len(r)} /\ ToSet(s) = {s[i] : i \in 1..Len(s)}
  BY <1>1, MembersAt
<1>3. Len(s) \in Nat /\ \A i \in 1..Len(r) : i \in 1..Len(s) \/ i = Len(s) + 1
  BY <1>1
<1> HIDE DEF r
<1>4. ToSet(r) = ToSet(s) \cup {e}
  <2>1. Len(s) + 1 \in 1..Len(r) /\ \A i \in 1..Len(s) : i \in 1..Len(r)
    BY <1>1, <1>3
  <2> QED
    BY <1>1, <1>2, <1>3, <2>1
<1>5. NoRepeat(r)
  <2>1. \A i \in 1..Len(s) : s[i] # e
    BY <1>2
  <2> QED
    BY <1>1, <1>3, <2>1 DEF NoRepeat
<1> QED
  BY <1>4, <1>5 DEF r

\* A sequence without repetitions is as long as it has members.
LEMMA LengthIsSize ==
  ASSUME NEW T, NEW s \in Seq(T), NoRepeat(s)
  PROVE  Len(s) = Cardinality(ToSet(s))
<1>1. ToSet(s) = {s[i] : i \in 1..Len(s)}
  BY MembersAt
<1>2. s \in [1..Len(s) -> ToSet(s)]
  BY <1>1
<1>3. s \in Bijection(1..Len(s), ToSet(s))
  <2>1. s \in Injection(1..Len(s), ToSet(s))
    BY <1>2 DEF NoRepeat, Injection, IsInjective
  <2>2. s \in Surjection(1..Len(s), ToSet(s))
    <3>1. \A t \in ToSet(s) : \E i \in 1..Len(s) : s[i] = t
      BY <1>1
    <3> QED
      BY <1>2, <3>1 DEF Surjection
  <2> QED
    BY <2>1, <2>2 DEF Bijection
<1>4. ExistsBijection(1..Len(s), ToSet(s))
  BY <1>3 DEF ExistsBijection
<1> QED
  BY <1>4, FS_CountingElements

(***************************************************************************)
(* What every call preserves of the table a, the order s and the bills b.  *)
(* It is stated of parameters because a batch call that fails restores the *)
(* table it started from.  The last conjunct is what makes ReconciledIsPaid*)
(* inductive: a bill is created into a table that holds no row for it.     *)
(***************************************************************************)
Tables == [Tx -> [Receipt -> Amounts]]

PaidInFull(a, r, forced) ==
  /\ BillTotal[r] # NoTotal
  /\ Paid(a, r) > 0
  /\ forced \/ Paid(a, r) >= BillTotal[r]

Typed(a, s, b) == a \in Tables /\ s \in [Receipt -> Seq(Tx)] /\ b \in [Receipt -> Bills]
WithinAmounts(a) == \A t \in Tx : TotalOf(a[t], Receipt) <= TxAmount[t]
FlagsHonest(a, b) ==
  \A r \in Receipt : b[r].reconciled <=> PaidInFull(a, r, b[r].forced)
NoRows(a, r) == \A t \in Tx : a[t][r] = 0
RowsHaveBills(a, b) == \A r \in Receipt : b[r].exists \/ NoRows(a, r)

\* The order s lists the rows of r, each once.
Lists(a, s, r) == ToSet(s) = {t \in Tx : a[t][r] > 0} /\ NoRepeat(s)

(***************************************************************************)
(* The legacy column: the head of the order, and unique (uniq_receipt_txn),*)
(* which the index itself keeps.                                           *)
(***************************************************************************)
Ordered(a, s, b) == \A r \in Receipt : Lists(a, s[r], r) /\ b[r].ptr = FirstTx(s[r])
Unique(b) == \A q, r \in Receipt : q # r /\ b[r].ptr # NoTx => b[q].ptr # b[r].ptr

Sound(a, s, b) ==
  /\ Typed(a, s, b) /\ WithinAmounts(a) /\ FlagsHonest(a, b) /\ RowsHaveBills(a, b)
  /\ Ordered(a, s, b) /\ Unique(b)

LEMMA RowsListed ==
  ASSUME NEW a \in Tables, NEW s \in Seq(Tx), NEW r \in Receipt, Lists(a, s, r)
  PROVE  NoRows(a, r) <=> s = <<>>
<1>1. \A t \in Tx : a[t][r] > 0 <=> a[t][r] # 0
  BY AmountAssumption DEF Tables, Amounts
<1>2. s = <<>> <=> ToSet(s) = {}
  <2>1. ToSet(s) = {s[i] : i \in 1..Len(s)} /\ Len(s) \in Nat
    BY MembersAt
  <2>2. s # <<>> => 1 \in 1..Len(s)
    BY EmptySeq
  <2> QED
    BY <2>1, <2>2
<1> QED
  BY <1>1, <1>2 DEF Lists, NoRows

\* The head of a sequence is one of its members.
LEMMA FirstIsMember ==
  ASSUME NEW s \in Seq(Tx)
  PROVE  FirstTx(s) # NoTx => s # <<>> /\ FirstTx(s) = Head(s) /\ Head(s) \in ToSet(s)
<1>1. ASSUME s # <<>>
      PROVE  Head(s) \in ToSet(s)
  <2>1. 1 \in 1..Len(s) /\ Head(s) = s[1]
    BY <1>1, HeadTailProperties
  <2> QED
    BY <2>1, MembersAt
<1> QED
  BY <1>1 DEF FirstTx

LEMMA TotalsAreNat ==
  ASSUME NEW a \in Tables
  PROVE  /\ \A t \in Tx : TotalOf(a[t], Receipt) \in Nat
         /\ \A r \in Receipt : Paid(a, r) \in Nat
BY UnitsFinite, TxAssumption DEF Paid

LEMMA NothingPaid ==
  ASSUME NEW a, NEW r, NoRows(a, r)
  PROVE  Paid(a, r) = 0
<1> DEFINE col == [t \in Tx |-> a[t][r]]
<1>1. \A t \in Tx : col[t] = 0
  BY DEF NoRows
<1> HIDE DEF col
<1>2. TotalOf(col, Tx) = 0
  BY <1>1, SumZero
<1> QED
  BY <1>2 DEF Paid, col

(***************************************************************************)
(* Writing the row (r, t).                                                 *)
(***************************************************************************)
Differ(a, b, t, r) ==
  \A u \in Tx, q \in Receipt : u # t \/ q # r => b[u][q] = a[u][q]

RowEffect(a, b, t, r) ==
  /\ \A u \in Tx \ {t} : TotalOf(b[u], Receipt) = TotalOf(a[u], Receipt)
  /\ TotalOf(b[t], Receipt) = TotalOf(a[t], Receipt) - a[t][r] + b[t][r]
  /\ \A q \in Receipt \ {r} : Paid(b, q) = Paid(a, q)
  /\ Paid(b, r) = Paid(a, r) - a[t][r] + b[t][r]

LEMMA OneRow ==
  ASSUME NEW a \in Tables, NEW b \in Tables, NEW t \in Tx, NEW r \in Receipt,
         Differ(a, b, t, r)
  PROVE  RowEffect(a, b, t, r)
<1>1. \A u \in Tx : a[u] \in [Receipt -> Amounts] /\ b[u] \in [Receipt -> Amounts]
  BY DEF Tables
<1>2. ASSUME NEW u \in Tx \ {t}
      PROVE  TotalOf(b[u], Receipt) = TotalOf(a[u], Receipt)
  <2>1. a[u] = b[u]
    BY <1>1 DEF Differ
  <2> QED
    BY <2>1
<1>3. TotalOf(b[t], Receipt) = TotalOf(a[t], Receipt) - a[t][r] + b[t][r]
  <2>1. \A q \in Receipt \ {r} : b[t][q] = a[t][q]
    BY DEF Differ
  <2> QED
    BY <1>1, <2>1, SumUpdate, TxAssumption
<1>4. ASSUME NEW q \in Receipt \ {r}
      PROVE  Paid(b, q) = Paid(a, q)
  <2>1. [u \in Tx |-> b[u][q]] = [u \in Tx |-> a[u][q]]
    BY DEF Differ
  <2> QED
    BY <2>1 DEF Paid
<1>5. Paid(b, r) = Paid(a, r) - a[t][r] + b[t][r]
  <2> DEFINE f == [u \in Tx |-> a[u][r]]
             g == [u \in Tx |-> b[u][r]]
  <2>1. f \in [Tx -> Amounts] /\ f[t] = a[t][r] /\ g \in [Tx -> Amounts] /\ g[t] = b[t][r]
    BY <1>1
  <2>2. \A u \in Tx \ {t} : g[u] = f[u]
    BY DEF Differ
  <2> HIDE DEF f, g
  <2>3. TotalOf(g, Tx) = TotalOf(f, Tx) - f[t] + g[t]
    BY <2>1, <2>2, SumUpdate, TxAssumption
  <2> QED
    BY <2>1, <2>3 DEF Paid, f, g
<1> QED
  BY <1>2, <1>3, <1>4, <1>5 DEF RowEffect

\* Room never exceeds the transaction, and is what keeps it within its amount.
LEMMA RoomFits ==
  ASSUME Sound(alloc, since, bill), NEW t \in Tx, NEW r \in Receipt
  PROVE  /\ alloc[t][r] \in Nat /\ receipt_tx_allocated(t) \in Nat
         /\ alloc[t][r] <= receipt_tx_allocated(t)
         /\ receipt_tx_remaining(t) \in 0..TxAmount[t]
         /\ Room(t, r) \in 0..TxAmount[t]
         /\ TxAmount[t] \in 1..MaxAmount
<1>1. alloc[t] \in [Receipt -> Amounts] /\ alloc[t][r] \in Nat
  BY AmountAssumption DEF Sound, Typed, Tables, Amounts
<1>2. receipt_tx_allocated(t) \in Nat /\ alloc[t][r] <= receipt_tx_allocated(t)
  BY <1>1, SumBound, UnitsFinite, TxAssumption DEF receipt_tx_allocated
<1>3. receipt_tx_allocated(t) <= TxAmount[t] /\ TxAmount[t] \in 1..MaxAmount
  BY AmountAssumption DEF Sound, WithinAmounts, receipt_tx_allocated
<1> QED
  BY <1>1, <1>2, <1>3, AmountAssumption DEF Room, receipt_tx_remaining

LEMMA RowWritten ==
  ASSUME Sound(alloc, since, bill),
         NEW t \in Tx, NEW r \in Receipt, NEW v \in 0..Room(t, r),
         NEW s \in Seq(Tx), NEW b \in Bills,
         alloc' = [alloc EXCEPT ![t][r] = v],
         since' = [since EXCEPT ![r] = s],
         bill' = [bill EXCEPT ![r] = b],
         b.exists \/ NoRows(alloc', r),
         b.reconciled <=> PaidInFull(alloc', r, b.forced),
         Lists(alloc', s, r), b.ptr = FirstTx(s), IndexAdmits(r, s)
  PROVE  Sound(alloc', since', bill')
<1>1. alloc \in Tables /\ since \in [Receipt -> Seq(Tx)] /\ bill \in [Receipt -> Bills]
  BY DEF Sound, Typed
<1>2. v \in Amounts
  BY RoomFits, AmountAssumption DEF Amounts
<1>3. alloc' \in Tables /\ alloc'[t][r] = v /\ Differ(alloc, alloc', t, r)
  BY <1>1, <1>2 DEF Tables, Differ
<1>10. RowEffect(alloc, alloc', t, r)
  BY <1>1, <1>3, OneRow
<1>4. Typed(alloc', since', bill')
  BY <1>1, <1>3 DEF Typed
<1>5. WithinAmounts(alloc')
  <2>1. TotalOf(alloc'[t], Receipt) <= TxAmount[t]
    BY <1>3, <1>10, RoomFits, AmountAssumption
    DEF RowEffect, Room, receipt_tx_remaining, receipt_tx_allocated
  <2>2. ASSUME NEW u \in Tx \ {t}
        PROVE  TotalOf(alloc'[u], Receipt) <= TxAmount[u]
    BY <1>10 DEF RowEffect, Sound, WithinAmounts
  <2> QED
    BY <2>1, <2>2 DEF WithinAmounts
<1>6. bill'[r] = b /\ \A q \in Receipt \ {r} : bill'[q] = bill[q]
  BY <1>1
<1>7. FlagsHonest(alloc', bill')
  <2>1. ASSUME NEW q \in Receipt \ {r}
        PROVE  bill'[q].reconciled <=> PaidInFull(alloc', q, bill'[q].forced)
    <3>1. Paid(alloc', q) = Paid(alloc, q) /\ bill'[q] = bill[q]
      BY <1>10, <1>6 DEF RowEffect
    <3>2. bill[q].reconciled <=> PaidInFull(alloc, q, bill[q].forced)
      BY DEF Sound, FlagsHonest
    <3> QED
      BY <3>1, <3>2 DEF PaidInFull
  <2> QED
    BY <2>1, <1>6 DEF FlagsHonest
<1>8. RowsHaveBills(alloc', bill')
  <2>1. ASSUME NEW q \in Receipt \ {r}
        PROVE  bill'[q].exists \/ NoRows(alloc', q)
    <3>1. \A u \in Tx : alloc'[u][q] = alloc[u][q]
      BY <1>3 DEF Differ
    <3>2. bill[q].exists \/ NoRows(alloc, q)
      BY DEF Sound, RowsHaveBills
    <3> QED
      BY <1>6, <3>1, <3>2 DEF NoRows
  <2> QED
    BY <2>1, <1>6 DEF RowsHaveBills
<1>9. Ordered(alloc', since', bill')
  <2>1. ASSUME NEW q \in Receipt \ {r}
        PROVE  Lists(alloc', since'[q], q) /\ bill'[q].ptr = FirstTx(since'[q])
    <3>1. since'[q] = since[q] /\ \A u \in Tx : alloc'[u][q] = alloc[u][q]
      BY <1>1, <1>3 DEF Differ
    <3> QED
      BY <1>6, <3>1 DEF Sound, Ordered, Lists
  <2>2. since'[r] = s
    BY <1>1
  <2> QED
    BY <1>6, <2>1, <2>2 DEF Ordered
<1>11. Unique(bill')
  <2>1. b.ptr # NoTx => \A q \in Receipt \ {r} : bill[q].ptr # b.ptr
    BY DEF FirstTx, IndexAdmits
  <2> QED
    BY <1>6, <2>1 DEF Sound, Unique
<1> QED
  BY <1>4, <1>5, <1>7, <1>8, <1>9, <1>11 DEF Sound

(***************************************************************************)
(* The rows of r go, and with them its reconciled flag.                    *)
(***************************************************************************)
LEMMA RowsCleared ==
  ASSUME Sound(alloc, since, bill), NEW r \in Receipt, NEW b \in Bills,
         ClearAllocs(r), bill' = [bill EXCEPT ![r] = b], ~b.reconciled, b.ptr = NoTx
  PROVE  Sound(alloc', since', bill')
<1>1. alloc \in Tables /\ since \in [Receipt -> Seq(Tx)] /\ bill \in [Receipt -> Bills]
  BY DEF Sound, Typed
<1>2. /\ \A t \in Tx : alloc'[t] = [alloc[t] EXCEPT ![r] = 0]
      /\ alloc' \in Tables
  BY <1>1, AmountAssumption DEF ClearAllocs, Tables, Amounts
<1>3. NoRows(alloc', r) /\ \A q \in Receipt \ {r}, t \in Tx : alloc'[t][q] = alloc[t][q]
  BY <1>1, <1>2 DEF NoRows, Tables
<1>4. since' \in [Receipt -> Seq(Tx)]
  BY <1>1, EmptySeq DEF ClearAllocs
<1>5. WithinAmounts(alloc')
  <2> SUFFICES ASSUME NEW t \in Tx
               PROVE  TotalOf(alloc'[t], Receipt) <= TxAmount[t]
    BY DEF WithinAmounts
  <2>1. alloc[t] \in [Receipt -> Amounts] /\ alloc'[t] \in [Receipt -> Amounts]
    BY <1>1, <1>2 DEF Tables
  <2>2. TotalOf(alloc'[t], Receipt) = TotalOf(alloc[t], Receipt) - alloc[t][r] + alloc'[t][r]
    BY <1>3, <2>1, SumUpdate, TxAssumption
  <2>3. alloc'[t][r] = 0
    BY <1>3 DEF NoRows
  <2>4. alloc[t][r] \in Nat /\ TotalOf(alloc[t], Receipt) \in Nat
    BY <2>1, UnitsFinite, TxAssumption, AmountAssumption DEF Amounts
  <2>5. TotalOf(alloc[t], Receipt) <= TxAmount[t] /\ TxAmount[t] \in 1..MaxAmount
    BY AmountAssumption DEF Sound, WithinAmounts
  <2> QED
    BY <2>2, <2>3, <2>4, <2>5, AmountAssumption
<1>6. FlagsHonest(alloc', bill')
  <2>1. bill'[r].reconciled <=> PaidInFull(alloc', r, bill'[r].forced)
    <3>1. Paid(alloc', r) = 0
      BY <1>3, NothingPaid
    <3> QED
      BY <1>1, <3>1 DEF PaidInFull
  <2>2. ASSUME NEW q \in Receipt \ {r}
        PROVE  bill'[q].reconciled <=> PaidInFull(alloc', q, bill'[q].forced)
    <3>1. [t \in Tx |-> alloc'[t][q]] = [t \in Tx |-> alloc[t][q]]
      BY <1>3
    <3>2. Paid(alloc', q) = Paid(alloc, q) /\ bill'[q] = bill[q]
      BY <1>1, <3>1 DEF Paid
    <3>3. bill[q].reconciled <=> PaidInFull(alloc, q, bill[q].forced)
      BY DEF Sound, FlagsHonest
    <3> QED
      BY <3>2, <3>3 DEF PaidInFull
  <2> QED
    BY <2>1, <2>2 DEF FlagsHonest
<1>7. RowsHaveBills(alloc', bill')
  BY <1>1, <1>3 DEF Sound, RowsHaveBills, NoRows
<1>8. bill' \in [Receipt -> Bills]
  BY <1>1
<1>9. Ordered(alloc', since', bill')
  <2>1. Lists(alloc', since'[r], r) /\ bill'[r].ptr = FirstTx(since'[r])
    <3>1. since'[r] = <<>> /\ bill'[r].ptr = NoTx
      BY <1>1 DEF ClearAllocs
    <3>2. {t \in Tx : alloc'[t][r] > 0} = {} /\ ToSet(<<>>) = {} /\ NoRepeat(<<>>)
      BY <1>3 DEF NoRows, ToSet, NoRepeat
    <3> QED
      BY <3>1, <3>2 DEF Lists, FirstTx
  <2>2. ASSUME NEW q \in Receipt \ {r}
        PROVE  Lists(alloc', since'[q], q) /\ bill'[q].ptr = FirstTx(since'[q])
    <3>1. since'[q] = since[q] /\ bill'[q] = bill[q]
      BY <1>1 DEF ClearAllocs
    <3> QED
      BY <1>3, <3>1 DEF Sound, Ordered, Lists
  <2> QED
    BY <2>1, <2>2 DEF Ordered
<1>10. Unique(bill')
  BY <1>1 DEF Sound, Unique
<1> QED
  BY <1>2, <1>4, <1>5, <1>6, <1>7, <1>8, <1>9, <1>10 DEF Sound, Typed

(***************************************************************************)
(* receipt_alloc_recompute writes an honest flag whatever flag forced it   *)
(* reads.                                                                  *)
(***************************************************************************)
LEMMA RecomputedHonest ==
  ASSUME NEW r \in Receipt, bill[r] \in Bills, NEW f \in BOOLEAN, NEW a,
         NEW s \in Seq(Tx)
  PROVE  /\ Recomputed(r, f, a, s) \in Bills
         /\ Recomputed(r, f, a, s).exists = bill[r].exists
         /\ Recomputed(r, f, a, s).ptr = FirstTx(s)
         /\ Recomputed(r, f, a, s).reconciled
              <=> PaidInFull(a, r, Recomputed(r, f, a, s).forced)
<1>1. FirstTx(s) \in Tx \cup {NoTx}
  BY HeadTailProperties DEF FirstTx
<1> QED
  BY <1>1 DEF Recomputed, Bills, PaidInFull

(***************************************************************************)
(* The calls.                                                              *)
(***************************************************************************)
LEMMA WriteAllocSound ==
  ASSUME Sound(alloc, since, bill), NEW r \in Receipt, NEW t \in Tx,
         NEW amount \in 1..Room(t, r), bill[r].exists, WriteAlloc(r, t, amount)
  PROVE  Sound(alloc', since', bill')
<1> DEFINE s == Upserted(r, t)[r]
           b == Recomputed(r, bill[r].forced, alloc', since'[r])
<1>1. alloc \in Tables /\ since \in [Receipt -> Seq(Tx)] /\ bill \in [Receipt -> Bills]
  BY DEF Sound, Typed
<1>2. s \in Seq(Tx) /\ since' = [since EXCEPT ![r] = s]
  <2>1. RemoveFirst(since[r], t) \in Seq(Tx)
    BY <1>1, RemoveFirstType
  <2>2. Append(RemoveFirst(since[r], t), t) \in Seq(Tx)
    BY <2>1, AppendProperties
  <2> QED
    BY <1>1, <2>2 DEF WriteAlloc, Upserted
<1>3. bill[r] \in Bills /\ bill[r].forced \in BOOLEAN /\ since'[r] \in Seq(Tx)
  BY <1>1, <1>2 DEF Bills
<1>4. b \in Bills /\ b.exists /\ (b.reconciled <=> PaidInFull(alloc', r, b.forced))
  BY <1>3, RecomputedHonest
<1>5. alloc' = [alloc EXCEPT ![t][r] = amount] /\ bill' = [bill EXCEPT ![r] = b]
  BY DEF WriteAlloc, receipt_alloc_recompute
<1>6. since'[r] = s
  BY <1>1, <1>2
<1>7. b.ptr = FirstTx(s) /\ IndexAdmits(r, s)
  BY <1>3, <1>6, RecomputedHonest DEF WriteAlloc, receipt_alloc_recompute
<1>8. Lists(alloc', s, r)
  <2> DEFINE rest == RemoveFirst(since[r], t)
  <2>1. Lists(alloc, since[r], r) /\ since[r] \in Seq(Tx)
    BY <1>1 DEF Sound, Ordered
  <2>2. ToSet(rest) = ToSet(since[r]) \ {t} /\ NoRepeat(rest) /\ rest \in Seq(Tx)
    BY <2>1, RemoveFirstTakes, RemoveFirstType DEF Lists
  <2>3. s = Append(rest, t)
    BY <1>1 DEF Upserted
  <2> HIDE DEF rest, s
  <2>4. ToSet(s) = ToSet(rest) \cup {t} /\ NoRepeat(s)
    BY <2>2, <2>3, AppendAdds
  <2>5. /\ alloc'[t][r] > 0
        /\ \A u \in Tx \ {t} : alloc'[u][r] = alloc[u][r]
    BY <1>1, <1>5 DEF Tables
  <2>6. {u \in Tx : alloc'[u][r] > 0} = {u \in Tx : alloc[u][r] > 0} \cup {t}
    BY <2>5
  <2> QED
    BY <2>1, <2>2, <2>4, <2>6 DEF Lists
<1>9. amount \in 0..Room(t, r)
  BY RoomFits, AmountAssumption
<1> HIDE DEF s, b
<1> QED
  BY <1>2, <1>4, <1>5, <1>7, <1>8, <1>9, RowWritten

LEMMA AddAllocSound ==
  ASSUME Sound(alloc, since, bill), NEW r \in Receipt, NEW t \in Tx, NEW asked,
         AddAlloc(r, t, asked)
  PROVE  Sound(alloc', since', bill')
<1>1. AllocAmount(r, t, asked) \in 1..Room(t, r) /\ bill[r].exists
  BY DEF AddAlloc, AllocAdmissible
<1>2. WriteAlloc(r, t, AllocAmount(r, t, asked))
  BY DEF AddAlloc
<1> QED
  BY <1>1, <1>2, WriteAllocSound

LEMMA RemoveSound ==
  ASSUME Sound(alloc, since, bill), NEW r \in Receipt, NEW t \in Tx,
         receipt_alloc_remove(r, t)
  PROVE  Sound(alloc', since', bill')
<1> DEFINE s == RemoveFirst(since[r], t)
           b == Recomputed(r, bill[r].forced, alloc', since'[r])
<1>1. alloc \in Tables /\ since \in [Receipt -> Seq(Tx)] /\ bill \in [Receipt -> Bills]
  BY DEF Sound, Typed
<1>2. s \in Seq(Tx) /\ since' = [since EXCEPT ![r] = s]
  BY <1>1, RemoveFirstType DEF receipt_alloc_remove
<1>3. bill[r] \in Bills /\ bill[r].forced \in BOOLEAN /\ since'[r] \in Seq(Tx)
  BY <1>1, <1>2 DEF Bills
<1>4. b \in Bills /\ b.exists = bill[r].exists
      /\ (b.reconciled <=> PaidInFull(alloc', r, b.forced))
  BY <1>3, RecomputedHonest
<1>5. bill[r].exists
  BY DEF Sound, RowsHaveBills, NoRows, receipt_alloc_remove
<1>6. 0 \in 0..Room(t, r)
  BY RoomFits, AmountAssumption
<1>7. alloc' = [alloc EXCEPT ![t][r] = 0] /\ bill' = [bill EXCEPT ![r] = b]
  BY DEF receipt_alloc_remove, receipt_alloc_recompute
<1>8. since'[r] = s
  BY <1>1, <1>2
<1>9. b.ptr = FirstTx(s) /\ IndexAdmits(r, s)
  BY <1>3, <1>8, RecomputedHonest DEF receipt_alloc_remove, receipt_alloc_recompute
<1>10. Lists(alloc', s, r)
  <2>1. Lists(alloc, since[r], r) /\ since[r] \in Seq(Tx)
    BY <1>1 DEF Sound, Ordered
  <2>2. ToSet(s) = ToSet(since[r]) \ {t} /\ NoRepeat(s)
    BY <2>1, RemoveFirstTakes DEF Lists
  <2>3. alloc'[t][r] = 0 /\ \A u \in Tx \ {t} : alloc'[u][r] = alloc[u][r]
    BY <1>1, <1>7 DEF Tables
  <2> HIDE DEF s
  <2>4. {u \in Tx : alloc'[u][r] > 0} = {u \in Tx : alloc[u][r] > 0} \ {t}
    BY <2>3
  <2> QED
    BY <2>1, <2>2, <2>4 DEF Lists
<1> HIDE DEF s, b
<1> QED
  BY <1>2, <1>4, <1>5, <1>6, <1>7, <1>9, <1>10, RowWritten

LEMMA SetForcedSound ==
  ASSUME Sound(alloc, since, bill), NEW r \in Receipt, NEW forced \in BOOLEAN,
         receipt_alloc_set_forced(r, forced)
  PROVE  Sound(alloc', since', bill')
<1> DEFINE b == Recomputed(r, forced, alloc, since[r])
<1>1. alloc \in Tables /\ since \in [Receipt -> Seq(Tx)] /\ bill \in [Receipt -> Bills]
  BY DEF Sound, Typed
<1>2. b \in Bills /\ b.exists = bill[r].exists /\ b.ptr = FirstTx(since[r])
      /\ (b.reconciled <=> PaidInFull(alloc, r, b.forced))
  BY <1>1, RecomputedHonest
<1>3. bill' = [bill EXCEPT ![r] = b] /\ alloc' = alloc /\ since' = since
  BY DEF receipt_alloc_set_forced
<1> HIDE DEF b
<1>4. Typed(alloc', since', bill')
  BY <1>1, <1>2, <1>3 DEF Typed
<1>5. FlagsHonest(alloc', bill')
  BY <1>1, <1>2, <1>3 DEF Sound, FlagsHonest
<1>6. RowsHaveBills(alloc', bill')
  BY <1>1, <1>2, <1>3 DEF Sound, RowsHaveBills
<1>7. \A q \in Receipt : bill'[q].ptr = bill[q].ptr
  BY <1>1, <1>2, <1>3 DEF Sound, Ordered
<1>8. Ordered(alloc', since', bill') /\ Unique(bill')
  BY <1>3, <1>7 DEF Sound, Ordered, Unique
<1> QED
  BY <1>3, <1>4, <1>5, <1>6, <1>8 DEF Sound

LEMMA UnreconcileSound ==
  ASSUME Sound(alloc, since, bill), NEW r \in Receipt, stock_receipt_unreconcile(r)
  PROVE  Sound(alloc', since', bill')
<1> DEFINE b == [bill[r] EXCEPT !.reconciled = FALSE, !.ptr = NoTx]
<1>1. bill \in [Receipt -> Bills]
  BY DEF Sound, Typed
<1>2. b \in Bills /\ ~b.reconciled /\ b.ptr = NoTx
  BY <1>1 DEF Bills
<1>3. bill' = [bill EXCEPT ![r] = b] /\ ClearAllocs(r)
  BY <1>1 DEF stock_receipt_unreconcile
<1> HIDE DEF b
<1> QED
  BY <1>2, <1>3, RowsCleared

LEMMA AllocInitSound == AllocInit => Sound(alloc, since, bill)
<1> SUFFICES ASSUME AllocInit
             PROVE  Sound(alloc, since, bill)
  OBVIOUS
<1>1. Typed(alloc, since, bill)
  BY EmptySeq, AmountAssumption DEF AllocInit, Typed, Tables, Amounts, Bills, NoBill
<1>2. \A r \in Receipt : NoRows(alloc, r) /\ ~bill[r].reconciled
  BY DEF AllocInit, NoRows, NoBill
<1>3. FlagsHonest(alloc, bill)
  BY <1>2, NothingPaid DEF FlagsHonest, PaidInFull
<1>4. WithinAmounts(alloc)
  <2> SUFFICES ASSUME NEW t \in Tx
               PROVE  TotalOf(alloc[t], Receipt) <= TxAmount[t]
    BY DEF WithinAmounts
  <2>1. TotalOf(alloc[t], Receipt) = 0
    BY SumZero DEF AllocInit
  <2> QED
    BY <2>1, AmountAssumption
<1>5. ToSet(<<>>) = {} /\ NoRepeat(<<>>)
  BY DEF ToSet, NoRepeat
<1>6. Ordered(alloc, since, bill) /\ Unique(bill)
  BY <1>5 DEF AllocInit, NoBill, Ordered, Lists, FirstTx, Unique
<1> QED
  BY <1>1, <1>2, <1>3, <1>4, <1>6 DEF Sound, RowsHaveBills

LEMMA SoundImplies ==
  ASSUME Sound(alloc, since, bill)
  PROVE  AllocTypeOK /\ NoOverAllocation /\ ReconciledIsPaid /\ PointerIsOldest
<1>1. AllocTypeOK
  BY DEF AllocTypeOK, Sound, Typed, Tables, Amounts
<1>2. NoOverAllocation
  BY DEF NoOverAllocation, Sound, WithinAmounts, receipt_tx_allocated
<1>3. ReconciledIsPaid
  BY DEF ReconciledIsPaid, Sound, FlagsHonest, PaidInFull
<1>4. PointerIsOldest
  BY LengthIsSize DEF PointerIsOldest, Sound, Typed, Ordered, Lists
<1> QED
  BY <1>1, <1>2, <1>3, <1>4

-----------------------------------------------------------------------------
(* The steps of OutMoney.                                                  *)

LinkTypeOK ==
  /\ refund \in [Refund -> Refunds]
  /\ expense \in [Expense -> Expenses]
  /\ ship \in [Tx -> 0..MaxAmount]
  /\ flags \in [Tx -> TxFlags]

PreviewTypeOK == preview \subseteq Pairs(Receipt) \cup Pairs(Expense)

\* While a batch call runs, the table it would restore is sound.
SavedSound == job # Idle => Sound(job.saved.alloc, job.saved.since, job.saved.bill)

(***************************************************************************)
(* The inductive invariant.                                                *)
(***************************************************************************)
IInv ==
  /\ Sound(alloc, since, bill)
  /\ LinkTypeOK
  /\ PreviewTypeOK
  /\ job \in Jobs \cup {Idle}
  /\ SavedSound

LEMMA InitIInv == OutMoneyInit => IInv
<1> SUFFICES ASSUME OutMoneyInit
             PROVE  IInv
  OBVIOUS
<1>1. Sound(alloc, since, bill)
  BY AllocInitSound DEF OutMoneyInit
<1>2. LinkTypeOK
  BY AmountAssumption 
  DEF OutMoneyInit, LinkTypeOK, NoRefund, NoExpense, Refunds, Expenses, TxFlags
<1> QED
  BY <1>1, <1>2 DEF OutMoneyInit, IInv, PreviewTypeOK, SavedSound

LEMMA IInvImplies == IInv => TypeOK /\ NoOverAllocation /\ ReconciledIsPaid /\ PointerIsOldest
BY SoundImplies DEF IInv, TypeOK, LinkTypeOK, PreviewTypeOK

(***************************************************************************)
(* The calls that write receipts keep the table sound.                     *)
(***************************************************************************)
LEMMA StockPairSound ==
  ASSUME Sound(alloc, since, bill), NEW r \in Receipt, NEW t \in Tx, StockPair(r, t)
  PROVE  Sound(alloc', since', bill')
<1>1. bill[r].exists /\ alloc[t][r] = 0 /\ BillTotal[r] # NoTotal
  BY DEF StockPair, StockPairApplies
<1>2. BillTotal[r] \in 0..MaxAmount
  BY <1>1, AmountAssumption
<1>3. Room(t, r) = receipt_tx_remaining(t) /\ receipt_tx_remaining(t) \in Nat
  BY <1>1, RoomFits, AmountAssumption DEF Room
<1>4. StockPairAmount(r, t) \in 1..Room(t, r)
  BY <1>2, <1>3, AmountAssumption DEF StockPair, StockPairAmount
<1> QED
  BY <1>1, <1>4, WriteAllocSound DEF StockPair

LEMMA CreateMatchedSound ==
  ASSUME Sound(alloc, since, bill), NEW r \in Receipt, NEW t \in Tx,
         ~bill[r].exists, t \in AutoMatches(r), Matched(r, t)
  PROVE  Sound(alloc', since', bill')
<1> DEFINE v == StockPairAmount(r, t)
           b == [NewBill EXCEPT !.reconciled = v >= BillTotal[r], !.ptr = t]
           s == <<t>>
<1>1. NoRows(alloc, r) /\ alloc \in Tables
  BY DEF Sound, RowsHaveBills, Typed
<1>2. BillTotal[r] \in 1..MaxAmount
  BY AmountAssumption DEF AutoMatches, TotalOrZero
<1>3. /\ alloc[t][r] = 0 /\ Room(t, r) = receipt_tx_remaining(t)
      /\ receipt_tx_remaining(t) \in 1..MaxAmount
  BY <1>1, RoomFits, AmountAssumption
  DEF NoRows, Room, AutoMatches, stock_receipt_out_reconcilable
<1>4. v \in 0..Room(t, r) /\ v \in 1..MaxAmount
  BY <1>2, <1>3, AmountAssumption DEF StockPairAmount
<1>5. alloc' \in Tables /\ Differ(alloc, alloc', t, r) /\ alloc'[t][r] = v
  BY <1>1, <1>4 DEF Matched, Tables, Differ, Amounts
<1>6. RowEffect(alloc, alloc', t, r)
  BY <1>1, <1>5, OneRow
<1>7. Paid(alloc, r) = 0
  BY <1>1, NothingPaid
<1>8. Paid(alloc', r) = v
  BY <1>3, <1>4, <1>5, <1>6, <1>7 DEF RowEffect
<1>9. b \in Bills /\ b.exists /\ ~b.forced /\ b.ptr = t /\ (b.reconciled <=> v >= BillTotal[r])
  <2>1. (v >= BillTotal[r]) \in BOOLEAN
    BY <1>2, <1>4, AmountAssumption
  <2> QED
    BY <2>1 DEF NewBill, NoBill, Bills
<1>10. b.reconciled <=> PaidInFull(alloc', r, b.forced)
  BY <1>2, <1>4, <1>8, <1>9, AmountAssumption DEF PaidInFull
<1>11. s \in Seq(Tx) /\ since' = [since EXCEPT ![r] = s]
  BY DEF Matched
<1>12. alloc' = [alloc EXCEPT ![t][r] = v] /\ bill' = [bill EXCEPT ![r] = b]
  BY DEF Matched
<1>13. Lists(alloc', s, r)
  <2>1. alloc'[t][r] > 0 /\ \A u \in Tx \ {t} : alloc'[u][r] = 0
    BY <1>1, <1>4, <1>5 DEF Differ, NoRows
  <2>2. {u \in Tx : alloc'[u][r] > 0} = {t}
    BY <2>1
  <2>3. ToSet(<<t>>) = {t} /\ NoRepeat(<<t>>)
    BY DEF ToSet, NoRepeat
  <2> QED
    BY <2>2, <2>3 DEF Lists
<1>14. b.ptr = FirstTx(s) /\ IndexAdmits(r, s)
  BY <1>9 DEF FirstTx, Matched
<1> HIDE DEF b, s, v
<1> QED
  BY <1>4, <1>9, <1>10, <1>11, <1>12, <1>13, <1>14, RowWritten

LEMMA CreateUnmatchedSound ==
  ASSUME Sound(alloc, since, bill), NEW r \in Receipt, ~bill[r].exists, Unmatched(r)
  PROVE  Sound(alloc', since', bill')
<1>1. bill \in [Receipt -> Bills] /\ NewBill \in Bills /\ ~NewBill.reconciled /\ NewBill.exists
  BY DEF Sound, Typed, NewBill, NoBill, Bills
<1>2. Paid(alloc, r) = 0
  BY NothingPaid DEF Sound, RowsHaveBills
<1>3. ~PaidInFull(alloc, r, NewBill.forced)
  BY <1>2 DEF PaidInFull
<1>4. FlagsHonest(alloc', bill')
  BY <1>1, <1>3 DEF Sound, FlagsHonest, Unmatched
<1>5. Typed(alloc', since', bill') /\ RowsHaveBills(alloc', bill')
  BY <1>1 DEF Sound, Typed, RowsHaveBills, Unmatched
<1>6. WithinAmounts(alloc')
  BY DEF Sound, Unmatched
<1>7. since[r] = <<>>
  BY RowsListed DEF Sound, Typed, Ordered, RowsHaveBills
<1>8. bill'[r].ptr = NoTx /\ bill[r].ptr = NoTx /\ \A q \in Receipt \ {r} : bill'[q] = bill[q]
  BY <1>1, <1>7 DEF Sound, Ordered, FirstTx, Unmatched, NewBill, NoBill
<1>9. Ordered(alloc', since', bill') /\ Unique(bill')
  BY <1>8 DEF Sound, Ordered, Unique, Unmatched
<1> QED
  BY <1>4, <1>5, <1>6, <1>9 DEF Sound

LEMMA DeleteSound ==
  ASSUME Sound(alloc, since, bill), NEW r \in Receipt, stock_receipt_delete(r)
  PROVE  Sound(alloc', since', bill')
<1>1. NoBill \in Bills /\ ~NoBill.reconciled /\ NoBill.ptr = NoTx
  BY DEF NoBill, Bills
<1> QED
  BY <1>1, RowsCleared DEF stock_receipt_delete

LEMMA AddSound ==
  ASSUME Sound(alloc, since, bill), NEW r \in Receipt, NEW t \in Tx, NEW asked,
         receipt_alloc_add(r, t, asked)
  PROVE  Sound(alloc', since', bill')
BY AddAllocSound DEF receipt_alloc_add

(***************************************************************************)
(* Single calls.                                                           *)
(***************************************************************************)
LEMMA CallSound ==
  ASSUME IInv, Call
  PROVE  Sound(alloc', since', bill')
<1>1. Sound(alloc, since, bill)
  BY DEF IInv
<1>2. CASE AllocCalls
  <2>1. PICK r \in Receipt :
          \/ \E t \in Tx : \E asked \in Asked : receipt_alloc_add(r, t, asked)
          \/ \E t \in Tx : receipt_alloc_remove(r, t)
          \/ \E forced \in BOOLEAN : receipt_alloc_set_forced(r, forced)
          \/ stock_receipt_unreconcile(r)
    BY <1>2 DEF AllocCalls
  <2>2. CASE \E t \in Tx : \E asked \in Asked : receipt_alloc_add(r, t, asked)
    BY <1>1, <2>2, AddSound
  <2>3. CASE \E t \in Tx : receipt_alloc_remove(r, t)
    BY <1>1, <2>3, RemoveSound
  <2>4. CASE \E forced \in BOOLEAN : receipt_alloc_set_forced(r, forced)
    BY <1>1, <2>4, SetForcedSound
  <2>5. CASE stock_receipt_unreconcile(r)
    BY <1>1, <2>5, UnreconcileSound
  <2> QED
    BY <2>1, <2>2, <2>3, <2>4, <2>5
<1>3. CASE ReceiptCalls
  <2>1. PICK r \in Receipt : stock_receipt_create(r) \/ stock_receipt_delete(r)
    BY <1>3 DEF ReceiptCalls
  <2>2. CASE stock_receipt_delete(r)
    BY <1>1, <2>2, DeleteSound
  <2>3. CASE stock_receipt_create(r) /\ Unmatched(r)
    BY <1>1, <2>3, CreateUnmatchedSound DEF stock_receipt_create
  <2>4. CASE stock_receipt_create(r) /\ \E t \in AutoMatches(r) : Matched(r, t)
    <3>1. PICK t \in AutoMatches(r) : Matched(r, t)
      BY <2>4
    <3>2. t \in Tx /\ ~bill[r].exists
      BY <2>4 DEF AutoMatches, stock_receipt_create
    <3> QED
      BY <1>1, <3>1, <3>2, CreateMatchedSound
  <2> QED
    BY <2>1, <2>2, <2>3, <2>4 DEF stock_receipt_create
<1>4. CASE UNCHANGED allocVars
  BY <1>1, <1>4 DEF allocVars
<1> QED
  BY <1>2, <1>3, <1>4
  DEF Call, ExpenseCalls, RefundCalls, TransactionCalls

LEMMA ExpenseTypes ==
  ASSUME expense \in [Expense -> Expenses], ExpenseCalls \/ ReceiptCalls
  PROVE  expense' \in [Expense -> Expenses]
<1>1. NoExpense \in Expenses /\ [NoExpense EXCEPT !.exists = TRUE] \in Expenses
  BY DEF NoExpense, Expenses
<1>2. ASSUME NEW t \in Tx, NEW e \in Expense, expense_out_link(t, e)
      PROVE  expense' \in [Expense -> Expenses]
  BY <1>2 DEF expense_out_link, Expenses
<1>3. ASSUME NEW t \in Tx, expense_out_unlink(t)
      PROVE  expense' \in [Expense -> Expenses]
  <2>1. \A e \in Expense : [expense[e] EXCEPT !.tx = NoTx] \in Expenses
    BY DEF Expenses
  <2> QED
    BY <1>3, <2>1 DEF expense_out_unlink
<1>4. ASSUME NEW e \in Expense, NEW t \in Tx \cup {NoTx}, manual_expense_upsert(e, t)
      PROVE  expense' \in [Expense -> Expenses]
  <2>1. [exists |-> TRUE, tx |-> t] \in Expenses
    BY DEF Expenses
  <2> QED
    BY <1>4, <2>1 DEF manual_expense_upsert
<1>5. ASSUME NEW e \in Expense, manual_expense_delete(e)
      PROVE  expense' \in [Expense -> Expenses]
  BY <1>1, <1>5 DEF manual_expense_delete
<1>6. ASSUME NEW r \in Receipt, stock_receipt_create(r) \/ stock_receipt_delete(r)
      PROVE  expense' \in [Expense -> Expenses]
  BY <1>1, <1>6 DEF stock_receipt_create, stock_receipt_delete
<1> QED
  BY <1>2, <1>3, <1>4, <1>5, <1>6 DEF ExpenseCalls, ReceiptCalls

LEMMA RefundTypes ==
  ASSUME refund \in [Refund -> Refunds], RefundCalls
  PROVE  refund' \in [Refund -> Refunds]
<1>1. /\ NoRefund \in Refunds /\ [NoRefund EXCEPT !.exists = TRUE] \in Refunds
      /\ \A t \in Tx \cup {NoTx}, m \in {"sepay", "cash"} : Settled(t, m) \in Refunds
  BY DEF NoRefund, Refunds, Settled
<1>2. PICK f \in Refund :
        \/ \E t \in Tx \cup {NoTx} : order_refund_create(f, t)
        \/ \E t \in Tx : order_refund_reconcile(f, t)
        \/ order_refund_mark_cash(f)
        \/ order_refund_unreconcile(f)
        \/ order_delete(f)
  BY DEF RefundCalls
<1>3. \E row \in Refunds : refund' = [refund EXCEPT ![f] = row]
  <2>1. CASE \E t \in Tx \cup {NoTx} : order_refund_create(f, t)
    BY <1>1, <2>1 DEF order_refund_create
  <2>2. CASE \E t \in Tx : order_refund_reconcile(f, t)
    BY <1>1, <2>2 DEF order_refund_reconcile
  <2>3. CASE order_refund_mark_cash(f) \/ order_refund_unreconcile(f) \/ order_delete(f)
    BY <1>1, <2>3 DEF order_refund_mark_cash, order_refund_unreconcile, order_delete
  <2> QED
    BY <1>2, <2>1, <2>2, <2>3
<1> QED
  BY <1>3

LEMMA FlagTypes ==
  ASSUME flags \in [Tx -> TxFlags], ship \in [Tx -> 0..MaxAmount], TransactionCalls
  PROVE  flags' \in [Tx -> TxFlags] /\ ship' \in [Tx -> 0..MaxAmount]
<1>1. ASSUME NEW t \in Tx, NEW asked \in Asked, shipping_payment_create(t, asked)
      PROVE  flags' \in [Tx -> TxFlags] /\ ship' \in [Tx -> 0..MaxAmount]
  <2>1. ship' \in [Tx -> 0..MaxAmount]
    <3>1. asked \in 0..MaxAmount /\ TxAmount[t] \in 0..MaxAmount
      BY AmountAssumption, OutAssumption
    <3>2. (IF asked = 0 THEN TxAmount[t] ELSE asked) \in 0..MaxAmount
      BY <3>1
    <3> QED
      BY <1>1, <3>2 DEF shipping_payment_create
  <2>2. "shipping" \in Category
    BY OutAssumption
  <2> QED
    BY <1>1, <2>1, <2>2 DEF shipping_payment_create, TxFlags
<1>2. ASSUME NEW t \in Tx, shipping_payment_unlink(t)
      PROVE  flags' \in [Tx -> TxFlags] /\ ship' \in [Tx -> 0..MaxAmount]
  BY <1>2, AmountAssumption DEF shipping_payment_unlink, TxFlags
<1>3. ASSUME NEW t \in Tx, NEW category \in Category \cup {NoCategory},
             NEW excluded \in BOOLEAN, transaction_set_expense(t, category, excluded)
      PROVE  flags' \in [Tx -> TxFlags]
  BY <1>3 DEF transaction_set_expense, TxFlags
<1>4. ASSUME NEW t \in Tx, NEW settled \in BOOLEAN, transaction_mark_settled(t, settled)
      PROVE  flags' \in [Tx -> TxFlags]
  BY <1>4 DEF transaction_mark_settled, TxFlags
<1>5. ASSUME NEW found \in [Tx -> Category \cup {NoCategory}], expense_apply_rules(found)
      PROVE  flags' \in [Tx -> TxFlags]
  <2>1. \A t \in Tx : [flags[t] EXCEPT !.category = found[t]] \in TxFlags
    BY DEF TxFlags
  <2> QED
    BY <1>5, <2>1 DEF expense_apply_rules
<1> QED
  BY <1>1, <1>2, <1>3, <1>4, <1>5 DEF TransactionCalls

LEMMA CallTypes ==
  ASSUME IInv, Call
  PROVE  LinkTypeOK' /\ PreviewTypeOK'
<1>1. LinkTypeOK /\ PreviewTypeOK
  BY DEF IInv
<1>2. LinkTypeOK'
  <2>1. CASE UNCHANGED linkVars
    BY <1>1, <2>1 DEF LinkTypeOK, linkVars
  <2>2. CASE ReceiptCalls
    BY <1>1, <2>2, ExpenseTypes
    DEF LinkTypeOK, ReceiptCalls, stock_receipt_create, stock_receipt_delete
  <2>3. CASE ExpenseCalls
    BY <1>1, <2>3, ExpenseTypes DEF LinkTypeOK, ExpenseCalls
  <2>4. CASE RefundCalls
    BY <1>1, <2>4, RefundTypes DEF LinkTypeOK, RefundCalls
  <2>5. CASE TransactionCalls
    BY <1>1, <2>5, FlagTypes DEF LinkTypeOK, TransactionCalls
  <2> QED
    BY <2>1, <2>2, <2>3, <2>4, <2>5 DEF Call, AllocCalls
<1>3. PreviewTypeOK'
  BY <1>1 DEF PreviewTypeOK, Call, ledger_auto_reconcile_preview, CleanPairs, OneToOne,
     ReceiptPairs, ExpensePairs
<1> QED
  BY <1>2, <1>3

(***************************************************************************)
(* Batch calls.                                                            *)
(***************************************************************************)
LEMMA StartKeeps ==
  ASSUME IInv, StartBatch
  PROVE  IInv'
<1>1. Sound(alloc, since, bill) /\ LinkTypeOK /\ PreviewTypeOK
  BY DEF IInv
<1>2. Snapshot \in Snapshots
  BY <1>1 DEF Snapshot, Snapshots, Sound, Typed, Tables, Amounts
<1>3. PICK kind, items : Start(kind, items) /\
        \/ kind = "auto" /\ items \in SUBSET preview
        \/ kind = "bulk" /\ items \in Seq(BulkItems) \ {<<>>}
        \/ kind = "stock" /\ items \in Seq(Pairs(Receipt)) \ {<<>>}
  <2>1. CASE \E ticked \in SUBSET preview \ {{}} : ledger_auto_reconcile_apply(ticked)
    BY <2>1 DEF ledger_auto_reconcile_apply
  <2>2. CASE \E i, j \in BulkItems : tx_receipt_alloc_add_bulk(<<i, j>>)
    <3>1. PICK i, j \in BulkItems : Start("bulk", <<i, j>>)
      BY <2>2 DEF tx_receipt_alloc_add_bulk
    <3>2. <<i, j>> \in Seq(BulkItems) \ {<<>>}
      OBVIOUS
    <3> QED
      BY <3>1, <3>2
  <2>3. CASE \E p, q \in Pairs(Receipt) : stock_receipt_reconcile_apply(<<p, q>>)
    <3>1. PICK p, q \in Pairs(Receipt) : Start("stock", <<p, q>>)
      BY <2>3 DEF stock_receipt_reconcile_apply
    <3>2. <<p, q>> \in Seq(Pairs(Receipt)) \ {<<>>}
      OBVIOUS
    <3> QED
      BY <3>1, <3>2
  <2> QED
    BY <2>1, <2>2, <2>3 DEF StartBatch
<1>4. job' \in Jobs
  BY <1>1, <1>2, <1>3 DEF Start, Jobs, PreviewTypeOK
<1>5. Sound(job'.saved.alloc, job'.saved.since, job'.saved.bill)
  BY <1>1, <1>3 DEF Start, Snapshot
<1>6. Sound(alloc', since', bill') /\ LinkTypeOK'
  BY <1>1 DEF StartBatch, allocVars, linkVars, LinkTypeOK
<1>7. PreviewTypeOK'
  BY <1>1 DEF StartBatch, PreviewTypeOK, ledger_auto_reconcile_apply,
     tx_receipt_alloc_add_bulk, stock_receipt_reconcile_apply
<1> QED
  BY <1>4, <1>5, <1>6, <1>7 DEF IInv, SavedSound

\* What is left of a batch has the type of the batch, and the same saved table.
Continues == job' = Idle \/ (job' \in Jobs /\ job'.saved = job.saved)

LEMMA BulkItemKeeps ==
  ASSUME IInv, job # Idle, job.kind = "bulk", BulkItem
  PROVE  Sound(alloc', since', bill') /\ LinkTypeOK' /\ Continues
<1>1. /\ Sound(alloc, since, bill) /\ LinkTypeOK
      /\ Sound(job.saved.alloc, job.saved.since, job.saved.bill)
  BY DEF IInv, SavedSound
<1>2. job \in [kind : {"bulk"}, rest : Seq(BulkItems) \ {<<>>}, saved : Snapshots]
  BY DEF IInv, Jobs
<1>3. Head(job.rest) \in BulkItems /\ Tail(job.rest) \in Seq(BulkItems)
  BY <1>2, HeadTailProperties
<1>4. LinkTypeOK'
  BY <1>1 DEF BulkItem, Rollback, LinkTypeOK, linkVars
<1>5. CASE Rollback
  BY <1>1, <1>4, <1>5 DEF Rollback, Continues
<1>6. CASE UNCHANGED <<allocVars, linkVars>> /\ job' = Idle
  BY <1>1, <1>4, <1>6 DEF allocVars, Continues
<1>7. CASE /\ \E asked : receipt_alloc_add(Head(job.rest).on, Head(job.rest).tx, asked)
           /\ Advance(Tail(job.rest), <<>>)
  <2>1. Head(job.rest).on \in Receipt /\ Head(job.rest).tx \in Tx
    BY <1>3 DEF BulkItems
  <2>2. Sound(alloc', since', bill')
    BY <1>1, <1>7, <2>1, AddSound
  <2>3. Continues
    BY <1>2, <1>3, <1>7 DEF Continues, Advance, Jobs
  <2> QED
    BY <1>4, <2>2, <2>3
<1> QED
  BY <1>5, <1>6, <1>7 DEF BulkItem

LEMMA StockItemKeeps ==
  ASSUME IInv, job # Idle, job.kind = "stock", StockItem
  PROVE  Sound(alloc', since', bill') /\ LinkTypeOK' /\ Continues
<1>1. /\ Sound(alloc, since, bill) /\ LinkTypeOK
      /\ Sound(job.saved.alloc, job.saved.since, job.saved.bill)
  BY DEF IInv, SavedSound
<1>2. job \in [kind : {"stock"}, rest : Seq(Pairs(Receipt)) \ {<<>>}, saved : Snapshots]
  BY DEF IInv, Jobs
<1>3. Head(job.rest) \in Pairs(Receipt) /\ Tail(job.rest) \in Seq(Pairs(Receipt))
  BY <1>2, HeadTailProperties
<1>4. LinkTypeOK'
  BY <1>1 DEF StockItem, Rollback, LinkTypeOK, linkVars
<1>5. CASE Rollback
  BY <1>1, <1>4, <1>5 DEF Rollback, Continues
<1>6. CASE /\ StockPair(Head(job.rest).on, Head(job.rest).tx) \/ UNCHANGED allocVars
           /\ Advance(Tail(job.rest), <<>>)
  <2>1. Head(job.rest).on \in Receipt /\ Head(job.rest).tx \in Tx
    BY <1>3 DEF Pairs
  <2>2. Sound(alloc', since', bill')
    BY <1>1, <1>6, <2>1, StockPairSound DEF allocVars
  <2>3. Continues
    BY <1>2, <1>3, <1>6 DEF Continues, Advance, Jobs
  <2> QED
    BY <1>4, <2>2, <2>3
<1> QED
  BY <1>5, <1>6 DEF StockItem

LEMMA AutoItemKeeps ==
  ASSUME IInv, job # Idle, job.kind = "auto", NEW i \in job.rest, AutoItem(i)
  PROVE  Sound(alloc', since', bill') /\ LinkTypeOK' /\ Continues
<1>1. Sound(alloc, since, bill) /\ LinkTypeOK
  BY DEF IInv
<1>2. job \in [kind : {"auto"}, rest : SUBSET (Pairs(Receipt) \cup Pairs(Expense)),
              saved : Snapshots]
  BY DEF IInv, Jobs
<1>3. i.tx \in Tx
  BY <1>2 DEF Pairs
<1>4. Sound(alloc', since', bill')
  BY <1>1, <1>3, AddSound DEF AutoItem, allocVars
<1>5. LinkTypeOK'
  BY <1>1, <1>3 DEF AutoItem, expense_out_link, LinkTypeOK, Expenses
<1>6. Continues
  BY <1>2 DEF AutoItem, Advance, Continues, Jobs
<1> QED
  BY <1>4, <1>5, <1>6

LEMMA BatchKeeps ==
  ASSUME IInv, BatchStep
  PROVE  IInv'
<1>1. job # Idle /\ PreviewTypeOK'
  BY DEF IInv, BatchStep, PreviewTypeOK
<1>2. Sound(alloc', since', bill') /\ LinkTypeOK' /\ Continues
  <2>1. CASE job.kind = "bulk" /\ BulkItem
    BY <1>1, <2>1, BulkItemKeeps
  <2>2. CASE job.kind = "stock" /\ StockItem
    BY <1>1, <2>2, StockItemKeeps
  <2>3. CASE job.kind = "auto" /\ \E i \in job.rest : AutoItem(i)
    BY <1>1, <2>3, AutoItemKeeps
  <2> QED
    BY <2>1, <2>2, <2>3 DEF BatchStep
<1>3. job' \in Jobs \cup {Idle}
  BY <1>2 DEF Continues
<1>4. SavedSound'
  BY <1>1, <1>2 DEF IInv, SavedSound, Continues
<1> QED
  BY <1>1, <1>2, <1>3, <1>4 DEF IInv

LEMMA NextKeeps == IInv /\ [Next]_vars => IInv'
<1> SUFFICES ASSUME IInv, [Next]_vars
             PROVE  IInv'
  OBVIOUS
<1>1. CASE Call
  <2>1. job' = job /\ job = Idle
    BY <1>1 DEF Call
  <2>2. job' \in Jobs \cup {Idle} /\ SavedSound'
    BY <2>1 DEF SavedSound
  <2> QED
    BY <1>1, <2>2, CallSound, CallTypes DEF IInv
<1>2. CASE StartBatch
  BY <1>2, StartKeeps
<1>3. CASE BatchStep
  BY <1>3, BatchKeeps
<1>4. CASE UNCHANGED vars
  BY <1>4 DEF vars, allocVars, linkVars, IInv, LinkTypeOK, PreviewTypeOK, SavedSound
<1> QED
  BY <1>1, <1>2, <1>3, <1>4 DEF Next

LEMMA Invariance == Spec => []IInv
BY InitIInv, NextKeeps, PTL DEF Spec

(***************************************************************************)
(* Every reachable state is well typed, in particular no allocation is     *)
(* larger than MaxAmount and a batch call always has a table to restore.   *)
(***************************************************************************)
THEOREM TypeCorrect == Spec => []TypeOK
BY Invariance, IInvImplies, PTL

(***************************************************************************)
(* Whatever calls are made, one after the other, on whatever transactions  *)
(* and receipts, the allocations of a transaction stay within its amount:  *)
(* the promise of migration 055, kept by Room of receipt_alloc_add, by the *)
(* cut of the bulk call, by receipt_tx_remaining in the two automatic      *)
(* matches and by the rollback of a batch that fails.                      *)
(***************************************************************************)
THEOREM AllocationsWithinAmount == Spec => []NoOverAllocation
BY Invariance, IInvImplies, PTL

(***************************************************************************)
(* The stored flag reconciled never drifts from the table it is computed   *)
(* from: receipt_alloc_recompute is called, or its result written by hand, *)
(* in every call that changes the rows of a bill or its forced flag.       *)
(***************************************************************************)
THEOREM ReconciledFlagIsHonest == Spec => []ReconciledIsPaid
BY Invariance, IInvImplies, PTL

(***************************************************************************)
(* The legacy pointer is the head of the order, the order lists the rows,  *)
(* and no row is listed twice: an edited allocation moves to the end of    *)
(* the order (ON CONFLICT DO UPDATE SET created_at) and the pointer of the *)
(* bill moves with it.                                                     *)
(***************************************************************************)
THEOREM PointerNeverDangles == Spec => []PointerIsOldest
BY Invariance, IInvImplies, PTL

-----------------------------------------------------------------------------
(* The dialog of ledger_auto_reconcile_preview.                            *)

LEMMA ReceiptPairApplies ==
  ASSUME IInv, NEW p \in ReceiptPairs
  PROVE  p.on \in Receipt /\ AddSucceeds(p.on, p.tx, TxAmount[p.tx])
<1> DEFINE t == p.tx
           r == p.on
<1>1. /\ t \in Tx /\ r \in Receipt /\ bill[r].exists
      /\ expense_out_reconcilable(t) /\ receipt_tx_allocated(t) = 0
  BY DEF ReceiptPairs, Pairs
<1>2. /\ Sound(alloc, since, bill) /\ alloc \in Tables
      /\ since \in [Receipt -> Seq(Tx)] /\ TxAmount[t] \in 1..MaxAmount
  BY <1>1, AmountAssumption DEF IInv, Sound, Typed
<1>3. \A q \in Receipt : alloc[t][q] = 0
  <2> SUFFICES ASSUME NEW q \in Receipt
               PROVE  alloc[t][q] = 0
    OBVIOUS
  <2>1. alloc[t][q] \in Nat /\ alloc[t][q] <= receipt_tx_allocated(t)
    BY <1>1, <1>2, RoomFits
  <2> QED
    BY <1>1, <2>1
<1>4. AllocLinksAdmit(t)
  BY <1>1 DEF expense_out_reconcilable, Unclassified, AllocLinksAdmit
<1>5. AllocAdmissible(r, t, TxAmount[t])
  <2>1. Room(t, r) = TxAmount[t]
    BY <1>1, <1>2, <1>3 DEF Room, receipt_tx_remaining
  <2>2. AllocAmount(r, t, TxAmount[t]) = TxAmount[t]
    BY <1>2, AmountAssumption DEF AllocAmount
  <2> QED
    BY <1>1, <1>2, <2>1, <2>2, AmountAssumption DEF AllocAdmissible
<1>6. \A q \in Receipt : t \notin ToSet(since[q])
  BY <1>1, <1>3 DEF IInv, Sound, Ordered, Lists
<1>7. RemoveFirst(since[r], t) = since[r]
  <2>1. \A i \in 1..Len(since[r]) : since[r][i] # t
    BY <1>1, <1>2, <1>6, MembersAt
  <2> QED
    BY <2>1 DEF RemoveFirst
<1>8. Upserted(r, t)[r] = Append(since[r], t) /\ since[r] \in Seq(Tx)
  BY <1>1, <1>2, <1>7 DEF Upserted
<1>9. Head(Append(since[r], t)) = IF since[r] = <<>> THEN t ELSE Head(since[r])
  BY <1>1, <1>8, HeadTailAppend
<1>10. \A q \in Receipt \ {r} : bill[q].ptr # Head(Append(since[r], t))
  <2>1. CASE since[r] = <<>>
    <3> SUFFICES ASSUME NEW q \in Receipt \ {r}
                 PROVE  bill[q].ptr # t
      BY <1>9, <2>1
    <3>1. bill[q].ptr = FirstTx(since[q]) /\ t # NoTx /\ since[q] \in Seq(Tx)
      BY <1>1, <1>2, TxAssumption DEF Sound, Ordered
    <3>2. FirstTx(since[q]) # NoTx => FirstTx(since[q]) \in ToSet(since[q])
      BY <3>1, FirstIsMember
    <3> QED
      BY <1>6, <3>1, <3>2
  <2>2. CASE since[r] # <<>>
    <3>1. bill[r].ptr = Head(since[r]) /\ Head(since[r]) \in Tx
      BY <1>1, <1>2, <2>2, HeadTailProperties DEF Sound, Ordered, FirstTx
    <3>2. bill[r].ptr # NoTx
      BY <3>1, TxAssumption
    <3> QED
      BY <1>1, <1>2, <1>9, <2>2, <3>1, <3>2 DEF Sound, Unique
  <2> QED
    BY <2>1, <2>2
<1>11. IndexAdmits(r, Upserted(r, t)[r])
  BY <1>8, <1>10 DEF IndexAdmits
<1> QED
  BY <1>1, <1>4, <1>5, <1>11 DEF AddSucceeds

(***************************************************************************)
(* Every pair the dialog shows would be accepted if it were applied at     *)
(* once.  A pair with a receipt has a transaction no bill was given, so    *)
(* its whole amount fits, and the unique index of the legacy column admits *)
(* it: no bill can point to such a transaction, because pointers name      *)
(* listed rows.  No transaction is in two pairs: not of one kind, which    *)
(* are one to one, nor of two, which the list of conflicts takes out.      *)
(***************************************************************************)
THEOREM DialogCanBeApplied == Spec => []CleanPairsApply
<1>1. ASSUME IInv, NEW p \in CleanPairs
      PROVE  PairApplies(p)
  <2>1. CASE p \in ReceiptPairs
    BY <1>1, <2>1, ReceiptPairApplies DEF PairApplies
  <2>2. CASE p \in ExpensePairs
    <3>1. p.on \notin Receipt
      BY <2>2, OutAssumption DEF ExpensePairs, Pairs
    <3>2. LinkSucceeds(p.tx, p.on)
      BY <2>2 DEF ExpensePairs, expense_out_reconcilable, Unclassified, LinkSucceeds
    <3> QED
      BY <3>1, <3>2 DEF PairApplies
  <2> QED
    BY <2>1, <2>2 DEF CleanPairs, OneToOne
<1>2. ASSUME NEW p \in CleanPairs, NEW q \in CleanPairs, p.tx = q.tx
      PROVE  p = q
  <2>1. p \in OneToOne(ReceiptPairs) <=> q \in OneToOne(ReceiptPairs)
    BY <1>2 DEF CleanPairs, Conflict, Txs
  <2>2. CASE p \in OneToOne(ReceiptPairs)
    <3>1. p \in Pairs(Receipt) /\ q \in Pairs(Receipt) /\ p.on = q.on
      BY <1>2, <2>1, <2>2 DEF OneToOne, ReceiptPairs
    <3> QED
      BY <1>2, <3>1 DEF Pairs
  <2>3. CASE p \notin OneToOne(ReceiptPairs)
    <3>1. p \in OneToOne(ExpensePairs) /\ q \in OneToOne(ExpensePairs)
      BY <2>1, <2>3 DEF CleanPairs
    <3>2. p \in Pairs(Expense) /\ q \in Pairs(Expense) /\ p.on = q.on
      BY <1>2, <3>1 DEF OneToOne, ExpensePairs
    <3> QED
      BY <1>2, <3>2 DEF Pairs
  <2> QED
    BY <2>2, <2>3
<1>3. IInv => CleanPairsApply
  BY <1>1, <1>2 DEF CleanPairsApply
<1> QED
  BY <1>3, Invariance, PTL

-----------------------------------------------------------------------------
(* Which calls give money of a transaction to receipts.                    *)

Linked(t) == RefundLinked(t) \/ ExpenseLinked(t)
Grows(t) == receipt_tx_allocated(t)' > receipt_tx_allocated(t)

(***************************************************************************)
(* A batch call that can roll back has only touched transactions it was    *)
(* allowed to touch, so that the rollback too, which may give back the     *)
(* larger amount of a row the batch lowered, gives to no other.            *)
(***************************************************************************)
BatchClean ==
  job # Idle /\ job.kind # "auto"
    => \A t \in Tx : alloc[t] # job.saved.alloc[t] => ~Linked(t)

LEMMA SameRowSameSum ==
  ASSUME NEW t, alloc'[t] = alloc[t], alloc \in Tables, t \in Tx
  PROVE  ~Grows(t)
<1>1. receipt_tx_allocated(t)' = receipt_tx_allocated(t)
  BY DEF receipt_tx_allocated
<1>2. receipt_tx_allocated(t) \in Nat
  BY TotalsAreNat DEF receipt_tx_allocated
<1> QED
  BY <1>1, <1>2 DEF Grows

\* One row is written: only its transaction may grow.
LEMMA OneRowGrows ==
  ASSUME alloc \in Tables, NEW t \in Tx, NEW r \in Receipt, NEW v,
         alloc' = [alloc EXCEPT ![t][r] = v], NEW u \in Tx, u # t
  PROVE  alloc'[u] = alloc[u] /\ ~Grows(u)
<1>1. alloc'[u] = alloc[u]
  BY DEF Tables
<1> QED
  BY <1>1, SameRowSameSum

\* Rows of r are set to zero: nothing grows.
LEMMA ZeroedShrinks ==
  ASSUME alloc \in Tables, NEW r \in Receipt, NEW t \in Tx,
         alloc'[t] = alloc[t] \/ alloc'[t] = [alloc[t] EXCEPT ![r] = 0]
  PROVE  ~Grows(t)
<1>1. CASE alloc'[t] = alloc[t]
  BY <1>1, SameRowSameSum
<1>2. CASE alloc'[t] = [alloc[t] EXCEPT ![r] = 0]
  <2> DEFINE f == alloc[t]
             g == [alloc[t] EXCEPT ![r] = 0]
  <2>1. f \in [Receipt -> Amounts] /\ g \in [Receipt -> Amounts]
    BY AmountAssumption DEF Tables, Amounts
  <2>2. g[r] = 0 /\ \A q \in Receipt \ {r} : g[q] = f[q]
    BY <2>1
  <2>3. f[r] \in Nat
    BY <2>1, AmountAssumption DEF Amounts
  <2> HIDE DEF f, g
  <2>4. TotalOf(g, Receipt) = TotalOf(f, Receipt) - f[r] + g[r]
    BY <2>1, <2>2, SumUpdate, TxAssumption
  <2>5. TotalOf(f, Receipt) \in Nat
    BY UnitsFinite, TxAssumption
  <2>6. ~(TotalOf(g, Receipt) > TotalOf(f, Receipt))
    BY <2>2, <2>3, <2>4, <2>5
  <2>7. /\ receipt_tx_allocated(t)' = TotalOf(g, Receipt)
        /\ receipt_tx_allocated(t) = TotalOf(f, Receipt)
    BY <1>2 DEF receipt_tx_allocated, f, g
  <2> QED
    BY <2>6, <2>7 DEF Grows
<1> QED
  BY <1>1, <1>2

LEMMA AddGrows ==
  ASSUME alloc \in Tables, NEW t \in Tx, NEW r \in Receipt, NEW asked,
         receipt_alloc_add(r, t, asked), NEW u \in Tx
  PROVE  (alloc'[u] = alloc[u] /\ ~Grows(u)) \/ ~Linked(u)
<1>1. \E v : alloc' = [alloc EXCEPT ![t][r] = v]
  BY DEF receipt_alloc_add, AddAlloc, WriteAlloc
<1>2. ~Linked(t)
  BY DEF receipt_alloc_add, AllocLinksAdmit, Linked
<1> QED
  BY <1>1, <1>2, OneRowGrows

LEMMA PairGrows ==
  ASSUME alloc \in Tables, NEW t \in Tx, NEW r \in Receipt, StockPair(r, t), NEW u \in Tx
  PROVE  (alloc'[u] = alloc[u] /\ ~Grows(u)) \/ ~Linked(u)
<1>1. \E v : alloc' = [alloc EXCEPT ![t][r] = v]
  BY DEF StockPair, WriteAlloc
<1>2. ~Linked(t)
  BY DEF StockPair, StockPairApplies, Linked
<1> QED
  BY <1>1, <1>2, OneRowGrows

LEMMA CallGrows ==
  ASSUME alloc \in Tables, Call, NEW u \in Tx, Grows(u)
  PROVE  ~Linked(u)
<1>1. CASE UNCHANGED allocVars
  BY <1>1, SameRowSameSum DEF allocVars
<1>2. CASE AllocCalls
  <2>1. PICK r \in Receipt :
          \/ \E t \in Tx : \E asked \in Asked : receipt_alloc_add(r, t, asked)
          \/ \E t \in Tx : receipt_alloc_remove(r, t)
          \/ \E forced \in BOOLEAN : receipt_alloc_set_forced(r, forced)
          \/ stock_receipt_unreconcile(r)
    BY <1>2 DEF AllocCalls
  <2>2. CASE \E t \in Tx : \E asked \in Asked : receipt_alloc_add(r, t, asked)
    BY <2>2, AddGrows
  <2>3. ASSUME NEW t \in Tx, receipt_alloc_remove(r, t)
        PROVE  FALSE
    <3>1. alloc' = [alloc EXCEPT ![t][r] = 0]
      BY <2>3 DEF receipt_alloc_remove
    <3>2. alloc'[u] = alloc[u] \/ alloc'[u] = [alloc[u] EXCEPT ![r] = 0]
      BY <3>1 DEF Tables
    <3> QED
      BY <3>2, ZeroedShrinks
  <2>4. CASE \E forced \in BOOLEAN : receipt_alloc_set_forced(r, forced)
    <3>1. alloc'[u] = alloc[u]
      BY <2>4 DEF receipt_alloc_set_forced
    <3> QED
      BY <3>1, SameRowSameSum
  <2>5. CASE stock_receipt_unreconcile(r)
    <3>1. alloc'[u] = [alloc[u] EXCEPT ![r] = 0]
      BY <2>5 DEF stock_receipt_unreconcile, ClearAllocs
    <3> QED
      BY <3>1, ZeroedShrinks
  <2> QED
    BY <2>1, <2>2, <2>3, <2>4, <2>5
<1>3. CASE ReceiptCalls
  <2>1. PICK r \in Receipt : stock_receipt_create(r) \/ stock_receipt_delete(r)
    BY <1>3 DEF ReceiptCalls
  <2>2. CASE stock_receipt_delete(r)
    <3>1. alloc'[u] = [alloc[u] EXCEPT ![r] = 0]
      BY <2>2 DEF stock_receipt_delete, ClearAllocs
    <3> QED
      BY <3>1, ZeroedShrinks
  <2>3. CASE Unmatched(r)
    <3>1. alloc'[u] = alloc[u]
      BY <2>3 DEF Unmatched
    <3> QED
      BY <3>1, SameRowSameSum
  <2>4. ASSUME NEW t \in AutoMatches(r), Matched(r, t)
        PROVE  ~Linked(u)
    <3>1. t \in Tx /\ ~Linked(t)
      BY DEF AutoMatches, stock_receipt_out_reconcilable, Linked
    <3>2. \E v : alloc' = [alloc EXCEPT ![t][r] = v]
      BY <2>4 DEF Matched
    <3> QED
      BY <3>1, <3>2, OneRowGrows
  <2> QED
    BY <2>1, <2>2, <2>3, <2>4 DEF stock_receipt_create
<1> QED
  BY <1>1, <1>2, <1>3 DEF Call, ExpenseCalls, RefundCalls, TransactionCalls

\* One iteration: a write that was allowed, nothing, or the rollback.
LEMMA BatchMoves ==
  ASSUME IInv, BatchStep
  PROVE  \/ Rollback /\ job.kind # "auto"
         \/ \A u \in Tx : (alloc'[u] = alloc[u] /\ ~Grows(u)) \/ ~Linked(u)
<1>1. alloc \in Tables /\ job # Idle
  BY DEF IInv, Sound, Typed, BatchStep
<1>2. ASSUME UNCHANGED allocVars
      PROVE  \A u \in Tx : alloc'[u] = alloc[u] /\ ~Grows(u)
  BY <1>1, <1>2, SameRowSameSum DEF allocVars
<1>3. CASE job.kind = "bulk" /\ BulkItem
  <2>1. job \in [kind : {"bulk"}, rest : Seq(BulkItems) \ {<<>>}, saved : Snapshots]
    BY <1>1, <1>3 DEF IInv, Jobs
  <2>2. Head(job.rest) \in BulkItems
    BY <2>1, HeadTailProperties
  <2>3. Head(job.rest).on \in Receipt /\ Head(job.rest).tx \in Tx
    BY <2>2 DEF BulkItems
  <2> QED
    BY <1>1, <1>2, <1>3, <2>3, AddGrows DEF BulkItem
<1>4. CASE job.kind = "stock" /\ StockItem
  <2>1. job \in [kind : {"stock"}, rest : Seq(Pairs(Receipt)) \ {<<>>}, saved : Snapshots]
    BY <1>1, <1>4 DEF IInv, Jobs
  <2>2. Head(job.rest) \in Pairs(Receipt)
    BY <2>1, HeadTailProperties
  <2>3. Head(job.rest).on \in Receipt /\ Head(job.rest).tx \in Tx
    BY <2>2 DEF Pairs
  <2> QED
    BY <1>1, <1>2, <1>4, <2>3, PairGrows DEF StockItem
<1>5. CASE job.kind = "auto" /\ \E i \in job.rest : AutoItem(i)
  <2>1. PICK i \in job.rest : AutoItem(i)
    BY <1>5
  <2>2. job \in [kind : {"auto"}, rest : SUBSET (Pairs(Receipt) \cup Pairs(Expense)),
                saved : Snapshots]
    BY <1>1, <1>5 DEF IInv, Jobs
  <2>3. i.tx \in Tx
    BY <2>2 DEF Pairs
  <2> QED
    BY <1>1, <1>2, <2>1, <2>3, AddGrows DEF AutoItem
<1> QED
  BY <1>3, <1>4, <1>5 DEF BatchStep

LEMMA BatchCleanKept == IInv /\ BatchClean /\ [Next]_vars => BatchClean'
<1> SUFFICES ASSUME IInv, BatchClean, [Next]_vars
             PROVE  BatchClean'
  OBVIOUS
<1>1. CASE Call
  BY <1>1 DEF Call, BatchClean
<1>2. CASE StartBatch
  <2>1. job'.saved.alloc = alloc /\ alloc' = alloc
    BY <1>2
    DEF StartBatch, allocVars, Start, Snapshot, ledger_auto_reconcile_apply,
        tx_receipt_alloc_add_bulk, stock_receipt_reconcile_apply
  <2> QED
    BY <2>1 DEF BatchClean
<1>3. CASE BatchStep
  <2>1. CASE job' = Idle
    BY <2>1 DEF BatchClean
  <2>2. CASE job' # Idle
    <3>1. job # Idle /\ job' = [job EXCEPT !.rest = job'.rest] /\ ~Rollback
      BY <1>3, <2>2
      DEF BatchStep, BulkItem, StockItem, AutoItem, Advance, Rollback
    <3>2. job'.kind = job.kind /\ job'.saved = job.saved
      <4>1. job \in Jobs
        BY <3>1 DEF IInv
      <4> QED
        BY <3>1, <4>1 DEF Jobs
    <3>3. CASE job.kind = "auto"
      BY <3>2, <3>3 DEF BatchClean
    <3>4. CASE job.kind # "auto"
      <4>1. UNCHANGED linkVars
        BY <1>3, <3>4 DEF BatchStep, BulkItem, StockItem, Rollback
      <4>2. \A t \in Tx : Linked(t)' <=> Linked(t)
        BY <4>1 DEF Linked, RefundLinked, ExpenseLinked, linkVars
      <4>3. \A t \in Tx : alloc'[t] = alloc[t] \/ ~Linked(t)
        BY <1>3, <3>1, BatchMoves
      <4> QED
        BY <3>1, <3>2, <3>4, <4>2, <4>3 DEF BatchClean
    <3> QED
      BY <3>3, <3>4
  <2> QED
    BY <2>1, <2>2
<1>4. CASE UNCHANGED vars
  BY <1>4 DEF vars, allocVars, linkVars, BatchClean, Linked, RefundLinked, ExpenseLinked
<1> QED
  BY <1>1, <1>2, <1>3, <1>4 DEF Next

LEMMA NextGrows ==
  ASSUME IInv, BatchClean, [Next]_vars, NEW t \in Tx, Grows(t)
  PROVE  ~Linked(t)
<1>1. alloc \in Tables
  BY DEF IInv, Sound, Typed
<1>2. CASE Call
  BY <1>1, <1>2, CallGrows
<1>3. CASE StartBatch \/ UNCHANGED vars
  <2>1. alloc'[t] = alloc[t]
    BY <1>3 DEF StartBatch, vars, allocVars
  <2> QED
    BY <1>1, <2>1, SameRowSameSum
<1>4. CASE BatchStep
  <2>1. CASE Rollback /\ job.kind # "auto"
    <3>1. alloc'[t] = job.saved.alloc[t] /\ job # Idle
      BY <1>4, <2>1 DEF Rollback, BatchStep
    <3>2. alloc'[t] # alloc[t]
      BY <1>1, SameRowSameSum
    <3> QED
      BY <2>1, <3>1, <3>2 DEF BatchClean
  <2> QED
    BY <1>4, <2>1, BatchMoves
<1> QED
  BY <1>2, <1>3, <1>4 DEF Next

(***************************************************************************)
(* No call, single or batched, applied at once or from a stale dialog, and *)
(* no rollback of a batch, gives money to receipts from a transaction that *)
(* already pays a refund or a manual expense.                              *)
(***************************************************************************)
THEOREM UsedTxNeverAllocated == Spec => NoAllocationOnUsedTx
<1>1. OutMoneyInit => BatchClean
  BY DEF OutMoneyInit, BatchClean
<1>2. IInv /\ BatchClean /\ [Next]_vars
        => [\A t \in Tx : receipt_tx_allocated(t)' > receipt_tx_allocated(t)
                            => ~RefundLinked(t) /\ ~ExpenseLinked(t)]_vars
  BY NextGrows DEF Grows, Linked
<1> QED
  BY <1>1, <1>2, InitIInv, NextKeeps, BatchCleanKept, PTL DEF Spec, NoAllocationOnUsedTx
=============================================================================
