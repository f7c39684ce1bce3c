---------------------------- MODULE SumTheorems -----------------------------
(***************************************************************************)
(* What the sums of module Sums do when one row changes, and that they are *)
(* sums.                                                                   *)
(***************************************************************************)
EXTENDS Sums, FiniteSetTheorems, WellFoundedInduction, TLAPS

\* The units of one row.
LEMMA RowUnits ==
    ASSUME NEW x, NEW n \in Nat
    PROVE  /\ IsFiniteSet({x} \X (1 .. n))
           /\ Cardinality({x} \X (1 .. n)) = n
<1>1. IsFiniteSet(1 .. n) /\ Cardinality(1 .. n) = n
  BY FS_Interval
<1>2. IsFiniteSet({x}) /\ Cardinality({x}) = 1
  BY FS_Singleton
<1>3. IsFiniteSet({x} \X (1 .. n))
      /\ Cardinality({x} \X (1 .. n)) = Cardinality({x}) * Cardinality(1 .. n)
  BY <1>1, <1>2, FS_Product
<1> QED
  BY <1>1, <1>2, <1>3

\* A bounded column over finitely many rows has a sum.
LEMMA TotalType ==
    ASSUME NEW D, IsFiniteSet(D), NEW M \in Nat, NEW f \in [D -> 0 .. M]
    PROVE  /\ IsFiniteSet(Units(f))
           /\ Total(f) \in Nat
<1>1. IsFiniteSet(D \X (1 .. M))
  <2>1. IsFiniteSet(1 .. M)
    BY FS_Interval
  <2> QED
    BY <2>1, FS_Product
<1>2. Units(f) \in SUBSET (D \X (1 .. M))
  BY DEF Units
<1> QED
  BY <1>1, <1>2, FS_Subset, FS_CardinalityType DEF Total

\* The units of the other rows.
OtherUnits(f, x) == {u \in Units(f) : u[1] # x}

\* The sum is the row at x plus the other rows.
LEMMA TotalSplit ==
    ASSUME NEW D, IsFiniteSet(D), NEW M \in Nat, NEW f \in [D -> 0 .. M],
           NEW x \in D
    PROVE  /\ IsFiniteSet(OtherUnits(f, x))
           /\ Cardinality(OtherUnits(f, x)) \in Nat
           /\ f[x] \in Nat
           /\ Total(f) = Cardinality(OtherUnits(f, x)) + f[x]
<1> DEFINE Others == OtherUnits(f, x)
           Row == {x} \X (1 .. f[x])
<1>1. Units(f) = Others \cup Row
  BY DEF Units, OtherUnits
<1>2. Others \cap Row = {}
  BY DEF OtherUnits
<1>3. IsFiniteSet(Others) /\ Cardinality(Others) \in Nat
  <2>1. IsFiniteSet(Units(f))
    BY TotalType
  <2>2. Others \in SUBSET Units(f)
    BY DEF OtherUnits
  <2> QED
    BY <2>1, <2>2, FS_Subset, FS_CardinalityType
<1>4. f[x] \in Nat
  OBVIOUS
<1>5. IsFiniteSet(Row) /\ Cardinality(Row) = f[x]
  BY <1>4, RowUnits
<1>6. Cardinality(Others \cup Row)
        = Cardinality(Others) + Cardinality(Row) - Cardinality(Others \cap Row)
  BY <1>3, <1>5, FS_Union
<1>7. Cardinality(Others \cap Row) = 0
  BY <1>2, FS_EmptySet
<1>8. Total(f) = Cardinality(Others) + f[x]
  <2> HIDE DEF Others, Row
  <2> QED
    BY <1>1, <1>3, <1>4, <1>5, <1>6, <1>7 DEF Total
<1> QED
  BY <1>3, <1>4, <1>8

\* Changing one row changes the sum by the difference.
LEMMA TotalUpdate ==
    ASSUME NEW D, IsFiniteSet(D), NEW M \in Nat,
           NEW f \in [D -> 0 .. M], NEW g \in [D -> 0 .. M],
           NEW x \in D, \A y \in D \ {x} : g[y] = f[y]
    PROVE  Total(g) = Total(f) - f[x] + g[x]
<1>1. OtherUnits(f, x) = OtherUnits(g, x)
  BY DEF Units, OtherUnits
<1>2. /\ Cardinality(OtherUnits(f, x)) \in Nat /\ f[x] \in Nat
      /\ Total(f) = Cardinality(OtherUnits(f, x)) + f[x]
  BY TotalSplit
<1>3. g[x] \in Nat /\ Total(g) = Cardinality(OtherUnits(g, x)) + g[x]
  BY TotalSplit
<1> QED
  BY <1>1, <1>2, <1>3

\* No row exceeds the sum.
LEMMA TotalAtLeast ==
    ASSUME NEW D, IsFiniteSet(D), NEW M \in Nat, NEW f \in [D -> 0 .. M],
           NEW x \in D
    PROVE  f[x] <= Total(f)
<1>1. /\ Cardinality(OtherUnits(f, x)) \in Nat
      /\ f[x] \in Nat
      /\ Total(f) = Cardinality(OtherUnits(f, x)) + f[x]
  BY TotalSplit
<1> QED
  BY <1>1

\* The sum over an empty table is 0.
LEMMA TotalZero ==
    ASSUME NEW D
    PROVE  Total([x \in D |-> 0]) = 0
<1>1. Units([x \in D |-> 0]) = {}
  BY DEF Units
<1> QED
  BY <1>1, FS_EmptySet DEF Total

\* The sum over no rows is 0.
LEMMA TotalEmpty ==
    ASSUME NEW f, DOMAIN f = {}
    PROVE  Total(f) = 0
<1>1. Units(f) = {}
  BY DEF Units
<1> QED
  BY <1>1, FS_EmptySet DEF Total

\* The sum of a sequence of rows is its last row plus those before it.
LEMMA TotalLast ==
    ASSUME NEW n \in Nat, NEW M \in Nat, NEW f \in [1 .. n + 1 -> 0 .. M]
    PROVE  /\ Total([j \in 1 .. n |-> f[j]]) \in Nat
           /\ Total(f) = Total([j \in 1 .. n |-> f[j]]) + f[n + 1]
<1> DEFINE g == [j \in 1 .. n |-> f[j]]
<1>1. IsFiniteSet(1 .. n + 1) /\ n + 1 \in 1 .. n + 1
  BY FS_Interval
<1>2. /\ Cardinality(OtherUnits(f, n + 1)) \in Nat
      /\ Total(f) = Cardinality(OtherUnits(f, n + 1)) + f[n + 1]
  BY <1>1, TotalSplit
<1>3. OtherUnits(f, n + 1) = Units(g)
  <2>1. \A x \in 1 .. n + 1 : x # n + 1 <=> x \in 1 .. n
    OBVIOUS
  <2>2. DOMAIN f = 1 .. n + 1 /\ DOMAIN g = 1 .. n /\ \A x \in 1 .. n : g[x] = f[x]
    OBVIOUS
  <2> HIDE DEF g
  <2> QED
    BY <2>1, <2>2 DEF OtherUnits, Units
<1> QED
  BY <1>2, <1>3 DEF Total

\* A sum over larger rows is larger.
LEMMA TotalMonotone ==
    ASSUME NEW D, IsFiniteSet(D), NEW M \in Nat,
           NEW f \in [D -> 0 .. M], NEW g \in [D -> 0 .. M], \A x \in D : f[x] <= g[x]
    PROVE  Total(f) <= Total(g)
<1>1. \A x \in D : {x} \X (1 .. f[x]) \subseteq {x} \X (1 .. g[x])
  OBVIOUS
<1>2. Units(f) \subseteq Units(g)
  BY <1>1 DEF Units
<1>3. IsFiniteSet(Units(g))
  BY TotalType
<1> QED
  BY <1>2, <1>3, FS_Subset DEF Total

-----------------------------------------------------------------------------
(* The cardinality is the sum: adding the rows up one by one gives Total.  *)

AKey(s) == CHOOSE x \in s : TRUE

\* The recursion the fold is: `iter` sums the rows of each set of keys.
SumsUp(f, iter) ==
    iter = [s \in SUBSET (DOMAIN f) |->
              IF s = {} THEN 0 ELSE f[AKey(s)] + iter[s \ {AKey(s)}]]

LEMMA FoldIsChosen ==
    ASSUME NEW f
    PROVE  SumOf(f) = (CHOOSE iter : SumsUp(f, iter))[DOMAIN f]
  BY DEF SumOf, MapThenFoldSet, SumsUp, AKey

TotalsOf(f) == [s \in SUBSET (DOMAIN f) |-> Total([x \in s |-> f[x]])]

\* The totals of the parts satisfy the recursion.
LEMMA TotalsSumUp ==
    ASSUME NEW D, IsFiniteSet(D), NEW M \in Nat, NEW f \in [D -> 0 .. M]
    PROVE  SumsUp(f, TotalsOf(f))
<1>1. ASSUME NEW s \in SUBSET D, s = {}
      PROVE  Total([x \in s |-> f[x]]) = 0
  BY <1>1, TotalEmpty
<1>2. ASSUME NEW s \in SUBSET D, s # {}
      PROVE  Total([x \in s |-> f[x]])
               = f[AKey(s)] + Total([x \in s \ {AKey(s)} |-> f[x]])
  <2> DEFINE p == AKey(s)
             g == [x \in s |-> f[x]]
             h == [x \in s \ {p} |-> f[x]]
  <2>1. p \in s
    BY <1>2 DEF AKey
  <2>2. g \in [s -> 0 .. M] /\ g[p] = f[p] /\ DOMAIN g = s
    BY <2>1
  <2>3. DOMAIN h = s \ {p} /\ \A x \in s \ {p} : h[x] = g[x]
    OBVIOUS
  <2>4. IsFiniteSet(s)
    BY FS_Subset
  <2> HIDE DEF p, g, h
  <2>5. OtherUnits(g, p) = Units(h)
    BY <2>1, <2>2, <2>3 DEF OtherUnits, Units
  <2>6. /\ Cardinality(OtherUnits(g, p)) \in Nat /\ g[p] \in Nat
        /\ Total(g) = Cardinality(OtherUnits(g, p)) + g[p]
    BY <2>1, <2>2, <2>4, TotalSplit
  <2>7. Total(g) = f[p] + Total(h)
    BY <2>2, <2>5, <2>6 DEF Total
  <2> QED
    BY <2>7 DEF p, g, h
<1>3. DOMAIN f = D
  OBVIOUS
<1>4. \A s \in SUBSET D : s # {} => s \ {AKey(s)} \in SUBSET D
  OBVIOUS
<1>5. \A s \in SUBSET D : TotalsOf(f)[s] = Total([x \in s |-> f[x]])
  BY <1>3 DEF TotalsOf
<1>6. \A s \in SUBSET D : Total([x \in s |-> f[x]])
         = IF s = {} THEN 0 ELSE f[AKey(s)] + TotalsOf(f)[s \ {AKey(s)}]
  BY <1>1, <1>2, <1>4, <1>5
<1> QED
  BY <1>3, <1>6 DEF TotalsOf, SumsUp

\* No other function does: a set of keys on which one differs would have a
\* smallest.
LEMMA SumsAreUnique ==
    ASSUME NEW f, IsFiniteSet(DOMAIN f), NEW g, NEW h, SumsUp(f, g), SumsUp(f, h)
    PROVE  g = h
<1> DEFINE D == DOMAIN f
           Bad == {s \in SUBSET D : g[s] # h[s]}
<1>1. /\ g = [s \in SUBSET D |-> g[s]] /\ h = [s \in SUBSET D |-> h[s]]
      /\ \A s \in SUBSET D : g[s] = IF s = {} THEN 0 ELSE f[AKey(s)] + g[s \ {AKey(s)}]
      /\ \A s \in SUBSET D : h[s] = IF s = {} THEN 0 ELSE f[AKey(s)] + h[s \ {AKey(s)}]
  BY DEF SumsUp
<1>2. ASSUME Bad # {}
      PROVE  FALSE
  <2>1. IsWellFoundedOn(StrictSubsetOrdering(D), SUBSET D)
    BY FS_StrictSubsetOrderingWellFounded, FS_FiniteSubsetsOfFinite
  <2>2. PICK s \in Bad : \A r \in Bad : ~ (<<r, s>> \in StrictSubsetOrdering(D))
    <3>1. Bad \subseteq SUBSET D
      OBVIOUS
    <3> HIDE DEF Bad, D
    <3> QED
      BY <1>2, <2>1, <3>1, WFMin
  <2>3. s \in SUBSET D /\ s # {}
    BY <1>1
  <2> DEFINE r == s \ {AKey(s)}
  <2>4. r \in SUBSET D /\ r # s
    BY <2>3 DEF AKey
  <2>5. <<r, s>> \in StrictSubsetOrdering(D)
    BY <2>3, <2>4 DEF StrictSubsetOrdering
  <2>6. g[r] = h[r]
    BY <2>2, <2>4, <2>5
  <2> QED
    BY <1>1, <2>3, <2>6
<1> QED
  BY <1>1, <1>2

\* Total is the sum of the rows, taken one by one.
LEMMA TotalIsSumOf ==
    ASSUME NEW D, IsFiniteSet(D), NEW M \in Nat, NEW f \in [D -> 0 .. M]
    PROVE  Total(f) = SumOf(f)
<1> DEFINE iter == CHOOSE i : SumsUp(f, i)
<1>1. SumsUp(f, TotalsOf(f))
  BY TotalsSumUp
<1>2. SumsUp(f, iter)
  BY <1>1
<1>3. IsFiniteSet(DOMAIN f) /\ DOMAIN f = D
  OBVIOUS
<1>4. SumOf(f) = iter[D]
  BY <1>3, FoldIsChosen
<1> HIDE DEF iter
<1>5. iter = TotalsOf(f)
  BY <1>1, <1>2, <1>3, SumsAreUnique
<1>6. TotalsOf(f)[D] = Total(f)
  <2>1. [x \in D |-> f[x]] = f
    OBVIOUS
  <2> QED
    BY <1>3, <2>1 DEF TotalsOf
<1> QED
  BY <1>4, <1>5, <1>6
=============================================================================
