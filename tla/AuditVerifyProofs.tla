------------------------- MODULE AuditVerifyProofs --------------------------
(***************************************************************************)
(* Proofs about AuditVerify and AuditStats: for any entries, payloads,     *)
(* times and interleavings of the writer, a verification and a call of     *)
(* Stats.                                                                  *)
(***************************************************************************)
EXTENDS AuditStats, FiniteSetTheorems, TLAPS

-----------------------------------------------------------------------------
(***************************************************************************)
(* Sorting: InOrder lists a finite set in a strict total order, and is the *)
(* only sequence that does.                                                *)
(***************************************************************************)
StrictOrder(S, R) ==
    /\ \A x \in S : <<x, x>> \notin R
    /\ \A x, y, z \in S : <<x, y>> \in R /\ <<y, z>> \in R => <<x, z>> \in R
    /\ \A x, y \in S : x = y \/ <<x, y>> \in R \/ <<y, x>> \in R

Below(S, R, x) == {y \in S : <<y, x>> \in R}

(* What is before an element is some, not all, of the others.              *)
LEMMA BelowBound ==
  ASSUME NEW S, IsFiniteSet(S), NEW R, StrictOrder(S, R), NEW x \in S
  PROVE  /\ IsFiniteSet(Below(S, R, x)) /\ Cardinality(S) \in Nat
         /\ Cardinality(Below(S, R, x)) \in 0..(Cardinality(S) - 1)
  <1>1. Below(S, R, x) \in SUBSET S /\ x \notin Below(S, R, x)
    BY DEF Below, StrictOrder
  <1>2. /\ IsFiniteSet(Below(S, R, x)) /\ Cardinality(Below(S, R, x)) <= Cardinality(S)
        /\ Cardinality(Below(S, R, x)) # Cardinality(S)
    BY <1>1, FS_Subset
  <1>3. Cardinality(S) \in Nat /\ Cardinality(Below(S, R, x)) \in Nat
    BY <1>2, FS_CardinalityType
  <1> QED
    BY <1>2, <1>3

(* The later of two elements has more before it.                           *)
LEMMA BelowOrder ==
  ASSUME NEW S, IsFiniteSet(S), NEW R, StrictOrder(S, R),
         NEW x \in S, NEW y \in S, <<x, y>> \in R
  PROVE  Cardinality(Below(S, R, x)) < Cardinality(Below(S, R, y))
  <1>1. Below(S, R, x) \in SUBSET Below(S, R, y)
    BY Zenon DEF Below, StrictOrder
  <1>2. x \in Below(S, R, y) /\ x \notin Below(S, R, x)
    BY DEF Below, StrictOrder
  <1>3. /\ IsFiniteSet(Below(S, R, y))
        /\ Cardinality(Below(S, R, x)) \in Int /\ Cardinality(Below(S, R, y)) \in Int
    BY BelowBound
  <1>4. Cardinality(Below(S, R, x)) <= Cardinality(Below(S, R, y))
        /\ Cardinality(Below(S, R, y)) # Cardinality(Below(S, R, x))
    BY <1>1, <1>2, <1>3, FS_Subset
  <1> QED
    BY <1>3, <1>4

(* Every number of elements up to the last is before one of them.          *)
LEMMA BelowTaken ==
  ASSUME NEW S, IsFiniteSet(S), NEW R, StrictOrder(S, R), NEW k \in 0..(Cardinality(S) - 1)
  PROVE  \E x \in S : Cardinality(Below(S, R, x)) = k
  <1> DEFINE f == [x \in S |-> Cardinality(Below(S, R, x))]
             T == 0..(Cardinality(S) - 1)
  <1>1. Cardinality(S) \in Nat
    BY FS_CardinalityType
  <1>2. IsFiniteSet(T) /\ Cardinality(T) = Cardinality(S)
    BY <1>1, FS_Interval
  <1>3. f \in [S -> T]
    BY BelowBound
  <1>4. ASSUME NEW x \in S, NEW y \in S, x # y PROVE f[x] # f[y]
    <2>1. <<x, y>> \in R \/ <<y, x>> \in R
      BY <1>4 DEF StrictOrder
    <2>2. f[x] \in T /\ f[y] \in T
      BY <1>3
    <2>3. f[x] < f[y] \/ f[y] < f[x]
      BY <2>1, BelowOrder
    <2> QED
      BY <1>1, <2>2, <2>3
  <1>5. f \in Injection(S, T)
    BY <1>3, <1>4 DEF Injection, IsInjective
  <1> HIDE DEF f, T
  <1>6. f \in Surjection(S, T)
    BY <1>2, <1>5, FS_Injection
  <1>7. \A t \in T : \E x \in S : f[x] = t
    BY <1>6 DEF Surjection
  <1> QED
    BY <1>7 DEF f, T

(* The sorted sequence lists the set, in order, without repetition.        *)
LEMMA Sorted ==
  ASSUME NEW S, IsFiniteSet(S), NEW R, StrictOrder(S, R)
  PROVE  /\ Cardinality(S) \in Nat
         /\ InOrder(S, R) \in [1..Cardinality(S) -> S]
         /\ \A i, j \in 1..Cardinality(S) : i < j => <<InOrder(S, R)[i], InOrder(S, R)[j]>> \in R
         /\ \A x \in S : \E i \in 1..Cardinality(S) : InOrder(S, R)[i] = x
  <1> DEFINE n == Cardinality(S)
             s == InOrder(S, R)
             rank(x) == Cardinality(Below(S, R, x))
  <1>1. n \in Nat
    BY FS_CardinalityType
  <1>2. ASSUME NEW i \in 1..n
        PROVE  s[i] \in S /\ rank(s[i]) = i - 1
    <2>1. s[i] = CHOOSE x \in S : rank(x) = i - 1
      BY DEF InOrder, Below
    <2>2. i - 1 \in 0..(n - 1)
      BY <1>1
    <2>3. \E x \in S : rank(x) = i - 1
      BY <2>2, BelowTaken
    <2> QED
      BY <2>1, <2>3
  <1>3. s = [i \in 1..n |->
                CHOOSE x \in S : Cardinality({y \in S : <<y, x>> \in R}) = i - 1]
    BY Zenon DEF InOrder
  <1> HIDE DEF s
  <1>4. ASSUME NEW i \in 1..n, NEW j \in 1..n, i < j PROVE <<s[i], s[j]>> \in R
    <2>1. s[i] \in S /\ s[j] \in S /\ rank(s[i]) = i - 1 /\ rank(s[j]) = j - 1
      BY <1>2
    <2>2. CASE s[i] = s[j]
      BY <1>1, <1>4, <2>1, <2>2
    <2>3. CASE <<s[j], s[i]>> \in R
      <3>1. rank(s[j]) < rank(s[i])
        BY <2>1, <2>3, BelowOrder
      <3> QED
        BY <1>1, <1>4, <2>1, <3>1
    <2> QED
      BY <2>1, <2>2, <2>3 DEF StrictOrder
  <1>5. ASSUME NEW x \in S PROVE \E i \in 1..n : s[i] = x
    <2>1. rank(x) \in 0..(n - 1)
      BY BelowBound
    <2>2. PICK i \in 1..n : rank(x) = i - 1
      BY <1>1, <2>1
    <2>3. s[i] \in S /\ rank(s[i]) = rank(x)
      BY <1>2, <2>2
    <2>4. ~(rank(s[i]) < rank(x)) /\ ~(rank(x) < rank(s[i]))
      BY <1>1, <2>1, <2>3
    <2>5. <<s[i], x>> \notin R /\ <<x, s[i]>> \notin R
      BY <2>3, <2>4, BelowOrder
    <2> QED
      BY <2>3, <2>5 DEF StrictOrder
  <1> HIDE DEF n
  <1>6. s \in [1..n -> S]
    BY <1>2, <1>3
  <1> QED
    BY <1>1, <1>4, <1>5, <1>6 DEF n, s

(* A sequence that lists the set in order is the sorted one.               *)
LEMMA SortedUnique ==
  ASSUME NEW S, NEW R, StrictOrder(S, R), NEW m \in Nat, NEW t \in [1..m -> S],
         \A i, j \in 1..m : i < j => <<t[i], t[j]>> \in R,
         \A x \in S : \E i \in 1..m : t[i] = x
  PROVE  t = InOrder(S, R)
  <1>1. ASSUME NEW i \in 1..m, NEW j \in 1..m, i # j PROVE t[i] # t[j]
    <2>1. i < j \/ j < i
      BY <1>1
    <2> QED
      BY <2>1 DEF StrictOrder
  <1>2. t \in Bijection(1..m, S)
    BY <1>1 DEF Bijection, Injection, Surjection, IsInjective
  <1>3. IsFiniteSet(1..m) /\ Cardinality(1..m) = m
    BY FS_Interval
  <1>4. IsFiniteSet(S) /\ Cardinality(S) = m
    BY <1>2, <1>3, FS_Bijection DEF ExistsBijection
  <1>5. ASSUME NEW i \in 1..m PROVE Cardinality(Below(S, R, t[i])) = i - 1
    <2> DEFINE B == Below(S, R, t[i])
               D == 1..(i - 1)
               f == [j \in D |-> t[j]]
    <2>1. \A j \in D : j \in 1..m /\ t[j] \in B
      BY DEF Below
    <2>2. ASSUME NEW x \in B PROVE \E j \in D : t[j] = x
      <3>1. PICK j \in 1..m : t[j] = x
        BY DEF Below
      <3>2. <<t[j], t[i]>> \in R
        BY <3>1 DEF Below
      <3>3. ~(i < j) /\ i # j
        BY <3>2 DEF StrictOrder
      <3> QED
        BY <3>1, <3>3
    <2> HIDE DEF B
    <2>3. f \in Bijection(D, B)
      BY <1>1, <2>1, <2>2 DEF Bijection, Injection, Surjection, IsInjective
    <2>4. IsFiniteSet(D) /\ Cardinality(D) = i - 1
      BY FS_Interval
    <2> HIDE DEF D, f
    <2> QED
      BY <2>3, <2>4, FS_Bijection DEF B, ExistsBijection
  <1>6. ASSUME NEW i \in 1..m PROVE t[i] = CHOOSE x \in S : Cardinality({y \in S : <<y, x>> \in R}) = i - 1
    <2>1. ASSUME NEW x \in S, Cardinality(Below(S, R, x)) = i - 1 PROVE x = t[i]
      <3>1. PICK j \in 1..m : t[j] = x
        OBVIOUS
      <3>2. i - 1 = j - 1
        BY <1>5, <2>1, <3>1
      <3> QED
        BY <3>1, <3>2
    <2>2. \A x \in S : Cardinality({y \in S : <<y, x>> \in R}) = i - 1 <=> x = t[i]
      BY <1>5, <2>1 DEF Below
    <2> QED
      BY <2>2
  <1>7. t = [i \in 1..m |-> CHOOSE x \in S : Cardinality({y \in S : <<y, x>> \in R}) = i - 1]
    BY <1>6
  <1> QED
    BY Zenon, <1>4, <1>7 DEF InOrder

-----------------------------------------------------------------------------
(***************************************************************************)
(* The walker.                                                             *)
(***************************************************************************)

(* A set of natural numbers has a least element.                           *)
LEMMA LeastNatural ==
  ASSUME NEW T \in SUBSET Nat, T # {}
  PROVE  \E n \in T : \A m \in T : n <= m
  <1> DEFINE R == OpToRel(<, Nat)
  <1>1. IsWellFoundedOn(R, Nat)
    BY NatLessThanWellFounded
  <1> HIDE DEF R
  <1>2. PICK n \in T : \A m \in T : <<m, n>> \notin R
    BY <1>1, WFMin
  <1>3. \A m \in T : ~(m < n)
    BY <1>2 DEF OpToRel, R
  <1> QED
    BY <1>2, <1>3

(* The row at i follows the one before it, and has the digest it carries.  *)
Linked(anchor, rows, i) ==
    /\ rows[i].prev = IF i = 1 THEN anchor ELSE rows[i - 1].hash
    /\ Rehashes(rows[i])

(* VerifyChain says ok when every row it walks is linked, and only then.   *)
(* The walker after i rows is known in closed form, which shows that the   *)
(* recursive definition has a solution, and that it is this one.           *)
LEMMA WalkIsLinked ==
  ASSUME NEW anchor, NEW rows, Len(rows) \in Nat
  PROVE  VerifyResult(anchor, rows).ok <=> \A i \in 1..Len(rows) : Linked(anchor, rows, i)
  <1> DEFINE n == Len(rows)
             L(i) == Linked(anchor, rows, i)
             all(i) == \A j \in 1..i : L(j)
             first == CHOOSE k \in 1..n : ~L(k) /\ \A j \in 1..(k - 1) : L(j)
             at(i) == IF i = 0 THEN anchor ELSE rows[i].hash
             good(i) == [prev |-> at(i), position |-> i, ok |-> TRUE, brokenAt |-> None]
             bad == [prev |-> at(first - 1), position |-> first, ok |-> FALSE,
                     brokenAt |-> rows[first].entry.id]
             F == [i \in 0..n |-> IF all(i) THEN good(i) ELSE bad]
             w == Walk(anchor, rows)
  <1>1. all(0) /\ good(0) = NewChainWalker(anchor)
    BY DEF NewChainWalker
  <1>2. ASSUME NEW i \in 1..n PROVE F[i] = Step(F[i - 1], rows[i])
    <2>1. i - 1 \in 0..n /\ i \in 0..n /\ i # 0
      OBVIOUS
    <2>2. F[i - 1] = (IF all(i - 1) THEN good(i - 1) ELSE bad) /\ F[i] = (IF all(i) THEN good(i) ELSE bad)
      BY <2>1
    <2>3. all(i) <=> all(i - 1) /\ L(i)
      OBVIOUS
    <2>4. L(i) <=> rows[i].prev = at(i - 1) /\ Rehashes(rows[i])
      BY <2>1 DEF Linked
    <2> HIDE DEF F, L, all, at
    <2>5. CASE all(i - 1) /\ L(i)
      <3>1. (i - 1) + 1 = i /\ at(i) = rows[i].hash
        BY <2>1 DEF at
      <3>2. Step(good(i - 1), rows[i]) = good(i)
        BY <2>4, <2>5, <3>1 DEF Step, Stepped
      <3> QED
        BY <2>2, <2>3, <2>5, <3>2
    <2>6. CASE all(i - 1) /\ ~L(i)
      <3>1. ~L(i) /\ \A j \in 1..(i - 1) : L(j)
        BY <2>6 DEF all
      <3>2. first \in 1..n /\ ~L(first) /\ \A j \in 1..(first - 1) : L(j)
        BY <3>1
      <3> HIDE DEF first
      <3>3. first = i /\ (i - 1) + 1 = i
        BY <3>1, <3>2
      <3>4. Step(good(i - 1), rows[i]) = bad
        BY <2>4, <2>6, <3>3 DEF Step, Stepped
      <3> QED
        BY <2>2, <2>3, <2>6, <3>4
    <2>7. CASE ~all(i - 1)
      BY <2>2, <2>3, <2>7 DEF Step, Stepped
    <2> QED
      BY <2>5, <2>6, <2>7
  <1> HIDE DEF good, bad, L, all
  <1>3. F = [i \in 0..n |-> IF i = 0 THEN NewChainWalker(anchor) ELSE Step(F[i - 1], rows[i])]
    BY <1>1, <1>2
  <1> HIDE DEF F
  <1>4. w = [i \in 0..n |-> IF i = 0 THEN NewChainWalker(anchor) ELSE Step(w[i - 1], rows[i])]
    BY <1>3 DEF Walk
  <1> HIDE DEF w
  <1>5. w[n] = F[n]
    <2> DEFINE T == {i \in 0..n : w[i] # F[i]}
    <2>1. SUFFICES ASSUME T # {} PROVE FALSE
      OBVIOUS
    <2>2. PICK i \in T : \A j \in T : i <= j
      <3>1. T \in SUBSET Nat
        OBVIOUS
      <3> HIDE DEF T
      <3> QED
        BY <2>1, <3>1, LeastNatural
    <2>3. i # 0
      BY <1>3, <1>4, <2>2
    <2>4. i - 1 \in 0..n /\ ~(i <= i - 1)
      BY <2>3
    <2>5. w[i - 1] = F[i - 1]
      BY <2>2, <2>4
    <2>6. w[i] = Step(w[i - 1], rows[i]) /\ F[i] = Step(F[i - 1], rows[i])
      BY <1>2, <1>4, <2>3
    <2> QED
      BY <2>5, <2>6
  <1>6. F[n].ok <=> all(n)
    BY DEF F, good, bad
  <1> QED
    BY <1>5, <1>6 DEF VerifyResult, w, all, L

-----------------------------------------------------------------------------
(***************************************************************************)
(* Tables: finite sets of rows that seq tells apart.                       *)
(***************************************************************************)
Table(rows) ==
    /\ rows \subseteq Row /\ IsFiniteSet(rows)
    /\ \A r, q \in rows : r.seq = q.seq => r = q

(* The fields of a row.                                                    *)
LEMMA RowType ==
  ASSUME NEW r \in Row
  PROVE  /\ r.seq \in Nat /\ r.prev \in Hash /\ r.hash \in Hash
         /\ r.entry \in Entry /\ r.entry.id \in Ids /\ r.entry.ts \in Nat
  BY DEF Row, Entry

(* Some rows of a table are a table: the rows a statement selects.         *)
LEMMA TableSubset ==
  ASSUME NEW rows, Table(rows), NEW some \in SUBSET rows
  PROVE  Table(some)
  <1>1. IsFiniteSet(some)
    BY FS_Subset DEF Table
  <1> QED
    BY <1>1 DEF Table

(* The order of seq.                                                       *)
BySeq(rows) == {p \in rows \X rows : p[1].seq < p[2].seq}

(* No two rows of a table have the same seq.                               *)
LEMMA BySeqOrder ==
  ASSUME NEW rows, Table(rows)
  PROVE  /\ StrictOrder(rows, BySeq(rows))
         /\ \A r, q \in rows : <<r, q>> \in BySeq(rows) <=> r.seq < q.seq
         /\ InSeqOrder(rows) = InOrder(rows, BySeq(rows))
  <1> DEFINE R == BySeq(rows)
  <1>1. \A r \in rows : r.seq \in Nat
    BY RowType DEF Table
  <1>2. \A r, q \in rows : <<r, q>> \in R <=> r.seq < q.seq
    BY DEF BySeq
  <1> HIDE DEF R
  <1>3. StrictOrder(rows, R)
    <2>1. \A r \in rows : <<r, r>> \notin R
      BY <1>1, <1>2
    <2>2. ASSUME NEW x \in rows, NEW y \in rows, NEW z \in rows,
                 <<x, y>> \in R, <<y, z>> \in R
          PROVE  <<x, z>> \in R
      <3>1. x.seq \in Nat /\ y.seq \in Nat /\ z.seq \in Nat /\ x.seq < y.seq /\ y.seq < z.seq
        BY <1>1, <1>2, <2>2
      <3> QED
        BY <1>2, <3>1
    <2>3. ASSUME NEW x \in rows, NEW y \in rows, x # y
          PROVE  <<x, y>> \in R \/ <<y, x>> \in R
      <3>1. x.seq \in Nat /\ y.seq \in Nat /\ x.seq # y.seq
        BY <1>1, <2>3 DEF Table
      <3> QED
        BY <1>2, <3>1
    <2> QED
      BY Zenon, <2>1, <2>2, <2>3 DEF StrictOrder
  <1> QED
    BY Zenon, <1>2, <1>3 DEF InSeqOrder, BySeq, R

(* The rows of a table in the order of seq.                                *)
LEMMA SeqOrder ==
  ASSUME NEW rows, Table(rows)
  PROVE  /\ Cardinality(rows) \in Nat
         /\ InSeqOrder(rows) \in [1..Cardinality(rows) -> rows]
         /\ InSeqOrder(rows) \in Seq(rows) /\ Len(InSeqOrder(rows)) = Cardinality(rows)
         /\ \A i, j \in 1..Cardinality(rows) :
               i < j => InSeqOrder(rows)[i].seq < InSeqOrder(rows)[j].seq
         /\ \A r \in rows : \E i \in 1..Cardinality(rows) : InSeqOrder(rows)[i] = r
  <1> DEFINE s == InOrder(rows, BySeq(rows))
             n == Cardinality(rows)
  <1>1. /\ n \in Nat /\ s \in [1..n -> rows]
        /\ \A i, j \in 1..n : i < j => <<s[i], s[j]>> \in BySeq(rows)
        /\ \A r \in rows : \E i \in 1..n : s[i] = r
    BY BySeqOrder, Sorted DEF Table
  <1> HIDE DEF s, n
  <1>2. \A i, j \in 1..n : i < j => s[i].seq < s[j].seq
    BY <1>1, BySeqOrder
  <1>3. s \in Seq(rows) /\ Len(s) = n
    BY <1>1
  <1>4. InSeqOrder(rows) = s
    BY BySeqOrder DEF s
  <1> QED
    BY Zenon, <1>1, <1>2, <1>3, <1>4 DEF n

(* The head of a table is its last row.                                    *)
LEMMA HeadOf ==
  ASSUME NEW rows, Table(rows), NEW m \in rows, \A q \in rows : q.seq <= m.seq
  PROVE  HeadHash(rows) = m.hash
  <1>1. \A r \in rows : r.seq \in Nat
    BY RowType DEF Table
  <1>2. \A r \in rows : (\A q \in rows : q.seq <= r.seq) => r = m
    BY <1>1 DEF Table
  <1> QED
    BY <1>2 DEF HeadHash

(* A table with rows has a last one.                                       *)
LEMMA LastRow ==
  ASSUME NEW rows, Table(rows), rows # {}
  PROVE  \E m \in rows : \A q \in rows : q.seq <= m.seq
  <1> DEFINE n == Cardinality(rows)
             s == InSeqOrder(rows)
  <1>1. /\ n \in Nat /\ s \in [1..n -> rows]
        /\ \A i, j \in 1..n : i < j => s[i].seq < s[j].seq
        /\ \A r \in rows : \E i \in 1..n : s[i] = r
    BY SeqOrder
  <1>2. \A r \in rows : r.seq \in Nat
    BY RowType DEF Table
  <1> HIDE DEF n, s
  <1>3. n \in 1..n
    BY <1>1
  <1>4. s[n] \in rows
    BY <1>1, <1>3
  <1>5. ASSUME NEW q \in rows PROVE q.seq <= s[n].seq
    <2>1. PICK i \in 1..n : s[i] = q
      BY <1>1
    <2>2. i = n \/ i < n
      BY <1>1
    <2> QED
      BY <1>1, <1>2, <1>3, <1>4, <2>1, <2>2
  <1> QED
    BY <1>4, <1>5

(* The hash of the head of a table is a hash.                              *)
LEMMA HeadType ==
  ASSUME NEW rows, Table(rows)
  PROVE  HeadHash(rows) \in Hash
  <1>1. CASE rows = {}
    BY <1>1 DEF HeadHash, GenesisHash, Hash
  <1>2. CASE rows # {}
    <2>1. PICK m \in rows : \A q \in rows : q.seq <= m.seq
      BY <1>2, LastRow
    <2>2. HeadHash(rows) = m.hash
      BY <2>1, HeadOf
    <2> QED
      BY <2>2, RowType DEF Table
  <1> QED
    BY <1>1, <1>2

(* The hash the row before r carries, or the anchor.                       *)
Preceding(anchor, rows, r) ==
    IF Before(rows, r) = {} THEN anchor ELSE HeadHash(Before(rows, r))

(* What VerifyChain checks, row by row.                                    *)
LEMMA VerifyOk ==
  ASSUME NEW rows, Table(rows), NEW anchor
  PROVE  VerifyResult(anchor, InSeqOrder(rows)).ok
           <=> \A r \in rows : r.prev = Preceding(anchor, rows, r) /\ Rehashes(r)
  <1> DEFINE n == Cardinality(rows)
             s == InSeqOrder(rows)
  <1>1. /\ n \in Nat /\ s \in [1..n -> rows] /\ Len(s) = n
        /\ \A i, j \in 1..n : i < j => s[i].seq < s[j].seq
        /\ \A r \in rows : \E i \in 1..n : s[i] = r
    BY SeqOrder
  <1>2. \A r \in rows : r.seq \in Nat
    BY RowType DEF Table
  <1> HIDE DEF n, s
  <1>3. ASSUME NEW i \in 1..n
        PROVE  Preceding(anchor, rows, s[i]) = IF i = 1 THEN anchor ELSE s[i - 1].hash
    <2> DEFINE B == Before(rows, s[i])
    <2>1. ASSUME NEW q \in B PROVE \E j \in 1..n : j < i /\ s[j] = q
      <3>1. q \in rows /\ q.seq < s[i].seq
        BY DEF Before
      <3>2. PICK j \in 1..n : s[j] = q
        BY <1>1, <3>1
      <3>3. ~(i < j) /\ i # j
        <4>1. s[i].seq \in Nat /\ s[j].seq \in Nat /\ s[j].seq < s[i].seq
          BY <1>1, <1>2, <3>1, <3>2
        <4>2. i < j => s[i].seq < s[j].seq
          BY <1>1
        <4> QED
          BY <4>1, <4>2
      <3> QED
        BY <3>2, <3>3
    <2>2. CASE i = 1
      <3>1. B = {}
        BY <2>1, <2>2
      <3> QED
        BY <2>2, <3>1 DEF Preceding
    <2>3. CASE i # 1
      <3>1. i - 1 \in 1..n /\ i - 1 < i
        BY <1>1, <2>3
      <3>2. s[i - 1] \in B
        BY <1>1, <3>1 DEF Before
      <3>3. ASSUME NEW q \in B PROVE q.seq <= s[i - 1].seq
        <4>1. PICK j \in 1..n : j < i /\ s[j] = q
          BY <2>1
        <4>2. j = i - 1 \/ j < i - 1
          BY <4>1
        <4>3. s[j].seq \in Nat /\ s[i - 1].seq \in Nat
          BY <1>1, <1>2, <3>1
        <4> QED
          BY <1>1, <3>1, <4>1, <4>2, <4>3
      <3>4. B \in SUBSET rows
        BY DEF Before
      <3> HIDE DEF B
      <3>5. Table(B)
        BY <3>4, TableSubset
      <3>6. HeadHash(B) = s[i - 1].hash /\ B # {}
        BY <3>2, <3>3, <3>5, HeadOf
      <3> QED
        BY <2>3, <3>6 DEF Preceding, B
    <2> QED
      BY <2>2, <2>3
  <1>4. \A i \in 1..n : Linked(anchor, s, i) <=> s[i].prev = Preceding(anchor, rows, s[i]) /\ Rehashes(s[i])
    BY Zenon, <1>3 DEF Linked
  <1>5. VerifyResult(anchor, s).ok <=> \A i \in 1..n : Linked(anchor, s, i)
    BY <1>1, WalkIsLinked
  <1>6. (\A i \in 1..n : s[i].prev = Preceding(anchor, rows, s[i]) /\ Rehashes(s[i]))
          <=> \A r \in rows : r.prev = Preceding(anchor, rows, r) /\ Rehashes(r)
    BY <1>1
  <1> QED
    BY <1>4, <1>5, <1>6 DEF s

-----------------------------------------------------------------------------
(***************************************************************************)
(* The inductive invariant.                                                *)
(***************************************************************************)
LogInv ==
    /\ Table(log) /\ nextSeq \in Nat /\ clock \in Nat /\ built \subseteq Entry
    /\ \A r \in log : r.seq < nextSeq
    /\ column \in [Ids -> DOMAIN ReadBack]

(* What is true of a log nobody has altered, and of one somebody has.      *)
Unread == \E r \in log : ReadBack[column[r.entry.id]] # Hashed[r.entry.id]

AlterationInv ==
    /\ touched = None => Intact(log) /\ column = Stored
    /\ touched # None =>
          /\ touched.how = "payload" => Unread
          /\ touched.how # "payload" => column = Stored
          /\ touched.how # "payload" /\ (touched.last => touched.how = "rewrite") => ~Intact(log)

(* A call that has its anchor has the hash it would have read from the     *)
(* rows that were there then.                                              *)
VerifierInv ==
    /\ DOMAIN verifier = {"at", "from", "to", "anchor", "next", "result"}
    /\ verifier.at = "anchored" =>
          /\ touched = None
          /\ verifier.from \in Nat /\ verifier.to \in Nat
          /\ verifier.next \in Nat /\ verifier.next <= nextSeq
          /\ verifier.anchor =
                AnchorBefore({r \in log : r.seq < verifier.next}, verifier.from)
    /\ AlarmHasCause

(* What a call of Stats has read so far is still bounded by the log.       *)
BlockedNow == Blocked(Since(log, stats.since))

TotalsFit ==
    /\ stats.totals.allowed \in Nat /\ stats.totals.blocked \in Nat
    /\ stats.totals.allowed + stats.totals.blocked = stats.totals.total
    /\ stats.totals.allowed <= Cardinality(With(Since(log, stats.since), "verdict", "allow"))
    /\ stats.totals.blocked <= Cardinality(BlockedNow)

RankingFits(ranking) ==
    /\ Counted(ranking) \in Nat /\ Counted(ranking) <= Cardinality(BlockedNow)
    /\ Len(ranking) < TopLimit => stats.totals.blocked <= Counted(ranking)

StatsInv ==
    /\ DOMAIN stats = {"at", "since", "totals", "ips", "rules", "series"}
    /\ stats.since \in Nat
    /\ stats.at # "idle" => touched = None
    /\ stats.at \in {"ips", "rules", "series"} => TotalsFit
    /\ stats.at \in {"rules", "series"} => RankingFits(stats.ips)
    /\ stats.at = "series" => RankingFits(stats.rules)
    /\ FiguresFit

IInv == LogInv /\ AlterationInv /\ VerifierInv /\ StatsInv

-----------------------------------------------------------------------------
(***************************************************************************)
(* The log grows.                                                          *)
(***************************************************************************)

(* A row sealed against the head extends a table, and an intact chain.     *)
LEMMA SealExtends ==
  ASSUME NEW rows, Table(rows), NEW e \in Entry, NEW n \in Nat, \A r \in rows : r.seq < n,
         NEW row, row = Seal(e, HeadHash(rows), n)
  PROVE  /\ row \in Row /\ row.seq = n /\ Table(rows \cup {row})
         /\ Intact(rows) => Intact(rows \cup {row})
  <1> DEFINE more == rows \cup {row}
  <1>1. HeadHash(rows) \in Hash
    BY HeadType
  <1>2. /\ row.seq = n /\ row.entry = e /\ row.prev = HeadHash(rows)
        /\ row.hash = ComputeHash(HeadHash(rows), e)
    BY DEF Seal
  <1>3. ComputeHash(HeadHash(rows), e) \in Hash
    BY <1>1 DEF ComputeHash, Hash
  <1>4. row \in Row
    BY <1>1, <1>3 DEF Seal, Row
  <1>5. \A r \in rows : r.seq \in Nat
    BY RowType DEF Table
  <1>6. Table(more)
    <2>1. IsFiniteSet(more)
      BY FS_AddElement DEF Table
    <2>2. \A r \in rows : r.seq # row.seq
      BY <1>2, <1>5
    <2>3. \A r, q \in more : r.seq = q.seq => r = q
      BY <2>2 DEF Table
    <2> HIDE DEF more
    <2>4. more \subseteq Row
      BY <1>4 DEF Table, more
    <2> QED
      BY <2>1, <2>3, <2>4 DEF Table
  <1>7. ASSUME Intact(rows), NEW r \in more
        PROVE  r.prev = HeadHash(Before(more, r)) /\ r.hash = ComputeHash(r.prev, r.entry)
    <2>1. CASE r = row
      <3>1. Before(more, r) = rows
        BY <1>2, <1>5, <2>1 DEF Before
      <3> QED
        BY <1>2, <2>1, <3>1
    <2>2. CASE r \in rows
      <3>1. Before(more, r) = Before(rows, r)
        BY <1>2, <1>5, <2>2 DEF Before
      <3> QED
        BY <1>7, <2>2, <3>1 DEF Intact
    <2> QED
      BY <2>1, <2>2
  <1> QED
    BY <1>2, <1>4, <1>6, <1>7 DEF Intact

(* A step of the writer adds rows at the end and removes none.             *)
LEMMA GrowStep ==
  ASSUME LogInv, Grow
  PROVE  /\ LogInv' /\ log \subseteq log' /\ nextSeq <= nextSeq'
         /\ \A r \in log' : r \in log \/ r.seq >= nextSeq
         /\ Intact(log) => Intact(log)'
  <1>1. /\ Table(log) /\ nextSeq \in Nat /\ clock \in Nat /\ built \subseteq Entry
        /\ \A r \in log : r.seq < nextSeq
        /\ column' = column /\ column \in [Ids -> DOMAIN ReadBack]
    BY DEF LogInv, Grow
  <1>2. \A r \in log : r.seq \in Nat
    BY <1>1, RowType DEF Table
  <1>3. CASE \E lost \in SUBSET built, e \in built : Store(e, lost)
    <2>1. PICK lost \in SUBSET built, e \in built : Store(e, lost)
      BY <1>3
    <2> DEFINE row == Seal(e, HeadHash(log), nextSeq)
    <2>2. /\ log' = log \cup {row} /\ nextSeq' = nextSeq + 1 /\ clock' = clock
          /\ built' \subseteq built
      BY <2>1 DEF Store
    <2> HIDE DEF row
    <2>3. /\ row \in Row /\ row.seq = nextSeq /\ Table(log \cup {row})
          /\ Intact(log) => Intact(log \cup {row})
      BY <1>1, SealExtends DEF row
    <2>4. \A r \in log' : r.seq < nextSeq'
      BY <1>1, <1>2, <2>2, <2>3
    <2>5. Table(log)' /\ (Intact(log) => Intact(log)')
      BY <2>2, <2>3 DEF Table, Intact, Before, HeadHash
    <2>6. nextSeq' \in Nat /\ nextSeq <= nextSeq' /\ built' \subseteq Entry /\ clock' \in Nat
      BY <1>1, <2>2
    <2>7. LogInv'
      BY <1>1, <2>4, <2>5, <2>6 DEF LogInv
    <2> QED
      BY <1>1, <2>2, <2>3, <2>5, <2>6, <2>7
  <1>4. CASE Tick \/ (\E id \in Ids : Build(id) \/ Acknowledge(id)) \/ \E lost \in SUBSET built : Lose(lost)
    <2>1. log' = log /\ nextSeq' = nextSeq
      BY <1>4 DEF Tick, Build, Acknowledge, Lose
    <2>2. clock' \in Nat
      BY <1>1, <1>4 DEF Tick, Build, Acknowledge, Lose
    <2>3. built' \subseteq Entry
      <3>1. CASE \E id \in Ids : Build(id)
        <4>1. PICK id \in Ids : built' = built \cup {[id |-> id, ts |-> clock]}
          BY <3>1 DEF Build
        <4> QED
          BY <1>1, <4>1 DEF Entry
      <3>2. CASE ~\E id \in Ids : Build(id)
        BY <1>1, <1>4, <3>2 DEF Tick, Acknowledge, Lose
      <3> QED
        BY <3>1, <3>2
    <2>4. Table(log)' /\ (Intact(log) => Intact(log)')
      BY <1>1, <2>1 DEF Table, Intact, Before, HeadHash
    <2>5. LogInv'
      BY <1>1, <2>1, <2>2, <2>3, <2>4 DEF LogInv
    <2> QED
      BY <1>1, <2>1, <2>4, <2>5
  <1> QED
    BY <1>3, <1>4 DEF Grow, Next

-----------------------------------------------------------------------------
(***************************************************************************)
(* A row is altered.                                                       *)
(***************************************************************************)

(* A row that is not the last has a next one.                              *)
LEMMA NextRow ==
  ASSUME NEW rows, Table(rows), NEW r \in rows, ~\A q \in rows : q.seq <= r.seq
  PROVE  \E m \in rows : r.seq < m.seq /\ \A q \in rows : q.seq <= r.seq \/ m.seq <= q.seq
  <1> DEFINE T == {q.seq : q \in {p \in rows : r.seq < p.seq}}
  <1>1. \A q \in rows : q.seq \in Nat
    BY RowType DEF Table
  <1>2. T \in SUBSET Nat /\ T # {}
    BY <1>1
  <1>3. PICK n \in T : \A m \in T : n <= m
    <2> HIDE DEF T
    <2> QED
      BY <1>2, LeastNatural
  <1>4. PICK m \in rows : r.seq < m.seq /\ m.seq = n
    OBVIOUS
  <1>5. ASSUME NEW q \in rows PROVE q.seq <= r.seq \/ m.seq <= q.seq
    <2>1. r.seq < q.seq => q.seq \in T
      OBVIOUS
    <2> HIDE DEF T
    <2> QED
      BY <1>1, <1>3, <1>4, <2>1
  <1> QED
    BY <1>4, <1>5

(* A row whose entry is rewritten: the entry differs, the hash is kept.    *)
LEMMA RewrittenRow ==
  ASSUME NEW r \in Row
  PROVE  /\ Rewritten(r) \in Row /\ Rewritten(r).seq = r.seq /\ Rewritten(r).prev = r.prev
         /\ Rewritten(r).hash = r.hash /\ Rewritten(r).entry \in Entry
         /\ Rewritten(r).entry # r.entry
  <1>1. r.entry \in Entry /\ r.entry.ts \in Nat
    BY RowType
  <1>2. Rewritten(r).entry.ts = IF r.entry.ts = 1 THEN 2 ELSE 1
    BY DEF Rewritten, Row, Entry
  <1>3. Rewritten(r).entry.ts # r.entry.ts
    BY <1>1, <1>2
  <1>4. Rewritten(r).entry \in Entry
    BY DEF Rewritten, Row, Entry
  <1> QED
    BY <1>3, <1>4 DEF Rewritten, Row

(* A row that is rewritten and carries the hash of what it holds now.      *)
LEMMA RehashedRow ==
  ASSUME NEW r \in Row
  PROVE  /\ Rehashed(r) \in Row /\ Rehashed(r).seq = r.seq
         /\ Rehashed(r).hash = ComputeHash(r.prev, Rewritten(r).entry)
  <1>1. /\ Rewritten(r) \in Row /\ Rewritten(r).seq = r.seq /\ Rewritten(r).prev = r.prev
        /\ Rewritten(r).entry \in Entry /\ r.prev \in Hash
    BY RewrittenRow, RowType
  <1>2. ComputeHash(Rewritten(r).prev, Rewritten(r).entry) \in Hash
    BY <1>1 DEF ComputeHash, Hash
  <1> QED
    BY <1>1, <1>2 DEF Rehashed, Row

(* Digests of different entries, and of more or fewer, are different.      *)
LEMMA DigestsDiffer ==
  ASSUME NEW h \in Hash, NEW e \in Entry, NEW f \in Entry
  PROVE  /\ ComputeHash(h, e) # h
         /\ e # f => ComputeHash(h, e) # ComputeHash(h, f)
  <1>1. h \in Seq(Entry) /\ Len(h) \in Nat
    BY DEF Hash
  <1>2. Len(Append(h, e)) = Len(h) + 1
    BY <1>1
  <1>3. Append(h, e)[Len(h) + 1] = e /\ Append(h, f)[Len(h) + 1] = f
    BY <1>1
  <1> QED
    BY <1>1, <1>2, <1>3 DEF ComputeHash

(* The three ways to break a chain at r: its content no longer has its     *)
(* hash; it has another hash than the next row says; it is gone.           *)
LEMMA RewriteBreaks ==
  ASSUME NEW rows, Table(rows), Intact(rows), NEW r \in rows
  PROVE  ~Intact((rows \ {r}) \cup {Rewritten(r)})
  <1> DEFINE q == Rewritten(r)
  <1>1. r \in Row /\ r.prev \in Hash /\ r.entry \in Entry
    BY RowType DEF Table
  <1>2. q.prev = r.prev /\ q.hash = r.hash /\ q.entry \in Entry /\ q.entry # r.entry
    BY <1>1, RewrittenRow
  <1>3. r.hash = ComputeHash(r.prev, r.entry)
    BY DEF Intact
  <1> HIDE DEF q
  <1>4. q.hash # ComputeHash(q.prev, q.entry)
    BY <1>1, <1>2, <1>3, DigestsDiffer
  <1> QED
    BY <1>4 DEF Intact, q

(* A row that is rewritten and rehashed no longer fits the row after it.   *)
LEMMA RehashBreaks ==
  ASSUME NEW rows, Table(rows), Intact(rows), NEW r \in rows, ~\A q \in rows : q.seq <= r.seq
  PROVE  ~Intact((rows \ {r}) \cup {Rehashed(r)})
  <1> DEFINE q == Rehashed(r)
             new == (rows \ {r}) \cup {q}
  <1>1. r \in Row /\ r.prev \in Hash /\ r.entry \in Entry /\ \A m \in rows : m.seq \in Nat
    BY RowType DEF Table
  <1>2. q \in Row /\ q.seq = r.seq /\ q.hash = ComputeHash(r.prev, Rewritten(r).entry)
    BY <1>1, RehashedRow
  <1>3. q.hash # r.hash
    <2>1. Rewritten(r).entry \in Entry /\ Rewritten(r).entry # r.entry
      BY <1>1, RewrittenRow
    <2>2. r.hash = ComputeHash(r.prev, r.entry)
      BY DEF Intact
    <2> QED
      BY <1>1, <1>2, <2>1, <2>2, DigestsDiffer
  <1> HIDE DEF q
  <1>4. PICK m \in rows : r.seq < m.seq /\ \A p \in rows : p.seq <= r.seq \/ m.seq <= p.seq
    BY NextRow
  <1>5. Table(new)
    <2>1. IsFiniteSet(new)
      <3>1. IsFiniteSet(rows \ {r})
        BY FS_RemoveElement DEF Table
      <3> QED
        BY <3>1, FS_AddElement
    <2>2. \A p \in rows : p.seq = q.seq => p = r
      BY <1>2 DEF Table
    <2> QED
      BY <1>2, <2>1, <2>2 DEF Table
  <1>6. Table(Before(rows, m)) /\ Table(Before(new, m))
    BY <1>5, TableSubset DEF Before
  <1>7. HeadHash(Before(rows, m)) = r.hash
    <2>1. r \in Before(rows, m) /\ \A p \in Before(rows, m) : p.seq <= r.seq
      BY <1>1, <1>4 DEF Before
    <2> QED
      BY <1>6, <2>1, HeadOf
  <1>8. HeadHash(Before(new, m)) = q.hash
    <2>1. q \in Before(new, m) /\ \A p \in Before(new, m) : p.seq <= q.seq
      BY <1>1, <1>2, <1>4 DEF Before
    <2> QED
      BY <1>6, <2>1, HeadOf
  <1>9. m.prev = r.hash
    BY <1>7 DEF Intact
  <1>10. m \in new
    BY <1>1, <1>4
  <1> HIDE DEF new
  <1>11. ~Intact(new)
    BY <1>3, <1>8, <1>9, <1>10 DEF Intact
  <1> QED
    BY <1>11 DEF new, q

(* Without a row, the row after it does not fit the one before.            *)
LEMMA RemovalBreaks ==
  ASSUME NEW rows, Table(rows), Intact(rows), NEW r \in rows, ~\A q \in rows : q.seq <= r.seq
  PROVE  ~Intact(rows \ {r})
  <1> DEFINE new == rows \ {r}
  <1>1. r \in Row /\ r.prev \in Hash /\ r.entry \in Entry /\ \A m \in rows : m.seq \in Nat
    BY RowType DEF Table
  <1>2. PICK m \in rows : r.seq < m.seq /\ \A p \in rows : p.seq <= r.seq \/ m.seq <= p.seq
    BY NextRow
  <1>3. HeadHash(Before(rows, m)) = r.hash
    <2>1. r \in Before(rows, m) /\ \A p \in Before(rows, m) : p.seq <= r.seq
      BY <1>1, <1>2 DEF Before
    <2>2. Table(Before(rows, m))
      BY TableSubset DEF Before
    <2> QED
      BY <2>1, <2>2, HeadOf
  <1>4. Before(new, m) = Before(rows, r)
    <2>1. \A p \in rows : p # r => p.seq # r.seq
      BY DEF Table
    <2> QED
      BY <1>1, <1>2, <2>1 DEF Before
  <1>5. m.prev = r.hash /\ r.prev = HeadHash(Before(rows, r)) /\ r.hash = ComputeHash(r.prev, r.entry)
    BY <1>3 DEF Intact
  <1>6. r.hash # r.prev
    BY <1>1, <1>5, DigestsDiffer
  <1>7. m \in new
    BY <1>1, <1>2
  <1> QED
    BY <1>4, <1>5, <1>6, <1>7 DEF Intact

(* Tamper leaves a table, and one of the faults AlterationInv names.       *)
LEMMA TamperStep ==
  ASSUME LogInv, AlterationInv, NEW r \in log, Tamper(r)
  PROVE  LogInv' /\ AlterationInv' /\ touched' # None
  <1>1. /\ touched = None /\ Table(log) /\ Intact(log) /\ column = Stored
        /\ nextSeq' = nextSeq /\ clock' = clock /\ built' = built
        /\ nextSeq \in Nat /\ clock \in Nat /\ built \subseteq Entry
        /\ \A q \in log : q.seq < nextSeq
        /\ column \in [Ids -> DOMAIN ReadBack]
    BY DEF LogInv, AlterationInv, Tamper
  <1>2. r \in Row /\ r.entry.id \in Ids
    BY <1>1, RowType DEF Table
  <1>3. PICK how \in Alterations :
         /\ touched' = [how |-> how, id |-> r.entry.id, last |-> \A q \in log : q.seq <= r.seq]
         /\ log' = (log \ {r}) \cup CASE how = "payload" -> {r}
                                      [] how = "rewrite" -> {Rewritten(r)}
                                      [] how = "rehash"  -> {Rehashed(r)}
                                      [] how = "remove"  -> {}
         /\ IF how = "payload"
            THEN \E c \in DOMAIN ReadBack \ {column[r.entry.id]} :
                    column' = [column EXCEPT ![r.entry.id] = c]
            ELSE UNCHANGED column
    BY DEF Tamper
  <1>4. /\ touched' # None /\ touched'.how = how
        /\ touched'.last <=> \A q \in log : q.seq <= r.seq
    <2>1. touched' \in [how : Alterations, id : Ids, last : BOOLEAN]
      BY <1>2, <1>3
    <2> QED
      BY <1>3, <2>1, VerifyAssumption
  <1>5. PICK q \in Row : /\ q.seq = r.seq /\ log' \subseteq (log \ {r}) \cup {q}
                         /\ how = "payload" => log' = log
                         /\ how = "rewrite" => log' = (log \ {r}) \cup {Rewritten(r)}
                         /\ how = "rehash" => log' = (log \ {r}) \cup {Rehashed(r)}
                         /\ how = "remove" => log' = log \ {r}
    <2>1. CASE how = "payload"
      BY <1>2, <1>3, <2>1
    <2>2. CASE how = "rewrite"
      BY <1>2, <1>3, <2>2, RewrittenRow
    <2>3. CASE how = "rehash"
      BY <1>2, <1>3, <2>3, RehashedRow
    <2>4. CASE how = "remove"
      BY <1>2, <1>3, <2>4
    <2> QED
      BY <2>1, <2>2, <2>3, <2>4 DEF Alterations
  <1>6. Table(log)' /\ \A m \in log' : m.seq < nextSeq
    <2> DEFINE most == (log \ {r}) \cup {q}
    <2>1. IsFiniteSet(most)
      <3>1. IsFiniteSet(log \ {r})
        BY <1>1, FS_RemoveElement DEF Table
      <3> QED
        BY <3>1, FS_AddElement
    <2>2. \A m \in log : m.seq = q.seq => m = r
      BY <1>1, <1>5 DEF Table
    <2>3. most \subseteq Row /\ \A m, p \in most : m.seq = p.seq => m = p
      BY <1>1, <1>5, <2>2 DEF Table
    <2>4. \A m \in most : m.seq < nextSeq
      BY <1>1, <1>5
    <2>5. log' \subseteq most
      BY <1>5
    <2> HIDE DEF most
    <2>6. IsFiniteSet(log')
      BY <2>1, <2>5, FS_Subset
    <2> QED
      BY <2>3, <2>4, <2>5, <2>6 DEF Table
  <1>7. column' \in [Ids -> DOMAIN ReadBack] /\ (how # "payload" => column' = Stored)
    BY <1>1, <1>3
  <1>8. LogInv'
    BY <1>1, <1>6, <1>7 DEF LogInv
  <1>9. ASSUME how = "payload" PROVE Unread'
    <2>1. PICK c \in DOMAIN ReadBack \ {column[r.entry.id]} :
             column' = [column EXCEPT ![r.entry.id] = c]
      BY <1>3, <1>9
    <2>2. column'[r.entry.id] = c /\ c # Stored[r.entry.id]
      BY <1>1, <1>2, <2>1
    <2>3. ReadBack[column'[r.entry.id]] # Hashed[r.entry.id]
      BY <1>2, <2>1, <2>2, EncodingAssumption
    <2>4. r \in log'
      BY <1>5, <1>9
    <2> QED
      BY <2>3, <2>4 DEF Unread
  <1>10. ASSUME how # "payload", touched'.last => how = "rewrite" PROVE ~Intact(log)'
    <2>1. ~Intact(log')
      <3>1. CASE how = "rewrite"
        BY <1>1, <1>5, <3>1, RewriteBreaks
      <3>2. CASE how = "rehash"
        BY <1>1, <1>4, <1>5, <1>10, <3>2, RehashBreaks
      <3>3. CASE how = "remove"
        BY <1>1, <1>4, <1>5, <1>10, <3>3, RemovalBreaks
      <3> QED
        BY <1>10, <3>1, <3>2, <3>3 DEF Alterations
    <2> QED
      BY <2>1 DEF Intact, Before, HeadHash
  <1> QED
    BY <1>4, <1>7, <1>8, <1>9, <1>10 DEF AlterationInv

(* What the invariant says about the whole log.                            *)
LEMMA Detection ==
  ASSUME LogInv, AlterationInv
  PROVE  TamperingIsDetected
  <1> DEFINE ok == PostgresVerify(log, 0, 0).ok
             read(r) == ReadBack[column[r.entry.id]] = Hashed[r.entry.id]
  <1>1. Table(log)
    BY DEF LogInv
  <1>2. AnchorBefore(log, 0) = GenesisHash /\ TimeRange(log, 0, 0) = log
    BY DEF AnchorBefore, TimeRange
  <1>3. ok <=> \A r \in log : r.prev = Preceding(GenesisHash, log, r) /\ Rehashes(r)
    BY <1>1, <1>2, VerifyOk DEF PostgresVerify
  <1>4. \A r \in log : Preceding(GenesisHash, log, r) = HeadHash(Before(log, r))
    BY DEF Preceding, HeadHash
  <1>5. ok <=> Intact(log) /\ \A r \in log : read(r)
    BY <1>3, <1>4 DEF Intact, Rehashes
  <1>6. Unread <=> ~\A r \in log : read(r)
    BY DEF Unread
  <1>7. ASSUME column = Stored PROVE ~Unread
    <2>1. \A r \in log : r.entry.id \in Ids
      BY <1>1, RowType DEF Table
    <2>2. \A id \in Ids : ReadBack[Stored[id]] = Hashed[id]
      BY EncodingAssumption, VerifyAssumption
    <2> QED
      BY <1>7, <2>1, <2>2 DEF Unread
  <1> HIDE DEF ok, read
  <1>8. ok <=> Intact(log) /\ ~Unread
    BY <1>5, <1>6
  <1>9. CASE touched = None
    BY <1>7, <1>8, <1>9 DEF AlterationInv, TamperingIsDetected, ok
  <1>10. CASE touched # None
    BY <1>7, <1>8, <1>10 DEF AlterationInv, TamperingIsDetected, ok
  <1> QED
    BY <1>9, <1>10

-----------------------------------------------------------------------------
(***************************************************************************)
(* A verification.                                                         *)
(***************************************************************************)

(* When timestamps follow the log, what is before a row of a range is in   *)
(* the range or before all of it.                                          *)
LEMMA RangeIsSegment ==
  ASSUME Table(log), TimeOrdered, NEW from \in Nat, NEW to \in Nat,
         NEW r \in TimeRange(log, from, to)
  PROVE  LET S == TimeRange(log, from, to)
             early == {q \in log : q.entry.ts < from}
         IN  /\ Before(S, r) # {} => HeadHash(Before(S, r)) = HeadHash(Before(log, r))
             /\ Before(S, r) = {} => Before(log, r) = (IF from = 0 THEN {} ELSE early)
  <1> DEFINE S == TimeRange(log, from, to)
             early == {q \in log : q.entry.ts < from}
  <1>1. \A q \in log : q.seq \in Nat /\ q.entry.ts \in Nat
    BY RowType DEF Table
  <1>2. r \in log /\ (from = 0 \/ r.entry.ts >= from) /\ (to = 0 \/ r.entry.ts <= to)
    BY DEF TimeRange
  <1>3. \A p, q \in log : p.seq < q.seq => p.entry.ts <= q.entry.ts
    BY DEF TimeOrdered
  <1>4. \A p, q \in log : p.seq = q.seq => p = q
    BY DEF Table
  <1>5. ASSUME NEW q \in Before(log, r), q \notin S PROVE from # 0 /\ q.entry.ts < from
    <2>1. q \in log /\ q.entry.ts <= r.entry.ts
      BY <1>2, <1>3 DEF Before
    <2>2. q.entry.ts \in Nat /\ r.entry.ts \in Nat
      BY <1>1, <1>2, <2>1
    <2>3. to = 0 \/ q.entry.ts <= to
      BY <1>2, <2>1, <2>2
    <2>4. ~(from = 0 \/ q.entry.ts >= from)
      BY <1>5, <2>1, <2>3 DEF TimeRange
    <2> QED
      BY <2>2, <2>4
  <1>6. Before(S, r) \subseteq Before(log, r) /\ Before(log, r) \in SUBSET log /\ Before(S, r) \in SUBSET log
    BY DEF Before, TimeRange
  <1>7. Table(Before(S, r)) /\ Table(Before(log, r))
    BY <1>6, TableSubset
  <1>8. ASSUME Before(S, r) # {} PROVE HeadHash(Before(S, r)) = HeadHash(Before(log, r))
    <2>1. PICK m \in Before(S, r) : \A q \in Before(S, r) : q.seq <= m.seq
      BY <1>7, <1>8, LastRow
    <2>2. m \in log /\ m \in S /\ m \in Before(log, r) /\ (from = 0 \/ m.entry.ts >= from)
      BY <1>6 DEF Before, TimeRange
    <2>3. ASSUME NEW q \in Before(log, r) PROVE q.seq <= m.seq
      <3>1. CASE q \in S
        <4>1. q \in Before(S, r)
          BY <3>1 DEF Before
        <4> QED
          BY <2>1, <4>1
      <3>2. CASE q \notin S
        <4>1. q \in log /\ q.entry.ts < m.entry.ts
          BY <1>1, <1>5, <1>6, <2>2, <3>2
        <4>2. ~(m.seq < q.seq)
          BY <1>1, <1>3, <2>2, <4>1
        <4> QED
          BY <1>1, <2>2, <4>1, <4>2
      <3> QED
        BY <3>1, <3>2
    <2>4. HeadHash(Before(S, r)) = m.hash
      BY <1>7, <2>1, HeadOf
    <2>5. HeadHash(Before(log, r)) = m.hash
      BY <1>7, <2>2, <2>3, HeadOf
    <2> QED
      BY <2>4, <2>5
  <1>9. ASSUME Before(S, r) = {} PROVE Before(log, r) = (IF from = 0 THEN {} ELSE early)
    <2>1. ASSUME NEW q \in Before(log, r) PROVE from # 0 /\ q \in early
      <3>1. q \notin S
        BY <1>9 DEF Before
      <3> QED
        BY <1>5, <1>6, <3>1
    <2>2. ASSUME NEW q \in early, from # 0 PROVE q \in Before(log, r)
      <3>1. q \in log /\ q.entry.ts < r.entry.ts
        BY <1>1, <1>2, <2>2
      <3>2. ~(r.seq < q.seq) /\ q # r
        BY <1>1, <1>2, <1>3, <3>1
      <3>3. q.seq < r.seq
        BY <1>1, <1>2, <1>4, <3>1, <3>2
      <3> QED
        BY <3>1, <3>3 DEF Before
    <2> QED
      BY <2>1, <2>2
  <1> QED
    BY <1>8, <1>9

(* A log nobody has altered verifies, in the whole, and in any range when  *)
(* timestamps follow the log and nothing early came after the anchor.      *)
LEMMA RangeVerifies ==
  ASSUME LogInv, AlterationInv, touched = None, NEW from \in Nat, NEW to \in Nat,
         NEW n \in Nat, NEW anchor, anchor = AnchorBefore({r \in log : r.seq < n}, from),
         \/ from = 0 /\ to = 0
         \/ TimeOrdered /\ \A r \in log : r.seq >= n => ~(r.entry.ts < from)
  PROVE  VerifyResult(anchor, InSeqOrder(TimeRange(log, from, to))).ok
  <1> DEFINE S == TimeRange(log, from, to)
  <1>1. Table(log) /\ Intact(log) /\ column = Stored
    BY DEF LogInv, AlterationInv
  <1>2. S \in SUBSET log
    BY DEF TimeRange
  <1>3. Table(S)
    BY <1>1, <1>2, TableSubset
  <1>4. \A q \in log : q.seq \in Nat /\ q.entry.id \in Ids /\ q.entry.ts \in Nat
    BY <1>1, RowType DEF Table
  <1>5. ASSUME NEW r \in S PROVE Rehashes(r)
    <2>1. ReadBack[Stored[r.entry.id]] = Hashed[r.entry.id]
      BY <1>2, <1>4, EncodingAssumption, VerifyAssumption
    <2> QED
      BY <1>1, <1>2, <2>1 DEF Rehashes, Intact
  <1>6. ASSUME NEW r \in S PROVE r.prev = Preceding(anchor, S, r)
    <2>1. r \in log /\ r.prev = HeadHash(Before(log, r))
      BY <1>1, <1>2 DEF Intact
    <2>2. CASE from = 0 /\ to = 0
      <3>1. S = log /\ anchor = GenesisHash
        BY <2>2 DEF TimeRange, AnchorBefore
      <3> QED
        BY <2>1, <3>1 DEF Preceding, HeadHash
    <2>3. CASE TimeOrdered /\ \A q \in log : q.seq >= n => ~(q.entry.ts < from)
      <3> DEFINE early == {q \in log : q.entry.ts < from}
      <3>1. /\ Before(S, r) # {} => HeadHash(Before(S, r)) = HeadHash(Before(log, r))
            /\ Before(S, r) = {} => Before(log, r) = (IF from = 0 THEN {} ELSE early)
        BY <1>1, <2>3, RangeIsSegment
      <3>2. {q \in {p \in log : p.seq < n} : q.entry.ts < from} = early
        BY <1>4, <2>3
      <3>3. anchor = IF from = 0 THEN GenesisHash ELSE HeadHash(early)
        BY <3>2 DEF AnchorBefore
      <3> HIDE DEF early, S
      <3>4. Before(S, r) = {} => anchor = HeadHash(Before(log, r))
        BY <3>1, <3>3 DEF HeadHash
      <3> QED
        BY <2>1, <3>1, <3>4 DEF Preceding
    <2> QED
      BY <2>2, <2>3
  <1> HIDE DEF S
  <1>7. VerifyResult(anchor, InSeqOrder(S)).ok
    BY <1>3, <1>5, <1>6, VerifyOk
  <1> QED
    BY <1>7 DEF S

(* VerifyChain reads its anchor from the rows that are there.              *)
LEMMA ReadAnchorStep ==
  ASSUME IInv, NEW from \in Times, NEW to \in Times, ReadAnchor(from, to)
  PROVE  LogInv' /\ AlterationInv' /\ VerifierInv'
  <1>1. /\ LogInv /\ AlterationInv /\ touched = None
        /\ UNCHANGED <<log, nextSeq, built, clock, column, touched>>
        /\ verifier' = [at |-> "anchored", from |-> from, to |-> to,
                        anchor |-> AnchorBefore(log, from), next |-> nextSeq, result |-> None]
    BY DEF IInv, ReadAnchor, vars
  <1>2. LogInv'
    BY <1>1 DEF LogInv, Table
  <1>3. AlterationInv'
    BY <1>1 DEF AlterationInv, Intact, Before, HeadHash, Unread
  <1>4. from \in Nat /\ to \in Nat /\ nextSeq \in Nat /\ nextSeq <= nextSeq
    BY <1>1, VerifyAssumption DEF LogInv, Times
  <1>5. {r \in log' : r.seq < verifier'.next} = log /\ verifier'.from = from
    BY <1>1 DEF LogInv
  <1>6. verifier'.anchor = AnchorBefore({r \in log : r.seq < verifier.next}, verifier.from)'
    <2>1. verifier'.anchor = AnchorBefore({r \in log' : r.seq < verifier'.next}, verifier'.from)
      BY <1>1, <1>5
    <2> QED
      BY <2>1 DEF AnchorBefore, HeadHash
  <1> QED
    BY <1>1, <1>2, <1>3, <1>4, <1>6 DEF VerifierInv, AlarmHasCause

(* VerifyChain walks the rows of the range: an alarm has a cause.          *)
LEMMA WalkRowsStep ==
  ASSUME IInv, WalkRows
  PROVE  LogInv' /\ AlterationInv' /\ VerifierInv'
  <1> DEFINE result == VerifyResult(verifier.anchor,
                           InSeqOrder(TimeRange(log, verifier.from, verifier.to)))
  <1>1. /\ LogInv /\ AlterationInv /\ VerifierInv /\ verifier.at = "anchored"
        /\ UNCHANGED <<log, nextSeq, built, clock, column, touched>>
        /\ verifier' = [verifier EXCEPT !.at = "done", !.result = result]
    BY DEF IInv, WalkRows, vars
  <1> HIDE DEF result
  <1>2. LogInv'
    BY <1>1 DEF LogInv, Table
  <1>3. AlterationInv'
    BY <1>1 DEF AlterationInv, Intact, Before, HeadHash, Unread
  <1>4. /\ touched = None /\ verifier.from \in Nat /\ verifier.to \in Nat /\ verifier.next \in Nat
        /\ verifier.anchor = AnchorBefore({r \in log : r.seq < verifier.next}, verifier.from)
    BY <1>1 DEF VerifierInv
  <1>5. /\ DOMAIN verifier' = DOMAIN verifier
        /\ verifier'.at = "done" /\ verifier'.from = verifier.from
        /\ verifier'.to = verifier.to /\ verifier'.next = verifier.next
        /\ verifier'.result = result
    <2>1. DOMAIN verifier = {"at", "from", "to", "anchor", "next", "result"}
      BY <1>1 DEF VerifierInv
    <2> QED
      BY <1>1, <2>1
  <1>6. ASSUME ~result.ok
        PROVE  /\ verifier.from # 0 \/ verifier.to # 0
               /\ ~TimeOrdered \/ \E r \in log : r.seq >= verifier.next /\ r.entry.ts < verifier.from
    BY <1>1, <1>4, <1>6, RangeVerifies DEF result
  <1>7. TimeOrdered' = TimeOrdered
    BY <1>1 DEF TimeOrdered
  <1>8. AlarmHasCause'
    BY <1>1, <1>5, <1>6, <1>7 DEF AlarmHasCause
  <1> QED
    BY <1>1, <1>2, <1>3, <1>5, <1>8 DEF VerifierInv

(* The writer appends while a call waits with its anchor.                  *)
LEMMA GrowVerifier ==
  ASSUME IInv, Grow
  PROVE  LogInv' /\ AlterationInv' /\ VerifierInv' /\ log \subseteq log'
  <1>1. /\ LogInv /\ AlterationInv /\ VerifierInv /\ touched = None /\ verifier.at # "done"
        /\ UNCHANGED <<column, verifier, touched>>
    BY DEF IInv, Grow
  <1>2. /\ LogInv' /\ log \subseteq log' /\ nextSeq <= nextSeq'
        /\ \A r \in log' : r \in log \/ r.seq >= nextSeq
        /\ Intact(log) => Intact(log)'
    BY <1>1, GrowStep
  <1>3. AlterationInv'
    BY <1>1, <1>2 DEF AlterationInv
  <1>4. ASSUME verifier.at = "anchored"
        PROVE  {r \in log' : r.seq < verifier.next} = {r \in log : r.seq < verifier.next}
    <2>1. verifier.next \in Nat /\ verifier.next <= nextSeq /\ nextSeq \in Nat
      BY <1>1, <1>4 DEF VerifierInv, LogInv
    <2>2. \A r \in log' : r.seq \in Nat
      BY <1>2, RowType DEF LogInv, Table
    <2>3. \A r \in log' : r.seq < verifier.next => r \in log
      BY <1>2, <2>1, <2>2
    <2> QED
      BY <1>2, <2>3
  <1>5. nextSeq \in Nat /\ nextSeq' \in Nat
    BY <1>1, <1>2 DEF LogInv
  <1>6. ASSUME verifier.at = "anchored"
        PROVE  /\ verifier.next <= nextSeq'
               /\ verifier'.anchor = AnchorBefore({r \in log : r.seq < verifier.next}, verifier.from)'
    <2>1. /\ verifier.next \in Nat /\ verifier.next <= nextSeq
          /\ verifier.anchor = AnchorBefore({r \in log : r.seq < verifier.next}, verifier.from)
      BY <1>1, <1>6 DEF VerifierInv
    <2>2. verifier'.anchor = AnchorBefore({r \in log' : r.seq < verifier'.next}, verifier'.from)
      BY <1>1, <1>4, <1>6, <2>1
    <2>3. verifier'.anchor = AnchorBefore({r \in log : r.seq < verifier.next}, verifier.from)'
      BY <2>2 DEF AnchorBefore, HeadHash
    <2> QED
      BY <1>2, <1>5, <2>1, <2>3
  <1>7. AlarmHasCause'
    BY <1>1 DEF AlarmHasCause
  <1> QED
    BY <1>1, <1>2, <1>3, <1>6, <1>7 DEF VerifierInv

(* A row is altered while nobody verifies.                                 *)
LEMMA TamperVerifier ==
  ASSUME IInv, NEW r \in log, Tamper(r)
  PROVE  LogInv' /\ AlterationInv' /\ VerifierInv'
  <1>1. LogInv /\ AlterationInv /\ VerifierInv /\ verifier.at = "idle" /\ verifier' = verifier
    BY DEF IInv, Tamper
  <1>2. LogInv' /\ AlterationInv' /\ touched' # None
    BY <1>1, TamperStep
  <1> QED
    BY <1>1, <1>2 DEF VerifierInv, AlarmHasCause

(* A step that leaves the log and the verification alone.                  *)
LEMMA SameLog ==
  ASSUME IInv, UNCHANGED verifyVars
  PROVE  LogInv' /\ AlterationInv' /\ VerifierInv'
  <1>1. UNCHANGED <<log, nextSeq, built, clock, column, verifier, touched>>
    BY DEF verifyVars, vars
  <1>2. LogInv'
    BY <1>1 DEF IInv, LogInv, Table
  <1>3. AlterationInv'
    BY <1>1 DEF IInv, AlterationInv, Intact, Before, HeadHash, Unread
  <1>4. AlarmHasCause'
    <2>1. AlarmHasCause
      BY DEF IInv, VerifierInv
    <2> QED
      BY <1>1, <2>1 DEF AlarmHasCause, TimeOrdered
  <1> QED
    BY <1>1, <1>2, <1>3, <1>4 DEF IInv, VerifierInv, AnchorBefore, HeadHash

-----------------------------------------------------------------------------
(***************************************************************************)
(* Sums: the sizes of disjoint parts add up to the size of their union.    *)
(***************************************************************************)
Joined(part, s) == UNION {part[x] : x \in s}

Parts(part, S, W) ==
    /\ IsFiniteSet(S) /\ IsFiniteSet(W) /\ part \in [S -> SUBSET W]
    /\ \A x, y \in S : x # y => part[x] \cap part[y] = {}

(* Adding one part to the parts joined so far.                             *)
LEMMA JoinedStep ==
  ASSUME NEW part, NEW S, NEW W, Parts(part, S, W), NEW s \in SUBSET S, NEW c \in s
  PROVE  /\ Cardinality(Joined(part, s)) = Cardinality(part[c]) + Cardinality(Joined(part, s \ {c}))
         /\ Cardinality(part[c]) \in Nat /\ Cardinality(Joined(part, s \ {c})) \in Nat
  <1> DEFINE A == part[c]
             B == Joined(part, s \ {c})
  <1>1. A \in SUBSET W /\ B \in SUBSET W /\ IsFiniteSet(W)
    BY DEF Parts, Joined
  <1>2. Joined(part, s) = A \cup B
    BY DEF Joined
  <1>3. A \cap B = {}
    BY DEF Parts, Joined
  <1> HIDE DEF A, B
  <1>4. IsFiniteSet(A) /\ IsFiniteSet(B)
    BY <1>1, FS_Subset
  <1>5. Cardinality(A \cup B) = Cardinality(A) + Cardinality(B) - Cardinality(A \cap B)
    BY <1>4, FS_Union
  <1>6. Cardinality(A \cap B) = 0 /\ Cardinality(A) \in Nat /\ Cardinality(B) \in Nat
    BY <1>3, <1>4, FS_EmptySet, FS_CardinalityType
  <1> QED
    BY <1>2, <1>5, <1>6 DEF A, B

(* The recursion that defines the sum of the sizes, and its solution.      *)
SumBody(part, iter, s) ==
    IF s = {} THEN 0
    ELSE Cardinality(part[CHOOSE x \in s : TRUE]) + iter[s \ {CHOOSE x \in s : TRUE}]

SumOf(part, S) == [s \in SUBSET S |-> Cardinality(Joined(part, s))]

(* Whatever adds up the sizes of disjoint parts counts what they join.     *)
LEMMA SumUnique ==
  ASSUME NEW part, NEW S, NEW W, Parts(part, S, W), NEW iter,
         \A s \in SUBSET S : iter[s] = SumBody(part, iter, s)
  PROVE  iter[S] = Cardinality(Joined(part, S))
  <1> DEFINE wrong == {s \in SUBSET S : iter[s] # Cardinality(Joined(part, s))}
             sizes == {Cardinality(s) : s \in wrong}
  <1>1. SUFFICES ASSUME wrong # {} PROVE FALSE
    OBVIOUS
  <1>2. \A s \in SUBSET S : IsFiniteSet(s) /\ Cardinality(s) \in Nat
    BY FS_Subset, FS_CardinalityType DEF Parts
  <1>3. sizes \in SUBSET Nat /\ sizes # {}
    BY <1>1, <1>2
  <1>4. PICK n \in sizes : \A m \in sizes : n <= m
    <2> HIDE DEF sizes
    <2> QED
      BY <1>3, LeastNatural
  <1>5. PICK s \in wrong : Cardinality(s) = n
    OBVIOUS
  <1>6. s # {}
    <2>1. Joined(part, {}) = {}
      BY DEF Joined
    <2>2. Cardinality(Joined(part, {})) = 0 /\ iter[{}] = 0
      BY <2>1, FS_EmptySet DEF SumBody
    <2> QED
      BY <1>5, <2>2
  <1>7. PICK c : c = CHOOSE x \in s : TRUE
    OBVIOUS
  <1>8. c \in s
    BY <1>6, <1>7
  <1>9. Cardinality(s \ {c}) = Cardinality(s) - 1 /\ s \ {c} \in SUBSET S
    BY <1>2, <1>8, FS_RemoveElement
  <1>10. s \ {c} \notin wrong
    <2>1. s \ {c} \in wrong => Cardinality(s \ {c}) \in sizes
      OBVIOUS
    <2>2. Cardinality(s) \in Nat
      BY <1>2
    <2> HIDE DEF wrong, sizes
    <2> QED
      BY <1>4, <1>5, <1>9, <2>1, <2>2
  <1>11. iter[s \ {c}] = Cardinality(Joined(part, s \ {c}))
    BY <1>9, <1>10
  <1>12. iter[s] = Cardinality(part[c]) + iter[s \ {c}]
    BY <1>6, <1>7 DEF SumBody
  <1>13. Cardinality(Joined(part, s)) = Cardinality(part[c]) + Cardinality(Joined(part, s \ {c}))
    BY <1>8, JoinedStep
  <1> QED
    BY <1>5, <1>11, <1>12, <1>13

(* There is such a function: the one that counts what the parts join.      *)
LEMMA SumSolution ==
  ASSUME NEW part, NEW S, NEW W, Parts(part, S, W), NEW s \in SUBSET S
  PROVE  SumOf(part, S)[s] = SumBody(part, SumOf(part, S), s)
  <1>1. CASE s = {}
    <2>1. Joined(part, s) = {}
      BY <1>1 DEF Joined
    <2> QED
      BY <1>1, <2>1, FS_EmptySet DEF SumBody, SumOf
  <1>2. CASE s # {}
    <2>1. PICK c : c = CHOOSE x \in s : TRUE
      OBVIOUS
    <2>2. c \in s /\ s \ {c} \in SUBSET S
      BY <1>2, <2>1
    <2>3. Cardinality(Joined(part, s)) = Cardinality(part[c]) + Cardinality(Joined(part, s \ {c}))
      BY <2>2, JoinedStep
    <2> QED
      BY <1>2, <2>1, <2>2, <2>3 DEF SumBody, SumOf
  <1> QED
    BY <1>1, <1>2

(* The rows a ranking counts.                                              *)
LEMMA CountedIs ==
  ASSUME NEW ranking, NEW part, NEW W, Parts(part, DOMAIN ranking, W),
         \A i \in DOMAIN ranking : ranking[i].count = Cardinality(part[i])
  PROVE  Counted(ranking) = Cardinality(Joined(part, DOMAIN ranking))
  <1> DEFINE S == DOMAIN ranking
             body(f, s) == IF s = {} THEN 0
                           ELSE ranking[CHOOSE x \in s : TRUE].count + f[s \ {CHOOSE x \in s : TRUE}]
             iter == CHOOSE f : f = [s \in SUBSET S |-> body(f, s)]
  <1>1. ASSUME NEW f, NEW s \in SUBSET S PROVE body(f, s) = SumBody(part, f, s)
    <2>1. CASE s = {}
      BY <2>1 DEF SumBody
    <2>2. CASE s # {}
      <3>1. (CHOOSE x \in s : TRUE) \in S
        BY <2>2
      <3> QED
        BY <2>2, <3>1 DEF SumBody
    <2> QED
      BY <2>1, <2>2
  <1>2. Counted(ranking) = iter[S]
    BY DEF Counted, MapThenSumSet, MapThenFoldSet
  <1> HIDE DEF body
  <1>3. SumOf(part, S) = [s \in SUBSET S |-> body(SumOf(part, S), s)]
    <2>1. \A s \in SUBSET S : SumOf(part, S)[s] = body(SumOf(part, S), s)
      BY <1>1, SumSolution
    <2> QED
      BY <2>1 DEF SumOf
  <1>4. iter = [s \in SUBSET S |-> body(iter, s)]
    BY <1>3
  <1> HIDE DEF iter
  <1>5. \A s \in SUBSET S : iter[s] = SumBody(part, iter, s)
    <2>1. \A s \in SUBSET S : iter[s] = body(iter, s)
      BY <1>4
    <2> QED
      BY <1>1, <2>1
  <1> QED
    BY <1>2, <1>5, SumUnique

(* The rows a chart draws: a bar for each of its buckets.                  *)
LEMMA DrawnIs ==
  ASSUME NEW verdict, NEW S, NEW part, NEW W, Parts(part, S, W),
         \A b \in S : b[verdict] = Cardinality(part[b])
  PROVE  Drawn(S, verdict) = Cardinality(Joined(part, S))
  <1> DEFINE body(f, s) == IF s = {} THEN 0
                           ELSE (CHOOSE x \in s : TRUE)[verdict] + f[s \ {CHOOSE x \in s : TRUE}]
             iter == CHOOSE f : f = [s \in SUBSET S |-> body(f, s)]
  <1>1. ASSUME NEW f, NEW s \in SUBSET S PROVE body(f, s) = SumBody(part, f, s)
    <2>1. CASE s = {}
      BY <2>1 DEF SumBody
    <2>2. CASE s # {}
      <3>1. (CHOOSE x \in s : TRUE) \in S
        BY <2>2
      <3> QED
        BY <2>2, <3>1 DEF SumBody
    <2> QED
      BY <2>1, <2>2
  <1>2. Drawn(S, verdict) = iter[S]
    BY DEF Drawn, MapThenSumSet, MapThenFoldSet
  <1> HIDE DEF body
  <1>3. SumOf(part, S) = [s \in SUBSET S |-> body(SumOf(part, S), s)]
    <2>1. \A s \in SUBSET S : SumOf(part, S)[s] = body(SumOf(part, S), s)
      BY <1>1, SumSolution
    <2> QED
      BY <2>1 DEF SumOf
  <1>4. iter = [s \in SUBSET S |-> body(iter, s)]
    BY <1>3
  <1> HIDE DEF iter
  <1>5. \A s \in SUBSET S : iter[s] = SumBody(part, iter, s)
    <2>1. \A s \in SUBSET S : iter[s] = body(iter, s)
      BY <1>4
    <2> QED
      BY <1>1, <2>1
  <1> QED
    BY <1>2, <1>5, SumUnique

-----------------------------------------------------------------------------
(***************************************************************************)
(* The figures of one statement.                                           *)
(***************************************************************************)

(* The requests of a window, and what their columns say.                   *)
LEMMA Requests ==
  ASSUME LogInv, column = Stored, NEW since
  PROVE  /\ Since(log, since) \in SUBSET log /\ IsFiniteSet(Since(log, since))
         /\ \A r \in Since(log, since) :
               /\ Value(r, "verdict") \in {"allow", "block"}
               /\ Value(r, "verdict") = "block" =>
                     {Value(r, "ip"), Value(r, "rule")} \subseteq DOMAIN LabelOrder \ {""}
  <1>1. Since(log, since) \in SUBSET log
    BY DEF Since
  <1>2. IsFiniteSet(Since(log, since))
    BY <1>1, FS_Subset DEF LogInv, Table
  <1>3. \A r \in Since(log, since) : r.entry.id \in Traffic
    BY DEF Since
  <1>4. \A r, f : Value(r, f) = Fields[Stored[r.entry.id]][f]
    BY DEF Value
  <1>5. \A id \in Traffic :
           /\ Fields[Stored[id]]["verdict"] \in {"allow", "block"}
           /\ Fields[Stored[id]]["verdict"] = "block" =>
                {Fields[Stored[id]]["ip"], Fields[Stored[id]]["rule"]} \subseteq DOMAIN LabelOrder \ {""}
    BY TrafficAssumption
  <1>6. ASSUME NEW r \in Since(log, since)
        PROVE  /\ Value(r, "verdict") \in {"allow", "block"}
               /\ Value(r, "verdict") = "block" =>
                     {Value(r, "ip"), Value(r, "rule")} \subseteq DOMAIN LabelOrder \ {""}
    <2>1. r.entry.id \in Traffic
      BY <1>3
    <2>2. \A f : Value(r, f) = Fields[Stored[r.entry.id]][f]
      BY <1>4
    <2>3. /\ Value(r, "verdict") = Fields[Stored[r.entry.id]]["verdict"]
          /\ Value(r, "ip") = Fields[Stored[r.entry.id]]["ip"]
          /\ Value(r, "rule") = Fields[Stored[r.entry.id]]["rule"]
      BY Zenon, <2>2
    <2> QED
      BY Zenon, <1>5, <2>1, <2>3
  <1> QED
    BY Zenon, <1>1, <1>2, <1>6

(* A request is allowed or blocked, so the two tiles add up.               *)
LEMMA TotalsAdd ==
  ASSUME LogInv, column = Stored, NEW since
  PROVE  LET rows == Since(log, since)
             allowed == With(rows, "verdict", "allow")
         IN  /\ allowed = rows \ Blocked(rows)
             /\ Cardinality(allowed) \in Nat /\ Cardinality(Blocked(rows)) \in Nat
             /\ Cardinality(allowed) + Cardinality(Blocked(rows)) = Cardinality(rows)
  <1> DEFINE rows == Since(log, since)
             A == With(rows, "verdict", "allow")
             B == Blocked(rows)
  <1>1. IsFiniteSet(rows) /\ \A r \in rows : Value(r, "verdict") \in {"allow", "block"}
    BY Requests
  <1>2. A = rows \ B /\ A \cup B = rows /\ A \cap B = {} /\ A \in SUBSET rows /\ B \in SUBSET rows
    BY <1>1 DEF With, Blocked
  <1> HIDE DEF rows, A, B
  <1>3. IsFiniteSet(A) /\ IsFiniteSet(B)
    BY <1>1, <1>2, FS_Subset
  <1>4. Cardinality(A) \in Nat /\ Cardinality(B) \in Nat /\ Cardinality({}) = 0
    BY <1>3, FS_CardinalityType, FS_EmptySet
  <1>5. Cardinality(A \cup B) = Cardinality(A) + Cardinality(B) - Cardinality(A \cap B)
    BY <1>3, FS_Union
  <1>6. Cardinality(A) + Cardinality(B) = Cardinality(rows)
    <2>1. Cardinality(rows) = Cardinality(A) + Cardinality(B) - Cardinality({})
      BY Zenon, <1>2, <1>5
    <2> QED
      BY <1>4, <2>1
  <1> QED
    BY <1>2, <1>4, <1>6 DEF rows, A, B

(* The chart draws every request of the window, under its verdict.         *)
LEMMA SeriesDraws ==
  ASSUME LogInv, column = Stored, NEW since,
         NEW field, NEW verdict, <<field, verdict>> \in {<<"allowed", "allow">>, <<"blocked", "block">>}
  PROVE  Drawn(series(since), field) = Cardinality(With(Since(log, since), "verdict", verdict))
  <1> DEFINE rows == Since(log, since)
             W == With(rows, "verdict", verdict)
             bucket(r) == (r.entry.ts \div BucketWidth) * BucketWidth
             count(v, b) == Cardinality({r \in With(rows, "verdict", v) : bucket(r) = b})
             bar(b) == [start |-> b, allowed |-> count("allow", b), blocked |-> count("block", b)]
             S == {bar(b) : b \in {bucket(r) : r \in rows}}
             part == [x \in S |-> {r \in W : bucket(r) = x.start}]
  <1>1. IsFiniteSet(rows)
    BY Requests
  <1>2. series(since) = S
    BY DEF series, Edge, Blocked
  <1>3. IsFiniteSet(S) /\ IsFiniteSet(W)
    <2>1. W \in SUBSET rows
      BY DEF With
    <2>2. S = {bar(bucket(r)) : r \in rows}
      OBVIOUS
    <2> DEFINE f == [r \in rows |-> bar(bucket(r))]
    <2>3. f \in Surjection(rows, S)
      BY <2>2 DEF Surjection
    <2> HIDE DEF S, f, W
    <2> QED
      BY <1>1, <2>1, <2>3, FS_Surjection, FS_Subset
  <1>4. ASSUME NEW x \in S PROVE x = bar(x.start) /\ x[field] = Cardinality(part[x])
    <2>1. PICK b : x = bar(b)
      OBVIOUS
    <2>2. x.start = b /\ x.allowed = count("allow", b) /\ x.blocked = count("block", b)
      BY <2>1
    <2>3. part[x] = {r \in W : bucket(r) = b}
      BY <2>2
    <2>4. Cardinality(part[x]) = count(verdict, b)
      BY <2>3
    <2>5. x[field] = count(verdict, b)
      BY <2>2
    <2> QED
      BY <2>1, <2>2, <2>4, <2>5
  <1>5. part \in [S -> SUBSET W]
    OBVIOUS
  <1>6. ASSUME NEW x \in S, NEW y \in S, x # y PROVE part[x] \cap part[y] = {}
    <2>1. x = bar(x.start) /\ y = bar(y.start)
      BY <1>4
    <2>2. x.start # y.start
      <3> HIDE DEF bar
      <3> QED
        BY Zenon, <1>6, <2>1
    <2> QED
      BY <2>2
  <1>7. ASSUME NEW r \in W PROVE \E x \in S : r \in part[x]
    <2>1. r \in rows
      BY DEF With
    <2>2. bar(bucket(r)) \in S /\ bar(bucket(r)).start = bucket(r)
      BY <2>1
    <2> QED
      BY <2>2
  <1> HIDE DEF part, S, W
  <1>8. Parts(part, S, W)
    BY <1>3, <1>5, <1>6 DEF Parts
  <1>9. Joined(part, S) = W
    BY <1>5, <1>7 DEF Joined
  <1>10. Drawn(S, field) = Cardinality(Joined(part, S))
    BY <1>4, <1>8, DrawnIs
  <1> QED
    BY <1>2, <1>9, <1>10 DEF W

(* Every row has a label to be ranked by.                                  *)
Labelled(rows, field) == \A r \in rows : Value(r, field) \in DOMAIN LabelOrder \ {""}

(* A ranking counts no request twice, and one that is not cut off counts   *)
(* them all.                                                               *)
LEMMA RankingCounts ==
  ASSUME NEW rows, IsFiniteSet(rows), NEW field, Labelled(rows, field)
  PROVE  LET ranking == Ranking(rows, field)
         IN  /\ Counted(ranking) \in Nat /\ Counted(ranking) <= Cardinality(rows)
             /\ Len(ranking) < TopLimit => Counted(ranking) = Cardinality(rows)
  <1> DEFINE L == {Value(r, field) : r \in rows} \ {""}
             count(l) == Cardinality(With(rows, field, l))
             R == {p \in L \X L : \/ count(p[1]) > count(p[2])
                                  \/ count(p[1]) = count(p[2]) /\ LabelOrder[p[1]] < LabelOrder[p[2]]}
             s == InOrder(L, R)
             n == IF Len(s) > TopLimit THEN TopLimit ELSE Len(s)
             ranking == [i \in 1..n |-> [label |-> s[i], count |-> count(s[i])]]
             part == [i \in 1..n |-> With(rows, field, s[i])]
  <1>1. Ranking(rows, field) = ranking
    BY Zenon DEF Ranking
  <1>2. IsFiniteSet(L) /\ L = {Value(r, field) : r \in rows}
    <2>1. L = {Value(r, field) : r \in rows}
      BY DEF Labelled
    <2> DEFINE f == [r \in rows |-> Value(r, field)]
    <2>2. f \in Surjection(rows, L)
      BY <2>1 DEF Surjection
    <2> HIDE DEF f, L
    <2> QED
      BY <2>1, <2>2, FS_Surjection DEF L
  <1>3. \A l : With(rows, field, l) \in SUBSET rows
    BY DEF With
  <1>4. \A l : count(l) \in Nat
    BY <1>3, FS_Subset, FS_CardinalityType
  <1>5. \A l \in L : l \in DOMAIN LabelOrder /\ LabelOrder[l] \in Nat
    BY StatsAssumption DEF Labelled
  <1>6. \A l, m \in L : LabelOrder[l] = LabelOrder[m] => l = m
    BY <1>5, StatsAssumption DEF IsInjective
  <1>7. \A l, m \in L : <<l, m>> \in R <=>
           \/ count(l) > count(m)
           \/ (count(l) = count(m) /\ LabelOrder[l] < LabelOrder[m])
    OBVIOUS
  <1> HIDE DEF R, L, count
  <1>8. StrictOrder(L, R)
    <2>1. ASSUME NEW x \in L PROVE <<x, x>> \notin R
      <3>1. count(x) \in Nat /\ LabelOrder[x] \in Nat
        BY <1>4, <1>5
      <3> QED
        BY <1>7, <3>1
    <2>2. ASSUME NEW x \in L, NEW y \in L, NEW z \in L, <<x, y>> \in R, <<y, z>> \in R
          PROVE  <<x, z>> \in R
      <3>1. /\ count(x) \in Nat /\ count(y) \in Nat /\ count(z) \in Nat
            /\ LabelOrder[x] \in Nat /\ LabelOrder[y] \in Nat /\ LabelOrder[z] \in Nat
        BY <1>4, <1>5
      <3>2. /\ count(x) > count(y) \/ (count(x) = count(y) /\ LabelOrder[x] < LabelOrder[y])
            /\ count(y) > count(z) \/ (count(y) = count(z) /\ LabelOrder[y] < LabelOrder[z])
        BY <1>7, <2>2
      <3>3. count(x) > count(z) \/ (count(x) = count(z) /\ LabelOrder[x] < LabelOrder[z])
        BY <3>1, <3>2
      <3> QED
        BY <1>7, <3>3
    <2>3. ASSUME NEW x \in L, NEW y \in L, x # y PROVE <<x, y>> \in R \/ <<y, x>> \in R
      <3>1. /\ count(x) \in Nat /\ count(y) \in Nat
            /\ LabelOrder[x] \in Nat /\ LabelOrder[y] \in Nat /\ LabelOrder[x] # LabelOrder[y]
        BY <1>4, <1>5, <1>6, <2>3
      <3>2. \/ count(x) > count(y) \/ (count(x) = count(y) /\ LabelOrder[x] < LabelOrder[y])
            \/ count(y) > count(x) \/ (count(y) = count(x) /\ LabelOrder[y] < LabelOrder[x])
        BY <3>1
      <3> QED
        BY <1>7, <3>2
    <2> QED
      BY Zenon, <2>1, <2>2, <2>3 DEF StrictOrder
  <1>9. /\ Cardinality(L) \in Nat /\ s \in [1..Cardinality(L) -> L]
        /\ \A i, j \in 1..Cardinality(L) : i < j => <<s[i], s[j]>> \in R
        /\ \A x \in L : \E i \in 1..Cardinality(L) : s[i] = x
    <2>1. IsFiniteSet(L)
      BY <1>2
    <2>2. /\ Cardinality(L) \in Nat
          /\ InOrder(L, R) \in [1..Cardinality(L) -> L]
          /\ \A i, j \in 1..Cardinality(L) : i < j => <<InOrder(L, R)[i], InOrder(L, R)[j]>> \in R
          /\ \A x \in L : \E i \in 1..Cardinality(L) : InOrder(L, R)[i] = x
      BY <1>8, <2>1, Sorted
    <2> QED
      BY Zenon, <2>2
  <1> HIDE DEF s
  <1>10. Len(s) = Cardinality(L)
    BY <1>9
  <1>11. n \in Nat /\ n <= Cardinality(L) /\ (n < TopLimit => n = Cardinality(L))
    BY <1>9, <1>10, StatsAssumption
  <1> HIDE DEF n
  <1>12. \A i \in 1..n : i \in 1..Cardinality(L) /\ s[i] \in L
    BY <1>9, <1>11
  <1>13. ASSUME NEW i \in 1..n, NEW j \in 1..n, i # j PROVE part[i] \cap part[j] = {}
    <2>1. i < j \/ j < i
      BY <1>11, <1>13
    <2>2. s[i] # s[j]
      BY <1>8, <1>9, <1>12, <2>1 DEF StrictOrder
    <2> QED
      BY <2>2 DEF With
  <1>14. part \in [1..n -> SUBSET rows]
    BY <1>3
  <1>15. DOMAIN ranking = 1..n /\ Len(ranking) = n
    BY <1>11
  <1>16. \A i \in 1..n : ranking[i].count = Cardinality(part[i])
    BY DEF count
  <1>17. IsFiniteSet(1..n)
    BY <1>11, FS_Interval
  <1> HIDE DEF ranking, part
  <1>18. Parts(part, DOMAIN ranking, rows)
    BY <1>13, <1>14, <1>15, <1>17 DEF Parts
  <1>19. Counted(ranking) = Cardinality(Joined(part, 1..n))
    BY <1>15, <1>16, <1>18, CountedIs
  <1>20. Joined(part, 1..n) \in SUBSET rows
    BY <1>14 DEF Joined
  <1>21. /\ Cardinality(Joined(part, 1..n)) \in Nat
         /\ Cardinality(Joined(part, 1..n)) <= Cardinality(rows)
    BY <1>20, FS_Subset, FS_CardinalityType
  <1>22. ASSUME n < TopLimit PROVE Joined(part, 1..n) = rows
    <2>1. n = Cardinality(L)
      BY <1>11, <1>22
    <2>2. ASSUME NEW r \in rows PROVE r \in Joined(part, 1..n)
      <3>1. Value(r, field) \in L
        BY <1>2
      <3>2. PICK i \in 1..n : s[i] = Value(r, field)
        BY <1>9, <2>1, <3>1
      <3>3. r \in part[i]
        BY <3>2 DEF part, With
      <3> QED
        BY <3>3 DEF Joined
    <2> QED
      BY <1>20, <2>2
  <1> QED
    BY <1>1, <1>15, <1>19, <1>21, <1>22

(* A ranking of the blocked requests of a window.                          *)
LEMMA TopCounts ==
  ASSUME LogInv, column = Stored, NEW since, NEW field \in {"ip", "rule"}
  PROVE  LET ranking == topBlocked(since, field)
             blocked == Blocked(Since(log, since))
         IN  /\ Counted(ranking) \in Nat /\ Counted(ranking) <= Cardinality(blocked)
             /\ Len(ranking) < TopLimit => Counted(ranking) = Cardinality(blocked)
  <1> DEFINE blocked == Blocked(Since(log, since))
  <1>1. /\ IsFiniteSet(Since(log, since)) /\ blocked \in SUBSET Since(log, since)
        /\ \A r \in blocked : Value(r, "verdict") = "block"
    BY Requests DEF Blocked, With
  <1>2. IsFiniteSet(blocked)
    BY <1>1, FS_Subset
  <1>3. ASSUME NEW r \in blocked PROVE Value(r, field) \in DOMAIN LabelOrder \ {""}
    <2>1. {Value(r, "ip"), Value(r, "rule")} \subseteq DOMAIN LabelOrder \ {""}
      BY <1>1, Requests
    <2>2. Value(r, field) \in {Value(r, "ip"), Value(r, "rule")}
      OBVIOUS
    <2> QED
      BY Zenon, <2>1, <2>2
  <1>4. Labelled(blocked, field)
    BY Zenon, <1>3 DEF Labelled
  <1> HIDE DEF blocked
  <1>5. topBlocked(since, field) = Ranking(blocked, field)
    BY DEF topBlocked, blocked
  <1>6. LET ranking == Ranking(blocked, field)
        IN  /\ Counted(ranking) \in Nat /\ Counted(ranking) <= Cardinality(blocked)
            /\ Len(ranking) < TopLimit => Counted(ranking) = Cardinality(blocked)
    BY Zenon, <1>2, <1>4, RankingCounts
  <1> QED
    BY Zenon, <1>5, <1>6 DEF blocked

-----------------------------------------------------------------------------
(***************************************************************************)
(* A call of Stats.                                                        *)
(***************************************************************************)

(* What the statements look at is the same as long as the log is.          *)
LEMMA SameWindow ==
  ASSUME UNCHANGED <<log, column>>, stats'.since = stats.since
  PROVE  /\ BlockedNow' = BlockedNow
         /\ With(Since(log, stats.since), "verdict", "allow")' =
               With(Since(log, stats.since), "verdict", "allow")
  BY DEF BlockedNow, Blocked, With, Since, Value

(* The requests of a window only become more as the log grows.             *)
LEMMA WindowGrows ==
  ASSUME LogInv', log \subseteq log', UNCHANGED <<column, stats>>
  PROVE  /\ Cardinality(BlockedNow) \in Nat /\ Cardinality(BlockedNow)' \in Nat
         /\ Cardinality(BlockedNow) <= Cardinality(BlockedNow)'
         /\ LET allowed == With(Since(log, stats.since), "verdict", "allow")
            IN  /\ Cardinality(allowed) \in Nat /\ Cardinality(allowed)' \in Nat
                /\ Cardinality(allowed) <= Cardinality(allowed)'
  <1> DEFINE allowed == With(Since(log, stats.since), "verdict", "allow")
  <1>1. IsFiniteSet(log')
    BY DEF LogInv, Table
  <1>2. BlockedNow \subseteq BlockedNow' /\ BlockedNow' \subseteq log'
    BY DEF BlockedNow, Blocked, With, Since, Value
  <1>3. allowed \subseteq allowed' /\ allowed' \subseteq log'
    BY DEF With, Since, Value
  <1>4. IsFiniteSet(BlockedNow') /\ IsFiniteSet(allowed')
    BY <1>1, <1>2, <1>3, FS_Subset
  <1>5. \A S, T : IsFiniteSet(T) /\ S \subseteq T =>
           Cardinality(S) \in Nat /\ Cardinality(T) \in Nat /\ Cardinality(S) <= Cardinality(T)
    BY FS_Subset, FS_CardinalityType
  <1> HIDE DEF allowed
  <1>6. /\ Cardinality(BlockedNow) \in Nat /\ Cardinality(BlockedNow') \in Nat
        /\ Cardinality(BlockedNow) <= Cardinality(BlockedNow')
    BY Zenon, <1>2, <1>4, <1>5
  <1>7. /\ Cardinality(allowed) \in Nat /\ Cardinality(allowed') \in Nat
        /\ Cardinality(allowed) <= Cardinality(allowed')
    BY Zenon, <1>3, <1>4, <1>5
  <1> QED
    BY <1>6, <1>7 DEF allowed

(* The sums of the next state are the sums of its figures.                 *)
LEMMA NextSums ==
  /\ Counted(stats.ips)' = Counted(stats'.ips)
  /\ Counted(stats.rules)' = Counted(stats'.rules)
  /\ \A verdict : Drawn(stats.series, verdict)' = Drawn(stats'.series, verdict)
  BY Zenon DEF Counted, Drawn, MapThenSumSet, MapThenFoldSet

(* The log grows while the statements run.                                 *)
LEMMA GrowStats ==
  ASSUME IInv, stats.at # "done", Grow, UNCHANGED stats
  PROVE  StatsInv'
  <1>1. /\ StatsInv /\ LogInv' /\ log \subseteq log' /\ UNCHANGED <<column, stats, touched>>
    BY GrowVerifier DEF IInv, Grow
  <1>2. /\ Cardinality(BlockedNow) \in Nat /\ Cardinality(BlockedNow)' \in Nat
        /\ Cardinality(BlockedNow) <= Cardinality(BlockedNow)'
    BY <1>1, WindowGrows
  <1>3. LET allowed == With(Since(log, stats.since), "verdict", "allow")
        IN  /\ Cardinality(allowed) \in Nat /\ Cardinality(allowed)' \in Nat
            /\ Cardinality(allowed) <= Cardinality(allowed)'
    BY <1>1, WindowGrows
  <1>4. TotalsFit => TotalsFit'
    BY <1>1, <1>2, <1>3 DEF TotalsFit
  <1>5. RankingFits(stats.ips) => RankingFits(stats.ips)'
    BY <1>1, <1>2, NextSums DEF RankingFits
  <1>6. RankingFits(stats.rules) => RankingFits(stats.rules)'
    BY <1>1, <1>2, NextSums DEF RankingFits
  <1>7. FiguresFit'
    BY <1>1 DEF FiguresFit
  <1> QED
    BY <1>1, <1>4, <1>5, <1>6, <1>7 DEF StatsInv

(* Stats is called, on a log nobody has altered.                           *)
LEMMA CallStatsStep ==
  ASSUME IInv, NEW since \in 1..clock, CallStats(since)
  PROVE  StatsInv'
  <1>1. StatsInv /\ clock \in Nat
    BY DEF IInv, LogInv
  <1>2. /\ DOMAIN stats = {"at", "since", "totals", "ips", "rules", "series"}
        /\ touched = None /\ touched' = touched
        /\ stats' = [stats EXCEPT !.at = "totals", !.since = since]
    BY <1>1 DEF CallStats, StatsInv, verifyVars
  <1>3. /\ DOMAIN stats' = {"at", "since", "totals", "ips", "rules", "series"}
        /\ stats'.at = "totals" /\ stats'.since = since
    BY <1>2
  <1>4. FiguresFit'
    BY <1>3 DEF FiguresFit
  <1> QED
    BY <1>1, <1>2, <1>3, <1>4 DEF StatsInv

(* The first statement: the tiles add up, and count what is there.         *)
LEMMA ReadTotalsStep ==
  ASSUME IInv, ReadTotals
  PROVE  StatsInv'
  <1>1. StatsInv /\ LogInv /\ AlterationInv /\ UNCHANGED <<log, column, touched>>
    BY DEF IInv, ReadTotals, verifyVars, vars
  <1>2. /\ DOMAIN stats = {"at", "since", "totals", "ips", "rules", "series"}
        /\ stats.since \in Nat /\ touched = None
        /\ stats' = [stats EXCEPT !.at = "ips", !.totals = Totals(stats.since)]
    BY <1>1 DEF ReadTotals, StatsInv
  <1>3. /\ DOMAIN stats' = {"at", "since", "totals", "ips", "rules", "series"}
        /\ stats'.at = "ips" /\ stats'.since = stats.since /\ stats'.totals = Totals(stats.since)
    BY <1>2
  <1> DEFINE rows == Since(log, stats.since)
             allowed == With(rows, "verdict", "allow")
  <1>4. /\ Cardinality(allowed) \in Nat /\ Cardinality(BlockedNow) \in Nat
        /\ Cardinality(allowed) + Cardinality(BlockedNow) = Cardinality(rows)
    BY <1>1, <1>2, TotalsAdd DEF AlterationInv, BlockedNow
  <1>5. /\ stats'.totals.total = Cardinality(rows)
        /\ stats'.totals.allowed = Cardinality(allowed)
        /\ stats'.totals.blocked = Cardinality(BlockedNow)
    BY <1>3 DEF Totals, BlockedNow
  <1>6. BlockedNow' = BlockedNow /\ allowed' = allowed
    BY <1>1, <1>3, SameWindow
  <1>7. Cardinality(BlockedNow)' = Cardinality(BlockedNow) /\ Cardinality(allowed)' = Cardinality(allowed)
    BY <1>6
  <1> HIDE DEF rows
  <1>8. TotalsFit'
    BY <1>4, <1>5, <1>7 DEF TotalsFit, rows
  <1>9. FiguresFit'
    BY <1>3 DEF FiguresFit
  <1> QED
    BY <1>1, <1>2, <1>3, <1>8, <1>9 DEF StatsInv

(* The second statement: the tiles were read before, from a log that was   *)
(* no longer.                                                              *)
LEMMA ReadTopIPsStep ==
  ASSUME IInv, ReadTopIPs
  PROVE  StatsInv'
  <1>1. StatsInv /\ LogInv /\ AlterationInv /\ UNCHANGED <<log, column, touched>>
    BY DEF IInv, ReadTopIPs, verifyVars, vars
  <1>2. /\ DOMAIN stats = {"at", "since", "totals", "ips", "rules", "series"}
        /\ stats.since \in Nat /\ touched = None /\ TotalsFit
        /\ stats' = [stats EXCEPT !.at = "rules", !.ips = topBlocked(stats.since, "ip")]
    BY <1>1 DEF ReadTopIPs, StatsInv
  <1>3. /\ DOMAIN stats' = {"at", "since", "totals", "ips", "rules", "series"}
        /\ stats'.at = "rules" /\ stats'.since = stats.since /\ stats'.totals = stats.totals
        /\ stats'.ips = topBlocked(stats.since, "ip")
    BY <1>2
  <1> DEFINE k == topBlocked(stats.since, "ip")
  <1>4. /\ Counted(k) \in Nat /\ Counted(k) <= Cardinality(BlockedNow)
        /\ Len(k) < TopLimit => Counted(k) = Cardinality(BlockedNow)
    BY <1>1, <1>2, TopCounts DEF AlterationInv, BlockedNow
  <1> HIDE DEF k
  <1>5. stats'.ips = k
    BY <1>3 DEF k
  <1>6. /\ BlockedNow' = BlockedNow
        /\ With(Since(log, stats.since), "verdict", "allow")' =
               With(Since(log, stats.since), "verdict", "allow")
    BY <1>1, <1>3, SameWindow
  <1>7. TotalsFit'
    BY <1>2, <1>3, <1>6 DEF TotalsFit
  <1>8. Counted(stats.ips)' = Counted(k)
    BY <1>5, NextSums
  <1>9. RankingFits(stats.ips)'
    BY <1>2, <1>3, <1>4, <1>5, <1>6, <1>8 DEF RankingFits, TotalsFit
  <1>10. FiguresFit'
    BY <1>3 DEF FiguresFit
  <1> QED
    BY <1>1, <1>2, <1>3, <1>7, <1>9, <1>10 DEF StatsInv

(* The third statement, likewise.                                          *)
LEMMA ReadTopRulesStep ==
  ASSUME IInv, ReadTopRules
  PROVE  StatsInv'
  <1>1. StatsInv /\ LogInv /\ AlterationInv /\ UNCHANGED <<log, column, touched>>
    BY DEF IInv, ReadTopRules, verifyVars, vars
  <1>2. /\ DOMAIN stats = {"at", "since", "totals", "ips", "rules", "series"}
        /\ stats.since \in Nat /\ touched = None /\ TotalsFit /\ RankingFits(stats.ips)
        /\ stats' = [stats EXCEPT !.at = "series", !.rules = topBlocked(stats.since, "rule")]
    BY <1>1 DEF ReadTopRules, StatsInv
  <1>3. /\ DOMAIN stats' = {"at", "since", "totals", "ips", "rules", "series"}
        /\ stats'.at = "series" /\ stats'.since = stats.since /\ stats'.totals = stats.totals
        /\ stats'.ips = stats.ips /\ stats'.rules = topBlocked(stats.since, "rule")
    BY <1>2
  <1> DEFINE k == topBlocked(stats.since, "rule")
  <1>4. /\ Counted(k) \in Nat /\ Counted(k) <= Cardinality(BlockedNow)
        /\ Len(k) < TopLimit => Counted(k) = Cardinality(BlockedNow)
    BY <1>1, <1>2, TopCounts DEF AlterationInv, BlockedNow
  <1> HIDE DEF k
  <1>5. stats'.rules = k
    BY <1>3 DEF k
  <1>6. /\ BlockedNow' = BlockedNow
        /\ With(Since(log, stats.since), "verdict", "allow")' =
               With(Since(log, stats.since), "verdict", "allow")
    BY <1>1, <1>3, SameWindow
  <1>7. TotalsFit'
    BY <1>2, <1>3, <1>6 DEF TotalsFit
  <1>8. Counted(stats.rules)' = Counted(k) /\ Counted(stats.ips)' = Counted(stats.ips)
    BY <1>3, <1>5, NextSums
  <1>9. RankingFits(stats.rules)'
    BY <1>2, <1>3, <1>4, <1>5, <1>6, <1>8 DEF RankingFits, TotalsFit
  <1>10. RankingFits(stats.ips)'
    BY <1>2, <1>3, <1>6, <1>8 DEF RankingFits
  <1>11. FiguresFit'
    BY <1>3 DEF FiguresFit
  <1> QED
    BY <1>1, <1>2, <1>3, <1>7, <1>9, <1>10, <1>11 DEF StatsInv

(* The chart is read last, and draws at least what the rest counted.       *)
LEMMA ReadSeriesStep ==
  ASSUME IInv, ReadSeries
  PROVE  StatsInv'
  <1>1. StatsInv /\ LogInv /\ AlterationInv /\ UNCHANGED <<log, column, touched>>
    BY DEF IInv, ReadSeries, verifyVars, vars
  <1>2. /\ DOMAIN stats = {"at", "since", "totals", "ips", "rules", "series"}
        /\ stats.since \in Nat /\ touched = None
        /\ TotalsFit /\ RankingFits(stats.ips) /\ RankingFits(stats.rules)
        /\ stats' = [stats EXCEPT !.at = "done", !.series = series(stats.since)]
    BY <1>1 DEF ReadSeries, StatsInv
  <1>3. /\ DOMAIN stats' = {"at", "since", "totals", "ips", "rules", "series"}
        /\ stats'.at = "done" /\ stats'.since = stats.since /\ stats'.totals = stats.totals
        /\ stats'.ips = stats.ips /\ stats'.rules = stats.rules
        /\ stats'.series = series(stats.since)
    BY <1>2
  <1> DEFINE allowed == With(Since(log, stats.since), "verdict", "allow")
  <1>4. /\ Drawn(series(stats.since), "allowed") = Cardinality(allowed)
        /\ Drawn(series(stats.since), "blocked") = Cardinality(BlockedNow)
    BY <1>1, <1>2, SeriesDraws DEF AlterationInv, BlockedNow, Blocked
  <1>5. Cardinality(allowed) \in Nat /\ Cardinality(BlockedNow) \in Nat
    BY <1>1, <1>2, TotalsAdd DEF AlterationInv, BlockedNow
  <1>6. /\ Drawn(stats.series, "allowed")' = Cardinality(allowed)
        /\ Drawn(stats.series, "blocked")' = Cardinality(BlockedNow)
    BY Zenon, <1>3, <1>4, NextSums
  <1>7. Counted(stats.rules)' = Counted(stats.rules) /\ Counted(stats.ips)' = Counted(stats.ips)
    BY <1>3, NextSums
  <1>8. FiguresFit'
    <2>1. (stats.totals.allowed + stats.totals.blocked = stats.totals.total)'
      BY <1>2, <1>3 DEF TotalsFit
    <2>2. ASSUME NEW verdict \in {"allowed", "blocked"}
          PROVE  (stats.totals[verdict] <= Drawn(stats.series, verdict))'
      BY <1>2, <1>3, <1>6 DEF TotalsFit
    <2>3. (/\ Counted(stats.ips) <= Drawn(stats.series, "blocked")
           /\ Len(stats.ips) < TopLimit => stats.totals.blocked <= Counted(stats.ips))'
      BY <1>2, <1>3, <1>6, <1>7 DEF RankingFits
    <2>4. (/\ Counted(stats.rules) <= Drawn(stats.series, "blocked")
           /\ Len(stats.rules) < TopLimit => stats.totals.blocked <= Counted(stats.rules))'
      BY <1>2, <1>3, <1>6, <1>7 DEF RankingFits
    <2> QED
      BY <2>1, <2>2, <2>3, <2>4 DEF FiguresFit
  <1> QED
    BY <1>1, <1>2, <1>3, <1>8 DEF StatsInv

(* A call that fails gives no figures.                                     *)
LEMMA StatsFailsStep ==
  ASSUME IInv, StatsFails
  PROVE  StatsInv'
  <1>1. StatsInv /\ touched' = touched
    BY DEF IInv, StatsFails, verifyVars
  <1>2. /\ stats.at # "idle" /\ touched = None
        /\ stats' = [NoStats EXCEPT !.at = "done"]
    BY <1>1 DEF StatsFails, StatsInv
  <1>3. /\ DOMAIN stats' = {"at", "since", "totals", "ips", "rules", "series"}
        /\ stats'.at = "done" /\ stats'.since = 0 /\ stats'.totals = None
    BY <1>2 DEF NoStats
  <1>4. FiguresFit'
    BY <1>3 DEF FiguresFit
  <1> QED
    BY <1>1, <1>2, <1>3, <1>4 DEF StatsInv

(* Nobody has called Stats.                                                *)
LEMMA IdleStats ==
  ASSUME IInv, stats.at = "idle", UNCHANGED stats
  PROVE  StatsInv'
  <1>1. FiguresFit'
    BY DEF FiguresFit
  <1> QED
    BY <1>1 DEF IInv, StatsInv

(* Nothing changes.                                                        *)
LEMMA SameStats ==
  ASSUME IInv, UNCHANGED statsVars
  PROVE  StatsInv'
  <1>1. StatsInv /\ UNCHANGED <<log, column, touched, stats>>
    BY DEF IInv, statsVars, verifyVars, vars
  <1>2. /\ BlockedNow' = BlockedNow
        /\ With(Since(log, stats.since), "verdict", "allow")' =
               With(Since(log, stats.since), "verdict", "allow")
    BY <1>1, SameWindow
  <1>3. /\ Counted(stats.ips)' = Counted(stats.ips)
        /\ Counted(stats.rules)' = Counted(stats.rules)
        /\ \A verdict : Drawn(stats.series, verdict)' = Drawn(stats.series, verdict)
    BY Zenon, <1>1, NextSums
  <1>4. TotalsFit => TotalsFit'
    BY <1>1, <1>2 DEF TotalsFit
  <1>5. RankingFits(stats.ips) => RankingFits(stats.ips)'
    BY <1>1, <1>2, <1>3 DEF RankingFits
  <1>6. RankingFits(stats.rules) => RankingFits(stats.rules)'
    BY <1>1, <1>2, <1>3 DEF RankingFits
  <1>7. FiguresFit => FiguresFit'
    BY <1>1, <1>3 DEF FiguresFit
  <1> QED
    BY <1>1, <1>4, <1>5, <1>6, <1>7 DEF StatsInv

-----------------------------------------------------------------------------
(***************************************************************************)
(* The theorems.                                                           *)
(***************************************************************************)

(* The invariant holds at the start: the log is empty, nothing is altered, *)
(* and nobody has called VerifyChain or Stats.                             *)
LEMMA Initially == StatsInit => IInv
  <1> SUFFICES ASSUME StatsInit PROVE IInv
    OBVIOUS
  <1>1. /\ log = {} /\ nextSeq = 1 /\ built = {} /\ clock = 1
        /\ column = Stored /\ verifier = NoVerifier /\ touched = None /\ stats = NoStats
    BY DEF StatsInit, VerifyInit, Init
  <1>2. Table(log)
    BY <1>1, FS_EmptySet DEF Table
  <1>3. LogInv
    BY <1>1, <1>2, VerifyAssumption DEF LogInv
  <1>4. AlterationInv
    BY <1>1 DEF AlterationInv, Intact
  <1>5. /\ DOMAIN verifier = {"at", "from", "to", "anchor", "next", "result"}
        /\ verifier.at = "idle"
    BY <1>1 DEF NoVerifier
  <1>6. VerifierInv
    BY <1>5 DEF VerifierInv, AlarmHasCause
  <1>7. /\ DOMAIN stats = {"at", "since", "totals", "ips", "rules", "series"}
        /\ stats.at = "idle" /\ stats.since = 0
    BY <1>1 DEF NoStats
  <1>8. StatsInv
    BY <1>7 DEF StatsInv, FiguresFit
  <1> QED
    BY <1>3, <1>4, <1>6, <1>8 DEF IInv

(* Every step keeps it.                                                    *)
LEMMA Inductive == IInv /\ [StatsNext]_statsVars => IInv'
  <1> SUFFICES ASSUME IInv, [StatsNext]_statsVars PROVE IInv'
    OBVIOUS
  <1>1. CASE stats.at = "idle" /\ VerifyNext /\ UNCHANGED stats
    <2>1. StatsInv'
      BY <1>1, IdleStats
    <2>2. LogInv' /\ AlterationInv' /\ VerifierInv'
      <3>1. CASE Grow
        BY <3>1, GrowVerifier
      <3>2. ASSUME NEW from \in 0..MaxTime, NEW to \in 0..MaxTime, ReadAnchor(from, to)
            PROVE  LogInv' /\ AlterationInv' /\ VerifierInv'
        BY <3>2, ReadAnchorStep DEF Times
      <3>3. CASE WalkRows
        BY <3>3, WalkRowsStep
      <3>4. ASSUME NEW r \in log, Tamper(r)
            PROVE  LogInv' /\ AlterationInv' /\ VerifierInv'
        BY <3>4, TamperVerifier
      <3> QED
        BY <1>1, <3>1, <3>2, <3>3, <3>4 DEF VerifyNext
    <2> QED
      BY <2>1, <2>2 DEF IInv
  <1>2. CASE stats.at \notin {"idle", "done"} /\ Grow /\ UNCHANGED stats
    <2>1. LogInv' /\ AlterationInv' /\ VerifierInv'
      BY <1>2, GrowVerifier
    <2>2. StatsInv'
      BY <1>2, GrowStats
    <2> QED
      BY <2>1, <2>2 DEF IInv
  <1>3. ASSUME NEW since \in 1..clock, CallStats(since) PROVE IInv'
    BY <1>3, CallStatsStep, SameLog DEF CallStats, IInv
  <1>4. CASE ReadTotals
    BY <1>4, ReadTotalsStep, SameLog DEF ReadTotals, IInv
  <1>5. CASE ReadTopIPs
    BY <1>5, ReadTopIPsStep, SameLog DEF ReadTopIPs, IInv
  <1>6. CASE ReadTopRules
    BY <1>6, ReadTopRulesStep, SameLog DEF ReadTopRules, IInv
  <1>7. CASE ReadSeries
    BY <1>7, ReadSeriesStep, SameLog DEF ReadSeries, IInv
  <1>8. CASE StatsFails
    BY <1>8, StatsFailsStep, SameLog DEF StatsFails, IInv
  <1>9. CASE UNCHANGED statsVars
    BY <1>9, SameStats, SameLog DEF statsVars, IInv
  <1> QED
    BY <1>1, <1>2, <1>3, <1>4, <1>5, <1>6, <1>7, <1>8, <1>9 DEF StatsNext

(* IInv is an invariant of the log, its readers and whoever alters it.     *)
THEOREM InvariantHolds == StatsSpec => []IInv
  BY Initially, Inductive, PTL DEF StatsSpec

(* VerifyChain over the whole log says ok exactly when the chain is        *)
(* intact, for every log the writer can produce and every alteration of a  *)
(* row of it: only one of the last entry that leaves a consistent chain    *)
(* goes unnoticed.                                                         *)
THEOREM TamperingDetected == StatsSpec => []TamperingIsDetected
  <1>1. IInv => TamperingIsDetected
    BY Detection DEF IInv
  <1> QED
    BY <1>1, InvariantHolds, PTL

(* On a log nobody has altered, VerifyChain reports a broken entry only    *)
(* for a bounded range over timestamps that do not follow the log, or that *)
(* an entry from before the range was appended to after the anchor was     *)
(* read, however the two statements and the writer interleave.             *)
THEOREM AlarmsHaveCauses == StatsSpec => []AlarmHasCause
  <1>1. IInv => AlarmHasCause
    BY DEF IInv, VerifierInv
  <1> QED
    BY <1>1, InvariantHolds, PTL

(* The figures of one answer of Stats fit together, whatever is appended   *)
(* between the four statements that read them.                             *)
THEOREM FiguresAlwaysFit == StatsSpec => []FiguresFit
  <1>1. IInv => FiguresFit
    BY DEF IInv, StatsInv
  <1> QED
    BY <1>1, InvariantHolds, PTL

-----------------------------------------------------------------------------
(***************************************************************************)
(* The two stores.                                                         *)
(***************************************************************************)

(* The in-memory store counts what is not blocked, PostgreSQL what is      *)
(* allowed; on a log nobody has altered that is the same.                  *)
LEMMA SameStatistics ==
  ASSUME LogInv, column = Stored, NEW since
  PROVE  MemoryStats(log, since) = [totals |-> Totals(since),
                                    ips    |-> topBlocked(since, "ip"),
                                    rules  |-> topBlocked(since, "rule")]
  <1>1. With(Since(log, since), "verdict", "allow") = Since(log, since) \ Blocked(Since(log, since))
    BY TotalsAdd
  <1> QED
    BY Zenon, <1>1 DEF MemoryStats, Totals, topBlocked

(* A page of the same list.                                                *)
LEMMA SamePage ==
  ASSUME NEW s, NEW n \in Nat, Len(s) = n, NEW limit \in Nat, NEW offset \in Nat
  PROVE  Page(s, IF offset + limit > n THEN n - offset ELSE limit, offset) =
            IF offset >= n THEN <<>>
            ELSE Page(s, IF n - offset > limit THEN limit ELSE n - offset, offset)
  <1>1. CASE offset >= n
    <2> DEFINE k == IF offset + limit > n THEN n - offset ELSE limit
    <2>1. k \in Int /\ k <= 0
      BY <1>1
    <2> HIDE DEF k
    <2>2. SubSeq(s, offset + 1, offset + k) = <<>>
      BY <2>1
    <2> QED
      BY <1>1, <2>2 DEF Page, k
  <1>2. CASE offset < n
    <2>1. (IF offset + limit > n THEN n - offset ELSE limit) =
             (IF n - offset > limit THEN limit ELSE n - offset)
      BY <1>2
    <2>2. ~(offset >= n)
      BY <1>2
    <2> QED
      BY Zenon, <2>1, <2>2
  <1> QED
    BY <1>1, <1>2

(* As long as timestamps follow the log and no two are equal, newest first *)
(* is last first.                                                          *)
LEMMA SamePages ==
  ASSUME Table(log), TimeOrdered, \A r, q \in log : r.entry.ts = q.entry.ts => r = q,
         NEW f, NEW limit \in Nat, NEW offset \in Nat
  PROVE  MemoryList(log, f, limit, offset) = PostgresList(log, f, limit, offset)
  <1> DEFINE found == Matching(log, f)
             n == Cardinality(found)
             P == {p \in found \X found : p[1].seq > p[2].seq}
             M == {p \in found \X found :
                     \/ p[1].entry.ts > p[2].entry.ts
                     \/ p[1].entry.ts = p[2].entry.ts /\ p[1].seq < p[2].seq}
             s == InOrder(found, P)
  <1>1. found \in SUBSET log
    BY DEF Matching
  <1>2. IsFiniteSet(found)
    BY <1>1, FS_Subset DEF Table
  <1>3. n \in Nat
    BY <1>2, FS_CardinalityType
  <1>4. \A r \in log : r.seq \in Nat /\ r.entry.ts \in Nat
    BY RowType DEF Table
  <1>5. ASSUME NEW r \in log, NEW q \in log
        PROVE  r.seq > q.seq <=> \/ r.entry.ts > q.entry.ts
                                 \/ r.entry.ts = q.entry.ts /\ r.seq < q.seq
    <2>1. /\ r.seq \in Nat /\ q.seq \in Nat /\ r.entry.ts \in Nat /\ q.entry.ts \in Nat
          /\ r.seq < q.seq => r.entry.ts <= q.entry.ts
          /\ q.seq < r.seq => q.entry.ts <= r.entry.ts
      BY <1>4 DEF TimeOrdered
    <2>2. CASE r = q
      BY <2>1, <2>2
    <2>3. CASE r # q
      <3>1. r.seq # q.seq /\ r.entry.ts # q.entry.ts
        BY <2>3 DEF Table
      <3> QED
        BY <2>1, <3>1
    <2> QED
      BY <2>2, <2>3
  <1> HIDE DEF found
  <1>6. P = M
    BY <1>1, <1>5
  <1>7. Len(s) = n
    BY <1>3 DEF InOrder
  <1> HIDE DEF n, P, M, s
  <1>8. MemoryList(log, f, limit, offset) =
           IF offset >= n THEN <<>>
           ELSE Page(s, IF n - offset > limit THEN limit ELSE n - offset, offset)
    BY Zenon, <1>6, <1>7 DEF MemoryList, found, n, P, M, s
  <1>9. PostgresList(log, f, limit, offset) =
           Page(s, IF offset + limit > n THEN n - offset ELSE limit, offset)
    BY Zenon DEF PostgresList, found, n, P, s
  <1> DEFINE short == IF offset + limit > n THEN n - offset ELSE limit
             page == IF offset >= n THEN <<>>
                     ELSE Page(s, IF n - offset > limit THEN limit ELSE n - offset, offset)
  <1>10. Page(s, short, offset) = page
    BY <1>3, <1>7, SamePage
  <1> HIDE DEF short, page
  <1> QED
    BY <1>8, <1>9, <1>10 DEF short, page

(* VerifyChain of the in-memory store: the leading entries are skipped,    *)
(* the walk stops at the first entry after the range, and both exist.      *)
LEMMA Bounds ==
  ASSUME NEW n \in Nat, NEW s, NEW from, NEW to, \A i \in 1..n : s[i].entry.ts \in Nat,
         from \in Nat, to \in Nat
  PROVE  /\ \E i \in 1..(n + 1) :
               /\ \A j \in 1..(i - 1) : from # 0 /\ s[j].entry.ts < from
               /\ i = n + 1 \/ from = 0 \/ s[i].entry.ts >= from
         /\ \A start \in 1..(n + 1) : \E i \in (start - 1)..n :
               /\ \A j \in start..i : to = 0 \/ s[j].entry.ts <= to
               /\ i = n \/ (to # 0 /\ s[i + 1].entry.ts > to)
  <1>1. \E i \in 1..(n + 1) :
           /\ \A j \in 1..(i - 1) : from # 0 /\ s[j].entry.ts < from
           /\ i = n + 1 \/ from = 0 \/ s[i].entry.ts >= from
    <2> DEFINE in(i) == i = n + 1 \/ from = 0 \/ s[i].entry.ts >= from
               T == {i \in 1..(n + 1) : in(i)}
    <2>1. n + 1 \in T /\ T \in SUBSET Nat
      OBVIOUS
    <2>2. PICK i \in T : \A m \in T : i <= m
      BY <2>1, LeastNatural
    <2>3. i \in 1..(n + 1) /\ in(i)
      BY <2>2
    <2>4. ASSUME NEW j \in 1..(i - 1) PROVE from # 0 /\ s[j].entry.ts < from
      <3>1. j \in 1..n /\ j \notin T /\ j \in 1..(n + 1)
        BY <2>2, <2>3
      <3>2. s[j].entry.ts \in Nat /\ ~in(j)
        BY <3>1
      <3> QED
        BY <3>2
    <2> QED
      BY <2>3, <2>4
  <1>2. ASSUME NEW start \in 1..(n + 1)
        PROVE  \E i \in (start - 1)..n :
                  /\ \A j \in start..i : to = 0 \/ s[j].entry.ts <= to
                  /\ i = n \/ (to # 0 /\ s[i + 1].entry.ts > to)
    <2> DEFINE in(i) == i = n \/ (to # 0 /\ s[i + 1].entry.ts > to)
               T == {i \in (start - 1)..n : in(i)}
    <2>1. n \in T /\ T \in SUBSET Nat
      OBVIOUS
    <2>2. PICK i \in T : \A m \in T : i <= m
      BY <2>1, LeastNatural
    <2>3. i \in (start - 1)..n /\ in(i)
      BY <2>2
    <2>4. ASSUME NEW j \in start..i PROVE to = 0 \/ s[j].entry.ts <= to
      <3>1. j \in 1..n /\ j - 1 \in (start - 1)..n /\ j - 1 \notin T /\ (j - 1) + 1 = j
        BY <2>2, <2>3
      <3>2. s[j].entry.ts \in Nat /\ ~in(j - 1)
        BY <3>1
      <3> QED
        BY <3>1, <3>2
    <2> QED
      BY <2>3, <2>4
  <1> QED
    BY <1>1, <1>2

(* As long as timestamps follow the log, the entries the in-memory store   *)
(* walks are the rows PostgreSQL selects, and the entry it skipped last is *)
(* the anchor PostgreSQL reads.                                            *)
LEMMA SameVerification ==
  ASSUME Table(log), TimeOrdered, NEW from \in Nat, NEW to \in Nat
  PROVE  MemoryVerify(log, from, to) = PostgresVerify(log, from, to)
  <1> DEFINE s == InSeqOrder(log)
             n == Len(s)
             isStart(i) == /\ \A j \in 1..(i - 1) : from # 0 /\ s[j].entry.ts < from
                           /\ i = n + 1 \/ from = 0 \/ s[i].entry.ts >= from
             start == CHOOSE i \in 1..(n + 1) : isStart(i)
             isEnd(i) == /\ \A j \in start..i : to = 0 \/ s[j].entry.ts <= to
                         /\ i = n \/ (to # 0 /\ s[i + 1].entry.ts > to)
             end == CHOOSE i \in (start - 1)..n : isEnd(i)
             anchor == IF start = 1 THEN GenesisHash ELSE s[start - 1].hash
             S == TimeRange(log, from, to)
             early == {r \in log : r.entry.ts < from}
  <1>1. MemoryVerify(log, from, to) = VerifyResult(anchor, SubSeq(s, start, end))
    BY Zenon DEF MemoryVerify
  <1>2. /\ n \in Nat /\ s \in [1..n -> log] /\ s \in Seq(log)
        /\ \A i, j \in 1..n : i < j => s[i].seq < s[j].seq
        /\ \A r \in log : \E i \in 1..n : s[i] = r
    BY SeqOrder
  <1> HIDE DEF s, n
  <1>3. \A i \in 1..n : s[i] \in log /\ s[i].entry.ts \in Nat /\ s[i].seq \in Nat
    BY <1>2, RowType DEF Table
  <1>4. \A i, j \in 1..n : i < j => s[i].entry.ts <= s[j].entry.ts
    BY <1>2, <1>3 DEF TimeOrdered
  <1>5. start \in 1..(n + 1) /\ isStart(start)
    <2>1. \E i \in 1..(n + 1) : isStart(i)
      BY <1>2, <1>3, Bounds
    <2> HIDE DEF isStart
    <2> QED
      BY <2>1
  <1> HIDE DEF start
  <1>6. end \in (start - 1)..n /\ isEnd(end)
    <2>1. \E i \in (start - 1)..n : isEnd(i)
      BY <1>2, <1>3, <1>5, Bounds
    <2> HIDE DEF isEnd
    <2> QED
      BY <2>1
  <1> HIDE DEF end
  <1> DEFINE m == (end - start) + 1
             t == [k \in 1..m |-> s[(start + k) - 1]]
  <1>7. m \in Nat /\ SubSeq(s, start, end) = t
    <2>1. m \in Nat
      BY <1>2, <1>5, <1>6
    <2>2. SubSeq(s, start, end) = t
      BY <1>2, <1>5, <1>6
    <2> QED
      BY <2>1, <2>2
  <1>8. \A k \in 1..m : (start + k) - 1 \in start..end /\ (start + k) - 1 \in 1..n
    BY <1>2, <1>5, <1>6
  <1>9. ASSUME NEW j \in start..end, j \in 1..n PROVE s[j] \in S
    <2>1. to = 0 \/ s[j].entry.ts <= to
      BY <1>6
    <2>2. from = 0 \/ s[start].entry.ts >= from
      BY <1>2, <1>5, <1>9
    <2>3. start \in 1..n /\ (start = j \/ start < j)
      BY <1>2, <1>5, <1>9
    <2>4. s[start].entry.ts \in Nat /\ s[j].entry.ts \in Nat /\ s[start].entry.ts <= s[j].entry.ts
      BY <1>3, <1>4, <1>9, <2>3
    <2>5. from = 0 \/ s[j].entry.ts >= from
      BY <2>2, <2>4
    <2> QED
      BY <1>3, <1>9, <2>1, <2>5 DEF TimeRange
  <1>10. ASSUME NEW r \in S PROVE \E j \in start..end : j \in 1..n /\ s[j] = r
    <2>1. r \in log /\ (from = 0 \/ r.entry.ts >= from) /\ (to = 0 \/ r.entry.ts <= to)
      BY DEF TimeRange
    <2>2. PICK j \in 1..n : s[j] = r
      BY <1>2, <2>1
    <2>3. s[j].entry.ts \in Nat
      BY <1>3
    <2>4. j >= start
      BY <1>2, <1>5, <2>1, <2>2, <2>3
    <2>5. ASSUME j > end PROVE FALSE
      <3>1. end + 1 \in 1..n /\ end # n /\ (end + 1 = j \/ end + 1 < j)
        BY <1>2, <1>5, <1>6, <2>5
      <3>2. to # 0 /\ s[end + 1].entry.ts > to
        BY <1>6, <3>1
      <3>3. s[end + 1].entry.ts \in Nat /\ s[end + 1].entry.ts <= s[j].entry.ts
        BY <1>3, <1>4, <2>3, <3>1
      <3> QED
        BY <2>1, <2>2, <2>3, <3>2, <3>3
    <2> QED
      BY <1>2, <1>5, <1>6, <2>2, <2>4, <2>5
  <1>11. t = InSeqOrder(S)
    <2>1. S \in SUBSET log
      BY DEF TimeRange
    <2>2. Table(S)
      BY <2>1, TableSubset
    <2>3. /\ StrictOrder(S, BySeq(S)) /\ InSeqOrder(S) = InOrder(S, BySeq(S))
          /\ \A r, q \in S : <<r, q>> \in BySeq(S) <=> r.seq < q.seq
      BY <2>2, BySeqOrder
    <2> HIDE DEF S
    <2>4. t \in [1..m -> S]
      BY <1>8, <1>9
    <2>5. ASSUME NEW i \in 1..m, NEW j \in 1..m, i < j PROVE <<t[i], t[j]>> \in BySeq(S)
      <3>1. (start + i) - 1 < (start + j) - 1
        BY <1>5, <1>7, <2>5
      <3>2. t[i].seq < t[j].seq
        BY <1>2, <1>8, <3>1
      <3>3. t[i] \in S /\ t[j] \in S
        BY <2>4
      <3> QED
        BY <2>3, <3>2, <3>3
    <2>6. ASSUME NEW r \in S PROVE \E i \in 1..m : t[i] = r
      <3>1. PICK j \in start..end : j \in 1..n /\ s[j] = r
        BY <1>10
      <3>2. (j - start) + 1 \in 1..m /\ (start + ((j - start) + 1)) - 1 = j
        BY <1>2, <1>5, <1>6
      <3>3. t[(j - start) + 1] = r
        BY <3>1, <3>2
      <3> QED
        BY <3>2, <3>3
    <2> HIDE DEF t, m
    <2>7. /\ m \in Nat /\ StrictOrder(S, BySeq(S))
          /\ \A i, j \in 1..m : i < j => <<t[i], t[j]>> \in BySeq(S)
          /\ \A r \in S : \E i \in 1..m : t[i] = r
      BY <1>7, <2>3, <2>5, <2>6
    <2>8. t = InOrder(S, BySeq(S))
      BY <2>4, <2>7, SortedUnique
    <2> QED
      BY <2>3, <2>8
  <1>12. anchor = AnchorBefore(log, from)
    <2>1. CASE from = 0
      <3>1. start = 1
        BY <1>2, <1>5, <2>1
      <3> QED
        BY <2>1, <3>1 DEF AnchorBefore
    <2>2. CASE from # 0 /\ start = 1
      <3>1. ASSUME NEW r \in log PROVE ~(r.entry.ts < from)
        <4>1. PICK j \in 1..n : s[j] = r
          BY <1>2
        <4>2. 1 \in 1..n /\ s[1].entry.ts >= from /\ (j = 1 \/ 1 < j)
          BY <1>2, <1>5, <2>2
        <4>3. /\ s[1].entry.ts \in Nat /\ s[j].entry.ts \in Nat
              /\ s[1].entry.ts <= s[j].entry.ts
          BY <1>3, <1>4, <4>2
        <4> QED
          BY <4>1, <4>2, <4>3
      <3>2. early = {}
        BY <3>1
      <3> QED
        BY <2>2, <3>2 DEF AnchorBefore, HeadHash
    <2>3. CASE from # 0 /\ start # 1
      <3>1. start - 1 \in 1..n /\ s[start - 1].entry.ts < from
        BY <1>2, <1>5, <2>3
      <3> DEFINE last == s[start - 1]
      <3>2. last \in early
        BY <1>3, <3>1
      <3>3. ASSUME NEW r \in early PROVE r.seq <= last.seq
        <4>1. PICK j \in 1..n : s[j] = r
          BY <1>2
        <4>2. s[j].entry.ts \in Nat /\ s[j].entry.ts < from /\ s[j].seq \in Nat /\ last.seq \in Nat
          BY <1>3, <3>1, <4>1
        <4>3. ASSUME j >= start PROVE FALSE
          <5>1. start \in 1..n /\ s[start].entry.ts >= from /\ (start = j \/ start < j)
            BY <1>2, <1>5, <2>3, <4>3
          <5>2. s[start].entry.ts \in Nat /\ s[start].entry.ts <= s[j].entry.ts
            BY <1>3, <1>4, <5>1
          <5> QED
            BY <4>2, <5>1, <5>2
        <4>4. j = start - 1 \/ j < start - 1
          BY <1>2, <1>5, <4>3
        <4>5. s[j].seq <= last.seq
          BY <1>2, <3>1, <4>2, <4>4
        <4> QED
          BY <4>1, <4>5
      <3>4. Table(early)
        BY TableSubset
      <3> HIDE DEF last, early
      <3>5. HeadHash(early) = last.hash
        BY <3>2, <3>3, <3>4, HeadOf
      <3> QED
        BY <2>3, <3>5 DEF AnchorBefore, last, early
    <2> QED
      BY <2>1, <2>2, <2>3
  <1> HIDE DEF t, m, anchor, S
  <1> QED
    BY Zenon, <1>1, <1>7, <1>11, <1>12 DEF PostgresVerify, S

(* Both stores give the same figures, the same verdicts and the same pages *)
(* in every log, altered or not, that StoresAgree says they do.            *)
THEOREM StoresAlwaysAgree == StatsSpec => []StoresAgree
  <1>1. IInv => StoresAgree
    <2> SUFFICES ASSUME IInv PROVE StoresAgree
      OBVIOUS
    <2>1. LogInv /\ Table(log) /\ (touched = None => column = Stored)
      BY DEF IInv, LogInv, AlterationInv
    <2>2. Times \subseteq Nat
      BY DEF Times
    <2>3. ASSUME touched = None, NEW since \in Times
          PROVE  MemoryStats(log, since) = [totals |-> Totals(since),
                                            ips    |-> topBlocked(since, "ip"),
                                            rules  |-> topBlocked(since, "rule")]
      BY <2>1, <2>3, SameStatistics
    <2>4. ASSUME TimeOrdered, NEW from \in Times, NEW to \in Times
          PROVE  MemoryVerify(log, from, to) = PostgresVerify(log, from, to)
      BY <2>1, <2>2, <2>4, SameVerification
    <2>5. ASSUME TimeOrdered, \A r, q \in log : r.entry.ts = q.entry.ts => r = q,
                 NEW f \in Filter, NEW limit \in 1..2, NEW offset \in 1..2
          PROVE  MemoryList(log, f, limit, offset - 1) = PostgresList(log, f, limit, offset - 1)
      <3>1. limit \in Nat /\ offset - 1 \in Nat
        OBVIOUS
      <3> QED
        BY <2>1, <2>5, <3>1, SamePages
    <2> QED
      BY Zenon, <2>3, <2>4, <2>5 DEF StoresAgree
  <1> QED
    BY <1>1, InvariantHolds, PTL
=============================================================================
