--------------------------- MODULE EvidenceProofs ---------------------------
(***************************************************************************)
(* Proofs about Evidence, for every set of agents, of measurements, of      *)
(* scores with their weights, of metrics and of overall scores that callers *)
(* give: the type invariant, the order of the opportunities, that what is   *)
(* promoted keeps what the baseline scores on, and that lower metrics with  *)
(* no better score are never judged better.                                *)
(*                                                                         *)
(* The pass is short, and its invariant says no more than where each result *)
(* comes from.  The proofs are about the operators: sums (by least          *)
(* counterexample), the sort, the rounded average and the recommendation.   *)
(***************************************************************************)
EXTENDS Evidence, FiniteSetTheorems, WellFoundedInduction, TLAPS

-----------------------------------------------------------------------------
(* Sums *)

\* A set of naturals has a least element.
LEMMA LeastNatural ==
  ASSUME NEW S \in SUBSET Nat, S # {}
  PROVE  \E n \in S : \A m \in S : n <= m
<1>1. PICK n \in S : \A m \in S : ~ (<<m, n>> \in OpToRel(<, Nat))
  BY WFMin, NatLessThanWellFounded, Zenon
<1>2. \A m \in S : ~(m < n)
  BY <1>1 DEF OpToRel
<1>. QED
  BY <1>2

\* Induction up to N, over the set of the numbers for which something holds.
LEMMA Upwards ==
  ASSUME NEW N \in Nat, NEW S, 0 \in S, \A n \in 1 .. N : n - 1 \in S => n \in S
  PROVE  0 .. N \subseteq S
<1>1. SUFFICES ASSUME (0 .. N) \ S # {}
               PROVE  FALSE
  OBVIOUS
<1>2. PICK n \in (0 .. N) \ S : \A m \in (0 .. N) \ S : n <= m
  <2>1. (0 .. N) \ S \in SUBSET Nat
    OBVIOUS
  <2>. QED
    BY <1>1, <2>1, LeastNatural, Zenon
<1>3. n \in 1 .. N /\ n - 1 \in 0 .. N
  OBVIOUS
<1>4. n - 1 \in S
  BY <1>2, <1>3
<1>. QED
  BY <1>3, <1>4

\* f is the running sum of seq, up to its first n elements.
IsSum(f, seq, n) ==
  /\ f \in [0 .. n -> Int] /\ f[0] = 0
  /\ \A k \in 1 .. n : f[k] = f[k - 1] + seq[k]

\* A sequence of integers has a running sum.
LEMMA SumExists ==
  ASSUME NEW seq \in Seq(Int)
  PROVE  \E f : IsSum(f, seq, Len(seq))
<1>. DEFINE Has(n) == \E f : IsSum(f, seq, n)
            Good == {n \in 0 .. Len(seq) : Has(n)}
<1>1. 0 \in Good
  <2>1. IsSum([k \in 0 .. 0 |-> 0], seq, 0)
    BY DEF IsSum
  <2>. QED
    BY <2>1
<1>2. ASSUME NEW n \in 1 .. Len(seq), n - 1 \in Good
      PROVE  n \in Good
  <2>1. PICK f : IsSum(f, seq, n - 1)
    BY <1>2
  <2>2. IsSum([k \in 0 .. n |-> IF k = n THEN f[n - 1] + seq[n] ELSE f[k]], seq, n)
    BY <2>1 DEF IsSum
  <2>. QED
    BY <2>2
<1>3. Len(seq) \in Nat
  OBVIOUS
<1>4. 0 .. Len(seq) \subseteq Good
  <2>. HIDE DEF Good
  <2>. QED
    BY <1>1, <1>2, <1>3, Upwards
<1>5. Has(Len(seq))
  BY <1>3, <1>4
<1>. QED
  BY <1>5

\* Two running sums of a sequence are the same.
LEMMA SumUnique ==
  ASSUME NEW seq \in Seq(Int), NEW f, NEW g, IsSum(f, seq, Len(seq)),
         g = [k \in 0 .. Len(seq) |-> IF k = 0 THEN 0 ELSE g[k - 1] + seq[k]]
  PROVE  g = f
<1>. DEFINE Same == {n \in 0 .. Len(seq) : g[n] = f[n]}
<1>0. Len(seq) \in Nat
  OBVIOUS
<1>1. 0 \in Same
  BY DEF IsSum
<1>2. ASSUME NEW n \in 1 .. Len(seq), n - 1 \in Same
      PROVE  n \in Same
  BY <1>2 DEF IsSum
<1>3. 0 .. Len(seq) \subseteq Same
  <2>. HIDE DEF Same
  <2>. QED
    BY <1>0, <1>1, <1>2, Upwards
<1>4. \A n \in 0 .. Len(seq) : g[n] = f[n]
  BY <1>3
<1>5. g = [n \in 0 .. Len(seq) |-> g[n]] /\ f = [n \in 0 .. Len(seq) |-> f[n]]
  <2>1. f = [n \in 0 .. Len(seq) |-> f[n]]
    BY DEF IsSum
  <2>2. g = [n \in 0 .. Len(seq) |-> g[n]]
    OBVIOUS
  <2>. QED
    BY <2>1, <2>2
<1>. QED
  BY <1>4, <1>5

\* SumOf is where the running sum ends.
LEMMA SumIsRunning ==
  ASSUME NEW seq \in Seq(Int)
  PROVE  \E f : IsSum(f, seq, Len(seq)) /\ SumOf(seq) = f[Len(seq)]
<1>. DEFINE Step(g) == [k \in 0 .. Len(seq) |-> IF k = 0 THEN 0 ELSE g[k - 1] + seq[k]]
            upTo == CHOOSE g : g = Step(g)
<1>1. PICK f : IsSum(f, seq, Len(seq))
  BY SumExists
<1>2. f = Step(f)
  <2>1. \A k \in 0 .. Len(seq) : f[k] = IF k = 0 THEN 0 ELSE f[k - 1] + seq[k]
    BY <1>1 DEF IsSum
  <2>2. f = [k \in 0 .. Len(seq) |-> f[k]]
    BY <1>1 DEF IsSum
  <2>. QED
    BY <2>1, <2>2
<1>3. upTo = Step(upTo)
  BY <1>2
<1>4. upTo = f
  BY <1>1, <1>3, SumUnique
<1>5. SumOf(seq) = upTo[Len(seq)]
  BY DEF SumOf
<1>. QED
  BY <1>1, <1>4, <1>5

\* A sum is at most a hundred times another of which it is so, element by element.
LEMMA SumAtMost ==
  ASSUME NEW a \in Seq(Int), NEW b \in Seq(Int), Len(a) = Len(b),
         \A i \in 1 .. Len(a) : a[i] <= 100 * b[i]
  PROVE  SumOf(a) <= 100 * SumOf(b)
<1>0. Len(a) \in Nat
  OBVIOUS
<1>1. PICK f : IsSum(f, a, Len(a)) /\ SumOf(a) = f[Len(a)]
  BY SumIsRunning
<1>2. PICK g : IsSum(g, b, Len(b)) /\ SumOf(b) = g[Len(b)]
  BY SumIsRunning
<1>. DEFINE Good == {n \in 0 .. Len(a) : f[n] <= 100 * g[n]}
<1>3. 0 \in Good
  BY <1>1, <1>2 DEF IsSum
<1>4. ASSUME NEW n \in 1 .. Len(a), n - 1 \in Good
      PROVE  n \in Good
  <2>1. f[n] = f[n - 1] + a[n] /\ g[n] = g[n - 1] + b[n]
    BY <1>1, <1>2 DEF IsSum
  <2>2. n - 1 \in 0 .. Len(a) /\ n - 1 \in 0 .. Len(b)
    OBVIOUS
  <2>3. f[n - 1] \in Int /\ g[n - 1] \in Int
    BY <1>1, <1>2, <2>2 DEF IsSum
  <2>4. a[n] \in Int /\ b[n] \in Int /\ a[n] <= 100 * b[n] /\ f[n - 1] <= 100 * g[n - 1]
    BY <1>4
  <2>5. f[n] <= 100 * g[n]
    BY <2>1, <2>3, <2>4, SMTT(30)
  <2>. QED
    BY <2>5
<1>5. 0 .. Len(a) \subseteq Good
  <2>. HIDE DEF Good
  <2>. QED
    BY <1>0, <1>3, <1>4, Upwards
<1>. QED
  BY <1>0, <1>1, <1>2, <1>5

\* A sum of naturals is at least each of them.
LEMMA SumAtLeastEach ==
  ASSUME NEW seq \in Seq(Nat)
  PROVE  SumOf(seq) \in Nat /\ \A i \in 1 .. Len(seq) : seq[i] <= SumOf(seq)
<1>0. Len(seq) \in Nat /\ seq \in Seq(Int)
  OBVIOUS
<1>1. PICK f : IsSum(f, seq, Len(seq)) /\ SumOf(seq) = f[Len(seq)]
  BY <1>0, SumIsRunning
<1>. DEFINE Good == {n \in 0 .. Len(seq) : f[n] >= 0 /\ \A i \in 1 .. n : seq[i] <= f[n]}
<1>2. 0 \in Good
  BY <1>1 DEF IsSum
<1>3. ASSUME NEW n \in 1 .. Len(seq), n - 1 \in Good
      PROVE  n \in Good
  <2>1. f[n] = f[n - 1] + seq[n] /\ f[n - 1] \in Int /\ f[n] \in Int
    BY <1>1, SMTT(30) DEF IsSum
  <2>2. \A i \in 1 .. n : seq[i] \in Nat /\ (i = n \/ i \in 1 .. n - 1)
    OBVIOUS
  <2>3. f[n - 1] >= 0 /\ \A i \in 1 .. n - 1 : seq[i] <= f[n - 1]
    BY <1>3
  <2>4. f[n] >= 0 /\ \A i \in 1 .. n : seq[i] <= f[n]
    BY <2>1, <2>2, <2>3
  <2>. QED
    BY <2>4
<1>4. 0 .. Len(seq) \subseteq Good
  <2>. HIDE DEF Good
  <2>. QED
    BY <1>0, <1>2, <1>3, Upwards
<1>. QED
  BY <1>0, <1>1, <1>4 DEF IsSum

\* A sum of naturals is at least the number of those that are positive.
LEMMA SumAtLeastCount ==
  ASSUME NEW seq \in Seq(Nat)
  PROVE  HowMany(seq) \in Nat /\ HowMany(seq) <= SumOf(seq)
<1>0. Len(seq) \in Nat /\ seq \in Seq(Int) /\ DOMAIN seq = 1 .. Len(seq)
  OBVIOUS
<1>1. PICK f : IsSum(f, seq, Len(seq)) /\ SumOf(seq) = f[Len(seq)]
  BY <1>0, SumIsRunning
<1>f. f \in [0 .. Len(seq) -> Int]
  BY <1>1 DEF IsSum
<1>. DEFINE Upto(n) == {i \in 1 .. n : seq[i] > 0}
            Good == {n \in 0 .. Len(seq) : Cardinality(Upto(n)) <= f[n]}
<1>2. ASSUME NEW n \in 0 .. Len(seq)
      PROVE  IsFiniteSet(Upto(n)) /\ Cardinality(Upto(n)) \in Nat
  <2>1. n \in Int /\ Upto(n) \in SUBSET (1 .. n)
    OBVIOUS
  <2>2. IsFiniteSet(1 .. n)
    BY <2>1, FS_Interval
  <2>. QED
    BY <2>1, <2>2, FS_Subset, FS_CardinalityType
<1>3. 0 \in Good
  <2>1. Upto(0) = {}
    OBVIOUS
  <2>2. Cardinality(Upto(0)) = 0
    BY <2>1, FS_EmptySet
  <2>. QED
    BY <2>2, <1>1 DEF IsSum
<1>4. ASSUME NEW n \in 1 .. Len(seq), n - 1 \in Good
      PROVE  n \in Good
  <2>2. n - 1 \in 0 .. Len(seq) /\ n \in 0 .. Len(seq)
    BY <1>0
  <2>0. seq[n] \in Nat /\ f[n - 1] \in Int /\ f[n] \in Int
    BY <1>f, <2>2
  <2>1. f[n] = f[n - 1] + seq[n]
    BY <1>1 DEF IsSum
  <2>3. Cardinality(Upto(n - 1)) \in Nat /\ IsFiniteSet(Upto(n - 1))
    BY <2>2, <1>2
  <2>4. Cardinality(Upto(n - 1)) <= f[n - 1]
    BY <1>4
  <2>5. CASE seq[n] > 0
    <3>1. Upto(n) = Upto(n - 1) \cup {n} /\ n \notin Upto(n - 1)
      BY <2>5
    <3>2. Cardinality(Upto(n)) = Cardinality(Upto(n - 1)) + 1
      <4>. HIDE DEF Upto
      <4>. QED
        BY <3>1, <2>3, FS_AddElement
    <3>3. Cardinality(Upto(n)) <= f[n]
      BY <3>2, <2>0, <2>1, <2>3, <2>4, <2>5
    <3>. QED
      BY <3>3
  <2>6. CASE ~(seq[n] > 0)
    <3>1. Upto(n) = Upto(n - 1)
      BY <2>6
    <3>2. Cardinality(Upto(n)) <= f[n]
      <4>. HIDE DEF Upto
      <4>. QED
        BY <3>1, <2>0, <2>1, <2>3, <2>4, <2>6
    <3>. QED
      BY <3>2
  <2>. QED
    BY <2>5, <2>6
<1>5. 0 .. Len(seq) \subseteq Good
  <2>. HIDE DEF Good
  <2>. QED
    BY <1>0, <1>3, <1>4, Upwards
<1>6. HowMany(seq) = Cardinality(Upto(Len(seq)))
  BY <1>0 DEF HowMany
<1>7. Len(seq) \in 0 .. Len(seq)
  BY <1>0
<1>8. Cardinality(Upto(Len(seq))) \in Nat
  BY <1>2, <1>7
<1>9. Cardinality(Upto(Len(seq))) <= f[Len(seq)]
  BY <1>5, <1>7
<1>. QED
  BY <1>1, <1>6, <1>8, <1>9

-----------------------------------------------------------------------------
(* Division *)

LEMMA Division ==
  ASSUME NEW a \in Int, NEW d \in Nat \ {0}
  PROVE  /\ a \div d \in Int
         /\ d * (a \div d) <= a
         /\ a < d * (a \div d) + d
  OBVIOUS

LEMMA Product ==
  ASSUME NEW a \in Int, NEW b \in Int, NEW t \in Nat, a <= b
  PROVE  t * a <= t * b
  OBVIOUS

LEMMA QuotientAtLeast ==
  ASSUME NEW a \in Int, NEW d \in Nat \ {0}, NEW q \in Int, d * q <= a
  PROVE  q <= a \div d
<1>1. d * q < d * (a \div d) + d
  BY Division
<1>2. a \div d \in Int
  BY Division
<1>3. SUFFICES ASSUME a \div d + 1 <= q
               PROVE  FALSE
  BY <1>2
<1>4. d * (a \div d + 1) <= d * q
  BY <1>2, <1>3, Product
<1>. QED
  BY <1>1, <1>2, <1>4
-----------------------------------------------------------------------------
(* The sort *)

\* y is reported before x, or is x.
Ahead(y, x) == y.priority > x.priority \/ (y.priority = x.priority /\ y.at <= x.at)
Before(all, x) == {y \in all : Ahead(y, x)}

\* Opportunities that can be told apart by their place.
Sortable(all) ==
  /\ IsFiniteSet(all)
  /\ \A x \in all : x.priority \in Int /\ x.at \in Int
  /\ \A x, y \in all : x.at = y.at => x = y

LEMMA RankedByPlace ==
  ASSUME NEW all
  PROVE  Ranked(all) = [k \in 1 .. Cardinality(all) |-> CHOOSE x \in all : Cardinality(Before(all, x)) = k]
  BY DEF Ranked, Before, Ahead

\* Of two, one comes first.
LEMMA AheadIsTotal ==
  ASSUME NEW all, Sortable(all), NEW x \in all, NEW y \in all
  PROVE  /\ Ahead(x, x)
         /\ x # y => (Ahead(x, y) <=> ~Ahead(y, x))
         /\ \A z \in all : Ahead(z, y) /\ Ahead(y, x) => Ahead(z, x)
  BY DEF Sortable, Ahead

\* What comes first has the lower place.
LEMMA PlacesAreOrdered ==
  ASSUME NEW all, Sortable(all), NEW x \in all, NEW y \in all, x # y, Ahead(y, x)
  PROVE  Cardinality(Before(all, y)) < Cardinality(Before(all, x))
<1>1. Before(all, y) \subseteq Before(all, x)
  BY AheadIsTotal DEF Before
<1>2. x \in Before(all, x) /\ x \notin Before(all, y)
  BY AheadIsTotal DEF Before
<1>3. IsFiniteSet(Before(all, x))
  BY FS_Subset DEF Before, Sortable
<1>4. Cardinality(Before(all, x)) \in Nat /\ Cardinality(Before(all, y)) \in Nat
  BY <1>1, <1>3, FS_Subset, FS_CardinalityType
<1>. QED
  BY <1>1, <1>2, <1>3, <1>4, FS_Subset

\* Every opportunity has a place of its own, and every place is taken.
LEMMA PlacesAreTaken ==
  ASSUME NEW all, Sortable(all)
  PROVE  /\ Cardinality(all) \in Nat
         /\ \A x \in all : Cardinality(Before(all, x)) \in 1 .. Cardinality(all)
         /\ \A k \in 1 .. Cardinality(all) : \E x \in all : Cardinality(Before(all, x)) = k
<1>. DEFINE place == [x \in all |-> Cardinality(Before(all, x))]
            N == Cardinality(all)
<1>1. IsFiniteSet(all) /\ N \in Nat
  BY FS_CardinalityType DEF Sortable
<1>2. ASSUME NEW x \in all
      PROVE  Cardinality(Before(all, x)) \in 1 .. N
  <2>1. x \in Before(all, x) /\ Before(all, x) \in SUBSET all
    BY AheadIsTotal DEF Before
  <2>2. IsFiniteSet(Before(all, x)) /\ Cardinality(Before(all, x)) <= N
    BY <1>1, <2>1, FS_Subset
  <2>3. Cardinality(Before(all, x)) \in Nat /\ Cardinality(Before(all, x)) # 0
    BY <2>1, <2>2, FS_CardinalityType, FS_EmptySet
  <2>. QED
    BY <1>1, <2>2, <2>3
<1>3. \A x, y \in all : place[x] = place[y] => x = y
  <2>1. SUFFICES ASSUME NEW x \in all, NEW y \in all, x # y
                 PROVE  Cardinality(Before(all, x)) # Cardinality(Before(all, y))
    OBVIOUS
  <2>2. Cardinality(Before(all, x)) \in Int /\ Cardinality(Before(all, y)) \in Int
    BY <1>2
  <2>3. Ahead(x, y) \/ Ahead(y, x)
    BY <2>1, AheadIsTotal
  <2>4. Cardinality(Before(all, x)) < Cardinality(Before(all, y)) \/ Cardinality(Before(all, y)) < Cardinality(Before(all, x))
    BY <2>1, <2>3, PlacesAreOrdered
  <2>. QED
    BY <2>2, <2>4
<1>4. place \in [all -> 1 .. N]
  BY <1>2
<1>5. place \in Injection(all, 1 .. N)
  BY <1>3, <1>4 DEF Injection, IsInjective
<1>6. IsFiniteSet(1 .. N) /\ Cardinality(1 .. N) = N
  BY <1>1, FS_Interval
<1>7. place \in Surjection(all, 1 .. N)
  BY <1>5, <1>6, FS_Injection
<1>8. \A k \in 1 .. N : \E x \in all : place[x] = k
  BY <1>7 DEF Surjection
<1>. QED
  BY <1>1, <1>2, <1>8

\* The sort reports each of them once, after all that come ahead of it only.
LEMMA Sorted ==
  ASSUME NEW all, Sortable(all)
  PROVE  /\ Ranked(all) \in [1 .. Cardinality(all) -> all]
         /\ Cardinality(all) \in Nat
         /\ \A x \in all : \E k \in 1 .. Cardinality(all) :
              Ranked(all)[k] = x /\ \A j \in 1 .. k - 1 : Ahead(Ranked(all)[j], x)
<1>. DEFINE N == Cardinality(all)
            seq == Ranked(all)
            Place(x) == Cardinality(Before(all, x))
<1>1. N \in Nat /\ \A x \in all : Place(x) \in 1 .. N
  BY PlacesAreTaken
<1>2. \A k \in 1 .. N : seq[k] \in all /\ Place(seq[k]) = k
  <2>. SUFFICES ASSUME NEW k \in 1 .. N
                PROVE  seq[k] \in all /\ Place(seq[k]) = k
    OBVIOUS
  <2>1. seq[k] = CHOOSE x \in all : Place(x) = k
    BY RankedByPlace
  <2>2. \E x \in all : Place(x) = k
    BY PlacesAreTaken
  <2>. QED
    BY <2>1, <2>2
<1>3. seq \in [1 .. N -> all]
  BY <1>2, RankedByPlace
<1>4. ASSUME NEW x \in all
      PROVE  seq[Place(x)] = x
  <2>1. seq[Place(x)] \in all /\ Place(seq[Place(x)]) = Place(x)
    BY <1>1, <1>2
  <2>2. CASE seq[Place(x)] # x
    <3>1. Ahead(x, seq[Place(x)]) \/ Ahead(seq[Place(x)], x)
      BY <2>1, <2>2, AheadIsTotal
    <3>2. Place(x) < Place(seq[Place(x)]) \/ Place(seq[Place(x)]) < Place(x)
      BY <2>1, <2>2, <3>1, PlacesAreOrdered
    <3>. QED
      BY <1>1, <2>1, <3>2
  <2>. QED
    BY <2>2
<1>5. ASSUME NEW x \in all, NEW j \in 1 .. Place(x) - 1
      PROVE  Ahead(seq[j], x)
  <2>1. j \in 1 .. N /\ Place(x) \in 1 .. N /\ j < Place(x)
    BY <1>1
  <2>2. seq[j] \in all /\ Place(seq[j]) = j
    BY <1>2, <2>1
  <2>3. seq[j] # x
    BY <2>1, <2>2
  <2>4. SUFFICES ASSUME Ahead(x, seq[j])
                 PROVE  FALSE
    BY <2>2, <2>3, AheadIsTotal
  <2>5. Place(x) < Place(seq[j])
    BY <2>2, <2>3, <2>4, PlacesAreOrdered
  <2>. QED
    BY <2>1, <2>2, <2>5
<1>. QED
  BY <1>1, <1>3, <1>4, <1>5
-----------------------------------------------------------------------------
(* The opportunities *)

RecordType == [agent : Agents, success : BOOLEAN, quality : Int, latency : Int, tokens : Int]
Reported(recs) == UNION {AnalyzeSingleAgent(recs, agent) :
                         agent \in {a \in Agents : Cardinality(OfAgent(recs, a)) >= MinSamples}}

LEMMA FullIsNat ==
  Full \in Nat
  BY DEF Full

LEMMA Capped ==
  ASSUME NEW p, NEW q \in Int, 0 <= q, p = AtMost(Full, q)
  PROVE  p \in 0 .. Full /\ (p = Full => Full <= q)
  BY FullIsNat DEF AtMost

LEMMA Complement ==
  ASSUME NEW p, NEW q \in Int, 1 <= q, q <= 10000, p = Full - q
  PROVE  p \in 0 .. Full /\ p # Full
  BY DEF Full

\* The places of an agent's records are some of all places.
LEMMA PlacesAreFew ==
  ASSUME NEW recs \in Seq(RecordType), NEW agent
  PROVE  /\ OfAgent(recs, agent) \in SUBSET (1 .. Len(recs))
         /\ IsFiniteSet(OfAgent(recs, agent)) /\ Cardinality(OfAgent(recs, agent)) \in Nat
         /\ Failures(recs, OfAgent(recs, agent)) \in SUBSET OfAgent(recs, agent)
         /\ Cardinality(Failures(recs, OfAgent(recs, agent))) \in Nat
         /\ Cardinality(Failures(recs, OfAgent(recs, agent))) <= Cardinality(OfAgent(recs, agent))
<1>. DEFINE of == OfAgent(recs, agent)
<1>1. Len(recs) \in Nat /\ AtMost(Window, Len(recs)) \in Nat /\ AtMost(Window, Len(recs)) <= Len(recs)
  BY EvidenceAssumption DEF AtMost
<1>2. of \in SUBSET (1 .. Len(recs))
  BY <1>1 DEF OfAgent
<1>3. IsFiniteSet(1 .. Len(recs))
  BY <1>1, FS_Interval
<1>4. IsFiniteSet(of) /\ Cardinality(of) \in Nat
  BY <1>2, <1>3, FS_Subset, FS_CardinalityType
<1>5. Failures(recs, of) \in SUBSET of
  BY DEF Failures
<1>6. IsFiniteSet(Failures(recs, of)) /\ Cardinality(Failures(recs, of)) <= Cardinality(of)
  BY <1>4, <1>5, FS_Subset
<1>7. Cardinality(Failures(recs, of)) \in Nat
  BY <1>6, FS_CardinalityType
<1>. QED
  BY <1>2, <1>4, <1>5, <1>6, <1>7

LEMMA PositiveIsNat ==
  ASSUME NEW recs \in Seq(RecordType), NEW of, NEW column \in {"quality", "latency", "tokens"}
  PROVE  Positive(recs, of, column) \in Seq(Nat)
<1>1. Len(recs) \in Nat
  OBVIOUS
<1>2. \A i \in 1 .. Len(recs) : recs[i].quality \in Int /\ recs[i].latency \in Int /\ recs[i].tokens \in Int
  <2>. SUFFICES ASSUME NEW i \in 1 .. Len(recs)
                PROVE  recs[i].quality \in Int /\ recs[i].latency \in Int /\ recs[i].tokens \in Int
    OBVIOUS
  <2>1. recs[i] \in RecordType
    OBVIOUS
  <2>. QED
    BY <2>1 DEF RecordType
<1>3. \A i \in 1 .. Len(recs) : recs[i][column] \in Int
  BY <1>2
<1>. QED
  BY <1>1, <1>3 DEF Positive

\* What a detector finds has a priority from 0 to 1; it is 1 only for an agent
\* two of three of whose executions failed.
LEMMA PriorityBounds ==
  ASSUME NEW recs \in Seq(RecordType), NEW agent, NEW type \in Types,
         Cardinality(OfAgent(recs, agent)) >= MinSamples,
         Detected(recs, OfAgent(recs, agent), type)
  PROVE  LET of == OfAgent(recs, agent)
             priority == Priority(recs, of, type)
         IN /\ priority \in 0 .. Full
            /\ priority = Full => /\ type = "REPEATED_FAILURE"
                                  /\ 3 * Cardinality(Failures(recs, of)) >= 2 * Cardinality(of)
<1>. DEFINE of == OfAgent(recs, agent)
            f == Cardinality(Failures(recs, of))
            n == Cardinality(of)
            scores == Positive(recs, of, "quality")
<1>1. f \in Nat /\ n \in Nat /\ n >= 3 /\ f <= n
  BY PlacesAreFew DEF MinSamples
<1>2. CASE type = "REPEATED_FAILURE"
  <2>1. Priority(recs, of, type) = AtMost(10000, (3 * 10000 * f) \div (2 * n))
    BY <1>2 DEF Priority, Full
  <2>. HIDE DEF f, n
  <2>. DEFINE a == 3 * 10000 * f
              d == 2 * n
  <2>2. a \in Nat /\ d \in Nat \ {0} /\ d * 0 <= a
    BY <1>1
  <2>3. Priority(recs, of, type) = AtMost(Full, a \div d)
    BY <2>1 DEF Full
  <2>. HIDE DEF a, d
  <2>4. a \div d \in Int /\ d * (a \div d) <= a
    BY <2>2, Division
  <2>5. 0 <= a \div d
    BY <2>2, QuotientAtLeast
  <2>6. Priority(recs, of, type) \in 0 .. Full /\ (Priority(recs, of, type) = Full => Full <= a \div d)
    BY <2>3, <2>4, <2>5, Capped
  <2>7. ASSUME Priority(recs, of, type) = Full
        PROVE  3 * f >= 2 * n
    <3>1. 10000 <= a \div d
      BY <2>6, <2>7 DEF Full
    <3>2. d * 10000 <= d * (a \div d)
      BY <2>2, <2>4, <3>1, Product
    <3>3. d * 10000 <= a
      BY <2>2, <2>4, <3>2
    <3>. QED
      BY <1>1, <3>3 DEF a, d
  <2>. QED
    BY <1>2, <2>6, <2>7 DEF f, n
<1>3. CASE type = "LOW_QUALITY"
  <2>. DEFINE s == SumOf(scores)
              h == HowMany(scores)
  <2>1. scores \in Seq(Nat)
    BY PositiveIsNat
  <2>2. s \in Nat /\ h \in Nat /\ h <= s
    BY <2>1, SumAtLeastEach, SumAtLeastCount
  <2>3. h > 0 /\ s < 50 * h
    BY <1>3 DEF Detected, LowQuality
  <2>4. Priority(recs, of, type) = 10000 - (10000 * s) \div (50 * h)
    BY <1>3 DEF Priority, Full
  <2>. HIDE DEF s, h
  <2>. DEFINE a == 10000 * s
              d == 50 * h
  <2>5. a \in Int /\ d \in Nat \ {0} /\ d * 1 <= a
    BY <2>2, <2>3
  <2>0. Priority(recs, of, type) = 10000 - a \div d /\ a = 10000 * s /\ d = 50 * h
    BY <2>4
  <2>. HIDE DEF a, d
  <2>6. 1 <= a \div d
    BY <2>5, QuotientAtLeast
  <2>7. a \div d \in Int /\ d * (a \div d) <= a
    BY <2>5, Division
  <2>8. a \div d <= 10000
    <3>1. SUFFICES ASSUME 10000 <= a \div d
                   PROVE  FALSE
      BY <2>7
    <3>2. d * 10000 <= d * (a \div d)
      BY <3>1, <2>5, <2>7, Product
    <3>. QED
      BY <3>2, <2>0, <2>2, <2>3, <2>7
  <2>9. Priority(recs, of, type) = Full - a \div d
    BY <2>0 DEF Full
  <2>. QED
    BY <2>6, <2>7, <2>8, <2>9, Complement
<1>4. CASE type = "HIGH_LATENCY"
  BY <1>4 DEF Priority, Full
<1>5. CASE type = "EXCESSIVE_COST"
  BY <1>5 DEF Priority, Full
<1>. QED
  BY <1>2, <1>3, <1>4, <1>5 DEF Types

\* An agent all of whose executions failed is found, with the priority 1.
LEMMA AllFailedIsFull ==
  ASSUME NEW recs \in Seq(RecordType), NEW agent,
         Cardinality(OfAgent(recs, agent)) >= MinSamples,
         \A i \in OfAgent(recs, agent) : ~recs[i].success
  PROVE  /\ Detected(recs, OfAgent(recs, agent), "REPEATED_FAILURE")
         /\ Priority(recs, OfAgent(recs, agent), "REPEATED_FAILURE") = Full
<1>. DEFINE of == OfAgent(recs, agent)
            n == Cardinality(of)
<1>1. n \in Nat /\ n >= 3
  BY PlacesAreFew DEF MinSamples
<1>2. Failures(recs, of) = of
  BY DEF Failures
<1>3. Detected(recs, of, "REPEATED_FAILURE")
  <2>1. 10 * n > 3 * n
    BY <1>1
  <2>. QED
    BY <2>1, <1>2 DEF Detected, RepeatedFailure
<1>4. Priority(recs, of, "REPEATED_FAILURE") = AtMost(10000, (3 * 10000 * n) \div (2 * n))
  BY <1>2 DEF Priority, Full
<1>. HIDE DEF n
<1>. DEFINE a == 3 * 10000 * n
            d == 2 * n
<1>5. a \in Int /\ d \in Nat \ {0} /\ d * 10000 <= a
  BY <1>1
<1>6. 10000 <= a \div d /\ a \div d \in Int
  BY <1>5, QuotientAtLeast, Division
<1>7. AtMost(10000, a \div d) = 10000
  BY <1>6 DEF AtMost
<1>. QED
  BY <1>3, <1>4, <1>7 DEF Full

\* An opportunity is what a detector finds of an agent with enough records.
LEMMA ReportedIs ==
  ASSUME NEW recs \in Seq(RecordType)
  PROVE  /\ \A x \in Reported(recs) : \E agent \in Agents, type \in Types :
              /\ Cardinality(OfAgent(recs, agent)) >= MinSamples
              /\ Detected(recs, OfAgent(recs, agent), type)
              /\ x = Candidate(recs, agent, type)
         /\ \A agent \in Agents, type \in Types :
              Cardinality(OfAgent(recs, agent)) >= MinSamples /\ Detected(recs, OfAgent(recs, agent), type)
              => Candidate(recs, agent, type) \in Reported(recs)
  BY DEF Reported, AnalyzeSingleAgent

LEMMA CandidateIs ==
  ASSUME NEW recs, NEW agent, NEW type
  PROVE  LET x == Candidate(recs, agent, type)
         IN /\ x.agent = agent /\ x.type = type
            /\ x.priority = Priority(recs, OfAgent(recs, agent), type)
            /\ x.at = 4 * Newest(OfAgent(recs, agent)) + Turn(type)
  BY DEF Candidate

LEMMA NewestIsOne ==
  ASSUME NEW recs \in Seq(RecordType), NEW agent, Cardinality(OfAgent(recs, agent)) >= MinSamples
  PROVE  Newest(OfAgent(recs, agent)) \in OfAgent(recs, agent)
<1>. DEFINE of == OfAgent(recs, agent)
<1>1. of \in SUBSET (1 .. Len(recs)) /\ IsFiniteSet(of) /\ Cardinality(of) \in Nat
  BY PlacesAreFew
<1>2. of # {}
  BY <1>1, FS_EmptySet DEF MinSamples
<1>3. of \in SUBSET Nat
  BY <1>1
<1>4. \E i \in of : \A j \in of : i <= j
  <2>. HIDE DEF of
  <2>. QED
    BY <1>2, <1>3, LeastNatural, Zenon
<1>. QED
  BY <1>4 DEF Newest

\* Opportunities differ in their place before the sort: their agents' newest
\* records are different ones.
LEMMA ReportedIsSortable ==
  ASSUME NEW recs \in Seq(RecordType)
  PROVE  Sortable(Reported(recs))
<1>. DEFINE all == Reported(recs)
            last == 4 * Len(recs) + 3
<1>1. Len(recs) \in Nat
  OBVIOUS
<1>2. ASSUME NEW x \in all
      PROVE  /\ x.priority \in Int /\ x.at \in 0 .. last
             /\ \E n \in 1 .. Len(recs) : \E type \in Types :
                  x.at = 4 * n + Turn(type) /\ x = Candidate(recs, recs[n].agent, type)
  <2>1. PICK agent \in Agents, type \in Types :
          /\ Cardinality(OfAgent(recs, agent)) >= MinSamples
          /\ Detected(recs, OfAgent(recs, agent), type)
          /\ x = Candidate(recs, agent, type)
    BY <1>2, ReportedIs
  <2>. DEFINE n == Newest(OfAgent(recs, agent))
  <2>2. n \in OfAgent(recs, agent) /\ n \in 1 .. Len(recs)
    BY <2>1, NewestIsOne, PlacesAreFew
  <2>3. recs[n].agent = agent
    BY <2>2 DEF OfAgent
  <2>4. x.priority = Priority(recs, OfAgent(recs, agent), type) /\ x.at = 4 * n + Turn(type)
    BY <2>1, CandidateIs
  <2>5. x.priority \in 0 .. Full
    BY <2>1, <2>4, PriorityBounds
  <2>6. Turn(type) \in 0 .. 3
    BY DEF Types, Turn
  <2>7. x.priority \in Int
    BY <2>5, FullIsNat
  <2>. HIDE DEF n
  <2>8. x.at \in 0 .. last
    BY <2>2, <2>4, <2>6, <1>1
  <2>. QED
    BY <2>1, <2>2, <2>3, <2>4, <2>7, <2>8
<1>3. \A t, u \in Types : Turn(t) \in 0 .. 3 /\ (Turn(t) = Turn(u) => t = u)
  BY DEF Types, Turn
<1>4. ASSUME NEW x \in all, NEW y \in all, x.at = y.at
      PROVE  x = y
  <2>1. PICK n \in 1 .. Len(recs), t \in Types :
          x.at = 4 * n + Turn(t) /\ x = Candidate(recs, recs[n].agent, t)
    BY <1>2
  <2>2. PICK m \in 1 .. Len(recs), u \in Types :
          y.at = 4 * m + Turn(u) /\ y = Candidate(recs, recs[m].agent, u)
    BY <1>2
  <2>3. 4 * n + Turn(t) = 4 * m + Turn(u)
    BY <1>4, <2>1, <2>2
  <2>4. n = m /\ Turn(t) = Turn(u)
    BY <1>3, <2>3
  <2>. QED
    BY <1>3, <2>1, <2>2, <2>4
<1>5. IsFiniteSet(all)
  <2>. DEFINE at == [x \in all |-> x.at]
  <2>1. at \in [all -> 0 .. last]
    BY <1>2
  <2>2. at \in Injection(all, 0 .. last)
    BY <1>4, <2>1 DEF Injection, IsInjective
  <2>3. IsFiniteSet(0 .. last)
    BY <1>1, FS_Interval
  <2>. QED
    BY <2>2, <2>3, FS_Injection
<1>6. \A x \in all : x.priority \in Int /\ x.at \in Int
  BY <1>1, <1>2
<1>. QED
  BY <1>4, <1>5, <1>6 DEF Sortable

\* The report: opportunities with a priority from 0 to 1.
LEMMA ReportIs ==
  ASSUME NEW recs \in Seq(RecordType)
  PROVE  LET report == AnalyzeAgentPerformance(recs)
         IN /\ DOMAIN report = 1 .. Cardinality(Reported(recs))
            /\ Cardinality(Reported(recs)) \in Nat
            /\ \A k \in DOMAIN report : report[k] \in Reported(recs) /\ report[k].priority \in 0 .. Full
            /\ \A x \in Reported(recs) : \E k \in DOMAIN report :
                 report[k] = x /\ \A j \in 1 .. k - 1 : Ahead(report[j], x)
<1>1. AnalyzeAgentPerformance(recs) = Ranked(Reported(recs))
  BY DEF AnalyzeAgentPerformance, Reported
<1>2. \A x \in Reported(recs) : x.priority \in 0 .. Full
  <2>. SUFFICES ASSUME NEW x \in Reported(recs)
                PROVE  x.priority \in 0 .. Full
    OBVIOUS
  <2>1. PICK agent \in Agents, type \in Types :
          /\ Cardinality(OfAgent(recs, agent)) >= MinSamples
          /\ Detected(recs, OfAgent(recs, agent), type)
          /\ x = Candidate(recs, agent, type)
    BY ReportedIs
  <2>. QED
    BY <2>1, CandidateIs, PriorityBounds
<1>. HIDE DEF Reported
<1>3. /\ Ranked(Reported(recs)) \in [1 .. Cardinality(Reported(recs)) -> Reported(recs)]
      /\ Cardinality(Reported(recs)) \in Nat
      /\ \A x \in Reported(recs) : \E k \in 1 .. Cardinality(Reported(recs)) :
           Ranked(Reported(recs))[k] = x /\ \A j \in 1 .. k - 1 : Ahead(Ranked(Reported(recs))[j], x)
  BY ReportedIsSortable, Sorted
<1>4. DOMAIN Ranked(Reported(recs)) = 1 .. Cardinality(Reported(recs))
  BY <1>3
<1>5. \A k \in 1 .. Cardinality(Reported(recs)) : Ranked(Reported(recs))[k] \in Reported(recs)
  BY <1>3
<1>. QED
  BY <1>1, <1>2, <1>3, <1>4, <1>5

\* An agent all of whose executions failed comes after agents only that fail two
\* times of three.
LEMMA WorstIsFirst ==
  ASSUME NEW recs \in Seq(RecordType), NEW agent \in Agents,
         Cardinality(OfAgent(recs, agent)) >= MinSamples,
         \A i \in OfAgent(recs, agent) : ~recs[i].success
  PROVE  LET report == AnalyzeAgentPerformance(recs)
         IN \E k \in DOMAIN report :
              /\ report[k].agent = agent /\ report[k].type = "REPEATED_FAILURE"
              /\ \A j \in 1 .. k - 1 :
                   LET other == OfAgent(recs, report[j].agent)
                   IN /\ report[j].type = "REPEATED_FAILURE"
                      /\ 3 * Cardinality(Failures(recs, other)) >= 2 * Cardinality(other)
<1>. DEFINE report == AnalyzeAgentPerformance(recs)
            x == Candidate(recs, agent, "REPEATED_FAILURE")
<1>1. x \in Reported(recs)
  BY AllFailedIsFull, ReportedIs DEF Types
<1>2. x.agent = agent /\ x.type = "REPEATED_FAILURE" /\ x.priority = Full
  BY AllFailedIsFull, CandidateIs
<1>. HIDE DEF x
<1>3. PICK k \in DOMAIN report : report[k] = x /\ \A j \in 1 .. k - 1 : Ahead(report[j], x)
  BY <1>1, ReportIs
<1>4. ASSUME NEW j \in 1 .. k - 1
      PROVE  LET other == OfAgent(recs, report[j].agent)
             IN /\ report[j].type = "REPEATED_FAILURE"
                /\ 3 * Cardinality(Failures(recs, other)) >= 2 * Cardinality(other)
  <2>1. DOMAIN report = 1 .. Cardinality(Reported(recs)) /\ Cardinality(Reported(recs)) \in Nat
    BY ReportIs
  <2>2. j \in DOMAIN report
    BY <1>3, <2>1
  <2>3. report[j] \in Reported(recs) /\ report[j].priority \in 0 .. Full
    BY <2>2, ReportIs
  <2>4. report[j].priority = Full
    BY <1>2, <1>3, <2>3, FullIsNat DEF Ahead
  <2>5. PICK other \in Agents, type \in Types :
          /\ Cardinality(OfAgent(recs, other)) >= MinSamples
          /\ Detected(recs, OfAgent(recs, other), type)
          /\ report[j] = Candidate(recs, other, type)
    BY <2>3, ReportedIs
  <2>6. report[j].agent = other /\ report[j].type = type /\ Priority(recs, OfAgent(recs, other), type) = Full
    BY <2>4, <2>5, CandidateIs
  <2>. QED
    BY <2>5, <2>6, PriorityBounds
<1>. QED
  BY <1>2, <1>3, <1>4
-----------------------------------------------------------------------------
(* The overall score *)

\* Scores of at most 100, weighted, are at most 100 times their weights.
LEMMA MarksAreSummed ==
  ASSUME NEW marks \in Seq(Marks)
  PROVE  Weights(marks) \in Nat /\ Weighted(marks) \in Nat /\ Weighted(marks) <= 100 * Weights(marks)
<1>. DEFINE n == Len(marks)
            w == [i \in 1 .. n |-> marks[i].weight]
            p == [i \in 1 .. n |-> marks[i].score * marks[i].weight]
<1>1. n \in Nat /\ DOMAIN marks = 1 .. n
  OBVIOUS
<1>2. Weights(marks) = SumOf(w) /\ Weighted(marks) = SumOf(p)
  BY <1>1 DEF Weights, Weighted
<1>3. \A x \in 0 .. 100, y \in Nat : x * y \in Nat /\ x * y <= 100 * y
  <2>. SUFFICES ASSUME NEW x \in 0 .. 100, NEW y \in Nat
                PROVE  x * y \in Nat /\ x * y <= 100 * y
    OBVIOUS
  <2>1. y * x <= y * 100
    BY Product
  <2>2. x * y \in Nat
    OBVIOUS
  <2>. QED
    BY <2>1, <2>2
<1>4. \A i \in 1 .. n : marks[i].score \in 0 .. 100 /\ marks[i].weight \in Nat
  BY <1>1, EvidenceAssumption
<1>5. \A i \in 1 .. n : w[i] \in Nat /\ p[i] \in Nat /\ p[i] <= 100 * w[i]
  BY <1>3, <1>4
<1>. HIDE DEF n
<1>6. w \in Seq(Nat) /\ Len(w) = n /\ p \in Seq(Nat) /\ Len(p) = n
  <2>1. w \in [1 .. n -> Nat] /\ p \in [1 .. n -> Nat]
    BY <1>5
  <2>2. \A s \in [1 .. n -> Nat] : s \in Seq(Nat) /\ Len(s) = n
    BY <1>1
  <2>. HIDE DEF w, p
  <2>. QED
    BY <2>1, <2>2
<1>. HIDE DEF w, p
<1>7. SumOf(w) \in Nat /\ SumOf(p) \in Nat
  BY <1>6, SumAtLeastEach
<1>8. SumOf(p) <= 100 * SumOf(w)
  <2>1. w \in Seq(Int) /\ p \in Seq(Int)
    BY <1>6
  <2>. QED
    BY <1>5, <1>6, <2>1, SumAtMost
<1>. QED
  BY <1>2, <1>7, <1>8

\* An overall score lies between 0 and 1.
LEMMA ScoreBounds ==
  ASSUME NEW marks \in Seq(Marks)
  PROVE  CompositeScore(marks) \in 0 .. Full
<1>1. CASE Weights(marks) = 0
  BY <1>1, FullIsNat DEF CompositeScore
<1>2. CASE Weights(marks) # 0
  <2>. DEFINE A == Weighted(marks)
              U == Weights(marks)
              a == 200 * A + U
              d == 2 * U
  <2>1. A \in Nat /\ U \in Nat /\ A <= 100 * U /\ U > 0
    BY <1>2, MarksAreSummed
  <2>2. CompositeScore(marks) = a \div d
    BY <1>2 DEF CompositeScore
  <2>. HIDE DEF A, U
  <2>3. a \in Int /\ d \in Nat \ {0} /\ d * 0 <= a /\ a < d * 10001
    BY <2>1
  <2>. HIDE DEF a, d
  <2>4. a \div d \in Int /\ 0 <= a \div d /\ d * (a \div d) <= a
    BY <2>3, QuotientAtLeast, Division
  <2>5. a \div d <= 10000
    <3>1. SUFFICES ASSUME 10001 <= a \div d
                   PROVE  FALSE
      BY <2>4
    <3>2. d * 10001 <= d * (a \div d)
      BY <3>1, <2>3, <2>4, Product
    <3>. QED
      BY <3>2, <2>3, <2>4
  <2>6. a \div d <= Full
    BY <2>5 DEF Full
  <2>. QED
    BY <2>2, <2>4, <2>6, FullIsNat
<1>. QED
  BY <1>1, <1>2

-----------------------------------------------------------------------------
(* The recommendation *)

LEMMA RunIs ==
  ASSUME NEW run \in Run
  PROVE  /\ DOMAIN run.metrics \subseteq Metrics /\ run.score \in Int
         /\ \A m \in DOMAIN run.metrics : run.metrics[m] \in Int
<1>1. PICK known \in SUBSET Metrics : run.metrics \in [known -> Values]
  BY DEF Run
<1>2. Values \subseteq Int /\ Overalls \subseteq Int
  BY EvidenceAssumption
<1>. QED
  BY <1>1, <1>2 DEF Run

LEMMA ValueIs ==
  ASSUME NEW run \in Run, NEW m
  PROVE  Value(run, m) \in Int /\ (m \in DOMAIN run.metrics => Value(run, m) = run.metrics[m])
  BY RunIs DEF Value

\* A metric that falls is one that the baseline has.
LEMMA FallenIsOfBaseline ==
  ASSUME NEW baseline \in Run, NEW m, NEW limit, NEW c, FellBy(limit, Value(baseline, m), c)
  PROVE  m \in DOMAIN baseline.metrics /\ m \in Metrics
<1>1. Value(baseline, m) # 0
  BY ValueIs DEF FellBy
<1>. QED
  BY <1>1, RunIs DEF Value

\* What falls still falls when it is worse.
LEMMA FallsFurther ==
  ASSUME NEW b \in Int, NEW c \in Int, NEW w \in Int, NEW limit \in {5000, 10005},
         b > 0 => w <= c, b < 0 => w = c, FellBy(limit, b, c)
  PROVE  FellBy(limit, b, w)
<1>1. CASE limit = 5000
  BY <1>1 DEF FellBy
<1>2. CASE limit = 10005
  BY <1>2 DEF FellBy
<1>. QED
  BY <1>1, <1>2

LEMMA DeltaIsInt ==
  ASSUME NEW baseline \in Run, NEW candidate \in Run, NEW err \in Off
  PROVE  Delta(baseline, candidate, err) \in Int
  BY RunIs DEF Delta, Off

LEMMA ThresholdIsInt ==
  ASSUME NEW asked \in Thresholds \cup {0}
  PROVE  ThresholdOf(asked) \in Int /\ (asked >= 0 => ThresholdOf(asked) >= 1)
<1>1. asked \in Int
  BY EvidenceAssumption
<1>. QED
  BY <1>1 DEF ThresholdOf

\* A promotion loses nothing: what the baseline scores on stays at 95 % at least,
\* and the score rises unless a negative threshold was asked for.
LEMMA PromotionLosesNothing ==
  ASSUME NEW baseline \in Run, NEW candidate \in Run, NEW crit, NEW asked \in Thresholds \cup {0},
         NEW err \in Off, Evaluate(baseline, candidate, crit, asked, err) = "PROMOTE"
  PROVE  LET direct == CompareRuns(baseline, candidate)
             metrics == baseline.metrics
         IN /\ \A m \in DOMAIN metrics : metrics[m] > 0 =>
                   m \in DOMAIN candidate.metrics /\ 20 * direct.deltas[m] >= -metrics[m]
            /\ asked >= 0 => direct.isImprovement /\ ~direct.isRegression
<1>. DEFINE direct == CompareRuns(baseline, candidate)
<1>1. Regressed(baseline, candidate) = {} /\ Delta(baseline, candidate, err) >= 2 * ThresholdOf(asked)
  BY DEF Evaluate
<1>2. ASSUME NEW m \in DOMAIN baseline.metrics, baseline.metrics[m] > 0
      PROVE  m \in DOMAIN candidate.metrics /\ 20 * direct.deltas[m] >= -baseline.metrics[m]
  <2>1. Value(baseline, m) = baseline.metrics[m] /\ Value(baseline, m) \in Int /\ Value(candidate, m) \in Int
    BY ValueIs
  <2>2. ~FellBy(5000, Value(baseline, m), Value(candidate, m))
    BY <1>1 DEF Regressed, Compared
  <2>3. ~(100000 * (Value(baseline, m) - Value(candidate, m)) > 5000 * Value(baseline, m))
    BY <1>2, <2>1, <2>2 DEF FellBy
  <2>4. 20 * (Value(candidate, m) - Value(baseline, m)) >= -Value(baseline, m)
    BY <2>1, <2>3
  <2>5. direct.deltas[m] = Value(candidate, m) - Value(baseline, m)
    BY DEF CompareRuns, Compared
  <2>6. m \in DOMAIN candidate.metrics
    <3>1. SUFFICES ASSUME m \notin DOMAIN candidate.metrics
                   PROVE  FALSE
      OBVIOUS
    <3>2. Value(candidate, m) = 0
      BY <3>1 DEF Value
    <3>. QED
      BY <3>2, <2>1, <2>4, <1>2
  <2>. QED
    BY <2>1, <2>4, <2>5, <2>6
<1>3. ASSUME asked >= 0
      PROVE  direct.isImprovement /\ ~direct.isRegression
  <2>1. baseline.score \in Int /\ candidate.score \in Int
    BY RunIs
  <2>2. ThresholdOf(asked) \in Int /\ ThresholdOf(asked) >= 1
    BY <1>3, ThresholdIsInt
  <2>3. 2 * (candidate.score - baseline.score) + err >= 2 * ThresholdOf(asked)
    BY <1>1 DEF Delta
  <2>4. candidate.score > baseline.score
    BY <2>1, <2>2, <2>3 DEF Off
  <2>5. ~(candidate.score < baseline.score)
    BY <2>1, <2>4
  <2>. QED
    BY <2>4, <2>5 DEF CompareRuns
<1>. QED
  BY <1>2, <1>3

\* The recommendations, worst first.
LEMMA RankIs ==
  ASSUME NEW baseline, NEW candidate, NEW crit, NEW asked, NEW err
  PROVE  /\ Evaluate(baseline, candidate, crit, asked, err) \in {"REJECT", "INCONCLUSIVE", "PROMOTE"}
         /\ Rank(Evaluate(baseline, candidate, crit, asked, err)) \in 0 .. 2
         /\ Rank("REJECT") = 0 /\ Rank("INCONCLUSIVE") = 1 /\ Rank("PROMOTE") = 2
  BY DEF Evaluate, Rank

\* To do worse is never judged better.
LEMMA WorseIsNoBetter ==
  ASSUME NEW baseline \in Run, NEW candidate \in Run, NEW worse \in Run,
         NEW less, NEW more, less \subseteq more, NEW asked \in Thresholds \cup {0},
         NEW err \in Off, NEW off \in Off,
         worse.score < candidate.score \/ (worse.score = candidate.score /\ off = err),
         \A m \in Metrics :
           /\ Value(baseline, m) > 0 => Value(worse, m) <= Value(candidate, m)
           /\ Value(baseline, m) < 0 => Value(worse, m) = Value(candidate, m)
  PROVE  Rank(Evaluate(baseline, worse, more, asked, off)) <= Rank(Evaluate(baseline, candidate, less, asked, err))
<1>. DEFINE bad == Evaluate(baseline, worse, more, asked, off)
            good == Evaluate(baseline, candidate, less, asked, err)
            was == Delta(baseline, candidate, err)
            is == Delta(baseline, worse, off)
            limit == 2 * ThresholdOf(asked)
<1>1. Rank(bad) \in 0 .. 2 /\ Rank(good) \in 0 .. 2
  BY RankIs
<1>2. is <= was /\ is \in Int /\ was \in Int /\ limit \in Int
  <2>1. worse.score \in Int /\ candidate.score \in Int /\ baseline.score \in Int
    BY RunIs
  <2>2. ThresholdOf(asked) \in Int
    BY ThresholdIsInt
  <2>. QED
    BY <2>1, <2>2 DEF Delta, Off
<1>3. ASSUME NEW most \in {5000, 10005}, NEW m, FellBy(most, Value(baseline, m), Value(candidate, m))
      PROVE  m \in Compared(baseline, worse) /\ FellBy(most, Value(baseline, m), Value(worse, m))
  <2>1. m \in DOMAIN baseline.metrics /\ m \in Metrics
    BY <1>3, FallenIsOfBaseline
  <2>2. Value(baseline, m) \in Int /\ Value(candidate, m) \in Int /\ Value(worse, m) \in Int
    BY ValueIs
  <2>. QED
    BY <1>3, <2>1, <2>2, FallsFurther DEF Compared
<1>4. Regressed(baseline, candidate) \subseteq Regressed(baseline, worse)
  BY <1>3 DEF Regressed
<1>5. Severely(baseline, candidate) \subseteq Severely(baseline, worse)
  BY <1>3 DEF Severely
<1>6. CASE bad = "REJECT"
  BY <1>1, <1>6, RankIs
<1>7. CASE bad = "INCONCLUSIVE"
  <2>1. /\ Regressed(baseline, worse) \cap more = {} /\ Severely(baseline, worse) = {}
        /\ is >= limit \/ is > -limit
    BY <1>7 DEF Evaluate
  <2>2. Regressed(baseline, candidate) \cap less = {} /\ Severely(baseline, candidate) = {}
    BY <1>4, <1>5, <2>1
  <2>3. was >= limit \/ was > -limit
    <3>. HIDE DEF was, is, limit
    <3>. QED
      BY <1>2, <2>1
  <2>4. good # "REJECT"
    BY <2>2, <2>3 DEF Evaluate
  <2>. QED
    BY <1>1, <1>7, <2>4, RankIs
<1>8. CASE bad = "PROMOTE"
  <2>1. Regressed(baseline, worse) = {} /\ Severely(baseline, worse) = {} /\ is >= limit
    BY <1>8 DEF Evaluate
  <2>2. Regressed(baseline, candidate) = {} /\ Severely(baseline, candidate) = {}
    BY <1>4, <1>5, <2>1
  <2>3. was >= limit
    <3>. HIDE DEF was, is, limit
    <3>. QED
      BY <1>2, <2>1
  <2>4. good = "PROMOTE"
    BY <2>2, <2>3 DEF Evaluate
  <2>. QED
    BY <1>1, <1>8, <2>4, RankIs
<1>. QED
  BY <1>6, <1>7, <1>8, RankIs

-----------------------------------------------------------------------------
(* The pass *)

Stages == {"records", "plan", "score", "baseline", "candidate", "evaluate", "done"}

\* What is measured and asked for is what Damascus can measure and be asked.
InputInv ==
  /\ stage \in Stages
  /\ records \in Seq(RecordType) /\ Len(records) <= MaxRecords
  /\ overall \in 0 .. Full
  /\ runs \in [baseline : Run \cup {NoRun}, candidate : Run \cup {NoRun}]
  /\ stage \in {"candidate", "evaluate", "done"} => runs.baseline \in Run
  /\ stage \in {"evaluate", "done"} => runs.candidate \in Run
  /\ critical \subseteq Metrics /\ threshold \in Thresholds \cup {0} /\ noise \in Off

\* The report is that of the records it was made from, until they are gone.
ReportInv ==
  /\ stage = "plan" => found = AnalyzeAgentPerformance(records)
  /\ stage # "plan" => found = <<>>

\* The recommendation is that of the runs it was made from.
AdviceInv ==
  /\ stage = "done" => advice = Evaluate(runs.baseline, runs.candidate, critical, threshold, noise)
  /\ stage # "done" => advice = "none"

IInv == InputInv /\ ReportInv /\ AdviceInv

LEMMA InitIInv ==
  Init => IInv
<1>. SUFFICES ASSUME Init
              PROVE  IInv
  OBVIOUS
<1>1. InputInv
  <2>1. records = <<>> /\ Len(records) = 0 /\ records \in Seq(RecordType) /\ 0 <= MaxRecords
    BY EvidenceAssumption DEF Init
  <2>2. runs \in [baseline : Run \cup {NoRun}, candidate : Run \cup {NoRun}] /\ overall \in 0 .. Full
    BY FullIsNat DEF Init
  <2>. QED
    BY <2>1, <2>2 DEF Init, InputInv, Stages, Off
<1>. QED
  BY <1>1 DEF Init, IInv, ReportInv, AdviceInv

LEMMA RecordIInv ==
  ASSUME IInv, NEW agent \in Agents, NEW kind \in Kinds, Record(agent, kind)
  PROVE  IInv'
<1>. DEFINE new == [agent |-> agent, success |-> kind[1], quality |-> kind[2],
                    latency |-> kind[3], tokens |-> kind[4]]
<1>1. /\ stage = "records" /\ Len(records) < MaxRecords /\ records' = <<new>> \o records
      /\ stage' = stage /\ found' = found /\ overall' = overall /\ runs' = runs /\ critical' = critical
      /\ threshold' = threshold /\ noise' = noise /\ advice' = advice
  BY DEF Record
<1>2. kind \in BOOLEAN \X Int \X Int \X Int
  BY EvidenceAssumption
<1>3. kind[1] \in BOOLEAN /\ kind[2] \in Int /\ kind[3] \in Int /\ kind[4] \in Int
  BY <1>2
<1>4. new \in RecordType
  BY <1>3 DEF RecordType
<1>5. records \in Seq(RecordType) /\ MaxRecords \in Nat
  BY EvidenceAssumption DEF IInv, InputInv
<1>. HIDE DEF new
<1>6. records' \in Seq(RecordType) /\ Len(records') = Len(records) + 1
  BY <1>1, <1>4, <1>5
<1>7. Len(records') <= MaxRecords
  BY <1>1, <1>5, <1>6
<1>8. InputInv'
  BY <1>1, <1>6, <1>7 DEF IInv, InputInv
<1>. QED
  BY <1>1, <1>8 DEF IInv, ReportInv, AdviceInv

LEMMA AnalyzeIInv ==
  ASSUME IInv, Analyze
  PROVE  IInv'
<1>1. /\ stage = "records" /\ stage' = "plan" /\ found' = AnalyzeAgentPerformance(records)
      /\ records' = records /\ overall' = overall /\ runs' = runs /\ critical' = critical
      /\ threshold' = threshold /\ noise' = noise /\ advice' = advice
  BY DEF Analyze
<1>2. InputInv'
  BY <1>1 DEF IInv, InputInv, Stages
<1>3. ReportInv'
  BY <1>1 DEF ReportInv
<1>. QED
  BY <1>1, <1>2, <1>3 DEF IInv, AdviceInv

LEMMA PlanIInv ==
  ASSUME IInv, Plan
  PROVE  IInv'
<1>1. /\ stage = "plan" /\ stage' = "score" /\ found' = <<>> /\ records' = <<>>
      /\ overall' = overall /\ runs' = runs /\ critical' = critical
      /\ threshold' = threshold /\ noise' = noise /\ advice' = advice
  BY DEF Plan
<1>2. records' \in Seq(RecordType) /\ Len(records') <= MaxRecords
  BY <1>1, EvidenceAssumption
<1>3. InputInv'
  BY <1>1, <1>2 DEF IInv, InputInv, Stages
<1>. QED
  BY <1>1, <1>3 DEF IInv, ReportInv, AdviceInv

LEMMA AggregateScoresIInv ==
  ASSUME IInv, NEW n \in 0 .. MaxMarks, NEW marks \in [1 .. n -> Marks], AggregateScores(marks)
  PROVE  IInv'
<1>1. /\ stage = "score" /\ stage' = "baseline" /\ overall' = CompositeScore(marks)
      /\ records' = records /\ found' = found /\ runs' = runs /\ critical' = critical
      /\ threshold' = threshold /\ noise' = noise /\ advice' = advice
  BY DEF AggregateScores
<1>2. marks \in Seq(Marks)
  BY EvidenceAssumption
<1>3. overall' \in 0 .. Full
  BY <1>1, <1>2, ScoreBounds
<1>4. InputInv'
  BY <1>1, <1>3 DEF IInv, InputInv, Stages
<1>. QED
  BY <1>1, <1>4 DEF IInv, ReportInv, AdviceInv

LEMMA MeasureIInv ==
  ASSUME IInv, NEW which \in {"baseline", "candidate"}, NEW run \in Run, Measure(which, run)
  PROVE  IInv'
<1>1. /\ stage = which /\ runs' = [runs EXCEPT ![which] = run] /\ overall' = 0
      /\ stage' = (IF which = "baseline" THEN "candidate" ELSE "evaluate")
      /\ records' = records /\ found' = found /\ critical' = critical
      /\ threshold' = threshold /\ noise' = noise /\ advice' = advice
  BY DEF Measure
<1>2. /\ runs' \in [baseline : Run \cup {NoRun}, candidate : Run \cup {NoRun}]
      /\ which = "baseline" => runs'.baseline \in Run
      /\ which = "candidate" => runs'.candidate \in Run /\ runs'.baseline \in Run
  <2>1. /\ runs \in [baseline : Run \cup {NoRun}, candidate : Run \cup {NoRun}]
        /\ which = "candidate" => runs.baseline \in Run
    BY <1>1 DEF IInv, InputInv
  <2>2. CASE which = "baseline"
    BY <1>1, <2>1, <2>2
  <2>3. CASE which = "candidate"
    BY <1>1, <2>1, <2>3
  <2>. QED
    BY <2>2, <2>3
<1>3. overall' \in 0 .. Full
  BY <1>1, FullIsNat
<1>4. InputInv'
  BY <1>1, <1>2, <1>3 DEF IInv, InputInv, Stages
<1>. QED
  BY <1>1, <1>4 DEF IInv, ReportInv, AdviceInv

LEMMA JudgeIInv ==
  ASSUME IInv, NEW crit \in SUBSET Metrics, NEW asked \in Thresholds \cup {0}, NEW err \in Off,
         Judge(crit, asked, err)
  PROVE  IInv'
<1>1. /\ stage = "evaluate" /\ stage' = "done" /\ critical' = crit /\ threshold' = asked /\ noise' = err
      /\ advice' = Evaluate(runs.baseline, runs.candidate, crit, asked, err)
      /\ records' = records /\ found' = found /\ overall' = overall /\ runs' = runs
  BY DEF Judge
<1>2. InputInv'
  BY <1>1 DEF IInv, InputInv, Stages
<1>3. AdviceInv'
  BY <1>1 DEF AdviceInv
<1>. QED
  BY <1>1, <1>2, <1>3 DEF IInv, ReportInv

LEMMA NextIInv ==
  IInv /\ [Next]_vars => IInv'
<1>. SUFFICES ASSUME IInv, [Next]_vars
              PROVE  IInv'
  OBVIOUS
<1>1. CASE \E agent \in Agents, kind \in Kinds : Record(agent, kind)
  BY <1>1, RecordIInv
<1>2. CASE Analyze
  BY <1>2, AnalyzeIInv
<1>3. CASE Plan
  BY <1>3, PlanIInv
<1>4. CASE \E n \in 0 .. MaxMarks : \E marks \in [1 .. n -> Marks] : AggregateScores(marks)
  BY <1>4, AggregateScoresIInv
<1>5. CASE \E run \in Run : Measure("baseline", run) \/ Measure("candidate", run)
  BY <1>5, MeasureIInv
<1>6. CASE \E crit \in SUBSET Metrics, err \in Off :
             EvaluateVariant(crit, err) \/ \E asked \in Thresholds : Judge(crit, asked, err)
  <2>1. PICK crit \in SUBSET Metrics, err \in Off :
               EvaluateVariant(crit, err) \/ \E asked \in Thresholds : Judge(crit, asked, err)
    BY <1>6
  <2>2. \E asked \in Thresholds \cup {0} : Judge(crit, asked, err)
    BY <2>1 DEF EvaluateVariant
  <2>. QED
    BY <2>2, JudgeIInv
<1>7. CASE UNCHANGED vars
  <2>1. /\ stage' = stage /\ records' = records /\ found' = found /\ overall' = overall /\ runs' = runs
        /\ critical' = critical /\ threshold' = threshold /\ noise' = noise /\ advice' = advice
    BY <1>7 DEF vars
  <2>. QED
    BY <2>1 DEF IInv, InputInv, ReportInv, AdviceInv
<1>. QED
  BY <1>1, <1>2, <1>3, <1>5, <1>6, <1>7, <1>4 DEF Next

\* Every reachable state satisfies the invariant: the report and the
\* recommendation are those of the evidence that is still there.
THEOREM Invariant == Spec => []IInv
<1>1. IInv /\ [Next]_vars => IInv'
  BY NextIInv
<1>. QED
  BY InitIInv, <1>1, PTL DEF Spec

LEMMA TypeFromIInv ==
  IInv => TypeOK
<1>. SUFFICES ASSUME IInv
              PROVE  TypeOK
  OBVIOUS
<1>1. \A i \in DOMAIN found : found[i].priority \in 0 .. Full
  <2>1. CASE stage = "plan"
    <3>1. found = AnalyzeAgentPerformance(records) /\ records \in Seq(RecordType)
      BY <2>1 DEF IInv, ReportInv, InputInv
    <3>. QED
      BY <3>1, ReportIs
  <2>2. CASE stage # "plan"
    <3>1. DOMAIN found = {}
      BY <2>2 DEF IInv, ReportInv
    <3>. QED
      BY <3>1
  <2>. QED
    BY <2>1, <2>2
<1>2. \A which \in DOMAIN runs : runs[which] \in Run \cup {NoRun}
  <2>1. runs \in [baseline : Run \cup {NoRun}, candidate : Run \cup {NoRun}]
    BY DEF IInv, InputInv
  <2>. QED
    BY <2>1
<1>3. advice \in {"none", "REJECT", "INCONCLUSIVE", "PROMOTE"}
  BY RankIs DEF IInv, AdviceInv
<1>. QED
  BY <1>1, <1>2, <1>3 DEF IInv, InputInv, Stages, TypeOK

\* Every variable keeps its type; priorities and the overall scores that scoring.py
\* makes stay between 0 and 1, whatever the measurements and the weights.
THEOREM TypeCorrect == Spec => []TypeOK
  BY Invariant, TypeFromIInv, PTL

LEMMA WorstFromIInv ==
  IInv => WorstFirst
<1>. SUFFICES ASSUME IInv, stage = "plan"
              PROVE  \A agent \in Agents :
                LET of == OfAgent(records, agent)
                IN Cardinality(of) >= MinSamples /\ (\A i \in of : ~records[i].success) =>
                     \E k \in DOMAIN found :
                       /\ found[k].agent = agent /\ found[k].type = "REPEATED_FAILURE"
                       /\ \A j \in 1 .. k - 1 :
                            LET other == OfAgent(records, found[j].agent)
                            IN /\ found[j].type = "REPEATED_FAILURE"
                               /\ 3 * Cardinality(Failures(records, other)) >= 2 * Cardinality(other)
  BY DEF WorstFirst
<1>1. found = AnalyzeAgentPerformance(records) /\ records \in Seq(RecordType)
  BY DEF IInv, ReportInv, InputInv
<1>. QED
  BY <1>1, WorstIsFirst

\* OpportunityAnalyzer's order: an agent that always fails is never behind one
\* that only is slow, dear or poor.
THEOREM WorstComesFirst == Spec => []WorstFirst
  BY Invariant, WorstFromIInv, PTL

LEMMA EvaluatedFromIInv ==
  ASSUME IInv, stage = "done" \/ advice # "none"
  PROVE  /\ runs.baseline \in Run /\ runs.candidate \in Run /\ threshold \in Thresholds \cup {0}
         /\ noise \in Off /\ critical \subseteq Metrics
         /\ advice = Evaluate(runs.baseline, runs.candidate, critical, threshold, noise)
  BY DEF IInv, InputInv, AdviceInv

LEMMA NothingLostFromIInv ==
  IInv => NothingLostByPromotion
<1>. SUFFICES ASSUME IInv, advice = "PROMOTE"
              PROVE  NothingLostByPromotion
  BY DEF NothingLostByPromotion
<1>1. /\ runs.baseline \in Run /\ runs.candidate \in Run /\ threshold \in Thresholds \cup {0}
      /\ noise \in Off
      /\ Evaluate(runs.baseline, runs.candidate, critical, threshold, noise) = "PROMOTE"
  BY EvaluatedFromIInv
<1>. QED
  BY <1>1, PromotionLosesNothing DEF NothingLostByPromotion

\* EvaluationEngine's promotions keep what the baseline could do, whatever scores
\* it is told, and compare_runs calls them improvements unless a negative
\* threshold was asked for.
THEOREM PromotionsLoseNothing == Spec => []NothingLostByPromotion
  BY Invariant, NothingLostFromIInv, PTL

LEMMA WorseFromIInv ==
  IInv => WorseIsNeverBetter
<1>. SUFFICES ASSUME IInv, stage = "done", NEW worse \in Run, NEW crit \in SUBSET Metrics, NEW err \in Off,
                     critical \subseteq crit,
                     \/ worse.score < runs.candidate.score
                     \/ worse.score = runs.candidate.score /\ err = noise,
                     \A m \in Metrics :
                       /\ Value(runs.baseline, m) > 0 => Value(worse, m) <= Value(runs.candidate, m)
                       /\ Value(runs.baseline, m) < 0 => Value(worse, m) = Value(runs.candidate, m)
              PROVE  Rank(Evaluate(runs.baseline, worse, crit, threshold, err)) <= Rank(advice)
  BY DEF WorseIsNeverBetter
<1>1. /\ runs.baseline \in Run /\ runs.candidate \in Run /\ threshold \in Thresholds \cup {0}
      /\ noise \in Off
      /\ advice = Evaluate(runs.baseline, runs.candidate, critical, threshold, noise)
  BY EvaluatedFromIInv
<1>. QED
  BY <1>1, WorseIsNoBetter

\* The evaluation is monotone in what it is told: a candidate with no better score
\* and no higher value for anything the baseline scores on, where what is left out
\* counts 0, is never judged better; nor is one held to more critical metrics.
THEOREM EvaluationIsMonotone == Spec => []WorseIsNeverBetter
  BY Invariant, WorseFromIInv, PTL
=============================================================================
