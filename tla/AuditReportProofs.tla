-------------------------- MODULE AuditReportProofs --------------------------
(***************************************************************************)
(* What holds of the report for any pages, rules, categories and order of  *)
(* the rows: the merge keeps the worst verdict of the variants of a page,  *)
(* no check with an issue rounds up to a passed one below 2000 pages, and  *)
(* no repair lowers the score of the site.                                 *)
(***************************************************************************)
EXTENDS AuditReport, FiniteSetTheorems, WellFoundedInduction, TLAPS

-----------------------------------------------------------------------------
(* The merge *)

\* What Keep makes of an old and a new verdict, either of which may be missing.
LEMMA KeepFacts ==
  ASSUME NEW old \in Verdict \cup {Missing}, NEW new \in Verdict \cup {Missing}
  PROVE  /\ Keep(old, new) \in {old, new}
         /\ Keep(old, new) # Missing <=> old # Missing \/ new # Missing
         /\ Keep(old, new) # Missing /\ ~Keep(old, new).passed <=>
              \/ old # Missing /\ ~old.passed
              \/ new # Missing /\ ~new.passed
<1>1. \A w \in Verdict : w.passed \in BOOLEAN
  BY DEF Verdict
<1>2. CASE new = Missing
  BY <1>2 DEF Keep
<1>3. CASE new # Missing /\ old = Missing
  BY <1>3 DEF Keep
<1>4. CASE new # Missing /\ old # Missing
  BY <1>1, <1>4 DEF Keep
<1> QED
  BY <1>2, <1>3, <1>4

\* A page has its first verdict when it enters the order, and stays in it.
PlacedWhenJudged ==
  \A k \in Key, r \in Rule : merged[k][r] # Missing => k \in Range(order)

ReportInv == TypeOK /\ WorstVerdictWins /\ PlacedWhenJudged

LEMMA InitReport == Init => ReportInv
<1> SUFFICES ASSUME Init PROVE ReportInv
  OBVIOUS
<1>1. TypeOK
  BY DEF Init, TypeOK
<1>2. \A k \in Key, r \in Rule : merged[k][r] = Missing
  BY DEF Init
<1>3. WorstVerdictWins
  BY <1>2 DEF Init, WorstVerdictWins, MergedBy, FailsOn
<1> QED
  BY <1>1, <1>2, <1>3 DEF ReportInv, PlacedWhenJudged

LEMMA MergeReport ==
  ASSUME ReportInv, NEW v \in Variant, Merge(v)
  PROVE  ReportInv'
<1> DEFINE kv == KeyOf[v]
<1> USE DEF ReportInv
<1>1. kv \in Key
  BY ReportAssumption
<1>2. ASSUME NEW k \in Key, NEW r \in Rule
      PROVE  /\ k # kv => merged'[k][r] = merged[k][r]
             /\ k = kv => merged'[k][r] = Keep(merged[k][r], row[v][r])
  BY <1>1, <1>2 DEF Merge, TypeOK
<1>3. ASSUME NEW k \in Key, NEW r \in Rule
      PROVE  merged[k][r] \in Verdict \cup {Missing} /\ row[v][r] \in Verdict \cup {Missing}
  BY <1>3 DEF TypeOK
<1>4. TypeOK'
  <2>1. row' \in [Variant -> [Rule -> Verdict \cup {Missing}]] /\ left' \subseteq Variant
    BY DEF Merge, TypeOK
  <2>2. order' \in Seq(Key)
    BY <1>1 DEF Merge, TypeOK
  <2>3. [r \in Rule |-> Keep(merged[kv][r], row[v][r])] \in [Rule -> Verdict \cup {Missing}]
    BY <1>1, <1>3, KeepFacts
  <2>4. merged' \in [Key -> [Rule -> Verdict \cup {Missing}]]
    BY <1>1, <2>3 DEF Merge, TypeOK
  <2> QED
    BY <2>1, <2>2, <2>4 DEF TypeOK
<1>5. \A k \in Key : MergedBy(k)' = IF k = kv THEN MergedBy(k) \cup {v} ELSE MergedBy(k)
  BY DEF Merge, MergedBy, TypeOK
<1>6. WorstVerdictWins'
  <2> SUFFICES ASSUME NEW k \in Key, NEW r \in Rule
               PROVE  /\ merged'[k][r] # Missing <=>
                           \E w \in MergedBy(k)' : row[w][r] # Missing
                      /\ merged'[k][r] # Missing /\ ~merged'[k][r].passed <=>
                           \E w \in MergedBy(k)' : row[w][r] # Missing /\ ~row[w][r].passed
    BY DEF WorstVerdictWins, FailsOn, Merge
  <2>1. /\ merged[k][r] # Missing <=> \E w \in MergedBy(k) : row[w][r] # Missing
        /\ merged[k][r] # Missing /\ ~merged[k][r].passed <=>
             \E w \in MergedBy(k) : row[w][r] # Missing /\ ~row[w][r].passed
    BY DEF WorstVerdictWins, FailsOn
  <2>2. CASE k # kv
    BY <1>2, <1>5, <2>1, <2>2
  <2>3. CASE k = kv
    <3>1. MergedBy(k)' = MergedBy(k) \cup {v}
      BY <1>5, <2>3
    <3>2. merged'[k][r] = Keep(merged[k][r], row[v][r])
      BY <1>2, <2>3
    <3>3. /\ merged'[k][r] # Missing <=> merged[k][r] # Missing \/ row[v][r] # Missing
          /\ merged'[k][r] # Missing /\ ~merged'[k][r].passed <=>
               \/ merged[k][r] # Missing /\ ~merged[k][r].passed
               \/ row[v][r] # Missing /\ ~row[v][r].passed
      BY <1>3, <3>2, KeepFacts
    <3> QED
      BY <2>1, <3>1, <3>3
  <2> QED
    BY <2>2, <2>3
<1>7. PlacedWhenJudged'
  <2> SUFFICES ASSUME NEW k \in Key, NEW r \in Rule, merged'[k][r] # Missing
               PROVE  k \in Range(order')
    BY DEF PlacedWhenJudged
  <2>1. order \in Seq(Key) /\ Range(order) \subseteq Range(order')
    <3>1. order \in Seq(Key) /\ order' \in {order, Append(order, kv)}
      BY DEF TypeOK, Merge
    <3>2. ASSUME NEW i \in DOMAIN order
          PROVE  i \in DOMAIN order' /\ order'[i] = order[i]
      BY <1>1, <3>1, <3>2
    <3> QED
      BY <3>1, <3>2 DEF Range
  <2>2. CASE merged[k][r] # Missing
    BY <2>1, <2>2 DEF PlacedWhenJudged
  <2>3. CASE merged[k][r] = Missing
    <3>1. k = kv /\ row[v][r] # Missing
      BY <1>2, <1>3, <2>3, KeepFacts
    <3>2. CASE kv \in Range(order)
      BY <2>1, <3>1, <3>2
    <3>3. CASE kv \notin Range(order)
      <4>1. order' = Append(order, kv)
        BY <3>1, <3>3 DEF Merge
      <4>2. Len(order) + 1 \in DOMAIN order' /\ order'[Len(order) + 1] = kv
        BY <1>1, <2>1, <4>1
      <4> QED
        BY <3>1, <4>2 DEF Range
    <3> QED
      BY <3>2, <3>3
  <2> QED
    BY <2>2, <2>3
<1> QED
  BY <1>4, <1>6, <1>7

\* The inductive invariant holds of every reachable state.
THEOREM ReportInvariant == Spec => []ReportInv
<1>1. ReportInv /\ [Next]_vars => ReportInv'
  <2> SUFFICES ASSUME ReportInv, [Next]_vars PROVE ReportInv'
    OBVIOUS
  <2>1. ASSUME NEW v \in Variant, Merge(v) PROVE ReportInv'
    BY <2>1, MergeReport
  <2>2. CASE UNCHANGED vars
    BY <2>2 DEF vars, ReportInv, TypeOK, WorstVerdictWins, MergedBy, FailsOn, PlacedWhenJudged
  <2> QED
    BY <2>1, <2>2 DEF Next
<1> QED
  BY <1>1, InitReport, PTL DEF Spec

\* _merge_results_worst: whatever the order of the rows, a canonical page fails a rule
\* iff one of its variants does, and has a verdict iff one of them has.
THEOREM WorstVerdict == Spec => []WorstVerdictWins
<1>1. ReportInv => WorstVerdictWins
  BY DEF ReportInv
<1> QED
  BY <1>1, ReportInvariant, PTL

-----------------------------------------------------------------------------
(* The share of passing pages *)

\* A share of k pages in n is rounded to less than a hundred percent if k < n < 2000.
LEMMA RoundedShare ==
  ASSUME NEW k \in Nat, NEW n \in Nat, k < n, n < 2000
  PROVE  Rounded(100 * k, n) \in Int /\ Rounded(100 * k, n) < PASS_THRESHOLD
<1> DEFINE a == 20 * (100 * k) + n
           d == 2 * n
           q == a \div d
<1>1. a \in Nat /\ d \in Nat /\ d > 0 /\ a < 1000 * d
  OBVIOUS
<1>2. q \in Int /\ d * q <= a
  <2> HIDE DEF a, d
  <2> QED
    BY <1>1
<1>3. q < 1000
  <2> HIDE DEF a, d, q
  <2>1. ASSUME q >= 1000 PROVE FALSE
    <3>1. d * q >= d * 1000
      BY <1>1, <1>2, <2>1
    <3> QED
      BY <1>1, <1>2, <3>1
  <2> QED
    BY <1>2, <2>1
<1> QED
  BY <1>2, <1>3 DEF Rounded, PASS_THRESHOLD

\* The first page of a rule that has a verdict somewhere is a page with that verdict.
LEMMA FirstPageFacts ==
  ASSUME ReportInv, NEW r \in Rule, NEW k \in Key, merged[k][r] # Missing
  PROVE  FirstPage(r) \in Key /\ merged[FirstPage(r)][r] # Missing
<1> DEFINE has == {i \in DOMAIN order : merged[order[i]][r] # Missing}
<1>1. order \in Seq(Key)
  BY DEF ReportInv, TypeOK
<1>2. has \subseteq Nat /\ has # {}
  <2>1. k \in Range(order)
    BY DEF ReportInv, PlacedWhenJudged
  <2> QED
    BY <1>1, <2>1 DEF Range
<1>3. PICK i \in has : \A j \in has : ~(<<j, i>> \in OpToRel(<, Nat))
  <2> HIDE DEF has
  <2> QED
    BY <1>2, WFMin, NatLessThanWellFounded, Zenon
<1>4. \A j \in has : <<j, i>> \in Nat \X Nat
  BY <1>2
<1>5. \A j \in has : ~(j < i)
  <2> SUFFICES ASSUME NEW j \in has, j < i PROVE FALSE
    OBVIOUS
  <2>1. <<j, i>> \in OpToRel(<, Nat)
    BY <1>4, Zenon DEF OpToRel
  <2> QED
    BY <1>3, <2>1, Zenon
<1>6. \A j \in has : i <= j
  BY <1>2, <1>5
<1>7. (CHOOSE m \in has : \A j \in has : m <= j) \in has
  BY <1>6
<1> QED
  BY <1>1, <1>7 DEF FirstPage

\* A check that fails on a page has a share below a hundred percent.
LEMMA FailureShows ==
  ASSUME ReportInv, Cardinality(Analyzed) < 2000,
         NEW r \in Rule, NEW k \in Key, FailsOn(r, k)
  PROVE  CheckScore(r) \in Int /\ CheckScore(r) < PASS_THRESHOLD
<1> DEFINE passing == {q \in Scored(merged) : ~FailsOn(r, q)}
<1>1. IsFiniteSet(Analyzed) /\ Cardinality(Analyzed) \in Nat
  <2>1. Analyzed \subseteq Key
    BY ReportAssumption DEF Analyzed
  <2> QED
    BY <2>1, ReportAssumption, FS_Subset, FS_CardinalityType
<1>2. ASSUME NEW q \in Key, NEW s \in Rule, merged[q][s] # Missing
      PROVE  q \in Analyzed
  <2>1. PICK v \in MergedBy(q) : row[v][s] # Missing
    BY <1>2 DEF ReportInv, WorstVerdictWins
  <2> QED
    BY <2>1 DEF MergedBy, Analyzed
<1>3. Scored(merged) \subseteq Analyzed
  BY <1>2 DEF Scored, Checked
<1>4. k \in Analyzed \ passing
  BY <1>2 DEF FailsOn
<1>5. passing \subseteq Analyzed /\ passing # Analyzed
  BY <1>3, <1>4
<1>6. Cardinality(passing) \in Nat /\ Cardinality(passing) < Cardinality(Analyzed)
  <2> HIDE DEF passing
  <2> QED
    BY <1>1, <1>5, FS_Subset, FS_CardinalityType
<1>7. LET share == Rounded(100 * Cardinality(passing), Cardinality(Analyzed))
      IN  share \in Int /\ share < PASS_THRESHOLD
  BY <1>1, <1>6, RoundedShare
<1> QED
  BY <1>7 DEF CheckScore

\* No check that has an issue, or that the summary counts as failed, is counted as
\* passed in its category, on a site of fewer than 2000 canonical pages.
THEOREM IssueFails ==
  ASSUME Cardinality(Analyzed) < 2000
  PROVE  Spec => []IssueFailsItsCheck
<1>1. ReportInv => IssueFailsItsCheck
  <2> SUFFICES ASSUME ReportInv, NEW r \in Issues \cup SummaryFailed
               PROVE  r \notin ChecksPassed(CategoryOf[r])
    BY DEF IssueFailsItsCheck
  <2>1. r \in Rule /\ \E k \in Key : FailsOn(r, k)
    <3>1. CASE r \in Issues
      BY <3>1 DEF Issues
    <3>2. CASE r \in SummaryFailed
      <4>1. PICK k \in Key : merged[k][r] # Missing
        BY <3>2 DEF SummaryFailed
      <4>2. r \in Rule /\ FailsOn(r, FirstPage(r))
        BY <3>2 DEF SummaryFailed
      <4>3. FirstPage(r) \in Key
        BY <4>1, <4>2, FirstPageFacts
      <4> QED
        BY <4>2, <4>3
    <3> QED
      BY <3>1, <3>2
  <2>2. CheckScore(r) \in Int /\ CheckScore(r) < PASS_THRESHOLD
    BY <2>1, FailureShows
  <2>3. ~(CheckScore(r) >= PASS_THRESHOLD)
    BY <2>2 DEF PASS_THRESHOLD
  <2> QED
    BY <2>3 DEF ChecksPassed
<1> QED
  BY <1>1, ReportInvariant, PTL

-----------------------------------------------------------------------------
(* Sums over sets *)

\* The element that the folds of the community modules take from a set first.
First(s) == CHOOSE x \in s : TRUE

\* g has the sum of f over each subset of S, as MapThenSumSet takes it.
Sums(g, f, S) ==
  g = [s \in SUBSET S |-> IF s = {} THEN 0 ELSE f[First(s)] + g[s \ {First(s)}]]

\* A fold takes an element of the set.
LEMMA FirstIn == ASSUME NEW s, s # {} PROVE First(s) \in s
  BY DEF First

\* Induction over the natural numbers, on a set of numbers.
LEMMA NatSteps ==
  ASSUME NEW G, 0 \in G, \A n \in Nat : n \in G => n + 1 \in G
  PROVE  Nat \subseteq G
<1> SUFFICES ASSUME Nat \ G # {} PROVE FALSE
  OBVIOUS
<1>1. PICK n \in Nat \ G : \A k \in Nat \ G : ~(<<k, n>> \in OpToRel(<, Nat))
  BY WFMin, NatLessThanWellFounded, Nat \ G \subseteq Nat, Zenon
<1>2. n # 0 /\ n - 1 \in Nat \ G
  BY n - 1 + 1 = n
<1>3. <<n - 1, n>> \in Nat \X Nat /\ n - 1 < n
  BY <1>2
<1>4. <<n - 1, n>> \in OpToRel(<, Nat)
  BY <1>3, Zenon DEF OpToRel
<1> QED
  BY <1>1, <1>2, <1>4, Zenon

\* Induction over the subsets of a finite set, in the order in which a fold takes them apart.
LEMMA SubsetSteps ==
  ASSUME NEW S, IsFiniteSet(S), NEW G, {} \in G,
         \A T \in SUBSET S : T # {} /\ T \ {First(T)} \in G => T \in G
  PROVE  SUBSET S \subseteq G
<1> DEFINE N == {n \in Nat : \A T \in SUBSET S : Cardinality(T) = n => T \in G}
<1>1. \A T \in SUBSET S : IsFiniteSet(T) /\ Cardinality(T) \in Nat
  BY FS_Subset, FS_CardinalityType
<1>2. 0 \in N
  BY <1>1, FS_EmptySet
<1>3. \A n \in Nat : n \in N => n + 1 \in N
  <2> SUFFICES ASSUME NEW n \in N, NEW T \in SUBSET S, Cardinality(T) = n + 1
               PROVE  T \in G
    OBVIOUS
  <2>1. T # {}
    BY FS_EmptySet
  <2>2. First(T) \in T
    BY <2>1, FirstIn
  <2>3. Cardinality(T \ {First(T)}) = Cardinality(T) - 1
    BY <1>1, <2>2, FS_RemoveElement
  <2>4. Cardinality(T \ {First(T)}) = n
    BY <2>3
  <2> QED
    BY <2>1, <2>4
<1>4. Nat \subseteq N
  <2> HIDE DEF N
  <2> QED
    BY <1>2, <1>3, NatSteps
<1> QED
  BY <1>1, <1>4

\* There are such sums.
LEMMA SumsExist ==
  ASSUME NEW S, IsFiniteSet(S), NEW f \in [S -> Int]
  PROVE  \E g : Sums(g, f, S)
<1> DEFINE Step(g, s) == IF s = {} THEN 0 ELSE f[First(s)] + g[s \ {First(s)}]
           Small(n) == {s \in SUBSET S : Cardinality(s) <= n}
           N == {n \in Nat : \E g \in [SUBSET S -> Int] : \A s \in Small(n) : g[s] = Step(g, s)}
<1>1. \A T \in SUBSET S : IsFiniteSet(T) /\ Cardinality(T) \in Nat
  BY FS_Subset, FS_CardinalityType
<1>2. 0 \in N
  <2>1. \A s \in Small(0) : s = {}
    BY <1>1, FS_EmptySet
  <2>2. [s \in SUBSET S |-> 0] \in [SUBSET S -> Int]
    OBVIOUS
  <2> QED
    BY <2>1, <2>2
<1>3. \A n \in Nat : n \in N => n + 1 \in N
  <2> SUFFICES ASSUME NEW n \in Nat, n \in N PROVE n + 1 \in N
    OBVIOUS
  <2>0. PICK g \in [SUBSET S -> Int] : \A s \in Small(n) : g[s] = Step(g, s)
    OBVIOUS
  <2> DEFINE h == [s \in SUBSET S |-> IF s \in Small(n) THEN g[s] ELSE Step(g, s)]
  <2>1. \A s \in SUBSET S : s # {} => First(s) \in S /\ s \ {First(s)} \in SUBSET S
    BY FirstIn
  <2>2. h \in [SUBSET S -> Int]
    BY <2>1
  <2>3. \A s \in Small(n + 1) : s # {} => s \ {First(s)} \in Small(n)
    BY <1>1, FirstIn, FS_RemoveElement
  <2>4. \A s \in Small(n + 1) : h[s] = Step(g, s)
    BY <2>0
  <2>5. \A s \in Small(n + 1) : Step(h, s) = Step(g, s)
    BY <2>3
  <2>6. \A s \in Small(n + 1) : h[s] = Step(h, s)
    <3> HIDE DEF h, Step, Small
    <3> QED
      BY <2>4, <2>5
  <2>7. \E k \in [SUBSET S -> Int] : \A s \in Small(n + 1) : k[s] = Step(k, s)
    <3> HIDE DEF h, Small
    <3> QED
      BY <2>2, <2>6
  <2>8. n + 1 \in Nat
    OBVIOUS
  <2> QED
    <3> HIDE DEF Small, Step
    <3> QED
      BY <2>7, <2>8, Zenon
<1>4. Nat \subseteq N
  <2> HIDE DEF N
  <2> QED
    BY <1>2, <1>3, NatSteps
<1>5. PICK g \in [SUBSET S -> Int] : \A s \in Small(Cardinality(S)) : g[s] = Step(g, s)
  BY <1>1, <1>4
<1>6. SUBSET S \subseteq Small(Cardinality(S))
  BY <1>1, FS_Subset
<1>7. g = [s \in SUBSET S |-> Step(g, s)]
  BY <1>5, <1>6
<1> QED
  BY <1>7 DEF Sums

\* A sum does not fall when no summand does.
LEMMA SumsGrow ==
  ASSUME NEW S, IsFiniteSet(S), NEW f \in [S -> Int], NEW e \in [S -> Int],
         \A x \in S : f[x] <= e[x],
         NEW g, Sums(g, f, S), NEW h, Sums(h, e, S)
  PROVE  g[S] \in Int /\ h[S] \in Int /\ g[S] <= h[S]
<1> DEFINE G == {T \in SUBSET S : g[T] \in Int /\ h[T] \in Int /\ g[T] <= h[T]}
<1>1. {} \in G
  BY DEF Sums
<1>2. ASSUME NEW T \in SUBSET S, T # {}, T \ {First(T)} \in G PROVE T \in G
  <2>1. First(T) \in S
    BY <1>2, FirstIn
  <2>2. g[T] = f[First(T)] + g[T \ {First(T)}] /\ h[T] = e[First(T)] + h[T \ {First(T)}]
    BY <1>2 DEF Sums
  <2> QED
    BY <1>2, <2>1, <2>2
<1>3. SUBSET S \subseteq G
  <2> HIDE DEF G
  <2> QED
    BY <1>1, <1>2, SubsetSteps
<1> QED
  BY <1>3

\* A sum of positive numbers over a set with elements is positive.
LEMMA SumsPositive ==
  ASSUME NEW S, IsFiniteSet(S), S # {}, NEW f \in [S -> Nat \ {0}], NEW g, Sums(g, f, S)
  PROVE  g[S] \in Nat \ {0}
<1> DEFINE G == {T \in SUBSET S : g[T] \in Nat /\ (T # {} => g[T] # 0)}
<1>1. {} \in G
  BY DEF Sums
<1>2. ASSUME NEW T \in SUBSET S, T # {}, T \ {First(T)} \in G PROVE T \in G
  <2>1. First(T) \in S
    BY <1>2, FirstIn
  <2>2. g[T] = f[First(T)] + g[T \ {First(T)}]
    BY <1>2 DEF Sums
  <2> QED
    BY <1>2, <2>1, <2>2
<1>3. SUBSET S \subseteq G
  <2> HIDE DEF G
  <2> QED
    BY <1>1, <1>2, SubsetSteps
<1> QED
  BY <1>3

-----------------------------------------------------------------------------
(* Scores *)

\* The sums of the scorer: of the impacts, of the categories' scores, of their weights, of
\* the pages' scores and of their weights.
Impacts(page, S) == Sum(LAMBDA r : page[r].impact, S)
Weighted(page, S) == Sum(LAMBDA c : CategoryScore(page, c) * Weight[c], S)
Weights(S) == Sum(LAMBDA c : Weight[c], S)
PageScores(m, S) == Sum(LAMBDA k : PageScore(m[k]) * PageWeight(k), S)
PageWeights(S) == Sum(PageWeight, S)

\* Each of them is such a sum.
LEMMA ImpactSum ==
  ASSUME NEW page, NEW S, IsFiniteSet(S), NEW f \in [S -> Int], f = [r \in S |-> page[r].impact]
  PROVE  \E g : Sums(g, f, S) /\ Impacts(page, S) = g[S]
<1> DEFINE G(g) == g = [s \in SUBSET S |->
                          IF s = {} THEN 0
                          ELSE page[CHOOSE x \in s : TRUE].impact + g[s \ {CHOOSE x \in s : TRUE}]]
<1>1. \A g : Sums(g, f, S) <=> G(g)
  BY FirstIn DEF Sums, First
<1>2. Impacts(page, S) = (CHOOSE g : G(g))[S]
  BY DEF Impacts, Sum, MapThenSumSet, MapThenFoldSet
<1>3. G(CHOOSE g : G(g))
  <2> HIDE DEF G
  <2> QED
    BY <1>1, SumsExist, Zenon
<1> QED
  BY <1>1, <1>2, <1>3

LEMMA WeightedSum ==
  ASSUME NEW page, NEW S, IsFiniteSet(S),
         NEW f \in [S -> Int], f = [c \in S |-> CategoryScore(page, c) * Weight[c]]
  PROVE  \E g : Sums(g, f, S) /\ Weighted(page, S) = g[S]
<1> DEFINE G(g) == g = [s \in SUBSET S |->
                          IF s = {} THEN 0
                          ELSE CategoryScore(page, CHOOSE x \in s : TRUE) * Weight[CHOOSE x \in s : TRUE]
                               + g[s \ {CHOOSE x \in s : TRUE}]]
<1>1. \A g : Sums(g, f, S) <=> G(g)
  BY FirstIn DEF Sums, First
<1>2. Weighted(page, S) = (CHOOSE g : G(g))[S]
  BY DEF Weighted, Sum, MapThenSumSet, MapThenFoldSet
<1>3. G(CHOOSE g : G(g))
  <2> HIDE DEF G
  <2> QED
    BY <1>1, SumsExist, Zenon
<1> QED
  BY <1>1, <1>2, <1>3

LEMMA WeightSum ==
  ASSUME NEW S, IsFiniteSet(S), NEW f \in [S -> Int], f = [c \in S |-> Weight[c]]
  PROVE  \E g : Sums(g, f, S) /\ Weights(S) = g[S]
<1> DEFINE G(g) == g = [s \in SUBSET S |->
                          IF s = {} THEN 0
                          ELSE Weight[CHOOSE x \in s : TRUE] + g[s \ {CHOOSE x \in s : TRUE}]]
<1>1. \A g : Sums(g, f, S) <=> G(g)
  BY FirstIn DEF Sums, First
<1>2. Weights(S) = (CHOOSE g : G(g))[S]
  BY DEF Weights, Sum, MapThenSumSet, MapThenFoldSet
<1>3. G(CHOOSE g : G(g))
  <2> HIDE DEF G
  <2> QED
    BY <1>1, SumsExist, Zenon
<1> QED
  BY <1>1, <1>2, <1>3

LEMMA PageSum ==
  ASSUME NEW m, NEW S, IsFiniteSet(S),
         NEW f \in [S -> Int], f = [k \in S |-> PageScore(m[k]) * PageWeight(k)]
  PROVE  \E g : Sums(g, f, S) /\ PageScores(m, S) = g[S]
<1> DEFINE G(g) == g = [s \in SUBSET S |->
                          IF s = {} THEN 0
                          ELSE PageScore(m[CHOOSE x \in s : TRUE]) * PageWeight(CHOOSE x \in s : TRUE)
                               + g[s \ {CHOOSE x \in s : TRUE}]]
<1>1. \A g : Sums(g, f, S) <=> G(g)
  BY FirstIn DEF Sums, First
<1>2. PageScores(m, S) = (CHOOSE g : G(g))[S]
  BY DEF PageScores, Sum, MapThenSumSet, MapThenFoldSet
<1>3. G(CHOOSE g : G(g))
  <2> HIDE DEF G
  <2> QED
    BY <1>1, SumsExist, Zenon
<1> QED
  BY <1>1, <1>2, <1>3

LEMMA PageWeightSum ==
  ASSUME NEW S, IsFiniteSet(S), NEW f \in [S -> Int], f = [k \in S |-> PageWeight(k)]
  PROVE  \E g : Sums(g, f, S) /\ PageWeights(S) = g[S]
<1> DEFINE G(g) == g = [s \in SUBSET S |->
                          IF s = {} THEN 0
                          ELSE PageWeight(CHOOSE x \in s : TRUE) + g[s \ {CHOOSE x \in s : TRUE}]]
<1>1. \A g : Sums(g, f, S) <=> G(g)
  BY FirstIn DEF Sums, First
<1>2. PageWeights(S) = (CHOOSE g : G(g))[S]
  BY DEF PageWeights, Sum, MapThenSumSet, MapThenFoldSet
<1>3. G(CHOOSE g : G(g))
  <2> HIDE DEF G
  <2> QED
    BY <1>1, SumsExist, Zenon
<1> QED
  BY <1>1, <1>2, <1>3

\* Rounding to a tenth does not change the order of two means over one weight.
LEMMA RoundedGrows ==
  ASSUME NEW a \in Int, NEW b \in Int, a <= b, NEW d \in Nat \ {0}
  PROVE  Rounded(a, d) \in Int /\ Rounded(b, d) \in Int /\ Rounded(a, d) <= Rounded(b, d)
<1> DEFINE n == 2 * d
           i == (20 * a + d) \div n
           j == (20 * b + d) \div n
<1>1. n \in Int /\ n > 0 /\ 20 * a + d \in Int /\ 20 * b + d \in Int /\ 20 * a + d <= 20 * b + d
  OBVIOUS
<1>2. \A x \in Int : x \div n \in Int /\ n * (x \div n) <= x /\ x < n * (x \div n) + n
  <2> HIDE DEF n
  <2> QED
    BY <1>1
<1>3. i \in Int /\ j \in Int /\ n * i <= 20 * a + d /\ 20 * b + d < n * j + n
  <2> HIDE DEF n
  <2> QED
    BY <1>1, <1>2
<1>4. n * i < n * (j + 1)
  <2>1. n * (j + 1) = n * j + n
    <3> HIDE DEF n, i, j
    <3> QED
      BY <1>1, <1>3
  <2>2. n * i \in Int /\ n * j \in Int
    <3> HIDE DEF n, i, j
    <3> QED
      BY <1>1, <1>3
  <2> HIDE DEF n, i, j
  <2> QED
    BY <1>1, <1>3, <2>1, <2>2
<1>5. i <= j
  <2> HIDE DEF n, i, j
  <2> SUFFICES ASSUME i >= j + 1 PROVE FALSE
    BY <1>3
  <2>1. n * i >= n * (j + 1)
    BY <1>1, <1>3
  <2> QED
    BY <1>1, <1>3, <1>4, <2>1
<1> QED
  BY <1>3, <1>5 DEF Rounded

\* The verdicts on a canonical page.
Page == [Rule -> Verdict \cup {Missing}]

\* q is p, with verdicts on the same rules, none of them of a lower impact.
NoWorse(p, q) ==
  Checked(p) = Checked(q) /\ \A r \in Checked(p) : p[r].impact <= q[r].impact

\* The impact of a verdict that is there is a number.
LEMMA ImpactsAreInts ==
  ASSUME NEW p \in Page, NEW r \in Checked(p)
  PROVE  r \in Rule /\ p[r] \in Verdict /\ p[r].impact \in Int
<1>1. r \in Rule /\ p[r] \in Verdict
  BY DEF Page, Checked
<1>2. Bonus \subseteq Int /\ Penalty \subseteq Int
  BY ReportAssumption
<1>3. \A w \in Verdict : w.impact \in Int
  BY <1>2 DEF Verdict
<1> QED
  BY <1>1, <1>3

\* ... nor that of a category, clamped as it is.
LEMMA CategoryScoreGrows ==
  ASSUME NEW p \in Page, NEW q \in Page, NoWorse(p, q), NEW c
  PROVE  /\ CategoryScore(p, c) \in Int /\ CategoryScore(q, c) \in Int
         /\ CategoryScore(p, c) <= CategoryScore(q, c)
<1> DEFINE S == {r \in Checked(p) : CategoryOf[r] = c}
           f == [r \in S |-> p[r].impact]
           e == [r \in S |-> q[r].impact]
<1>1. IsFiniteSet(S)
  BY ReportAssumption, FS_Subset, S \subseteq Rule DEF Checked
<1>2. f \in [S -> Int] /\ e \in [S -> Int] /\ \A r \in S : f[r] <= e[r]
  BY ImpactsAreInts DEF NoWorse
<1>3. /\ \E g : Sums(g, f, S) /\ Impacts(p, S) = g[S]
      /\ \E g : Sums(g, e, S) /\ Impacts(q, S) = g[S]
  <2>1. f = [r \in S |-> p[r].impact] /\ e = [r \in S |-> q[r].impact]
    OBVIOUS
  <2> HIDE DEF S, f, e
  <2>2. \E g : Sums(g, f, S) /\ Impacts(p, S) = g[S]
    BY <1>1, <1>2, <2>1, ImpactSum
  <2>3. \E g : Sums(g, e, S) /\ Impacts(q, S) = g[S]
    BY <1>1, <1>2, <2>1, ImpactSum
  <2> QED
    BY <2>2, <2>3, Zenon
<1>4. PICK g : Sums(g, f, S) /\ Impacts(p, S) = g[S]
  BY <1>3
<1>5. PICK h : Sums(h, e, S) /\ Impacts(q, S) = h[S]
  BY <1>3
<1>6. g[S] \in Int /\ h[S] \in Int /\ g[S] <= h[S]
  <2> HIDE DEF S, f, e
  <2> QED
    BY <1>1, <1>2, <1>4, <1>5, SumsGrow
<1>7. S = {r \in Checked(q) : CategoryOf[r] = c}
  BY DEF NoWorse
<1>8. CategoryScore(p, c) = 10 * (IF 100 + g[S] < 0 THEN 0 ELSE IF 100 + g[S] > 100 THEN 100 ELSE 100 + g[S])
  BY <1>4 DEF CategoryScore, Impacts
<1>9. CategoryScore(q, c) = 10 * (IF 100 + h[S] < 0 THEN 0 ELSE IF 100 + h[S] > 100 THEN 100 ELSE 100 + h[S])
  BY <1>5, <1>7 DEF CategoryScore, Impacts
<1> HIDE DEF S, f, e
<1> QED
  BY <1>6, <1>8, <1>9

\* A weight does not change the order of two scores.
LEMMA ProductGrows ==
  ASSUME NEW a \in Int, NEW b \in Int, a <= b, NEW w \in Nat
  PROVE  a * w \in Int /\ b * w \in Int /\ a * w <= b * w
  OBVIOUS

\* Better verdicts never lower the score of a page.
LEMMA PageScoreGrows ==
  ASSUME NEW p \in Page, NEW q \in Page, NoWorse(p, q), Checked(p) # {}
  PROVE  PageScore(p) \in Int /\ PageScore(q) \in Int /\ PageScore(p) <= PageScore(q)
<1> DEFINE S == Categories(p)
           f == [c \in S |-> CategoryScore(p, c) * Weight[c]]
           e == [c \in S |-> CategoryScore(q, c) * Weight[c]]
           w == [c \in S |-> Weight[c]]
<1>1. S = Categories(q) /\ S # {} /\ S \subseteq Category
  BY ReportAssumption DEF Categories, Checked, NoWorse
<1>2. IsFiniteSet(S)
  BY <1>1, ReportAssumption, FS_Subset
<1>3. w \in [S -> Nat \ {0}] /\ w \in [S -> Int]
  BY <1>1, ReportAssumption
<1>4. \A c \in S : /\ CategoryScore(p, c) * Weight[c] \in Int /\ CategoryScore(q, c) * Weight[c] \in Int
                   /\ CategoryScore(p, c) * Weight[c] <= CategoryScore(q, c) * Weight[c]
  <2> TAKE c \in S
  <2>1. Weight[c] \in Nat
    BY <1>1, ReportAssumption
  <2>2. /\ CategoryScore(p, c) \in Int /\ CategoryScore(q, c) \in Int
        /\ CategoryScore(p, c) <= CategoryScore(q, c)
    BY CategoryScoreGrows
  <2> QED
    BY <2>1, <2>2, ProductGrows
<1>5. f \in [S -> Int] /\ e \in [S -> Int] /\ \A c \in S : f[c] <= e[c]
  BY <1>4
<1>6. /\ \E g : Sums(g, f, S) /\ Weighted(p, S) = g[S]
      /\ \E g : Sums(g, e, S) /\ Weighted(q, S) = g[S]
      /\ \E g : Sums(g, w, S) /\ Weights(S) = g[S]
  <2>1. /\ f = [c \in S |-> CategoryScore(p, c) * Weight[c]]
        /\ e = [c \in S |-> CategoryScore(q, c) * Weight[c]]
        /\ w = [c \in S |-> Weight[c]]
    OBVIOUS
  <2> HIDE DEF S, f, e, w
  <2>2. \E g : Sums(g, f, S) /\ Weighted(p, S) = g[S]
    BY <1>2, <1>5, <2>1, WeightedSum
  <2>3. \E g : Sums(g, e, S) /\ Weighted(q, S) = g[S]
    BY <1>2, <1>5, <2>1, WeightedSum
  <2>4. \E g : Sums(g, w, S) /\ Weights(S) = g[S]
    BY <1>2, <1>3, <2>1, WeightSum
  <2> QED
    BY <2>2, <2>3, <2>4, Zenon
<1>7. PICK g : Sums(g, f, S) /\ Weighted(p, S) = g[S]
  BY <1>6
<1>8. PICK h : Sums(h, e, S) /\ Weighted(q, S) = h[S]
  BY <1>6
<1>9. PICK d : Sums(d, w, S) /\ Weights(S) = d[S]
  BY <1>6
<1>10. g[S] \in Int /\ h[S] \in Int /\ g[S] <= h[S]
  <2> HIDE DEF S, f, e
  <2> QED
    BY <1>2, <1>5, <1>7, <1>8, SumsGrow
<1>11. d[S] \in Nat \ {0}
  <2> HIDE DEF S, w
  <2> QED
    BY <1>1, <1>2, <1>3, <1>9, SumsPositive
<1>12. PageScore(p) = Rounded(g[S], 10 * d[S])
  BY <1>7, <1>9 DEF PageScore, Weighted, Weights
<1>13. PageScore(q) = Rounded(h[S], 10 * d[S])
  BY <1>1, <1>8, <1>9 DEF PageScore, Weighted, Weights
<1> HIDE DEF S, f, e, w
<1> QED
  BY <1>10, <1>11, <1>12, <1>13, RoundedGrows, 10 * d[S] \in Nat \ {0}

\* No score of the site falls when no page's verdicts get worse.
LEMMA OverallGrows ==
  ASSUME NEW m \in [Key -> Page], NEW n \in [Key -> Page], \A k \in Key : NoWorse(m[k], n[k]),
         Scored(m) # {}
  PROVE  Overall(m) \in Int /\ Overall(n) \in Int /\ Overall(m) <= Overall(n)
<1> DEFINE S == Scored(m)
           f == [k \in S |-> PageScore(m[k]) * PageWeight(k)]
           e == [k \in S |-> PageScore(n[k]) * PageWeight(k)]
           w == [k \in S |-> PageWeight(k)]
<1>1. S = Scored(n) /\ S # {} /\ S \subseteq Key
  BY DEF Scored, NoWorse
<1>2. IsFiniteSet(S)
  BY <1>1, ReportAssumption, FS_Subset
<1>3. w \in [S -> Nat \ {0}] /\ w \in [S -> Int] /\ \A k : PageWeight(k) \in Nat
  BY DEF PageWeight
<1>4. \A k \in S : /\ PageScore(m[k]) * PageWeight(k) \in Int /\ PageScore(n[k]) * PageWeight(k) \in Int
                   /\ PageScore(m[k]) * PageWeight(k) <= PageScore(n[k]) * PageWeight(k)
  <2> TAKE k \in S
  <2>1. m[k] \in Page /\ n[k] \in Page /\ NoWorse(m[k], n[k]) /\ Checked(m[k]) # {}
    BY DEF Scored
  <2>2. PageScore(m[k]) \in Int /\ PageScore(n[k]) \in Int /\ PageScore(m[k]) <= PageScore(n[k])
    BY <2>1, PageScoreGrows
  <2> QED
    BY <1>3, <2>2, ProductGrows
<1>5. f \in [S -> Int] /\ e \in [S -> Int] /\ \A k \in S : f[k] <= e[k]
  BY <1>4
<1>6. /\ \E g : Sums(g, f, S) /\ PageScores(m, S) = g[S]
      /\ \E g : Sums(g, e, S) /\ PageScores(n, S) = g[S]
      /\ \E g : Sums(g, w, S) /\ PageWeights(S) = g[S]
  <2>1. /\ f = [k \in S |-> PageScore(m[k]) * PageWeight(k)]
        /\ e = [k \in S |-> PageScore(n[k]) * PageWeight(k)]
        /\ w = [k \in S |-> PageWeight(k)]
    OBVIOUS
  <2> HIDE DEF S, f, e, w
  <2>2. \E g : Sums(g, f, S) /\ PageScores(m, S) = g[S]
    BY <1>2, <1>5, <2>1, PageSum
  <2>3. \E g : Sums(g, e, S) /\ PageScores(n, S) = g[S]
    BY <1>2, <1>5, <2>1, PageSum
  <2>4. \E g : Sums(g, w, S) /\ PageWeights(S) = g[S]
    BY <1>2, <1>3, <2>1, PageWeightSum
  <2> QED
    BY <2>2, <2>3, <2>4, Zenon
<1>7. PICK g : Sums(g, f, S) /\ PageScores(m, S) = g[S]
  BY <1>6
<1>8. PICK h : Sums(h, e, S) /\ PageScores(n, S) = h[S]
  BY <1>6
<1>9. PICK d : Sums(d, w, S) /\ PageWeights(S) = d[S]
  BY <1>6
<1>10. g[S] \in Int /\ h[S] \in Int /\ g[S] <= h[S]
  <2> HIDE DEF S, f, e
  <2> QED
    BY <1>2, <1>5, <1>7, <1>8, SumsGrow
<1>11. d[S] \in Nat \ {0}
  <2> HIDE DEF S, w
  <2> QED
    BY <1>1, <1>2, <1>3, <1>9, SumsPositive
<1>12. Overall(m) = Rounded(g[S], 10 * d[S])
  BY <1>1, <1>7, <1>9 DEF Overall, PageScores, PageWeights
<1>13. Overall(n) = Rounded(h[S], 10 * d[S])
  BY <1>1, <1>8, <1>9 DEF Overall, PageScores, PageWeights
<1> HIDE DEF S, f, e, w
<1> QED
  BY <1>10, <1>11, <1>12, <1>13, RoundedGrows, 10 * d[S] \in Nat \ {0}

\* _calculate_overall and what it calls: repairing what fails on a canonical page never
\* lowers the score of the site, although weights are normalised anew on every page,
\* bonuses and penalties are clamped and every mean is rounded.
THEOREM RepairsAreSafe == Spec => []RepairNeverHurts
<1>1. ReportInv => RepairNeverHurts
  <2> SUFFICES ASSUME ReportInv, NEW k \in Key, NEW r \in Rule, NEW bonus \in Bonus, FailsOn(r, k)
               PROVE  Overall([merged EXCEPT ![k][r] = [passed |-> TRUE, impact |-> bonus]])
                        >= Overall(merged)
    BY DEF RepairNeverHurts
  <2> DEFINE good == [passed |-> TRUE, impact |-> bonus]
             n == [merged EXCEPT ![k][r] = good]
  <2>1. good \in Verdict /\ good # Missing
    <3>1. good \in [passed : BOOLEAN, impact : Bonus \cup Penalty]
      OBVIOUS
    <3> QED
      BY <3>1, ReportAssumption DEF Verdict
  <2>2. merged \in [Key -> Page] /\ n \in [Key -> Page]
    BY <2>1 DEF ReportInv, TypeOK, Page
  <2>3. merged[k][r] \in Verdict /\ merged[k][r] # Missing /\ ~merged[k][r].passed
    BY <2>2 DEF FailsOn, Page
  <2>4. merged[k][r].impact <= good.impact
    <3>1. merged[k][r] \in [passed : {FALSE}, impact : Penalty]
      BY <2>3 DEF Verdict
    <3>2. merged[k][r].impact \in Penalty
      BY <3>1
    <3>3. Bonus \subseteq Nat /\ Penalty \subseteq Int /\ \A i \in Penalty : i <= 0
      BY ReportAssumption
    <3>4. good.impact = bonus
      OBVIOUS
    <3>5. merged[k][r].impact \in Int /\ merged[k][r].impact <= 0 /\ bonus \in Nat
      BY <3>2, <3>3
    <3> HIDE DEF good
    <3> QED
      BY <3>4, <3>5
  <2>5. ASSUME NEW j \in Key PROVE NoWorse(merged[j], n[j])
    <3>1. \A s \in Rule : n[j][s] = IF j = k /\ s = r THEN good ELSE merged[j][s]
      BY <2>2 DEF Page
    <3>2. Checked(merged[j]) = Checked(n[j])
      BY <2>1, <2>3, <3>1 DEF Checked
    <3>3. ASSUME NEW s \in Checked(merged[j]) PROVE merged[j][s].impact <= n[j][s].impact
      <4>1. s \in Rule /\ merged[j][s].impact \in Int
        BY <2>2, ImpactsAreInts
      <4> QED
        BY <2>4, <3>1, <4>1
    <3> QED
      BY <3>2, <3>3 DEF NoWorse
  <2>6. Scored(merged) # {}
    BY <2>3 DEF Scored, Checked
  <2>7. Overall(merged) \in Int /\ Overall(n) \in Int /\ Overall(merged) <= Overall(n)
    <3> HIDE DEF n
    <3> QED
      BY <2>2, <2>5, <2>6, OverallGrows
  <2> QED
    BY <2>7
<1> QED
  BY <1>1, ReportInvariant, PTL
=============================================================================
