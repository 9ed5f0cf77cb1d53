--------------------------- MODULE ComplianceProofs ---------------------------
(***************************************************************************)
(* Theorems about Compliance, for any texts, any similarity of embeddings     *)
(* and a history of any length.  The report is always that of the present     *)
(* history, so each property becomes one of the operators: the sort puts a     *)
(* project of the greatest score first, a copy scores the whole range, and     *)
(* a project that shares no word scores at most 0.7 of it.                     *)
(***************************************************************************)
EXTENDS Compliance, FiniteSetTheorems, FunctionTheorems, SequenceTheorems, TLAPS

-----------------------------------------------------------------------------
(* Similarities *)

\* A share of a positive number, in 1/60.
LEMMA Shares ==
  ASSUME NEW a \in Nat, NEW b \in Nat, b > 0, a <= b
  PROVE  /\ (60 * a) \div b \in 0..60
         /\ a = b => (60 * a) \div b = 60
         /\ a = 0 => (60 * a) \div b = 0
<1> DEFINE q == (60 * a) \div b
<1>1. q \in Int /\ b * q <= 60 * a /\ 60 * a < b * q + b
  BY SMTT(30)
<1> HIDE DEF q
<1>2. q >= 0 /\ q <= 60
  BY <1>1, SMTT(30)
<1>3. a = b => q = 60
  BY <1>1, <1>2, SMTT(30)
<1>4. a = 0 => q = 0
  BY <1>1, <1>2, SMTT(30)
<1> QED
  BY <1>1, <1>2, <1>3, <1>4 DEF q

\* _jaccard ranges from nothing, for texts without a common token, to all, for equal texts.
LEMMA JaccardRanges ==
  ASSUME NEW a, NEW b, IsFiniteSet(a), IsFiniteSet(b)
  PROVE  /\ Jaccard(a, b) \in 0..60
         /\ a = b => Jaccard(a, b) = 60
         /\ a \cap b = {} /\ a \cup b # {} => Jaccard(a, b) = 0
<1>1. CASE a = {} /\ b = {}
  BY <1>1 DEF Jaccard
<1>2. CASE ~(a = {} /\ b = {})
  <2> DEFINE m == Cardinality(a \cap b)
             n == Cardinality(a \cup b)
  <2>1. IsFiniteSet(a \cup b) /\ IsFiniteSet(a \cap b)
    BY FS_Union, FS_Intersection
  <2>2. m \in Nat /\ n \in Nat /\ m <= n
    <3>1. a \cap b \in SUBSET (a \cup b)
      OBVIOUS
    <3> QED
      BY <2>1, <3>1, FS_Subset, FS_CardinalityType
  <2>3. n > 0
    <3>1. n # 0
      BY <1>2, <2>1, FS_EmptySet
    <3> QED
      BY <2>2, <3>1
  <2>4. a = b => m = n
    OBVIOUS
  <2>5. a \cap b = {} => m = 0
    BY FS_EmptySet
  <2>6. Jaccard(a, b) = (60 * m) \div n
    BY <1>2 DEF Jaccard
  <2> HIDE DEF m, n
  <2> QED
    BY <2>2, <2>3, <2>4, <2>5, <2>6, Shares
<1> QED
  BY <1>1, <1>2

\* What is needed of a project's texts.
LEMMA TextsFinite ==
  ASSUME NEW p \in Projects
  PROVE  /\ IsFiniteSet(p.words) /\ IsFiniteSet(p.outline)
         /\ IsFiniteSet(p.topic) /\ IsFiniteSet(p.thumbnail)
         /\ p.sections \in Nat
BY TextsAreFinite

\* The four similarities lie between 0 and 600.
LEMMA ComponentRanges ==
  ASSUME NEW p \in Projects, NEW q \in Projects
  PROVE  /\ Lexical(p, q) \in 0..600
         /\ Embedded(p, q) \in 0..600
         /\ Structural(p, q) \in 0..600
         /\ MetadataSimilarity(p, q) \in 0..600
<1>1. Lexical(p, q) \in 0..600
  <2>1. Jaccard(p.words, q.words) \in 0..60
    BY TextsFinite, JaccardRanges
  <2> QED
    BY <2>1 DEF Lexical
<1>2. Structural(p, q) \in 0..600
  <2>1. Jaccard(p.outline, q.outline) \in 0..60
    BY TextsFinite, JaccardRanges
  <2>2. Distance(p.sections, q.sections) \in Nat
    BY TextsFinite DEF Distance, Greater, Lesser
  <2>3. Lesser(10, Distance(p.sections, q.sections)) \in 0..10
    BY <2>2 DEF Lesser
  <2> QED
    BY <2>1, <2>3 DEF Structural
<1>3. MetadataSimilarity(p, q) \in 0..600
  <2>1. /\ Jaccard(p.topic, q.topic) \in 0..60
        /\ Jaccard(p.thumbnail, q.thumbnail) \in 0..60
    BY TextsFinite, JaccardRanges
  <2> QED
    BY <2>1 DEF MetadataSimilarity
<1> QED
  BY <1>1, <1>2, <1>3, EmbeddingsAreCosines

LEMMA PenaltyRange ==
  ASSUME NEW p, NEW q
  PROVE  /\ Penalty(p, q) \in -600..1200
         /\ p = q => Penalty(p, q) >= 0
         /\ Unlike(p, q) => Penalty(p, q) <= 0
<1> DEFINE title == IF SameText(p.title, q.title) THEN 1 ELSE 0
           hook == IF SameText(p.hook, q.hook) THEN 1 ELSE 0
           angle == IF p.angle # "" /\ q.angle # "" /\ p.angle # q.angle THEN 1 ELSE 0
<1>1. title \in 0..1 /\ hook \in 0..1 /\ angle \in 0..1
  OBVIOUS
<1>2. p = q => angle = 0
  OBVIOUS
<1>3. Unlike(p, q) => title = 0 /\ hook = 0
  BY DEF Unlike
<1>4. Penalty(p, q) = 600 * (title + hook - angle)
  BY DEF Penalty
<1> HIDE DEF title, hook, angle
<1> QED
  BY <1>1, <1>2, <1>3, <1>4

\* The score is cut to the range of a similarity.
LEMMA Clamped ==
  ASSUME NEW x \in Int
  PROVE  /\ Greater(0, Lesser(6000, x)) \in Int
         /\ 0 <= Greater(0, Lesser(6000, x)) /\ Greater(0, Lesser(6000, x)) <= 6000
         /\ x >= 6000 => Greater(0, Lesser(6000, x)) = 6000
         /\ x <= 4200 => Greater(0, Lesser(6000, x)) <= 4200
BY DEF Greater, Lesser

\* The weights add up to one: the weighted similarity is in the range of the four.
LEMMA WeightedRange ==
  ASSUME NEW p \in Projects, NEW q \in Projects
  PROVE  /\ Weighted(p, q) \in 0..6000
         /\ Lexical(p, q) = 0 => Weighted(p, q) <= 4200
<1>1. PICK l \in 0..600 : l = Lexical(p, q)
  BY ComponentRanges
<1>2. PICK e \in 0..600 : e = Embedded(p, q)
  BY ComponentRanges
<1>3. PICK s \in 0..600 : s = Structural(p, q)
  BY ComponentRanges
<1>4. PICK m \in 0..600 : m = MetadataSimilarity(p, q)
  BY ComponentRanges
<1>5. Weighted(p, q) = 3 * l + 3 * e + 2 * s + 2 * m
  BY <1>1, <1>2, <1>3, <1>4 DEF Weighted
<1>6. 3 * l + 3 * e + 2 * s + 2 * m \in 0..6000
  OBVIOUS
<1>7. PICK w \in 0..6000 : w = 3 * l + 3 * e + 2 * s + 2 * m
  BY <1>6
<1>8. l = 0 => w <= 4200
  BY <1>7
<1>9. Weighted(p, q) = w
  BY <1>5, <1>7
<1> QED
  BY <1>1, <1>8, <1>9

LEMMA SimilarityRange ==
  ASSUME NEW p \in Projects, NEW q \in Projects
  PROVE  Similarity(p, q) \in Int /\ 0 <= Similarity(p, q) /\ Similarity(p, q) <= 6000
<1>1. PICK w \in 0..6000 : w = Weighted(p, q)
  BY WeightedRange
<1>2. PICK d \in -600..1200 : d = Penalty(p, q)
  BY PenaltyRange
<1>3. PICK x \in Int : x = w + d
  OBVIOUS
<1>4. Similarity(p, q) = Greater(0, Lesser(6000, x))
  BY <1>1, <1>2, <1>3 DEF Similarity
<1> QED
  BY <1>4, Clamped

\* A copy has the greatest similarity, unless its embedding is zero.
LEMMA CopyScores ==
  ASSUME NEW p \in Projects, Embedded(p, p) = 600
  PROVE  Similarity(p, p) = 6000
<1>1. /\ Jaccard(p.words, p.words) = 60
      /\ Jaccard(p.outline, p.outline) = 60
      /\ Jaccard(p.topic, p.topic) = 60
      /\ Jaccard(p.thumbnail, p.thumbnail) = 60
  BY TextsFinite, JaccardRanges
<1>2. Lesser(10, Distance(p.sections, p.sections)) = 0
  BY TextsFinite DEF Distance, Greater, Lesser
<1>3. Lexical(p, p) = 600 /\ Structural(p, p) = 600 /\ MetadataSimilarity(p, p) = 600
  BY <1>1, <1>2 DEF Lexical, Structural, MetadataSimilarity
<1>4. Weighted(p, p) = 6000
  BY <1>3 DEF Weighted
<1>5. PICK d \in -600..1200 : d = Penalty(p, p) /\ d >= 0
  BY PenaltyRange
<1>6. PICK x \in Int : x = 6000 + d
  OBVIOUS
<1>7. Similarity(p, p) = Greater(0, Lesser(6000, x))
  BY <1>4, <1>5, <1>6 DEF Similarity
<1>8. x >= 6000
  BY <1>5, <1>6
<1> QED
  BY <1>7, <1>8, Clamped

\* Without a common word, title or hook, everything else together is 0.7 at most.
LEMMA UnlikeScores ==
  ASSUME NEW p \in Projects, NEW q \in Projects, Unlike(p, q)
  PROVE  Similarity(p, q) <= 4200
<1>1. Lexical(p, q) = 0
  <2>1. Jaccard(p.words, q.words) = 0
    BY TextsFinite, JaccardRanges DEF Unlike
  <2> QED
    BY <2>1 DEF Lexical
<1>2. PICK w \in 0..6000 : w = Weighted(p, q)
  BY WeightedRange
<1>3. PICK d \in -600..1200 : d = Penalty(p, q)
  BY PenaltyRange
<1>4. PICK x \in Int : x = w + d
  OBVIOUS
<1>5. Similarity(p, q) = Greater(0, Lesser(6000, x))
  BY <1>2, <1>3, <1>4 DEF Similarity
<1>6. d <= 0
  BY <1>3, PenaltyRange
<1>7. w <= 4200
  BY <1>1, <1>2, WeightedRange
<1>8. x <= 4200
  BY <1>4, <1>6, <1>7
<1> QED
  BY <1>5, <1>8, Clamped

-----------------------------------------------------------------------------
(* The sort *)

\* The places that come before one.
Before(scored, i) == {j \in DOMAIN scored : Precedes(scored, j, i)}

\* Of two places one precedes the other, and who precedes a place precedes those after it.
LEMMA StrictOrder ==
  ASSUME NEW n \in Nat, NEW scored \in [1..n -> Int],
         NEW i \in 1..n, NEW j \in 1..n
  PROVE  /\ ~Precedes(scored, i, i)
         /\ i = j \/ Precedes(scored, i, j) \/ Precedes(scored, j, i)
         /\ Precedes(scored, i, j) => Before(scored, i) \subseteq Before(scored, j)
<1>1. DOMAIN scored = 1..n /\ \A k \in 1..n : scored[k] \in Int
  OBVIOUS
<1>2. \A k \in 1..n : Precedes(scored, k, i) /\ Precedes(scored, i, j) => Precedes(scored, k, j)
  BY <1>1 DEF Precedes
<1> QED
  BY <1>1, <1>2 DEF Precedes, Before

\* Different places have different numbers of places before them, from 0 to n - 1.
LEMMA BeforeCounts ==
  ASSUME NEW n \in Nat, NEW scored \in [1..n -> Int]
  PROVE  /\ \A i \in 1..n : /\ IsFiniteSet(Before(scored, i))
                            /\ Cardinality(Before(scored, i)) \in 0..(n - 1)
         /\ \A i, j \in 1..n : Precedes(scored, i, j) =>
              Cardinality(Before(scored, i)) < Cardinality(Before(scored, j))
<1>1. IsFiniteSet(1..n) /\ Cardinality(1..n) = n
  BY FS_Interval
<1>2. ASSUME NEW i \in 1..n
      PROVE  /\ IsFiniteSet(Before(scored, i))
             /\ Cardinality(Before(scored, i)) \in 0..(n - 1)
  <2>1. Before(scored, i) \in SUBSET (1..n) /\ i \notin Before(scored, i)
    BY StrictOrder DEF Before
  <2>2. /\ IsFiniteSet(Before(scored, i))
        /\ Cardinality(Before(scored, i)) <= n
        /\ Cardinality(Before(scored, i)) # n
    BY <1>1, <2>1, FS_Subset
  <2>3. Cardinality(Before(scored, i)) \in Nat
    BY <2>2, FS_CardinalityType
  <2> QED
    BY <2>2, <2>3
<1>3. ASSUME NEW i \in 1..n, NEW j \in 1..n, Precedes(scored, i, j)
      PROVE  Cardinality(Before(scored, i)) < Cardinality(Before(scored, j))
  <2>1. Before(scored, i) \in SUBSET Before(scored, j)
    BY <1>3, StrictOrder
  <2>2. i \in Before(scored, j) /\ i \notin Before(scored, i)
    BY <1>3, StrictOrder DEF Before
  <2>3. /\ Cardinality(Before(scored, i)) <= Cardinality(Before(scored, j))
        /\ Cardinality(Before(scored, i)) # Cardinality(Before(scored, j))
    BY <1>2, <2>1, <2>2, FS_Subset
  <2> QED
    BY <1>2, <2>3
<1> QED
  BY <1>2, <1>3

\* Every place of the sorted list is taken: by the pigeonhole principle, n places with
\* different numbers of others before them have all the numbers from 0 to n - 1.
LEMMA PlacesAreTaken ==
  ASSUME NEW n \in Nat, NEW scored \in [1..n -> Int], NEW k \in 1..n
  PROVE  \E i \in 1..n : Cardinality(Before(scored, i)) = k - 1
<1> DEFINE rank == [i \in 1..n |-> Cardinality(Before(scored, i)) + 1]
<1>1. rank \in [1..n -> 1..n]
  BY BeforeCounts
<1>2. \A i, j \in 1..n : rank[i] = rank[j] => i = j
  <2> SUFFICES ASSUME NEW i \in 1..n, NEW j \in 1..n, rank[i] = rank[j]
               PROVE  i = j
    OBVIOUS
  <2>1. Cardinality(Before(scored, i)) = Cardinality(Before(scored, j))
    <3>1. /\ Cardinality(Before(scored, i)) \in Nat
          /\ Cardinality(Before(scored, j)) \in Nat
      BY BeforeCounts
    <3> QED
      BY <3>1
  <2>2. ~Precedes(scored, i, j) /\ ~Precedes(scored, j, i)
    <3>1. ~(Cardinality(Before(scored, i)) < Cardinality(Before(scored, j)))
      BY <2>1, BeforeCounts
    <3>2. ~(Cardinality(Before(scored, j)) < Cardinality(Before(scored, i)))
      BY <2>1, BeforeCounts
    <3> QED
      BY <3>1, <3>2, BeforeCounts
  <2> QED
    BY <2>2, StrictOrder
<1>3. rank \in Injection(1..n, 1..n)
  <2> HIDE DEF rank
  <2> QED
    BY <1>1, <1>2, Fun_IsInj
<1>4. rank \in Surjection(1..n, 1..n)
  <2> HIDE DEF rank
  <2> QED
    BY <1>3, FS_Interval, FS_Injection
<1>5. PICK i \in 1..n : rank[i] = k
  <2> HIDE DEF rank
  <2>1. \A t \in 1..n : \E i \in 1..n : rank[i] = t
    BY <1>4 DEF Surjection
  <2> QED
    BY <2>1
<1>6. Cardinality(Before(scored, i)) + 1 = k
  BY <1>5
<1> QED
  BY <1>6, BeforeCounts

\* The list is sorted whole: its first place is one that none precedes.
LEMMA MostSimilarFirst ==
  ASSUME NEW n \in Nat \ {0}, NEW scored \in Seq(Int), Len(scored) = n
  PROVE  /\ MostSimilar(scored)[1] \in 1..n
         /\ \A j \in 1..n : scored[MostSimilar(scored)[1]] >= scored[j]
<1>1. n \in Nat /\ 1 \in 1..n /\ DOMAIN scored = 1..n /\ scored \in [1..n -> Int]
  OBVIOUS
<1>2. Ranked(scored) = [k \in 1..n |-> CHOOSE i \in 1..n : Cardinality(Before(scored, i)) = k - 1]
  BY <1>1 DEF Ranked, Before
<1>3. ASSUME NEW k \in 1..n
      PROVE  /\ Ranked(scored)[k] \in 1..n
             /\ Cardinality(Before(scored, Ranked(scored)[k])) = k - 1
  <2>1. Ranked(scored)[k] = CHOOSE i \in 1..n : Cardinality(Before(scored, i)) = k - 1
    BY <1>2
  <2>2. \E i \in 1..n : Cardinality(Before(scored, i)) = k - 1
    BY <1>1, PlacesAreTaken
  <2> QED
    BY <2>1, <2>2
<1>4. Cardinality(Before(scored, Ranked(scored)[1])) = 0
  <2>1. Cardinality(Before(scored, Ranked(scored)[1])) = 1 - 1
    BY <1>1, <1>3
  <2> QED
    BY <2>1
<1>5. MostSimilar(scored)[1] = Ranked(scored)[1]
  <2> DEFINE R == Ranked(scored)
  <2>1. R \in Seq(1..n) /\ Len(R) = n
    BY <1>2, <1>3
  <2>2. PICK m \in 1..n : m = Lesser(3, n)
    BY DEF Lesser
  <2>3. MostSimilar(scored) = SubSeq(R, 1, m)
    BY <2>2 DEF MostSimilar
  <2> HIDE DEF R
  <2>4. \A i \in 1..m : R[i] \in 1..n
    BY <2>1
  <2>5. SubSeq(R, 1, m)[1] = R[1]
    BY <2>4, SubSeqProperties
  <2> QED
    BY <2>3, <2>5 DEF R
<1>6. PICK i \in 1..n : i = Ranked(scored)[1]
  BY <1>1, <1>3
<1>7. Before(scored, i) = {}
  BY <1>1, <1>4, <1>6, BeforeCounts, FS_EmptySet
<1>8. ASSUME NEW j \in 1..n
      PROVE  scored[i] >= scored[j]
  <2>1. i = j \/ Precedes(scored, i, j)
    BY <1>1, <1>7, StrictOrder DEF Before
  <2>2. scored[i] \in Int /\ scored[j] \in Int
    BY <1>1
  <2> QED
    BY <2>1, <2>2 DEF Precedes
<1> QED
  BY <1>5, <1>6, <1>8

-----------------------------------------------------------------------------
(* The detector *)

\* What the detector answers for an earlier project's list: the risk of a score that is one
\* project's and that no project exceeds.
LEMMA DetectsMostSimilar ==
  ASSUME NEW p \in Projects, NEW previous \in Seq(Projects), previous # <<>>
  PROVE  \E i \in DOMAIN previous :
           /\ Detect(p, previous) = RiskLevel(Similarity(p, previous[i]))
           /\ \A j \in DOMAIN previous : Similarity(p, previous[i]) >= Similarity(p, previous[j])
<1> DEFINE n == Len(previous)
           scored == Scored(p, previous)
<1>1. n \in Nat \ {0} /\ DOMAIN previous = 1..n /\ \A i \in 1..n : previous[i] \in Projects
  OBVIOUS
<1>2. \A i \in 1..n : scored[i] = Similarity(p, previous[i]) /\ scored[i] \in Int
  <2> TAKE i \in 1..n
  <2>1. Similarity(p, previous[i]) \in Int
    BY <1>1, SimilarityRange
  <2> QED
    BY <1>1, <2>1 DEF Scored
<1>3. scored \in Seq(Int) /\ Len(scored) = n
  <2>1. scored = [i \in 1..n |-> Similarity(p, previous[i])]
    BY <1>1 DEF Scored
  <2>2. \A i \in 1..n : Similarity(p, previous[i]) \in Int
    BY <1>2
  <2> QED
    BY <1>1, <2>1, <2>2
<1>4. Detect(p, previous) = RiskLevel(scored[MostSimilar(scored)[1]])
  BY DEF Detect
<1> HIDE DEF n, scored
<1>5. /\ MostSimilar(scored)[1] \in 1..n
      /\ \A j \in 1..n : scored[MostSimilar(scored)[1]] >= scored[j]
  BY <1>1, <1>3, MostSimilarFirst
<1> QED
  BY <1>1, <1>2, <1>4, <1>5

LEMMA RiskLevels ==
  ASSUME NEW s \in Int
  PROVE  /\ RiskLevel(s) = "high" <=> s >= 4800
         /\ \A t \in Int : s <= t => Severity(RiskLevel(s)) <= Severity(RiskLevel(t))
         /\ Severity(RiskLevel(s)) >= 0
BY DEF RiskLevel, Severity

\* A longer history has a score at least as high.
LEMMA RiskGrows ==
  ASSUME NEW p \in Projects, NEW previous \in Seq(Projects), NEW q \in Projects
  PROVE  Severity(Detect(p, previous)) <= Severity(Detect(p, Append(previous, q)))
<1> DEFINE longer == Append(previous, q)
<1>1. /\ longer \in Seq(Projects) /\ longer # <<>>
      /\ DOMAIN previous \subseteq DOMAIN longer
      /\ \A i \in DOMAIN previous : longer[i] = previous[i]
  OBVIOUS
<1> HIDE DEF longer
<1>2. PICK j \in DOMAIN longer :
        /\ Detect(p, longer) = RiskLevel(Similarity(p, longer[j]))
        /\ \A k \in DOMAIN longer : Similarity(p, longer[j]) >= Similarity(p, longer[k])
  BY <1>1, DetectsMostSimilar
<1>3. Similarity(p, longer[j]) \in Int
  BY <1>1, SimilarityRange
<1>4. PICK t \in Int : t = Similarity(p, longer[j])
  BY <1>3
<1>5. CASE previous = <<>>
  <2>1. Severity(Detect(p, previous)) = 0
    BY <1>5 DEF Detect, Severity
  <2>2. Severity(RiskLevel(t)) >= 0
    BY RiskLevels
  <2> QED
    BY <1>2, <1>4, <2>1, <2>2 DEF longer
<1>6. CASE previous # <<>>
  <2>1. PICK i \in DOMAIN previous :
          Detect(p, previous) = RiskLevel(Similarity(p, previous[i]))
    BY <1>6, DetectsMostSimilar
  <2>2. Similarity(p, previous[i]) \in Int
    BY <1>1, SimilarityRange
  <2>3. PICK s \in Int : s = Similarity(p, previous[i])
    BY <2>2
  <2>4. s <= t
    <3>1. Similarity(p, longer[j]) >= Similarity(p, longer[i])
      BY <1>1, <1>2
    <3> QED
      BY <1>1, <1>4, <2>3, <3>1
  <2>5. Severity(RiskLevel(s)) <= Severity(RiskLevel(t))
    BY <2>4, RiskLevels
  <2> QED
    BY <1>2, <1>4, <2>1, <2>3, <2>5 DEF longer
<1> QED
  BY <1>5, <1>6

\* A copy among the earlier projects is a high risk.
LEMMA CopyIsHigh ==
  ASSUME NEW p \in Projects, Embedded(p, p) = 600,
         NEW previous \in Seq(Projects), NEW k \in DOMAIN previous, previous[k] = p
  PROVE  Detect(p, previous) = "high"
<1>1. PICK i \in DOMAIN previous :
        /\ Detect(p, previous) = RiskLevel(Similarity(p, previous[i]))
        /\ \A j \in DOMAIN previous : Similarity(p, previous[i]) >= Similarity(p, previous[j])
  BY DetectsMostSimilar
<1>2. PICK s \in Int : s = Similarity(p, previous[i])
  BY SimilarityRange
<1>3. s >= 6000
  BY <1>1, <1>2, CopyScores
<1> QED
  BY <1>1, <1>2, <1>3, RiskLevels

\* Projects that share no word with one, however many, are no high risk.
LEMMA UnlikeIsNotHigh ==
  ASSUME NEW p \in Projects, NEW previous \in Seq(Projects),
         \A k \in DOMAIN previous : Unlike(p, previous[k])
  PROVE  Detect(p, previous) # "high"
<1>1. CASE previous = <<>>
  BY <1>1 DEF Detect
<1>2. CASE previous # <<>>
  <2>1. PICK i \in DOMAIN previous : Detect(p, previous) = RiskLevel(Similarity(p, previous[i]))
    BY <1>2, DetectsMostSimilar
  <2>2. previous[i] \in Projects
    OBVIOUS
  <2>3. PICK s \in Int : s = Similarity(p, previous[i])
    BY <2>2, SimilarityRange
  <2>4. s <= 4200
    BY <2>2, <2>3, UnlikeScores
  <2> QED
    BY <2>1, <2>3, <2>4, RiskLevels
<1> QED
  BY <1>1, <1>2

-----------------------------------------------------------------------------
(* The service *)

\* The inductive invariant: the report is that of what the check was given.
Reported ==
  /\ current \in {<<>>} \cup {<<p>> : p \in Projects}
  /\ history \in Seq(Projects)
  /\ report = Evaluate(current, metadata, history)

\* What a report says of repetition, and what that makes of the metadata's answer.
LEMMA ReportFields ==
  ASSUME NEW p, NEW m, NEW previous
  PROVE  LET r == Evaluate(p, m, previous)
         IN  /\ r.repetitive = Repetitive(p, m, previous)
             /\ "repetitive" \in r.issues <=> Repetitive(p, m, previous) = "high"
             /\ r.level = "blocked" <=> Issues(Normalized(m.score, m.level), m,
                                               Repetitive(p, m, previous)) # {}
<1> DEFINE repetitive == Repetitive(p, m, previous)
           level == Normalized(m.score, m.level)
           issues == Issues(level, m, repetitive)
<1>1. Evaluate(p, m, previous) =
        [repetitive |-> repetitive, level |-> IF issues = {} THEN level ELSE "blocked",
         issues |-> issues]
  BY DEF Evaluate
<1>2. "repetitive" \in issues <=> repetitive = "high"
  BY DEF Issues
<1>3. level = "blocked" => "blocked" \in issues
  BY DEF Issues
<1> HIDE DEF repetitive, level, issues
<1>4. /\ Evaluate(p, m, previous).repetitive = repetitive
      /\ Evaluate(p, m, previous).issues = issues
      /\ Evaluate(p, m, previous).level = "blocked" <=> issues # {}
  BY <1>1, <1>3
<1> QED
  BY <1>2, <1>4 DEF repetitive, level, issues

LEMMA StepReports ==
  ASSUME Reported, [Next]_vars
  PROVE  /\ Reported'
         /\ \/ UNCHANGED vars
            \/ \E p \in Projects : history' = Append(history, p) /\ UNCHANGED <<current, metadata>>
<1>1. CASE UNCHANGED vars
  BY <1>1 DEF Reported, vars
<1>2. ASSUME NEW p \in Projects, Recheck(p)
      PROVE  Reported' /\ history' = Append(history, p) /\ UNCHANGED <<current, metadata>>
  <2>1. history' \in Seq(Projects)
    BY <1>2 DEF Reported, Recheck
  <2> QED
    BY <1>2, <2>1 DEF Reported, Recheck
<1> QED
  BY <1>1, <1>2 DEF Next

\* The report is always that of the metadata and of the channel's present history.
THEOREM AlwaysReported == Spec => []Reported
<1>1. Init => Reported
  BY DEF Init, Reported
<1>2. Reported /\ [Next]_vars => Reported'
  BY StepReports
<1> QED
  BY <1>1, <1>2, PTL DEF Spec

\* What evaluate does with a project that the channel published before, word for word: it
\* is blocked, whatever the other projects are, the metadata claims and the sort returns.
THEOREM CopiesAlwaysBlocked == Spec => []CopiesAreBlocked
<1>1. Reported => CopiesAreBlocked
  <2> SUFFICES ASSUME Reported, current # <<>>, Embedded(current[1], current[1]) = 600,
                      NEW k \in DOMAIN history, history[k] = current[1]
               PROVE  report.level = "blocked"
    BY DEF CopiesAreBlocked
  <2>1. PICK p \in Projects : current = <<p>>
    BY DEF Reported
  <2>2. current[1] = p
    BY <2>1
  <2>3. Detect(p, history) = "high"
    BY <2>2, CopyIsHigh DEF Reported
  <2>4. Repetitive(current, metadata, history) = "high"
    BY <2>1, <2>2, <2>3 DEF Repetitive
  <2>5. "repetitive" \in Issues(Normalized(metadata.score, metadata.level), metadata, "high")
    BY DEF Issues
  <2> QED
    BY <2>4, <2>5, ReportFields DEF Reported
<1> QED
  BY <1>1, AlwaysReported, PTL

\* A project that shares no word with an earlier one is not blocked for repetition, although
\* _jaccard takes missing outlines, topics and thumbnails as equal ones.
THEOREM NoSharedWordNeverBlocks == Spec => []NoSharedWordNoBlock
<1>1. Reported => NoSharedWordNoBlock
  <2> SUFFICES ASSUME Reported, current # <<>>,
                      \A k \in DOMAIN history : Unlike(current[1], history[k])
               PROVE  "repetitive" \notin report.issues
    BY DEF NoSharedWordNoBlock
  <2>1. PICK p \in Projects : current = <<p>>
    BY DEF Reported
  <2>2. current[1] = p
    BY <2>1
  <2>3. Detect(p, history) # "high"
    BY <2>2, UnlikeIsNotHigh DEF Reported
  <2>4. Repetitive(current, metadata, history) # "high"
    BY <2>1, <2>2, <2>3 DEF Repetitive
  <2> QED
    BY <2>4, ReportFields DEF Reported
<1> QED
  BY <1>1, AlwaysReported, PTL

\* One more project in the channel's history never lowers what evaluate reports of
\* repetition and never lifts a block, wherever the sort puts the new project.
THEOREM RiskNeverDropsAlways == Spec => RiskNeverDrops
<1> DEFINE Risen == /\ Severity(report'.repetitive) >= Severity(report.repetitive)
                    /\ report.level = "blocked" => report'.level = "blocked"
<1>1. Reported /\ [Next]_vars => [Risen]_vars
  <2> SUFFICES ASSUME Reported, [Next]_vars, ~UNCHANGED vars
               PROVE  Risen
    OBVIOUS
  <2>1. PICK q \in Projects : history' = Append(history, q) /\ UNCHANGED <<current, metadata>>
    BY StepReports
  <2>2. Reported'
    BY StepReports
  <2> DEFINE was == Repetitive(current, metadata, history)
             is == Repetitive(current, metadata, Append(history, q))
             level == Normalized(metadata.score, metadata.level)
  <2>3. report = Evaluate(current, metadata, history)
    BY DEF Reported
  <2>4. report' = Evaluate(current, metadata, Append(history, q))
    BY <2>1, <2>2 DEF Reported
  <2>5. Severity(is) >= Severity(was)
    <3>1. CASE current = <<>>
      BY <3>1 DEF Repetitive, Severity
    <3>2. CASE current # <<>>
      <4>1. PICK p \in Projects : current = <<p>>
        BY <3>2 DEF Reported
      <4>2. was = Detect(p, history) /\ is = Detect(p, Append(history, q))
        BY <4>1 DEF Repetitive
      <4>3. Severity(Detect(p, history)) <= Severity(Detect(p, Append(history, q)))
        BY RiskGrows DEF Reported
      <4> QED
        BY <4>2, <4>3 DEF Severity
    <3> QED
      BY <3>1, <3>2
  <2>6. was = "high" => is = "high"
    <3>1. CASE current = <<>>
      BY <3>1 DEF Repetitive
    <3>2. CASE current # <<>>
      <4>1. is \in {"low", "medium", "high"}
        BY <3>2 DEF Repetitive, Detect, RiskLevel
      <4> HIDE DEF was, is
      <4> QED
        BY <2>5, <4>1 DEF Severity
    <3> QED
      BY <3>1, <3>2
  <2>7. Issues(level, metadata, was) # {} => Issues(level, metadata, is) # {}
    BY <2>6 DEF Issues
  <2> HIDE DEF was, is, level
  <2> QED
    BY <2>3, <2>4, <2>5, <2>7, ReportFields DEF was, is, level
<1>2. [][Risen]_vars <=> RiskNeverDrops
  BY DEF RiskNeverDrops
<1> QED
  BY <1>1, <1>2, AlwaysReported, PTL DEF Spec
=============================================================================
