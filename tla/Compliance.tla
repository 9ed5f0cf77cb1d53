------------------------------ MODULE Compliance ------------------------------
(***************************************************************************)
(* ComplianceService.evaluate and the RepetitiveContentDetector it asks.      *)
(* Both are pure; the state is what they are given, which grows: the channel's *)
(* earlier projects, one more at each step, with the check made again.         *)
(*                                                                           *)
(* Texts are sets of tokens.  Similarities are exact multiples of 1/6000,      *)
(* where the code has floats: Jaccard indexes of sets that have at most six    *)
(* tokens together are exact multiples of 1/60.  A project has its title, hook   *)
(* and angle ("" for none), the words of its title, hook, description and call   *)
(* to action, its outline, topic and thumbnail, and its number of sections.      *)
(***************************************************************************)
EXTENDS Integers, Sequences, FiniteSets

CONSTANTS
  Projects,      \* contents of projects
  Metadata,      \* what a check's metadata can say otherwise
  Embedded(_,_), \* cosine of two projects' embeddings, in 1/600
  MaxHistory     \* bound: earlier projects

\* An embedding is as similar to itself as can be, unless it is zero: a text without tokens.
ASSUME EmbeddingsAreCosines ==
  \A p, q \in Projects : Embedded(p, q) \in 0..600 /\ Embedded(p, p) \in {0, 600}

\* Texts are tokenised into finite sets; sections are counted.
ASSUME TextsAreFinite ==
  \A p \in Projects :
    /\ IsFiniteSet(p.words) /\ IsFiniteSet(p.outline)
    /\ IsFiniteSet(p.topic) /\ IsFiniteSet(p.thumbnail)
    /\ p.sections \in Nat

VARIABLES
  current,   \* metadata.current_project, if it is there
  metadata,  \* the rest of the metadata, and disclosure_decision_missing
  history,   \* metadata.previous_projects
  report     \* the report of the last check

vars == <<current, metadata, history, report>>

-----------------------------------------------------------------------------
(* RepetitiveContentDetector *)

Lesser(a, b) == IF a < b THEN a ELSE b
Greater(a, b) == IF a < b THEN b ELSE a
Distance(a, b) == Greater(a, b) - Lesser(a, b)

\* _jaccard in 1/60: two empty texts are alike.
Jaccard(a, b) ==
  IF a = {} /\ b = {} THEN 60 ELSE (60 * Cardinality(a \cap b)) \div Cardinality(a \cup b)

\* The four similarities in 1/600.
Lexical(p, q) == 10 * Jaccard(p.words, q.words)
Structural(p, q) ==
  6 * Jaccard(p.outline, q.outline) + 24 * (10 - Lesser(10, Distance(p.sections, q.sections)))
MetadataSimilarity(p, q) == 7 * Jaccard(p.topic, q.topic) + 3 * Jaccard(p.thumbnail, q.thumbnail)

\* Mutation: structure and metadata weigh more than words and embeddings.
WeightedSwapped(p, q) ==
  2 * Lexical(p, q) + 2 * Embedded(p, q) + 3 * Structural(p, q) + 3 * MetadataSimilarity(p, q)

Weighted(p, q) ==
  3 * Lexical(p, q) + 3 * Embedded(p, q) + 2 * Structural(p, q) + 2 * MetadataSimilarity(p, q)

SameText(a, b) == a # "" /\ a = b

Penalty(p, q) ==
  600 * ((IF SameText(p.title, q.title) THEN 1 ELSE 0)
         + (IF SameText(p.hook, q.hook) THEN 1 ELSE 0)
         - (IF p.angle # "" /\ q.angle # "" /\ p.angle # q.angle THEN 1 ELSE 0))

Similarity(p, q) == Greater(0, Lesser(6000, Weighted(p, q) + Penalty(p, q)))

\* The scores of earlier projects, by their place in the history.
Scored(p, previous) == [i \in DOMAIN previous |-> Similarity(p, previous[i])]

\* Mutation: sorted from the least similar.
PrecedesAscending(scored, i, j) == scored[i] < scored[j] \/ (scored[i] = scored[j] /\ i < j)

\* The sort is reversed and stable: the most similar come first, equals keep their order.
Precedes(scored, i, j) == scored[i] > scored[j] \/ (scored[i] = scored[j] /\ i < j)

\* Places in the history, sorted: k - 1 others come before the one at k.
Ranked(scored) ==
  [k \in DOMAIN scored |->
     CHOOSE i \in DOMAIN scored :
       Cardinality({j \in DOMAIN scored : Precedes(scored, j, i)}) = k - 1]

MostSimilar(scored) == SubSeq(Ranked(scored), 1, Lesser(3, Len(scored)))

RiskLevel(similarity) ==
  CASE similarity >= 4800 -> "high"
    [] similarity >= 3600 /\ similarity < 4800 -> "medium"
    [] OTHER -> "low"

Detect(p, previous) ==
  IF previous = <<>> THEN "low"
  ELSE LET scored == Scored(p, previous) IN RiskLevel(scored[MostSimilar(scored)[1]])

-----------------------------------------------------------------------------
(* ComplianceService *)

\* Without a current project the metadata's own answer is taken.
Repetitive(p, m, previous) == IF p = <<>> THEN m.repetitive ELSE Detect(p[1], previous)

Normalized(score, level) ==
  CASE level = "blocked" -> "blocked"
    [] level # "blocked" /\ score <= 39 -> "high"
    [] level # "blocked" /\ score > 39 /\ score <= 69 -> "medium"
    [] OTHER -> "low"

\* Mutation: what the detector found does not block.
IssuesOfMetadata(level, m, repetitive) ==
  {i \in {"blocked", "copyright", "license", "disclosure"} :
     \/ i = "blocked" /\ level = "blocked"
     \/ i = "copyright" /\ m.copyright = "high"
     \/ i = "license" /\ m.license = "high"
     \/ i = "disclosure" /\ m.disclosure /\ m.undecided}

Issues(level, m, repetitive) ==
  {i \in {"blocked", "copyright", "license", "repetitive", "disclosure"} :
     \/ i = "blocked" /\ level = "blocked"
     \/ i = "copyright" /\ m.copyright = "high"
     \/ i = "license" /\ m.license = "high"
     \/ i = "repetitive" /\ repetitive = "high"
     \/ i = "disclosure" /\ m.disclosure /\ m.undecided}

Evaluate(p, m, previous) ==
  LET repetitive == Repetitive(p, m, previous)
      level == Normalized(m.score, m.level)
      issues == Issues(level, m, repetitive)
  IN  [repetitive |-> repetitive, level |-> IF issues = {} THEN level ELSE "blocked",
       issues |-> issues]

-----------------------------------------------------------------------------
Init ==
  /\ current \in {<<>>} \cup {<<p>> : p \in Projects}
  /\ metadata \in Metadata
  /\ history = <<>>
  /\ report = Evaluate(current, metadata, history)

\* The channel has one more project when the check is made again.
Recheck(p) ==
  /\ Len(history) < MaxHistory
  /\ history' = Append(history, p)
  /\ report' = Evaluate(current, metadata, history')
  /\ UNCHANGED <<current, metadata>>

Next == \E p \in Projects : Recheck(p)

Spec == Init /\ [][Next]_vars

-----------------------------------------------------------------------------
(* Properties *)

\* A project that was published before, word for word, is blocked, whatever else the
\* channel has and the metadata claims: the weights, the bonuses, the ranking and the
\* block are in different functions.  (Unless its text has a zero embedding.)
CopiesAreBlocked ==
  current # <<>> /\ Embedded(current[1], current[1]) = 600 =>
    \A k \in DOMAIN history : history[k] = current[1] => report.level = "blocked"

Unlike(p, q) ==
  /\ p.words \cap q.words = {} /\ p.words \cup q.words # {}
  /\ ~SameText(p.title, q.title) /\ ~SameText(p.hook, q.hook)

\* A project that shares no word with any earlier one is not blocked for repetition,
\* although missing outlines, topics and thumbnails count as equal ones.
NoSharedWordNoBlock ==
  current # <<>> =>
    ((\A k \in DOMAIN history : Unlike(current[1], history[k])) =>
       "repetitive" \notin report.issues)

Severity(tier) == CASE tier = "low" -> 0 [] tier = "medium" -> 1 [] OTHER -> 2

\* More history never makes a project less repetitive, and never lifts a block.
RiskNeverDrops ==
  [][/\ Severity(report'.repetitive) >= Severity(report.repetitive)
     /\ report.level = "blocked" => report'.level = "blocked"]_vars
=============================================================================
