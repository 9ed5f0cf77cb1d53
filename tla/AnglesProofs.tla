------------------------------ MODULE AnglesProofs ------------------------------
(* Proofs about Angles: for every set of ideas, every length of a hook. *)
EXTENDS Angles, TLAPS

-----------------------------------------------------------------------------
(* Scores *)

\* The hook is clear enough before it is rounded exactly when it is after.
LEMMA HookRounding ==
  ASSUME NEW h \in Nat, h <= 120
  PROVE  /\ Rounded(1000 * h, 120) \in 0..1000
         /\ 1000 * h < 350 * 120 <=> Rounded(1000 * h, 120) < 350
BY DEF Rounded

\* The overall score is in range after it is rounded.
LEMMA OverallRounding ==
  ASSUME NEW o \in Nat, o <= 120000
  PROVE  Rounded(o, 120) \in 0..1000
BY DEF Rounded

\* Scores are in range and both gates read them alike.
LEMMA ScoreFacts ==
  ASSUME NEW a \in AllAngles
  PROVE  /\ Score(a) \in Evaluations
         /\ Score(a) # NoEvaluation
         /\ Score(a).blocked = Rejections(Score(a))
         /\ Rejections(Score(a)) = Blocked(a)
         /\ Score(a).blocked = Blocked(a)
<1> DEFINE h == HookLength(a)
<1>1. h \in Nat /\ h <= 120
  BY DEF HookLength, Least, AllAngles
<1>2. /\ Rounded(1000 * h, 120) \in 0..1000
      /\ 1000 * h < 350 * 120 <=> Rounded(1000 * h, 120) < 350
  BY <1>1, HookRounding
<1>3. Overall(a) \in Nat /\ Overall(a) <= 120000
  <2> DEFINE x == Novelty(a)
             y == AudienceFit(a)
             z == Risk(a)
  <2>1. x \in Nat /\ x <= 1000 /\ y \in Nat /\ y <= 1000 /\ z \in Nat /\ z <= 1000
    BY DEF Novelty, AudienceFit, Risk
  <2>2. Overall(a) = 250 * h + 36 * x + 36 * y + 18 * (1000 - z)
    BY DEF Overall
  <2> HIDE DEF h, x, y, z
  <2>3. /\ 250 * h + 36 * x + 36 * y + 18 * (1000 - z) \in Nat
        /\ 250 * h + 36 * x + 36 * y + 18 * (1000 - z) <= 120000
    BY <1>1, <2>1
  <2> QED BY <2>2, <2>3
<1>4. Rounded(Overall(a), 120) \in 0..1000
  BY <1>3, OverallRounding
<1>5. Risk(a) \in 0..1000
  BY DEF Risk
<1>6. Blocked(a) \subseteq Reasons /\ "missing" \notin Reasons
  BY DEF Blocked, Reasons
<1>7. Score(a) \in Evaluations /\ Score(a).blocked = Blocked(a)
  BY <1>2, <1>4, <1>5, <1>6 DEF Score, Evaluations, h
<1>8. Score(a) # NoEvaluation
  BY <1>6, <1>7 DEF NoEvaluation
<1>9. Rejections(Score(a)) = Blocked(a)
  <2>1. /\ Score(a).hook_clarity = Rounded(1000 * h, 120)
        /\ Score(a).risk = Risk(a)
        /\ Score(a).overall_score = Rounded(Overall(a), 120)
    BY DEF Score, h
  <2> QED BY <2>1, <1>2, <1>8 DEF Rejections, Blocked, h
<1> QED BY <1>7, <1>8, <1>9

-----------------------------------------------------------------------------
(* The inductive invariant *)

\* A row as the handlers leave it: its evaluation is none or that of its angle, and
\* it was approved by what its angle deserves.
RowOK(r) ==
  /\ r.evaluation = NoEvaluation \/ r.evaluation = Score(r.angle)
  /\ r.approved <=> r.status # "proposed"
  /\ r.approved => r.evaluation = Score(r.angle)
  /\ r.status = "approved" => Blocked(r.angle) = {} /\ r.override = NoOverride
  /\ r.status = "approved_override" => r.override.reasons = Blocked(r.angle)
                                       /\ r.override.reasons # {}
  /\ r.status = "proposed" => r.override = NoOverride

IInv == TypeOK /\ \A n \in 1..made : RowOK(rows[n])

\* The evaluation a decision uses is that of the row's angle.
LEMMA EvaluationFacts ==
  ASSUME IInv, NEW n \in 1..made
  PROVE  Evaluation(n) = Score(rows[n].angle) /\ rows[n] \in Rows /\ rows[n].angle \in AllAngles
<1>1. rows[n] \in Rows
  BY DEF IInv, TypeOK
<1>2. rows[n].angle \in AllAngles
  BY <1>1 DEF Rows
<1> QED BY <1>1, <1>2 DEF IInv, RowOK, Evaluation

\* A step that changes one row well keeps the invariant and, if the row was approved,
\* its status.
LEMMA RowStep ==
  ASSUME IInv, NEW n \in 1..made, NEW r \in Rows, RowOK(r),
         rows[n].approved => r.status = rows[n].status,
         rows' = [rows EXCEPT ![n] = r], UNCHANGED <<ideas, made>>
  PROVE  /\ IInv'
         /\ \A k \in 1..made : rows[k].approved =>
              k \in 1..made' /\ rows'[k].status = rows[k].status
BY DEF IInv, TypeOK, RowOK

\* Rows that are appended are well formed.
LEMMA AppendStep ==
  ASSUME IInv, NEW i \in Ideas, NEW n \in Nat, NEW entries,
         \A k \in 1..n : entries[k] \in AllAngles, Append(i, entries, n)
  PROVE  /\ IInv'
         /\ \A k \in 1..made : rows[k].approved =>
              k \in 1..made' /\ rows'[k].status = rows[k].status
<1> USE AngleBoundsAreNat
<1>1. made \in Nat /\ made' = made + n /\ made' \in 0..MaxAngles
  BY DEF IInv, TypeOK, Append
<1>2. \A a \in AllAngles : Proposed(i, a) \in Rows /\ RowOK(Proposed(i, a))
  <2>1. NoEvaluation \in Evaluations /\ NoOverride \in Overrides
    BY DEF NoEvaluation, NoOverride, Evaluations, Overrides
  <2> QED BY <2>1 DEF Proposed, Rows, RowOK, NoOverride
<1>3. \A k \in 1..made : k \in 1..made' /\ rows'[k] = rows[k]
  BY <1>1 DEF Append
<1>4. \A k \in 1..made' : k \notin 1..made =>
        k - made \in 1..n /\ rows'[k] = Proposed(i, entries[k - made])
  BY <1>1 DEF Append
<1>5. \A k \in 1..made' : rows'[k] \in Rows /\ RowOK(rows'[k])
  BY <1>1, <1>2, <1>3, <1>4 DEF IInv, TypeOK
<1>6. rows' \in [1..made' -> Rows]
  BY <1>5, <1>1 DEF Append
<1>7. TypeOK'
  BY <1>1, <1>6 DEF IInv, TypeOK, Append
<1>8. \A k \in 1..made' : RowOK(rows'[k])
  BY <1>5
<1> QED BY <1>3, <1>7, <1>8 DEF IInv, RowOK, TypeOK

\* Every step keeps the invariant and the status of what was approved.
LEMMA StepKeeps ==
  ASSUME IInv, [Next]_vars
  PROVE  /\ IInv'
         /\ \A k \in 1..made : rows[k].approved =>
              k \in 1..made' /\ rows'[k].status = rows[k].status
<1> USE AnglesAreFeatures, AngleBoundsAreNat
<1>1. CASE UNCHANGED vars
  BY <1>1 DEF IInv, TypeOK, RowOK, vars
<1>2. ASSUME NEW i \in Ideas, NEW count \in 1..MaxCount, NEW n \in 1..(MaxCount + 1),
             NEW entries \in [1..n -> Angles], Generate(i, count, entries, n)
      PROVE  /\ IInv'
             /\ \A k \in 1..made : rows[k].approved =>
                  k \in 1..made' /\ rows'[k].status = rows[k].status
  <2>1. Least(count, n) \in Nat /\ Least(count, n) <= n
    BY DEF Least
  <2>2. \A k \in 1..Least(count, n) : entries[k] \in AllAngles
    BY <2>1 DEF AllAngles
  <2> QED BY <2>1, <2>2, <1>2, AppendStep DEF Generate
<1>3. ASSUME NEW i \in Ideas, NEW count \in 1..MaxCount, NEW p \in Prompts,
             GenerateFallback(i, count, p)
      PROVE  /\ IInv'
             /\ \A k \in 1..made : rows[k].approved =>
                  k \in 1..made' /\ rows'[k].status = rows[k].status
  <2> DEFINE entries == [k \in 1..count |-> [hook |-> p.hook, novel |-> p.novel,
                                             audience |-> FALSE, risky |-> p.risky]]
  <2>1. \A k \in 1..count : entries[k] \in AllAngles
    BY DEF AllAngles
  <2>2. Append(i, entries, count)
    BY <1>3 DEF GenerateFallback
  <2> HIDE DEF entries
  <2> QED BY <2>1, <2>2, AppendStep
<1>4. ASSUME NEW i \in Ideas, NEW n \in 1..MaxAngles, Evaluate(i, n)
      PROVE  /\ IInv'
             /\ \A k \in 1..made : rows[k].approved =>
                  k \in 1..made' /\ rows'[k].status = rows[k].status
  <2> DEFINE r == [rows[n] EXCEPT !.evaluation = Score(rows[n].angle)]
  <2>1. n \in 1..made /\ rows' = [rows EXCEPT ![n] = r] /\ UNCHANGED <<ideas, made>>
    BY <1>4 DEF Evaluate
  <2>2. rows[n] \in Rows /\ rows[n].angle \in AllAngles /\ RowOK(rows[n])
    BY <2>1, EvaluationFacts DEF IInv
  <2>3. Score(rows[n].angle) \in Evaluations
    BY <2>2, ScoreFacts
  <2>4. r \in Rows /\ RowOK(r) /\ r.status = rows[n].status
    BY <2>2, <2>3 DEF Rows, RowOK
  <2> HIDE DEF r
  <2> QED BY <2>1, <2>4, RowStep
<1>5. ASSUME NEW i \in Ideas, NEW n \in 1..MaxAngles, Approve(i, n)
      PROVE  /\ IInv'
             /\ \A k \in 1..made : rows[k].approved =>
                  k \in 1..made' /\ rows'[k].status = rows[k].status
  <2> DEFINE r == IF Rejections(Evaluation(n)) = {}
                    THEN [rows[n] EXCEPT !.evaluation = Evaluation(n), !.approved = TRUE,
                                         !.status = "approved"]
                    ELSE [rows[n] EXCEPT !.evaluation = Evaluation(n)]
  <2>1. n \in 1..made /\ rows' = [rows EXCEPT ![n] = r] /\ UNCHANGED <<ideas, made>>
    BY <1>5 DEF Approve
  <2>2. rows[n] \in Rows /\ rows[n].angle \in AllAngles /\ RowOK(rows[n])
    BY <2>1, EvaluationFacts DEF IInv
  <2>3. /\ Evaluation(n) = Score(rows[n].angle)
        /\ Score(rows[n].angle) \in Evaluations
        /\ Rejections(Evaluation(n)) = Blocked(rows[n].angle)
    BY <2>1, <2>2, EvaluationFacts, ScoreFacts
  <2>4. r \in Rows /\ RowOK(r) /\ (rows[n].approved => r.status = rows[n].status)
    <3>1. CASE Rejections(Evaluation(n)) = {}
      <4>1. rows[n].status # "approved_override"
        BY <3>1, <2>2, <2>3 DEF RowOK
      <4>2. rows[n].override = NoOverride
        BY <4>1, <2>2 DEF RowOK, Rows
      <4> QED BY <3>1, <4>1, <4>2, <2>2, <2>3 DEF Rows, RowOK
    <3>2. CASE Rejections(Evaluation(n)) # {}
      BY <3>2, <2>2, <2>3 DEF Rows, RowOK
    <3> QED BY <3>1, <3>2
  <2> HIDE DEF r
  <2> QED BY <2>1, <2>4, RowStep
<1>6. ASSUME NEW i \in Ideas, NEW n \in 1..MaxAngles, NEW e \in Editors, Override(i, n, e)
      PROVE  /\ IInv'
             /\ \A k \in 1..made : rows[k].approved =>
                  k \in 1..made' /\ rows'[k].status = rows[k].status
  <2> DEFINE o == [by |-> {e}, reasons |-> Rejections(Evaluation(n))]
             r == IF Rejections(Evaluation(n)) # {}
                    THEN [rows[n] EXCEPT !.evaluation = Evaluation(n), !.approved = TRUE,
                                         !.status = "approved_override", !.override = o]
                    ELSE [rows[n] EXCEPT !.evaluation = Evaluation(n)]
  <2>1. n \in 1..made /\ rows' = [rows EXCEPT ![n] = r] /\ UNCHANGED <<ideas, made>>
    BY <1>6 DEF Override
  <2>2. rows[n] \in Rows /\ rows[n].angle \in AllAngles /\ RowOK(rows[n])
    BY <2>1, EvaluationFacts DEF IInv
  <2>3. /\ Evaluation(n) = Score(rows[n].angle)
        /\ Score(rows[n].angle) \in Evaluations
        /\ Rejections(Evaluation(n)) = Blocked(rows[n].angle)
    BY <2>1, <2>2, EvaluationFacts, ScoreFacts
  <2>4. o \in Overrides /\ o.reasons = Blocked(rows[n].angle)
    BY <2>3 DEF Overrides, Blocked
  <2> HIDE DEF o
  <2>5. r \in Rows /\ RowOK(r) /\ (rows[n].approved => r.status = rows[n].status)
    <3>1. CASE Rejections(Evaluation(n)) # {}
      <4>1. rows[n].status # "approved"
        BY <3>1, <2>2, <2>3 DEF RowOK
      <4> QED BY <3>1, <4>1, <2>2, <2>3, <2>4 DEF Rows, RowOK
    <3>2. CASE Rejections(Evaluation(n)) = {}
      BY <3>2, <2>2, <2>3 DEF Rows, RowOK
    <3> QED BY <3>1, <3>2
  <2> HIDE DEF r
  <2> QED BY <2>1, <2>5, RowStep
<1>7. ASSUME NEW i \in Ideas, DeleteIdea(i)
      PROVE  /\ IInv'
             /\ \A k \in 1..made : rows[k].approved =>
                  k \in 1..made' /\ rows'[k].status = rows[k].status
  BY <1>7 DEF DeleteIdea, IInv, TypeOK, RowOK
<1> QED BY <1>1, <1>2, <1>3, <1>4, <1>5, <1>6, <1>7 DEF Next

\* The invariant of Angles.
THEOREM Invariant == Spec => []IInv
<1>1. Init => IInv
  BY AngleBoundsAreNat DEF Init, IInv, TypeOK
<1>2. IInv /\ [Next]_vars => IInv'
  BY StepKeeps
<1> QED BY <1>1, <1>2, PTL DEF Spec

\* Type correctness, for hooks of any length.
THEOREM TypeCorrect == Spec => []TypeOK
<1>1. IInv => TypeOK
  BY DEF IInv
<1> QED BY <1>1, Invariant, PTL

\* The gate of the scoring and the gate of the approval agree on every angle.
THEOREM GatesAlwaysAgree == Spec => []GatesAgree
<1>1. IInv => GatesAgree
  BY EvaluationFacts, ScoreFacts DEF IInv, RowOK, GatesAgree
<1> QED BY <1>1, Invariant, PTL

\* An angle is approved through the gate or by an override that names what it rejected.
THEOREM ApprovedThroughGateAlways == Spec => []ApprovedThroughGate
<1>1. IInv => ApprovedThroughGate
  BY DEF IInv, RowOK, ApprovedThroughGate
<1> QED BY <1>1, Invariant, PTL

\* How an angle was approved never changes.
THEOREM DecisionsAlwaysStick == Spec => DecisionsStick
<1>1. IInv /\ [Next]_vars =>
        [\A n \in 1..made : rows[n].approved =>
           n \in 1..made' /\ rows'[n].status = rows[n].status]_vars
  BY StepKeeps
<1> QED BY <1>1, Invariant, PTL DEF Spec, DecisionsStick

=============================================================================
