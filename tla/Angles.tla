-------------------------------- MODULE Angles --------------------------------
(***************************************************************************)
(* The angles of content ideas: generated, evaluated, then approved by a    *)
(* deterministic gate or by an override of it.  The rows live in the        *)
(* process's _memory_angles, whatever the database mode, and no handler     *)
(* suspends while it changes them: each is one step.                        *)
(*                                                                         *)
(* The gate exists twice: _score_angle_payload records blocked reasons from  *)
(* the scores it computes, AngleValidationService computes rejection reasons *)
(* from the scores that were recorded, rounded to three digits.             *)
(***************************************************************************)
EXTENDS Integers

CONSTANTS
  Ideas,      \* content ideas
  Angles,     \* what an angle can say: the features the scoring looks at
  Prompts,    \* the prompts or descriptions that stand in for a missing answer
  Editors,    \* who overrides
  MaxAngles,  \* bound: angles generated
  MaxCount    \* the largest payload.count (10 in the code)

\* hook: length of the hook; novel, audience, risky: what the text contains.
ASSUME AnglesAreFeatures ==
  /\ Angles \subseteq [hook : Nat, novel : BOOLEAN, audience : BOOLEAN, risky : BOOLEAN]
  /\ Prompts \subseteq [hook : Nat, novel : BOOLEAN, risky : BOOLEAN]

ASSUME AngleBoundsAreNat == MaxAngles \in Nat /\ MaxCount \in Nat

VARIABLES
  ideas,    \* the ideas that still exist
  made,     \* angles generated so far
  rows      \* the rows of _memory_angles

vars == <<ideas, made, rows>>

-----------------------------------------------------------------------------
(* Scores, in thousandths *)

Least(a, b) == IF a < b THEN a ELSE b

\* x/d to the nearest integer.
Rounded(x, d) == (2 * x + d) \div (2 * d)

\* Mutation: hook_clarity is not capped at 1.
HookLengthUncapped(a) == a.hook

\* The length that counts: min(1.0, len(hook) / 120), times 120.
HookLength(a) == Least(a.hook, 120)

Novelty(a) == IF a.novel THEN 1000 ELSE 650
AudienceFit(a) == IF a.audience THEN 1000 ELSE 700
Risk(a) == IF a.risky THEN 200 ELSE 50

\* 120 times .25 hook_clarity + .3 novelty + .3 audience_fit + .15 (1 - risk); no
\* length of a hook makes a tie at the threshold.
Overall(a) ==
  250 * HookLength(a) + 36 * Novelty(a) + 36 * AudienceFit(a) + 18 * (1000 - Risk(a))

Reasons == {"hook_clarity", "risk", "overall_score"}

\* Mutation: the threshold itself is blocked.
BlockedAtThreshold(a) ==
  {r \in Reasons : \/ r = "hook_clarity" /\ 1000 * HookLength(a) <= 350 * 120
                   \/ r = "risk" /\ Risk(a) > 150
                   \/ r = "overall_score" /\ Rounded(Overall(a), 120) < 600}

\* hook_clarity is compared before it is rounded, overall after.
Blocked(a) ==
  {r \in Reasons : \/ r = "hook_clarity" /\ 1000 * HookLength(a) < 350 * 120
                   \/ r = "risk" /\ Risk(a) > 150
                   \/ r = "overall_score" /\ Rounded(Overall(a), 120) < 600}

Score(a) ==
  [hook_clarity |-> Rounded(1000 * HookLength(a), 120), risk |-> Risk(a),
   overall_score |-> Rounded(Overall(a), 120), blocked |-> Blocked(a)]

NoEvaluation == [hook_clarity |-> 0, risk |-> 0, overall_score |-> 0, blocked |-> {"missing"}]

\* AngleValidationService.evaluate; without scores every field is missing.
Rejections(e) ==
  {r \in Reasons : \/ e = NoEvaluation
                   \/ r = "hook_clarity" /\ e.hook_clarity < 350
                   \/ r = "risk" /\ e.risk > 150
                   \/ r = "overall_score" /\ e.overall_score < 600}

-----------------------------------------------------------------------------
(* Types *)

AllAngles == [hook : Nat, novel : BOOLEAN, audience : BOOLEAN, risky : BOOLEAN]
Evaluations == [hook_clarity : 0..1000, risk : 0..1000, overall_score : 0..1000,
                blocked : SUBSET (Reasons \cup {"missing"})]
Overrides == [by : SUBSET Editors, reasons : SUBSET Reasons]
NoOverride == [by |-> {}, reasons |-> {}]

Rows == [idea : Ideas, angle : AllAngles, status : {"proposed", "approved", "approved_override"},
         evaluation : Evaluations, approved : BOOLEAN, override : Overrides]

Proposed(i, a) == [idea |-> i, angle |-> a, status |-> "proposed", evaluation |-> NoEvaluation,
                   approved |-> FALSE, override |-> NoOverride]

TypeOK ==
  /\ ideas \subseteq Ideas
  /\ made \in 0..MaxAngles
  /\ rows \in [1..made -> Rows]

Init ==
  /\ ideas = Ideas
  /\ made = 0
  /\ rows = <<>>

-----------------------------------------------------------------------------
(* Handlers; _require_idea answers 404 for an idea that is gone *)

\* One row per entry, in order; an id is never used again.
Append(i, entries, n) ==
  /\ i \in ideas
  /\ made + n <= MaxAngles
  /\ made' = made + n
  /\ rows' = [k \in 1..(made + n) |->
                IF k <= made THEN rows[k] ELSE Proposed(i, entries[k - made])]
  /\ UNCHANGED ideas

\* The provider answered with angles: the first payload.count of them are kept.
Generate(i, count, entries, n) == n > 0 /\ Append(i, entries, Least(count, n))

\* No usable answer: payload.count times the same angle, the prompt as its hook.
GenerateFallback(i, count, p) ==
  Append(i, [k \in 1..count |-> [hook |-> p.hook, novel |-> p.novel, audience |-> FALSE,
                                 risky |-> p.risky]], count)

\* Of a stored angle; an angle in the payload is evaluated and stored nowhere.
Evaluate(i, n) ==
  /\ i \in ideas
  /\ n \in 1..made
  /\ rows[n].idea = i
  /\ rows' = [rows EXCEPT ![n].evaluation = Score(rows[n].angle)]
  /\ UNCHANGED <<ideas, made>>

\* row.get("evaluation") or a fresh one; it is stored whatever the decision.
Evaluation(n) ==
  IF rows[n].evaluation = NoEvaluation THEN Score(rows[n].angle) ELSE rows[n].evaluation

\* Mutation: approved is set before the gate answers 409.
ApproveEarly(i, n) ==
  /\ i \in ideas
  /\ n \in 1..made
  /\ rows[n].idea = i
  /\ rows' = [rows EXCEPT ![n].evaluation = Evaluation(n), ![n].approved = TRUE]
  /\ UNCHANGED <<ideas, made>>

Approve(i, n) ==
  /\ i \in ideas
  /\ n \in 1..made
  /\ rows[n].idea = i
  /\ rows' = [rows EXCEPT ![n] =
       IF Rejections(Evaluation(n)) = {}
         THEN [@ EXCEPT !.evaluation = Evaluation(n), !.approved = TRUE, !.status = "approved"]
         ELSE [@ EXCEPT !.evaluation = Evaluation(n)]]
  /\ UNCHANGED <<ideas, made>>

\* Mutation: the override does not ask the gate.
OverrideUngated(i, n, e) ==
  /\ i \in ideas
  /\ n \in 1..made
  /\ rows[n].idea = i
  /\ rows' = [rows EXCEPT ![n] =
       [@ EXCEPT !.evaluation = Evaluation(n), !.approved = TRUE,
                 !.status = "approved_override",
                 !.override = [by |-> {e}, reasons |-> Rejections(Evaluation(n))]]]
  /\ UNCHANGED <<ideas, made>>

\* A reason that is blank is answered 422 before anything is stored.
Override(i, n, e) ==
  /\ i \in ideas
  /\ n \in 1..made
  /\ rows[n].idea = i
  /\ rows' = [rows EXCEPT ![n] =
       IF Rejections(Evaluation(n)) # {}
         THEN [@ EXCEPT !.evaluation = Evaluation(n), !.approved = TRUE,
                        !.status = "approved_override",
                        !.override = [by |-> {e}, reasons |-> Rejections(Evaluation(n))]]
         ELSE [@ EXCEPT !.evaluation = Evaluation(n)]]
  /\ UNCHANGED <<ideas, made>>

\* The idea's angles stay in _memory_angles, out of reach.
DeleteIdea(i) ==
  /\ i \in ideas
  /\ ideas' = ideas \ {i}
  /\ UNCHANGED <<made, rows>>

Next ==
  \E i \in Ideas :
    \/ \E count \in 1..MaxCount, n \in 1..(MaxCount + 1) :
         \E entries \in [1..n -> Angles] : Generate(i, count, entries, n)
    \/ \E count \in 1..MaxCount, p \in Prompts : GenerateFallback(i, count, p)
    \/ \E n \in 1..MaxAngles : Evaluate(i, n) \/ Approve(i, n)
    \/ \E n \in 1..MaxAngles, e \in Editors : Override(i, n, e)
    \/ DeleteIdea(i)

Spec == Init /\ [][Next]_vars

-----------------------------------------------------------------------------
(* Properties *)

\* The two gates never disagree: what scoring recorded as blocked is what the
\* approval gate rejects, although one looks at the hook before rounding and the
\* other after (content_ideas.py:64-70, angle_validation_service.py:25-29).
GatesAgree ==
  \A n \in 1..made :
    rows[n].evaluation # NoEvaluation => rows[n].evaluation.blocked = Rejections(rows[n].evaluation)

\* An angle is approved through the gate or by an override that names what the gate
\* rejected, never both and never on an evaluation of something else, however
\* evaluations, refused approvals and refused overrides are mixed before it.
ApprovedThroughGate ==
  \A n \in 1..made : LET r == rows[n] IN
    /\ r.approved <=> r.status # "proposed"
    /\ r.approved => r.evaluation = Score(r.angle)
    /\ r.status = "approved" => Blocked(r.angle) = {} /\ r.override = NoOverride
    /\ r.status = "approved_override" => r.override.reasons = Blocked(r.angle)
                                         /\ r.override.reasons # {}

\* No later call changes how an angle was approved.
DecisionsStick ==
  [][\A n \in 1..made : rows[n].approved => n \in 1..made' /\ rows'[n].status = rows[n].status]_vars

=============================================================================
