------------------------------- MODULE MCAngles -------------------------------
(* Instances of Angles for model checking. *)
EXTENDS Angles, TLC

CONSTANTS i1, i2, e1, e2

TwoIdeas == {i1, i2}
TwoEditors == {e1, e2}
Symmetric == Permutations(TwoIdeas) \cup Permutations(TwoEditors)

\* No hook, both sides of the length where the overall score reaches .6 (24 | 25) and
\* of the one where the hook is clear enough (41 | 42), and a hook beyond the cap; the
\* longest also with every other feature.
PlainAngles == [hook : {0, 24, 25, 41, 42}, novel : {FALSE}, audience : {FALSE}, risky : {FALSE}]
LongAngles == [hook : {240}, novel : BOOLEAN, audience : BOOLEAN, risky : BOOLEAN]
EveryAngle == PlainAngles \cup LongAngles
OnePrompt == {[hook |-> 9, novel |-> FALSE, risky |-> FALSE]}

=============================================================================
