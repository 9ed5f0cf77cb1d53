----------------------------- MODULE MCCompliance -----------------------------
(* Instances of Compliance for model checking. *)
EXTENDS Compliance

Full == [title |-> "t", hook |-> "h", angle |-> "a", words |-> {"t", "h", "w"},
         outline |-> {"intro", "body"}, sections |-> 3, topic |-> {"x"}, thumbnail |-> {"y"}]

\* Retold from another angle; with another title and order; bare ones; an empty one.
Retold == [Full EXCEPT !.angle = "b", !.words = {"t", "h", "v"}]
Reworked == [Full EXCEPT !.title = "u", !.hook = "k", !.words = {"u", "k"}, !.sections = 9]
Bare == [title |-> "", hook |-> "", angle |-> "", words |-> {"p"}, outline |-> {},
         sections |-> 1, topic |-> {}, thumbnail |-> {}]
OtherBare == [Bare EXCEPT !.words = {"q"}]
Empty == [Bare EXCEPT !.words = {}]

MCProjects == {Full, Retold, Reworked, Bare, OtherBare, Empty}

MCEmbedded(p, q) ==
  IF p = Empty \/ q = Empty THEN 0
  ELSE IF p = q \/ {p, q} = {Bare, OtherBare} THEN 600 ELSE 400

\* Metadata that alone passes; each of its fields may be what blocks.
Plain == [score |-> 80, level |-> "low", repetitive |-> "low", copyright |-> "low",
          license |-> "low", disclosure |-> FALSE, undecided |-> FALSE]
MCMetadata == {Plain, [Plain EXCEPT !.score = 39], [Plain EXCEPT !.score = 40],
               [Plain EXCEPT !.level = "blocked"], [Plain EXCEPT !.repetitive = "high"],
               [Plain EXCEPT !.copyright = "high"], [Plain EXCEPT !.license = "high"],
               [Plain EXCEPT !.disclosure = TRUE], [Plain EXCEPT !.undecided = TRUE],
               [Plain EXCEPT !.disclosure = TRUE, !.undecided = TRUE]}
=============================================================================
