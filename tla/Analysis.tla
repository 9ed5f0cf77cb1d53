------------------------------- MODULE Analysis -------------------------------
(***************************************************************************)
(* The services that ask a language model once and do not retry: topic        *)
(* research, angle generation and angle evaluation.  Each renders a prompt,    *)
(* asks, adds an LLMCall to the caller's session, then parses, validates and   *)
(* counts.  A service call is one step; nothing in it suspends.  The session is *)
(* the caller's, who ends it; nothing but tests calls the services.             *)
(***************************************************************************)
EXTENDS Naturals, Sequences, FiniteSets

CONSTANTS
  MaxCalls,   \* bound: service calls
  MaxCount,   \* bound: angles asked for, or candidates to evaluate
  MaxItems    \* bound: items in an answer

ASSUME AnalysisBounds == MaxCalls \in Nat /\ MaxCount \in Nat /\ MaxItems \in Nat

VARIABLES
  made,     \* service calls so far
  pending,  \* LLMCall rows of the caller's session, by the call that added them
  last      \* the last call, its answer and what it returned or raised

servicesVars == <<made, pending, last>>

-----------------------------------------------------------------------------
Services == {"research", "generation", "evaluation"}

\* Items of an answer: the angle_index of each evaluation; of angles only how many.
Items == UNION {[1..n -> 0..MaxCount] : n \in 0..MaxItems}

\* A JSON object that fits the schema; anything else the provider may do has no items.
Replies == [kind : {"raises", "garbage", "misfits"}, items : {<<>>}]
             \cup [kind : {"fits"}, items : Items]

\* Both angle schemas ask for at least one item.
Answerable(service, a) == (a.kind = "fits" /\ service # "research") => a.items # <<>>

Returned(items) == {items[k] : k \in DOMAIN items}

Expected(n) == {k \in 0..MaxCount : k < n}

\* Mutation: more angles than were asked for are accepted.
PartialIfFewer(service, n, items) ==
  \/ service = "generation" /\ Len(items) < n
  \/ service = "evaluation" /\ Returned(items) # Expected(n)

Partial(service, n, items) ==
  \/ service = "generation" /\ Len(items) # n
  \/ service = "evaluation" /\ Returned(items) # Expected(n)

Verdict(service, n, a) ==
  CASE a.kind = "raises" -> "raised"
    [] a.kind = "garbage" -> "INVALID_JSON"
    [] a.kind = "misfits" -> "INVALID_SCHEMA"
    [] a.kind = "fits" /\ Partial(service, n, a.items) -> "PARTIAL_OUTPUT"
    [] OTHER -> "ok"

-----------------------------------------------------------------------------
ServicesInit ==
  /\ made = 0 /\ pending = {} /\ last = <<>>

\* The row is added as soon as there is an answer; an exception of the provider leaves none.
Logs(a) == a.kind # "raises"

Call(service, n, a, session) ==
  /\ made < MaxCalls
  /\ Answerable(service, a)
  /\ made' = made + 1
  /\ pending' = pending \cup {k \in {made + 1} : session /\ Logs(a)}
  /\ last' = [service |-> service, count |-> n, answer |-> a, code |-> Verdict(service, n, a)]

ServicesNext ==
  \E service \in Services, n \in 1..MaxCount, a \in Replies, session \in BOOLEAN :
    Call(service, n, a, session)

ServicesSpec == ServicesInit /\ [][ServicesNext]_servicesVars

-----------------------------------------------------------------------------
(* Properties *)

Accepted(service) == last # <<>> /\ last.service = service /\ last.code = "ok"

\* What is accepted is complete: every candidate has an evaluation, no evaluation is of a
\* candidate that was not sent, and there are as many angles as were asked for.  Two
\* checks of different shape, a set of indexes and a length, carry it.
AcceptedIsComplete ==
  /\ Accepted("generation") => Len(last.answer.items) = last.count
  /\ Accepted("evaluation") =>
       /\ \A k \in 0..(last.count - 1) :
            \E j \in DOMAIN last.answer.items : last.answer.items[j] = k
       /\ \A j \in DOMAIN last.answer.items : last.answer.items[j] < last.count
=============================================================================
