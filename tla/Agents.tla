-------------------------------- MODULE Agents --------------------------------
(***************************************************************************)
(* ProductWorkflow: five agents, one after the other, each asking a language *)
(* model for a JSON object of its own schema.  TrackedLLMClient repairs an   *)
(* unparseable answer with one more request and records costs and failures;  *)
(* BaseAgent retries whatever went wrong.  Nothing runs concurrently; a step  *)
(* is one request to the provider with all that follows its answer.          *)
(***************************************************************************)
EXTENDS Integers

CONSTANTS
  Agents,       \* how many agents the workflow runs: five in the code
  MaxAttempts,  \* RetryPolicy.max_attempts, 1 to 10
  MaxOutage     \* bound: MockLLMProvider.failures_before_success

ASSUME AgentsArePositive == Agents \in Nat /\ Agents >= 1
ASSUME AttemptsArePositive == MaxAttempts \in Nat /\ MaxAttempts >= 1
ASSUME OutageIsNat == MaxOutage \in Nat

VARIABLES
  provider,   \* MockLLMProvider and its failures_before_success; else a chat provider
  inputs,     \* the agents whose input json.dumps accepts
  agent,      \* the agent running; Agents + 1 when all have run
  attempt,    \* its attempt
  repairing,  \* the attempt's answer did not parse, its repair is being asked for
  calls,      \* requests the provider has received
  costs,      \* cost_tracker.record
  failures,   \* cost_tracker.record_failure
  result      \* "running", "done", or "failed": AgentExecutionError

vars == <<provider, inputs, agent, attempt, repairing, calls, costs, failures, result>>

-----------------------------------------------------------------------------
(* The provider's answers *)

\* An answer is a JSON object that fits the agent's schema or does not, a text without
\* a JSON object in it, or an exception: time-out, HTTP error, a body that is no JSON.
Answers == {"fits", "misfits", "garbage", "raises"}

\* MockLLMProvider fails first, then has a fitting payload for each of the five agents.
MockAnswers(n) == IF n <= provider.failures THEN {"raises"} ELSE {"fits"}

\* OpenAICompatibleProvider and OllamaProvider return the text of the first choice.
ChatAnswers == Answers

Generate(n) == IF provider.mock THEN MockAnswers(n) ELSE ChatAnswers

-----------------------------------------------------------------------------
TypeOK ==
  /\ provider \in [mock : BOOLEAN, failures : 0..MaxOutage]
  /\ inputs \subseteq 1..Agents
  /\ agent \in Nat /\ 1 <= agent /\ agent <= Agents + 1
  /\ attempt \in Nat /\ 1 <= attempt /\ attempt <= MaxAttempts
  /\ repairing \in BOOLEAN
  /\ calls \in Nat /\ costs \in Nat /\ failures \in Nat
  /\ result \in {"running", "done", "failed"}
  /\ result = "done" <=> agent = Agents + 1

Init ==
  /\ provider \in [mock : {TRUE}, failures : 0..MaxOutage]
                   \cup [mock : {FALSE}, failures : {0}]
  /\ inputs \in SUBSET (1..Agents)
  /\ agent = 1 /\ attempt = 1 /\ repairing = FALSE
  /\ calls = 0 /\ costs = 0 /\ failures = 0
  /\ result = "running"

-----------------------------------------------------------------------------
(* BaseAgent._generate_typed and ProductWorkflow.run *)

\* Mutation: one attempt too many.
RetryOnce(a) ==
  /\ repairing' = FALSE
  /\ UNCHANGED <<provider, inputs, agent>>
  /\ \/ a <= MaxAttempts /\ attempt' = a + 1 /\ UNCHANGED result
     \/ a > MaxAttempts /\ attempt' = a /\ result' = "failed"

\* Mutation: one attempt too few.
RetryLess(a) ==
  /\ repairing' = FALSE
  /\ UNCHANGED <<provider, inputs, agent>>
  /\ \/ a < MaxAttempts - 1 /\ attempt' = a + 1 /\ UNCHANGED result
     \/ a >= MaxAttempts - 1 /\ attempt' = a /\ result' = "failed"

\* Attempt a failed: the next one, or AgentExecutionError after the last.
Retry(a) ==
  /\ repairing' = FALSE
  /\ UNCHANGED <<provider, inputs, agent>>
  /\ \/ a < MaxAttempts /\ attempt' = a + 1 /\ UNCHANGED result
     \/ a = MaxAttempts /\ attempt' = a /\ result' = "failed"

\* Agent i has its output: the next agent, with attempts of its own.
Advance(i) ==
  /\ repairing' = FALSE /\ attempt' = 1 /\ agent' = i + 1
  /\ UNCHANGED <<provider, inputs>>
  /\ \/ i < Agents /\ UNCHANGED result
     \/ i = Agents /\ result' = "done"

\* json.dumps raises before the provider is asked: retried like any other error.
Unsent ==
  /\ result = "running" /\ agent \notin inputs
  /\ Retry(attempt)
  /\ UNCHANGED <<calls, costs, failures>>

-----------------------------------------------------------------------------
(* TrackedLLMClient._generate_dict *)

Asked(answer) ==
  /\ result = "running" /\ agent \in inputs
  /\ answer \in Generate(calls + 1)
  /\ calls' = calls + 1

\* A repaired answer is charged for twice, by the repair and by the request it repairs:
\* two requests, each with the tokens of its own answer.
Charge(n) ==
  \/ repairing /\ costs' = n + 2
  \/ ~repairing /\ costs' = n + 1

ProviderFails ==
  /\ Asked("raises")
  /\ failures' = failures + 1
  /\ Retry(attempt)
  /\ UNCHANGED costs

\* Mutation: what the repair returned is repaired again.
RepairAgain ==
  /\ Asked("garbage")
  /\ repairing' = TRUE
  /\ UNCHANGED <<provider, inputs, agent, attempt, costs, failures, result>>

Repair ==
  /\ Asked("garbage") /\ ~repairing
  /\ repairing' = TRUE
  /\ UNCHANGED <<provider, inputs, agent, attempt, costs, failures, result>>

ParseFails ==
  /\ Asked("garbage") /\ repairing
  /\ failures' = failures + 1
  /\ Retry(attempt)
  /\ UNCHANGED costs

\* The cost is recorded before the agent validates the object.
Misfits ==
  /\ Asked("misfits")
  /\ Charge(costs)
  /\ Retry(attempt)
  /\ UNCHANGED failures

\* Mutation: only an answer that needed no repair is recorded.
FitsUncharged ==
  /\ Asked("fits")
  /\ IF repairing THEN UNCHANGED costs ELSE Charge(costs)
  /\ Advance(agent)
  /\ UNCHANGED failures

Fits ==
  /\ Asked("fits")
  /\ Charge(costs)
  /\ Advance(agent)
  /\ UNCHANGED failures

Next == Unsent \/ ProviderFails \/ Repair \/ ParseFails \/ Misfits \/ Fits

Spec == Init /\ [][Next]_vars

\* The caller waits for run(), and every request times out.
FairSpec == Spec /\ WF_vars(Next)

-----------------------------------------------------------------------------
(* Properties *)

\* No input and no provider makes the workflow ask more than twice per attempt, whether
\* the attempts fail in the provider, the parser or the schema (retry and repair are
\* nested loops in two classes).
CallBudget == calls <= 2 * MaxAttempts * Agents

\* A request without a record of its own is the first of an attempt whose repair failed,
\* or the one being repaired: costs are never recorded twice, and no request is lost
\* without a failure record beside it.  Every agent that has run was charged for, and a
\* workflow that ran to its end with no failure record was charged for every request.
Accounted ==
  /\ costs + failures <= calls
  /\ \/ calls <= costs + 2 * failures
     \/ repairing /\ calls <= costs + 2 * failures + 1
  /\ costs >= agent - 1
  /\ (result = "done" /\ failures = 0) => costs = calls

\* The workflow ends, whatever the provider answers.  An outage shorter than the attempts
\* is survived by the retries, in whichever agent it comes; inputs that cannot be
\* serialised are not.
Ends ==
  /\ <>(result # "running")
  /\ (provider.mock /\ provider.failures < MaxAttempts /\ inputs = 1..Agents) =>
       <>(result = "done")
  /\ (inputs # 1..Agents) => <>(result = "failed")
=============================================================================
