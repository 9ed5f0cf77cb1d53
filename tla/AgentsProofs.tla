----------------------------- MODULE AgentsProofs -----------------------------
(***************************************************************************)
(* Theorems about Agents, for every number of agents and attempts, every      *)
(* provider and every set of inputs that cannot be serialised.  The budget is  *)
(* proved by counting per agent and attempt what the requests may have been.   *)
(* The last section is about Analysis, the services that ask a model once.      *)
(***************************************************************************)
EXTENDS Agents, Analysis, TLAPS

\* The most requests i agents can have made.
Spent(i) == 2 * MaxAttempts * i

\* Two requests per attempt that is over, one more while a repair is asked for.
WithinBudget ==
  /\ result = "running" /\ ~repairing => calls <= Spent(agent - 1) + 2 * (attempt - 1)
  /\ result = "running" /\ repairing => calls <= Spent(agent - 1) + 2 * attempt - 1
  /\ result = "failed" => calls <= Spent(agent - 1) + 2 * attempt
  /\ result = "done" => calls <= Spent(Agents)

\* Costs and requests differ by failed attempts and the answer under repair.
Balanced ==
  /\ costs >= agent - 1
  /\ repairing => result = "running" /\ agent \in inputs
  /\ failures = 0 /\ ~repairing => calls = costs
  /\ failures = 0 /\ repairing => calls = costs + 1
  /\ ~repairing => costs + failures <= calls /\ calls <= costs + 2 * failures
  /\ repairing => costs + failures + 1 <= calls /\ calls <= costs + 2 * failures + 1

\* The inductive invariant.
IInv == TypeOK /\ WithinBudget /\ Balanced

\* Spent is a natural number that grows by the budget of an agent.
LEMMA SpentFacts ==
  ASSUME NEW i \in Nat
  PROVE  /\ Spent(i) \in Nat
         /\ Spent(i + 1) = Spent(i) + 2 * MaxAttempts
         /\ i <= Agents => Spent(i) <= Spent(Agents)
<1>1. Spent(i) \in Nat /\ Spent(i + 1) = Spent(i) + 2 * MaxAttempts
  BY AttemptsArePositive DEF Spent
<1>2. ASSUME i <= Agents PROVE Spent(i) <= Spent(Agents)
  <2>1. PICK k \in Nat : Agents = i + k
    <3>1. Agents - i \in Nat /\ Agents = i + (Agents - i)
      BY <1>2, AgentsArePositive
    <3> QED  BY <3>1
  <2> DEFINE m == 2 * MaxAttempts
  <2>2. m \in Nat /\ Spent(i) = m * i /\ Spent(Agents) = m * (i + k)
    BY <2>1, AttemptsArePositive DEF Spent
  <2> HIDE DEF m
  <2>3. m * (i + k) = m * i + m * k /\ m * k \in Nat /\ m * i \in Nat
    BY <2>2
  <2> QED  BY <2>2, <2>3
<1> QED  BY <1>1, <1>2

\* An attempt that is over without an output.
LEMMA RetryFacts ==
  ASSUME TypeOK, result = "running", Retry(attempt)
  PROVE  /\ provider' = provider /\ inputs' = inputs /\ agent' = agent /\ repairing' = FALSE
         /\ \/ result' = "running" /\ attempt' = attempt + 1 /\ attempt < MaxAttempts
            \/ result' = "failed" /\ attempt' = attempt
BY DEF Retry

\* An agent that has its output.
LEMMA AdvanceFacts ==
  ASSUME TypeOK, result = "running", Advance(agent)
  PROVE  /\ provider' = provider /\ inputs' = inputs /\ agent' = agent + 1
         /\ repairing' = FALSE /\ attempt' = 1
         /\ agent <= Agents
         /\ \/ result' = "running" /\ agent < Agents
            \/ result' = "done" /\ agent = Agents
BY AgentsArePositive DEF Advance, TypeOK

\* The types of what a step changes.
LEMMA StepTypes == TypeOK /\ Next => TypeOK'
<1> SUFFICES ASSUME TypeOK, Next PROVE TypeOK'
  OBVIOUS
<1>1. result = "running"
  BY DEF Next, Unsent, ProviderFails, Repair, ParseFails, Misfits, Fits, Asked
<1>2. calls' \in Nat /\ costs' \in Nat /\ failures' \in Nat
  BY DEF TypeOK, Next, Unsent, ProviderFails, Repair, ParseFails, Misfits, Fits, Asked, Charge
<1>3. CASE Retry(attempt)
  <2>1. /\ provider' = provider /\ inputs' = inputs /\ agent' = agent /\ repairing' = FALSE
        /\ \/ result' = "running" /\ attempt' = attempt + 1 /\ attempt < MaxAttempts
           \/ result' = "failed" /\ attempt' = attempt
    BY <1>1, <1>3, RetryFacts
  <2>2. attempt' \in Nat /\ 1 <= attempt' /\ attempt' <= MaxAttempts
    BY <2>1, AttemptsArePositive DEF TypeOK
  <2>3. agent' # Agents + 1 /\ result' \in {"running", "failed"}
    BY <1>1, <2>1 DEF TypeOK
  <2> QED  BY <1>2, <2>1, <2>2, <2>3 DEF TypeOK
<1>4. CASE Advance(agent)
  <2>1. /\ provider' = provider /\ inputs' = inputs /\ agent' = agent + 1
        /\ repairing' = FALSE /\ attempt' = 1
        /\ agent <= Agents
        /\ \/ result' = "running" /\ agent < Agents
           \/ result' = "done" /\ agent = Agents
    BY <1>1, <1>4, AdvanceFacts
  <2>2. /\ agent' \in Nat /\ 1 <= agent' /\ agent' <= Agents + 1
        /\ (result' = "done" <=> agent' = Agents + 1)
    BY <2>1, AgentsArePositive DEF TypeOK
  <2>3. attempt' \in Nat /\ 1 <= attempt' /\ attempt' <= MaxAttempts
    BY <2>1, AttemptsArePositive
  <2> QED  BY <1>2, <2>1, <2>2, <2>3 DEF TypeOK
<1>5. CASE Repair
  BY <1>2, <1>5 DEF Repair, TypeOK
<1> QED
  BY <1>3, <1>4, <1>5 DEF Next, Unsent, ProviderFails, ParseFails, Misfits, Fits

\* No step exceeds the budget.
LEMMA StepBudget == IInv /\ Next => WithinBudget'
<1> SUFFICES ASSUME IInv, Next PROVE WithinBudget'
  OBVIOUS
<1> DEFINE s == Spent(agent - 1)
<1>1. /\ result = "running"
      /\ \/ calls' = calls
         \/ calls' = calls + 1
  BY DEF Next, Unsent, ProviderFails, Repair, ParseFails, Misfits, Fits, Asked
<1>2. /\ agent \in Nat /\ 1 <= agent /\ agent <= Agents + 1 /\ attempt \in Nat /\ 1 <= attempt
      /\ attempt <= MaxAttempts /\ calls \in Nat /\ repairing \in BOOLEAN
  BY DEF IInv, TypeOK
<1>3. s \in Nat /\ Spent(agent) = s + 2 * MaxAttempts
  <2>1. agent - 1 \in Nat /\ agent = (agent - 1) + 1
    BY <1>2
  <2> QED  BY <2>1, SpentFacts
<1>4. calls <= s + 2 * attempt - 1
  BY <1>1, <1>2, <1>3 DEF IInv, WithinBudget
<1>5. CASE Retry(attempt)
  <2> HIDE DEF s
  <2>1. agent' = agent /\ Spent(agent' - 1) = s
    BY <1>1, <1>5, RetryFacts DEF IInv, s
  <2>2. calls' \in Nat /\ calls' <= s + 2 * attempt
    BY <1>1, <1>2, <1>3, <1>4
  <2> QED  BY <1>1, <1>2, <1>3, <1>5, <2>1, <2>2, RetryFacts DEF IInv, WithinBudget
<1>6. CASE Advance(agent)
  <2> HIDE DEF s
  <2>1. calls' <= s + 2 * MaxAttempts
    BY <1>1, <1>2, <1>3, <1>4, AttemptsArePositive
  <2>2. agent' - 1 = agent /\ attempt' = 1 /\ repairing' = FALSE /\ result' \in {"running", "done"}
        /\ (result' = "done" => agent = Agents)
    BY <1>1, <1>2, <1>6, AdvanceFacts DEF IInv
  <2>3. Spent(agent' - 1) = s + 2 * MaxAttempts /\ calls' \in Nat
    BY <1>1, <1>2, <1>3, <2>2
  <2> QED  BY <1>3, <2>1, <2>2, <2>3, AttemptsArePositive DEF WithinBudget
<1>7. CASE Repair
  <2>1. calls <= s + 2 * (attempt - 1) /\ calls' = calls + 1
    BY <1>1, <1>7 DEF IInv, WithinBudget, Repair, Asked
  <2>2. UNCHANGED <<agent, attempt, result>> /\ repairing'
    BY <1>7 DEF Repair
  <2>3. Spent(agent' - 1) = s
    BY <2>2
  <2> HIDE DEF s
  <2>4. calls' <= s + 2 * attempt - 1
    BY <1>2, <1>3, <2>1
  <2>5. result' = "running" /\ attempt' = attempt
    BY <1>1, <2>2
  <2> QED  BY <2>2, <2>3, <2>4, <2>5 DEF WithinBudget
<1> QED
  BY <1>5, <1>6, <1>7 DEF Next, Unsent, ProviderFails, ParseFails, Misfits, Fits

\* Every step keeps requests and records in balance.
LEMMA StepBalance == IInv /\ Next => Balanced'
<1> SUFFICES ASSUME IInv, Next PROVE Balanced'
  OBVIOUS
<1>1. /\ agent \in Nat /\ calls \in Nat /\ costs \in Nat /\ failures \in Nat
      /\ repairing \in BOOLEAN
      /\ result = "running"
  BY DEF IInv, TypeOK, Next, Unsent, ProviderFails, Repair, ParseFails, Misfits, Fits, Asked
<1>2. Retry(attempt) => agent' = agent /\ repairing' = FALSE
  BY <1>1, RetryFacts DEF IInv
<1>3. Advance(agent) => agent' = agent + 1 /\ repairing' = FALSE
  BY <1>1, AdvanceFacts DEF IInv
<1>4. CASE Unsent
  <2>1. ~repairing /\ UNCHANGED <<calls, costs, failures>>
    BY <1>4 DEF Unsent, IInv, Balanced
  <2> QED  BY <1>1, <1>2, <1>4, <2>1 DEF Unsent, IInv, Balanced
<1>5. CASE ProviderFails
  BY <1>1, <1>2, <1>5 DEF ProviderFails, Asked, IInv, Balanced
<1>6. CASE Repair
  BY <1>1, <1>6 DEF Repair, Asked, IInv, Balanced
<1>7. CASE ParseFails
  BY <1>1, <1>2, <1>7 DEF ParseFails, Asked, IInv, Balanced
<1>8. CASE Misfits
  BY <1>1, <1>2, <1>8 DEF Misfits, Asked, Charge, IInv, Balanced
<1>9. CASE Fits
  BY <1>1, <1>3, <1>9 DEF Fits, Asked, Charge, IInv, Balanced
<1> QED
  BY <1>4, <1>5, <1>6, <1>7, <1>8, <1>9 DEF Next

\* The inductive invariant holds, whatever the provider answers.
THEOREM Invariant == Spec => []IInv
<1>1. Init => IInv
  <2> SUFFICES ASSUME Init PROVE IInv
    OBVIOUS
  <2>1. TypeOK
    <3>1. agent = 1 /\ Agents + 1 # 1 /\ 1 <= Agents + 1 /\ 1 <= MaxAttempts
      BY AgentsArePositive, AttemptsArePositive DEF Init
    <3>0. provider \in [mock : BOOLEAN, failures : 0..MaxOutage]
      <4>1. CASE provider \in [mock : {TRUE}, failures : 0..MaxOutage]
        BY <4>1
      <4>2. CASE provider \in [mock : {FALSE}, failures : {0}]
        <5>1. 0 \in 0..MaxOutage
          BY OutageIsNat
        <5> QED  BY <4>2, <5>1
      <4> QED  BY <4>1, <4>2 DEF Init
    <3>2. /\ inputs \subseteq 1..Agents /\ repairing \in BOOLEAN
          /\ calls \in Nat /\ costs \in Nat /\ failures \in Nat
      BY DEF Init
    <3>3. ~(agent = Agents + 1) /\ result = "running"
      BY <3>1 DEF Init
    <3>4. /\ agent \in Nat /\ 1 <= agent /\ agent <= Agents + 1
          /\ attempt \in Nat /\ 1 <= attempt /\ attempt <= MaxAttempts
      BY <3>1 DEF Init
    <3> QED  BY <3>0, <3>2, <3>3, <3>4 DEF TypeOK
  <2>4. Balanced
    BY DEF Init, Balanced
  <2>2. Spent(0) = 0
    BY AttemptsArePositive DEF Spent
  <2>3. WithinBudget
    BY <2>2 DEF Init, WithinBudget
  <2> QED  BY <2>1, <2>3, <2>4 DEF IInv
<1>2. IInv /\ [Next]_vars => IInv'
  <2>1. IInv /\ Next => IInv'
    BY StepTypes, StepBudget, StepBalance DEF IInv
  <2>2. IInv /\ UNCHANGED vars => IInv'
    BY DEF IInv, TypeOK, WithinBudget, Balanced, vars
  <2> QED  BY <2>1, <2>2
<1> QED  BY <1>1, <1>2, PTL DEF Spec

\* Type correctness of Agents.
THEOREM TypeCorrect == Spec => []TypeOK
<1>1. IInv => TypeOK
  BY DEF IInv
<1> QED  BY <1>1, Invariant, PTL

\* Two requests per attempt, max_attempts attempts per agent, and no more.
THEOREM BudgetIsKept == Spec => []CallBudget
<1>1. IInv => CallBudget
  <2> SUFFICES ASSUME IInv PROVE CallBudget
    OBVIOUS
  <2>1. /\ agent \in Nat /\ 1 <= agent /\ agent <= Agents + 1 /\ attempt \in Nat /\ 1 <= attempt
        /\ attempt <= MaxAttempts /\ calls \in Nat /\ repairing \in BOOLEAN
        /\ result \in {"running", "done", "failed"}
        /\ (result # "done" => agent # Agents + 1)
    BY DEF IInv, TypeOK
  <2>2. CASE result = "done"
    BY <2>2 DEF IInv, WithinBudget, CallBudget, Spent
  <2>3. CASE result # "done"
    <3>1. /\ agent - 1 \in Nat /\ agent <= Agents /\ (agent - 1) + 1 = agent
      BY <2>1, <2>3, AgentsArePositive
    <3>2. /\ Spent(agent - 1) \in Nat /\ Spent(agent) = Spent(agent - 1) + 2 * MaxAttempts
          /\ Spent(agent) <= Spent(Agents) /\ Spent(Agents) \in Nat
      BY <2>1, <3>1, SpentFacts, AgentsArePositive
    <3>3. calls <= Spent(agent - 1) + 2 * attempt
      BY <2>1, <2>3, <3>2 DEF IInv, WithinBudget
    <3>4. calls <= Spent(Agents)
      BY <2>1, <3>2, <3>3, AttemptsArePositive
    <3> QED  BY <3>4 DEF CallBudget, Spent
  <2> QED  BY <2>2, <2>3
<1> QED  BY <1>1, Invariant, PTL

\* No request is lost without a failure record, none is recorded twice, and what has an
\* output was charged for.
THEOREM AlwaysAccounted == Spec => []Accounted
<1>1. IInv => Accounted
  BY DEF IInv, TypeOK, Balanced, Accounted
<1> QED  BY <1>1, Invariant, PTL

-----------------------------------------------------------------------------
(* Theorems about Analysis, for any numbers of calls, angles and items. *)

\* The last verdict is that on the last answer.
LastJudged ==
  last # <<>> =>
    /\ last.count \in 1..MaxCount
    /\ last.answer.kind \in {"raises", "garbage", "misfits", "fits"}
    /\ last.code = Verdict(last.service, last.count, last.answer)

\* What is known of the last call is what was asked, answered and decided.
LEMMA CallJudges ==
  ASSUME NEW service, NEW n \in 1..MaxCount, NEW a \in Replies, NEW session \in BOOLEAN,
         Call(service, n, a, session)
  PROVE  LastJudged'
<1>1. last' = [service |-> service, count |-> n, answer |-> a,
               code |-> Verdict(service, n, a)]
  BY DEF Call
<1>2. a.kind \in {"raises", "garbage", "misfits", "fits"}
  BY DEF Replies
<1> QED
  BY <1>1, <1>2 DEF LastJudged, Verdict, Partial

\* What holds between the service calls.
THEOREM OnceInvariant == ServicesSpec => []LastJudged
<1>1. ServicesInit => LastJudged
  BY DEF ServicesInit, LastJudged
<1>2. LastJudged /\ [ServicesNext]_servicesVars => LastJudged'
  <2> SUFFICES ASSUME LastJudged, [ServicesNext]_servicesVars
               PROVE  LastJudged'
    OBVIOUS
  <2>1. ASSUME NEW service \in Services, NEW n \in 1..MaxCount, NEW a \in Replies,
               NEW session \in BOOLEAN, Call(service, n, a, session)
        PROVE  LastJudged'
    BY <2>1, CallJudges
  <2>2. CASE UNCHANGED servicesVars
    BY <2>2 DEF servicesVars, LastJudged
  <2> QED
    BY <2>1, <2>2 DEF ServicesNext
<1> QED
  BY <1>1, <1>2, PTL DEF ServicesSpec

\* Angles that are accepted are as many as were asked for, and accepted evaluations are of
\* exactly the candidates: equal sets of indexes say so, for answers of any length.
THEOREM AcceptedAlwaysComplete == ServicesSpec => []AcceptedIsComplete
<1>1. LastJudged => AcceptedIsComplete
  <2> SUFFICES ASSUME LastJudged, last # <<>>, last.code = "ok"
               PROVE  /\ last.service = "generation" => Len(last.answer.items) = last.count
                      /\ last.service = "evaluation" =>
                           /\ \A k \in 0..(last.count - 1) :
                                \E j \in DOMAIN last.answer.items : last.answer.items[j] = k
                           /\ \A j \in DOMAIN last.answer.items :
                                last.answer.items[j] < last.count
    BY DEF AcceptedIsComplete, Accepted
  <2>1. PICK n \in 1..MaxCount : n = last.count
    BY DEF LastJudged
  <2>2. ~Partial(last.service, n, last.answer.items)
    BY <2>1 DEF LastJudged, Verdict
  <2>3. ASSUME last.service = "evaluation"
        PROVE  /\ \A k \in 0..(n - 1) : k \in Returned(last.answer.items)
               /\ \A k \in Returned(last.answer.items) : k < n
    <3>1. Returned(last.answer.items) = Expected(n)
      BY <2>2, <2>3 DEF Partial
    <3>2. MaxCount \in Nat /\ \A k \in 0..(n - 1) : k \in 0..MaxCount /\ k < n
      BY AnalysisBounds
    <3> QED
      BY <3>1, <3>2 DEF Expected
  <2>4. last.service = "generation" => Len(last.answer.items) = n
    BY <2>2 DEF Partial
  <2> QED
    BY <2>1, <2>3, <2>4 DEF Returned
<1> QED
  BY <1>1, OnceInvariant, PTL
=============================================================================
