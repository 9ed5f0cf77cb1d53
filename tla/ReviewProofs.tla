----------------------------- MODULE ReviewProofs -----------------------------
(* Proofs about Review, for every set of requests and operations and all bounds. *)
EXTENDS MCReview, TLAPS

-----------------------------------------------------------------------------
(* Type correctness *)

\* A handler record stays well typed when its request moves to another step or ends.
LEMMA ReqType ==
  ASSUME TypeOK, NEW r \in Requests, NEW s \in ReqSteps
  PROVE  /\ Release(r) =>
              /\ req' \in [Requests -> Handlers]
              /\ \A q \in Requests :
                   req'[q].step # "idle" => req'[q].op \in Operations /\ req'[q].at \in Times
         /\ Goto(r, s) /\ ~At(r, "idle") =>
              /\ req' \in [Requests -> Handlers]
              /\ \A q \in Requests :
                   req'[q].step # "idle" => req'[q].op \in Operations /\ req'[q].at \in Times
<1>1. Idle \in Handlers /\ Idle.step = "idle"
  BY ReviewBoundsAreNat DEF Idle, Handlers, ReqSteps, NoApproval, Approvals, MaybeTime
<1>2. ASSUME Release(r)
      PROVE  /\ req' \in [Requests -> Handlers]
             /\ \A q \in Requests :
                  req'[q].step # "idle" => req'[q].op \in Operations /\ req'[q].at \in Times
  BY <1>1, <1>2 DEF Release, TypeOK
<1>3. ASSUME Goto(r, s), ~At(r, "idle")
      PROVE  /\ req' \in [Requests -> Handlers]
             /\ \A q \in Requests :
                  req'[q].step # "idle" => req'[q].op \in Operations /\ req'[q].at \in Times
  BY <1>3 DEF Goto, At, TypeOK, Handlers
<1> QED
  BY <1>2, <1>3

\* A request that is not idle has an operation and the time it began.
LEMMA BusyRequest ==
  ASSUME TypeOK, NEW r \in Requests, ~At(r, "idle")
  PROVE  Op(r) \in Operations /\ Time(r) \in Times /\ Time(r) \in MaybeTime /\ Time(r) # 0
BY ReviewBoundsAreNat DEF TypeOK, At, Op, Time, Times, MaybeTime

\* What upsert_approval writes is a row of approvals.
LEMMA NewApprovalType ==
  ASSUME TypeOK, NEW r \in Requests, ~At(r, "idle")
  PROVE  NewApproval(r) \in Approvals
<1>1. Time(r) \in MaybeTime /\ req[r].requested \in MaybeTime /\ 0 \in MaybeTime
  BY BusyRequest, ReviewBoundsAreNat DEF TypeOK, Handlers, MaybeTime
<1>2. Verdict(Op(r)) \in Verdicts
  BY DEF Verdict, Verdicts
<1> QED
  BY <1>1, <1>2 DEF NewApproval, Approvals, Verdicts

\* Events that append_event adds are rows of workflow_events.
LEMMA AppendType ==
  ASSUME TypeOK, NEW r \in Requests, ~At(r, "idle"), NEW type \in EventTypes,
         NEW n \in 0..StepCount, AppendEvent(r, type, n)
  PROVE  events' \subseteq EventRows
BY BusyRequest DEF AppendEvent, TypeOK, EventRows

\* A started run gets no more steps than the sequence has.
LEMMA RunStepBound ==
  ASSUME TypeOK, NEW r \in Requests, CreateStep(r), RequestsInv
  PROVE  Time(r) \in Times /\ steps[Time(r)] \in 0..StepCount /\ steps[Time(r)] < StepCount
<1>1. ~At(r, "idle") /\ Op(r) = "start"
  BY DEF CreateStep, At, RequestsInv, RequestInv, StepOfOp
<1>2. Time(r) \in Times
  BY <1>1, BusyRequest
<1> QED
  BY <1>1, <1>2 DEF CreateStep, At, RequestsInv, RequestInv, RunInv, TypeOK

\* Every step of the specification keeps the types.  That a run's steps stay within
\* the sequence needs what a start knows about its run.
LEMMA TypeStep == TypeOK /\ RequestsInv /\ [Next]_vars => TypeOK'
<1> SUFFICES ASSUME TypeOK, RequestsInv, [Next]_vars
             PROVE  TypeOK'
  OBVIOUS
<1> USE DEF log, flow
<1>1. ASSUME NEW r \in Requests, NEW op \in Operations, Begin(r, op)
      PROVE  TypeOK'
  <2>1. now + 1 \in Times /\ now + 1 \in MaybeTime /\ 0 \in MaybeTime
    BY <1>1, ReviewBoundsAreNat DEF Begin, TypeOK, Times, MaybeTime
  <2>2. FirstStep(op) \in ReqSteps /\ NoApproval \in Approvals
    BY <2>1 DEF FirstStep, ReqSteps, NoApproval, Approvals
  <2>3. /\ req' \in [Requests -> Handlers]
        /\ \A q \in Requests :
             req'[q].step # "idle" => req'[q].op \in Operations /\ req'[q].at \in Times
    BY <1>1, <2>1, <2>2 DEF Begin, TypeOK, Handlers
  <2> QED
    BY <1>1, <2>1, <2>3 DEF Begin, TypeOK
<1>2. ASSUME NEW r \in Requests, Step(r)
      PROVE  TypeOK'
  <2>0. ~At(r, "idle")
    BY <1>2 DEF Step, DecisionStep, ReadCompliance, ReadApproval, AddDecision, FindApproval,
       InsertApproval, UpdateApproval, SetStatus, FindRun, Emit, SaveReport, WorkflowStep,
       CreateRun, EmitCreated, CreateStep, EmitStep, EmitWaiting, At
  <2>1. {"readApproval", "findApproval", "setStatus", "findRun", "emit", "emitCreated",
         "createStep", "emitStep", "emitWaiting", "idle"} \subseteq ReqSteps
    BY DEF ReqSteps
  <2>2. Time(r) \in Times /\ Verdict(Op(r)) \in Verdicts
    BY <2>0, BusyRequest DEF Verdict, Verdicts
  <2>3. CASE ReadCompliance(r)
    BY <2>0, <2>1, <2>3, ReqType DEF ReadCompliance, TypeOK
  <2>4. CASE ReadApproval(r)
    <3>0. approval.requested \in MaybeTime /\ "addDecision" \in ReqSteps
      BY DEF TypeOK, Approvals, ReqSteps
    <3>1. /\ req' \in [Requests -> Handlers]
          /\ \A q \in Requests :
               req'[q].step # "idle" => req'[q].op \in Operations /\ req'[q].at \in Times
      BY <2>0, <2>1, <2>4, <3>0 DEF ReadApproval, At, TypeOK, Handlers
    <3> QED
      BY <2>4, <3>1 DEF ReadApproval, TypeOK
  <2>5. CASE AddDecision(r)
    <3>1. decisions' \subseteq [at : Times, status : Verdicts]
      BY <2>2, <2>5 DEF AddDecision, TypeOK
    <3> QED
      BY <2>0, <2>1, <2>5, <3>1, ReqType DEF AddDecision, TypeOK
  <2>6. CASE FindApproval(r)
    <3>0. approval \in Approvals /\ "writeApproval" \in ReqSteps
      BY DEF TypeOK, ReqSteps
    <3>1. /\ req' \in [Requests -> Handlers]
          /\ \A q \in Requests :
               req'[q].step # "idle" => req'[q].op \in Operations /\ req'[q].at \in Times
      BY <2>0, <2>6, <3>0 DEF FindApproval, At, TypeOK, Handlers
    <3> QED
      BY <2>6, <3>1 DEF FindApproval, TypeOK
  <2>7. ASSUME AfterApproval(r)
        PROVE  /\ req' \in [Requests -> Handlers]
               /\ \A q \in Requests :
                    req'[q].step # "idle" => req'[q].op \in Operations /\ req'[q].at \in Times
    BY <2>0, <2>1, <2>7, ReqType DEF AfterApproval
  <2>8. CASE InsertApproval(r)
    <3>1. approval' \in Approvals
      BY <2>0, <2>8, NewApprovalType DEF InsertApproval, TypeOK
    <3> QED
      BY <2>0, <2>1, <2>7, <2>8, <3>1, ReqType DEF InsertApproval, TypeOK
  <2>9. CASE UpdateApproval(r)
    <3>1. approval' \in Approvals
      BY <2>0, <2>9, NewApprovalType DEF UpdateApproval, TypeOK, Approvals
    <3> QED
      BY <2>7, <2>9, <3>1 DEF UpdateApproval, TypeOK
  <2>10. CASE SetStatus(r)
    <3>1. Verdict(Op(r)) \in ProjectStatus
      BY <2>2 DEF ProjectStatus
    <3>2. status' \in Patched(status) \cup {Written(Op(r))}
      BY <2>10 DEF SetStatus
    <3>3. status' \in [value : ProjectStatus, patched : BOOLEAN]
      <4>1. CASE status' = Written(Op(r))
        BY <3>1, <4>1 DEF Written
      <4>2. CASE status' \in [value : ProjectStatus, patched : {TRUE}]
        BY <4>2
      <4> QED
        BY <3>2, <4>1, <4>2 DEF Patched, TypeOK
    <3> QED
      BY <2>0, <2>1, <2>10, <3>3, ReqType DEF SetStatus, TypeOK
  <2>11. CASE FindRun(r)
    BY <2>0, <2>1, <2>11, ReqType DEF FindRun, TypeOK
  <2>12. CASE Emit(r)
    <3>1. Op(r) \in EventTypes /\ 0 \in 0..StepCount
      BY <2>12, ReviewBoundsAreNat
         DEF Emit, At, RequestsInv, RequestInv, StepOfOp, EventTypes
    <3>2. events' \subseteq EventRows
      BY <2>0, <2>12, <3>1, AppendType DEF Emit
    <3> QED
      BY <2>0, <2>1, <2>12, <3>2, ReqType DEF Emit, TypeOK
  <2>13. CASE SaveReport(r)
    <3>1. reports' \subseteq [at : Times, blocked : BOOLEAN]
      BY <2>2, <2>13 DEF SaveReport, TypeOK
    <3> QED
      BY <2>0, <2>1, <2>13, <3>1, ReqType DEF SaveReport, TypeOK
  <2>14. CASE CreateRun(r)
    BY <2>0, <2>1, <2>2, <2>14, ReqType DEF CreateRun, TypeOK
  <2>15. CASE EmitCreated(r) \/ EmitWaiting(r)
    <3>1. {"created", "waiting"} \subseteq EventTypes /\ 0 \in 0..StepCount
      BY ReviewBoundsAreNat DEF EventTypes
    <3>2. events' \subseteq EventRows
      BY <2>0, <2>15, <3>1, AppendType DEF EmitCreated, EmitWaiting
    <3> QED
      BY <2>0, <2>1, <2>15, <3>2, ReqType DEF EmitCreated, EmitWaiting, TypeOK
  <2>16. CASE CreateStep(r)
    <3>1. steps[Time(r)] + 1 \in 0..StepCount
      BY <2>16, RunStepBound, ReviewBoundsAreNat
    <3>2. steps' \in [Times -> 0..StepCount]
      BY <2>16, <3>1 DEF CreateStep, TypeOK
    <3> QED
      BY <2>0, <2>1, <2>16, <3>2, ReqType DEF CreateStep, TypeOK
  <2>17. CASE EmitStep(r)
    <3>1. "step" \in EventTypes /\ steps[Time(r)] \in 0..StepCount
      BY <2>2 DEF EventTypes, TypeOK
    <3>2. events' \subseteq EventRows
      BY <2>0, <2>17, <3>1, AppendType DEF EmitStep
    <3> QED
      BY <2>0, <2>1, <2>17, <3>2, ReqType DEF EmitStep, TypeOK
  <2> QED
    BY <1>2, <2>3, <2>4, <2>5, <2>6, <2>8, <2>9, <2>10, <2>11, <2>12, <2>13, <2>14, <2>15,
       <2>16, <2>17 DEF Step, DecisionStep, WorkflowStep
<1>3. ASSUME NEW r \in Requests, Cut(r)
      PROVE  TypeOK'
  <2>1. "idle" \in ReqSteps
    BY DEF ReqSteps
  <2> QED
    BY <1>3, <2>1, ReqType DEF Cut, TypeOK
<1>4. CASE UNCHANGED vars
  BY <1>4 DEF vars, TypeOK
<1> QED
  BY <1>1, <1>2, <1>3, <1>4 DEF Next

-----------------------------------------------------------------------------
(* Frame lemmas: which actions write a variable *)

\* Only AddDecision logs a decision.
LEMMA DecisionWriters == [Next]_vars => UNCHANGED decisions \/ \E r \in Requests : AddDecision(r)
BY DEF Next, vars, log, flow, Begin, Step, DecisionStep, ReadCompliance, ReadApproval,
  FindApproval, InsertApproval, UpdateApproval, SetStatus, FindRun, Emit, SaveReport,
  WorkflowStep, CreateRun, EmitCreated, CreateStep, EmitStep, EmitWaiting, Cut

\* Only CreateRun adds a run.
LEMMA RunWriters == [Next]_vars => UNCHANGED runs \/ \E r \in Requests : CreateRun(r)
BY DEF Next, vars, log, flow, Begin, Step, DecisionStep, ReadCompliance, ReadApproval,
  AddDecision, FindApproval, InsertApproval, UpdateApproval, SetStatus, FindRun, Emit,
  SaveReport, WorkflowStep, EmitCreated, CreateStep, EmitStep, EmitWaiting, Cut

\* Only CreateStep adds a step to a run.
LEMMA StepWriters == [Next]_vars => UNCHANGED steps \/ \E r \in Requests : CreateStep(r)
BY DEF Next, vars, log, flow, Begin, Step, DecisionStep, ReadCompliance, ReadApproval,
  AddDecision, FindApproval, InsertApproval, UpdateApproval, SetStatus, FindRun, Emit,
  SaveReport, WorkflowStep, CreateRun, EmitCreated, EmitStep, EmitWaiting, Cut

\* Only the four emitting actions add an event.
LEMMA EventWriters ==
  [Next]_vars =>
    \/ UNCHANGED events
    \/ \E r \in Requests : Emit(r) \/ EmitCreated(r) \/ EmitStep(r) \/ EmitWaiting(r)
BY DEF Next, vars, log, flow, Begin, Step, DecisionStep, ReadCompliance, ReadApproval,
  AddDecision, FindApproval, InsertApproval, UpdateApproval, SetStatus, FindRun,
  SaveReport, WorkflowStep, CreateRun, CreateStep, Cut

\* Only upsert_approval writes the aggregate.
LEMMA ApprovalWriters ==
  [Next]_vars =>
    UNCHANGED approval \/ \E r \in Requests : InsertApproval(r) \/ UpdateApproval(r)
BY DEF Next, vars, log, flow, Begin, Step, DecisionStep, ReadCompliance, ReadApproval,
  AddDecision, FindApproval, SetStatus, FindRun, Emit, SaveReport, WorkflowStep, CreateRun,
  EmitCreated, CreateStep, EmitStep, EmitWaiting, Cut

\* Only SetStatus writes the project's status.
LEMMA StatusWriters == [Next]_vars => UNCHANGED status \/ \E r \in Requests : SetStatus(r)
BY DEF Next, vars, log, flow, Begin, Step, DecisionStep, ReadCompliance, ReadApproval,
  AddDecision, FindApproval, InsertApproval, UpdateApproval, FindRun, Emit, SaveReport,
  WorkflowStep, CreateRun, EmitCreated, CreateStep, EmitStep, EmitWaiting, Cut

\* Only Begin advances the time.
LEMMA NowWriters ==
  [Next]_vars =>
    \/ UNCHANGED now
    \/ now' = now + 1 /\ \E r \in Requests, op \in Operations : Begin(r, op)
BY DEF Next, vars, log, flow, Begin, Step, DecisionStep, ReadCompliance, ReadApproval,
  AddDecision, FindApproval, InsertApproval, UpdateApproval, SetStatus, FindRun, Emit,
  SaveReport, WorkflowStep, CreateRun, EmitCreated, CreateStep, EmitStep, EmitWaiting, Cut

\* A step of one request leaves the handlers of the others where they are.
LEMMA OthersStay ==
  ASSUME TypeOK, NEW r \in Requests, NEW q \in Requests, q # r,
         Step(r) \/ Cut(r) \/ \E op \in Operations : Begin(r, op)
  PROVE  req'[q] = req[q]
<1>1. ASSUME Release(r) \/ \E s : Goto(r, s)
      PROVE  req'[q] = req[q]
  BY <1>1 DEF Release, Goto, TypeOK
<1>2. CASE Begin(r, Op(r)) \/ \E op \in Operations : Begin(r, op)
  BY <1>2 DEF Begin, TypeOK
<1>3. CASE ReadApproval(r) \/ FindApproval(r)
  BY <1>3 DEF ReadApproval, FindApproval, TypeOK
<1>4. CASE /\ Step(r) \/ Cut(r)
           /\ ~ReadApproval(r) /\ ~FindApproval(r)
  BY <1>1, <1>4 DEF Step, DecisionStep, ReadCompliance, AddDecision, InsertApproval,
     UpdateApproval, AfterApproval, SetStatus, FindRun, Emit, SaveReport, WorkflowStep,
     CreateRun, EmitCreated, CreateStep, EmitStep, EmitWaiting, Cut
<1> QED
  BY <1>2, <1>3, <1>4

\* A request that takes a step of its own or is cut was not idle.
LEMMA StepIsBusy ==
  ASSUME NEW r \in Requests, Step(r) \/ Cut(r)
  PROVE  ~At(r, "idle")
BY DEF Step, DecisionStep, ReadCompliance, ReadApproval, AddDecision, FindApproval,
  InsertApproval, UpdateApproval, SetStatus, FindRun, Emit, SaveReport, WorkflowStep,
  CreateRun, EmitCreated, CreateStep, EmitStep, EmitWaiting, Cut, At

\* Whatever a request's step does to its handler, it ends it or keeps its operation
\* and its time.
LEMMA HandlerKept ==
  ASSUME TypeOK, NEW r \in Requests, Step(r) \/ Cut(r)
  PROVE  req'[r] = Idle \/ (req'[r].op = req[r].op /\ req'[r].at = req[r].at)
<1>1. ASSUME Release(r)
      PROVE  req'[r] = Idle
  BY <1>1 DEF Release, TypeOK
<1>2. ASSUME NEW s, Goto(r, s)
      PROVE  req'[r].op = req[r].op /\ req'[r].at = req[r].at
  BY <1>2 DEF Goto, TypeOK, Handlers
<1>3. CASE ReadApproval(r) \/ FindApproval(r)
  BY <1>3 DEF ReadApproval, FindApproval, TypeOK, Handlers
<1>4. CASE ~ReadApproval(r) /\ ~FindApproval(r)
  BY <1>1, <1>2, <1>4 DEF Step, DecisionStep, ReadCompliance, AddDecision, InsertApproval,
     UpdateApproval, AfterApproval, SetStatus, FindRun, Emit, SaveReport, WorkflowStep,
     CreateRun, EmitCreated, CreateStep, EmitStep, EmitWaiting, Cut
<1> QED
  BY <1>3, <1>4

-----------------------------------------------------------------------------
(* What no step takes back *)

Monotone ==
  /\ decisions \subseteq decisions'
  /\ runs \subseteq runs'
  /\ \A t \in Times : steps'[t] >= steps[t]

\* The log, the runs and their steps only grow.
LEMMA MonotoneStep == TypeOK /\ RequestsInv /\ [Next]_vars => Monotone
<1> SUFFICES ASSUME TypeOK, RequestsInv, [Next]_vars
             PROVE  Monotone
  OBVIOUS
<1>1. decisions \subseteq decisions'
  BY DecisionWriters DEF AddDecision
<1>2. runs \subseteq runs'
  BY RunWriters DEF CreateRun
<1>3. ASSUME NEW t \in Times
      PROVE  steps'[t] >= steps[t]
  <2>1. steps[t] \in Nat
    BY ReviewBoundsAreNat DEF TypeOK
  <2>2. CASE UNCHANGED steps
    BY <2>1, <2>2
  <2>3. ASSUME NEW r \in Requests, CreateStep(r)
        PROVE  steps'[t] >= steps[t]
    BY <2>1, <2>3, RunStepBound DEF CreateStep, TypeOK
  <2> QED
    BY <2>2, <2>3, StepWriters
<1> QED
  BY <1>1, <1>2, <1>3 DEF Monotone

-----------------------------------------------------------------------------
(* The parts of the inductive invariant *)

\* A new request gets a time that no row and no other request has.
LEMMA TimesInvStep == TypeOK /\ RequestsInv /\ TimesInv /\ [Next]_vars => TimesInv'
<1> SUFFICES ASSUME TypeOK, RequestsInv, TimesInv, [Next]_vars
             PROVE  TimesInv'
  OBVIOUS
<1>0. now \in Nat /\ now' \in Nat /\ now' >= now
  BY NowWriters, ReviewBoundsAreNat DEF TypeOK, MaybeTime
<1>t. \A t \in Times : t \in Nat
  BY ReviewBoundsAreNat DEF Times
<1>a. \A r \in Requests : Time(r) \in Nat
  BY ReviewBoundsAreNat DEF TypeOK, Handlers, MaybeTime, Time
<1>1. ASSUME NEW t \in runs'
      PROVE  t <= now'
  <2>1. CASE t \in runs
    BY <1>0, <1>t, <2>1 DEF TimesInv, TypeOK
  <2>2. CASE t \notin runs
    <3>1. PICK r \in Requests : CreateRun(r)
      BY <2>2, RunWriters
    <3>2. t = Time(r) /\ now' = now
      BY <2>2, <3>1 DEF CreateRun
    <3> QED
      BY <3>2 DEF TimesInv
  <2> QED
    BY <2>1, <2>2
<1>2. ASSUME NEW t \in Times, t > now'
      PROVE  steps'[t] = 0
  <2>1. t > now /\ steps[t] = 0
    BY <1>0, <1>2, <1>t DEF TimesInv
  <2>2. ASSUME NEW r \in Requests, CreateStep(r)
        PROVE  steps'[t] = 0
    <3>1. t # Time(r)
      BY <1>a, <1>0, <1>t, <2>1 DEF TimesInv
    <3> QED
      BY <2>1, <2>2, <3>1 DEF CreateStep, TypeOK
  <2> QED
    BY <2>1, <2>2, StepWriters
<1>3. CASE UNCHANGED req
  BY <1>0, <1>1, <1>2, <1>3, <1>a DEF TimesInv, At, Time
<1>4. ASSUME NEW r \in Requests, NEW op \in Operations, Begin(r, op)
      PROVE  TimesInv'
  <2>1. req'[r].at = now' /\ now' = now + 1
    BY <1>4 DEF Begin, TypeOK
  <2>2. \A q \in Requests : q # r => req'[q] = req[q]
    BY <1>4, OthersStay
  <2>3. \A q \in Requests : Time(q)' <= now'
    BY <1>0, <1>a, <2>1, <2>2 DEF TimesInv, Time
  <2>4. \A q \in Requests : q # r => Time(q)' # Time(r)'
    BY <1>0, <1>a, <2>1, <2>2 DEF TimesInv, Time
  <2>5. \A q, s \in Requests : q # s /\ ~At(q, "idle")' /\ ~At(s, "idle")' => Time(q)' # Time(s)'
    BY <2>2, <2>4 DEF TimesInv, At, Time
  <2> QED
    BY <1>1, <1>2, <2>3, <2>5 DEF TimesInv
<1>5. ASSUME NEW r \in Requests, Step(r) \/ Cut(r)
      PROVE  TimesInv'
  <2>1. \A q \in Requests : q # r => req'[q] = req[q]
    BY <1>5, OthersStay
  <2>2. req'[r] = Idle \/ (req'[r].at = req[r].at /\ ~At(r, "idle"))
    BY <1>5, HandlerKept, StepIsBusy
  <2>3. Idle.step = "idle" /\ Idle.at = 0
    BY DEF Idle
  <2>4. \A q \in Requests : Time(q)' <= now'
    BY <1>0, <1>a, <2>1, <2>2, <2>3 DEF TimesInv, Time
  <2>5. \A q, s \in Requests : q # s /\ ~At(q, "idle")' /\ ~At(s, "idle")' => Time(q)' # Time(s)'
    BY <2>1, <2>2, <2>3 DEF TimesInv, At, Time
  <2> QED
    BY <1>1, <1>2, <2>4, <2>5 DEF TimesInv
<1> QED
  BY <1>3, <1>4, <1>5 DEF Next, vars

\* What a request has established stays true while another one moves.
LEMMA RequestInvStable ==
  ASSUME TypeOK, RequestsInv, TimesInv, Monotone, NEW q \in Requests, NEW r \in Requests,
         r # q, [Next]_vars, Step(r) \/ Cut(r) \/ \E op \in Operations : Begin(r, op)
  PROVE  RequestInv(q)'
<1>1. req'[q] = req[q] /\ RequestInv(q)
  BY OthersStay DEF RequestsInv
<1>2. StepOfOp(q)' /\ DecisionInv(q)'
  BY <1>1 DEF RequestInv, StepOfOp, DecisionInv, Op, Time, Logged, Monotone
<1>3. ASSUME ~At(q, "idle")
      PROVE  steps'[Time(q)] = steps[Time(q)] /\ (Time(q) \in runs' => Time(q) \in runs)
  <2>1. Step(r) \/ Cut(r) => Time(r) # Time(q)
    BY <1>3, StepIsBusy DEF TimesInv
  <2>2. CASE Begin(r, Op(r)) \/ Cut(r) \/ \E op \in Operations : Begin(r, op)
    BY <2>2 DEF Begin, Cut, flow
  <2>3. CASE CreateRun(r)
    BY <2>1, <2>3 DEF CreateRun, Step, WorkflowStep
  <2>4. CASE CreateStep(r)
    BY <1>3, <2>1, <2>4, BusyRequest DEF CreateStep, Step, WorkflowStep, TypeOK
  <2>5. CASE Step(r) /\ ~CreateRun(r) /\ ~CreateStep(r)
    BY <2>5 DEF Step, DecisionStep, ReadCompliance, ReadApproval, AddDecision, FindApproval,
       InsertApproval, UpdateApproval, SetStatus, FindRun, Emit, SaveReport, WorkflowStep,
       EmitCreated, EmitStep, EmitWaiting, flow
  <2> QED
    BY <2>2, <2>3, <2>4, <2>5
<1>4. RunInv(q)'
  BY <1>1, <1>3 DEF RequestInv, RunInv, At, Op, Time, Monotone
<1> QED
  BY <1>2, <1>4 DEF RequestInv

\* Where a request that goes to another step stands.
LEMMA Moved ==
  ASSUME TypeOK, NEW r \in Requests, NEW s, Goto(r, s)
  PROVE  /\ req'[r].step = s
         /\ Op(r)' = Op(r) /\ Time(r)' = Time(r)
         /\ req'[r].requested = req[r].requested
BY DEF Goto, TypeOK, Handlers, Op, Time

\* The step a request takes establishes what its next step relies on.
LEMMA RequestInvOwn ==
  ASSUME TypeOK, TypeOK', TimesInv, Monotone, AggregateBacked, NEW r \in Requests,
         RequestInv(r), Step(r) \/ Cut(r)
  PROVE  RequestInv(r)'
<1> USE DEF log, flow
<1>0. ~At(r, "idle") /\ Time(r) \in Times
  BY StepIsBusy, BusyRequest
<1>1. CASE Release(r)
  <2>1. req'[r] = Idle
    BY <1>1 DEF Release, TypeOK
  <2> QED
    BY <2>1 DEF Idle, RequestInv, StepOfOp, DecisionInv, RunInv
<1>d. \A t, v : Logged(t, v) => Logged(t, v)'
  BY DEF Logged, Monotone
<1>2. CASE ReadCompliance(r) /\ ~Release(r)
  <2>1. Goto(r, "readApproval") /\ Op(r) \in Reviews
    BY <1>2 DEF ReadCompliance, RequestInv, StepOfOp, At
  <2> QED
    BY <1>d, <2>1, Moved DEF RequestInv, StepOfOp, DecisionInv, RunInv
<1>3. CASE ReadApproval(r)
  <2>1. /\ req'[r].step = "addDecision" /\ req'[r].requested = approval.requested
        /\ Op(r)' = Op(r) /\ Time(r)' = Time(r)
    BY <1>3 DEF ReadApproval, TypeOK, Handlers, Op, Time
  <2>2. Op(r) \in Deciding
    BY <1>3 DEF ReadApproval, RequestInv, StepOfOp, At, Deciding
  <2> QED
    BY <1>d, <2>1, <2>2 DEF RequestInv, StepOfOp, DecisionInv, RunInv, AggregateBacked
<1>4. CASE AddDecision(r)
  <2>1. Goto(r, "findApproval") /\ Op(r) \in Deciding
    BY <1>4 DEF AddDecision, RequestInv, StepOfOp, At
  <2>2. LET row == [at |-> Time(r), status |-> Verdict(Op(r))]
        IN  row \in decisions' /\ row.at = Time(r)' /\ row.status = Verdict(Op(r))'
    BY <1>4, <2>1, Moved DEF AddDecision, Verdict
  <2>3. Logged(Time(r), {Verdict(Op(r))})'
    BY <2>2 DEF Logged
  <2> QED
    BY <1>d, <2>1, <2>3, Moved DEF RequestInv, StepOfOp, DecisionInv, RunInv
<1>5. CASE FindApproval(r)
  <2>1. /\ req'[r].step = "writeApproval" /\ req'[r].requested = req[r].requested
        /\ Op(r)' = Op(r) /\ Time(r)' = Time(r)
    BY <1>5 DEF FindApproval, TypeOK, Handlers, Op, Time
  <2>2. Op(r) \in Deciding /\ Logged(Time(r), {Verdict(Op(r))})
    BY <1>5 DEF FindApproval, RequestInv, StepOfOp, DecisionInv, At
  <2> QED
    BY <1>d, <2>1, <2>2 DEF RequestInv, StepOfOp, DecisionInv, RunInv
<1>6. CASE (InsertApproval(r) \/ UpdateApproval(r)) /\ ~Release(r)
  <2>1. Goto(r, "setStatus") /\ Op(r) \in Reviews /\ Logged(Time(r), {Verdict(Op(r))})
    BY <1>6 DEF InsertApproval, UpdateApproval, AfterApproval, RequestInv, StepOfOp,
       DecisionInv, Deciding, At
  <2>2. Op(r) # "start"
    BY <2>1 DEF Reviews
  <2> QED
    BY <1>d, <2>1, <2>2, Moved DEF RequestInv, StepOfOp, DecisionInv, RunInv
<1>7. CASE SetStatus(r) /\ ~Release(r)
  <2>1. CASE Op(r) = "start"
    <3>1. /\ Goto(r, "emitWaiting") /\ Op(r) \notin Deciding
          /\ Time(r) \in runs /\ steps[Time(r)] = StepCount /\ UNCHANGED <<runs, steps>>
      BY <1>7, <2>1 DEF SetStatus, RequestInv, RunInv, At, Deciding, Reviews
    <3> QED
      BY <1>d, <2>1, <3>1, Moved DEF RequestInv, StepOfOp, DecisionInv, RunInv
  <2>2. CASE Op(r) # "start"
    <3>1. Goto(r, "findRun") /\ Op(r) \in Reviews
      BY <1>7, <2>2 DEF SetStatus, RequestInv, StepOfOp, At
    <3>2. Logged(Time(r), {Verdict(Op(r))})
      BY <1>7, <3>1 DEF SetStatus, RequestInv, DecisionInv, At, Deciding
    <3> QED
      BY <1>d, <2>2, <3>1, <3>2, Moved DEF RequestInv, StepOfOp, DecisionInv, RunInv
  <2> QED
    BY <2>1, <2>2
<1>8. CASE FindRun(r) /\ ~Release(r)
  <2>1. Goto(r, "emit") /\ Op(r) \in Reviews
    BY <1>8 DEF FindRun, RequestInv, StepOfOp, At
  <2>2. Logged(Time(r), {Verdict(Op(r))})
    BY <1>8, <2>1 DEF FindRun, RequestInv, DecisionInv, At, Deciding
  <2> QED
    BY <1>d, <2>1, <2>2, Moved DEF RequestInv, StepOfOp, DecisionInv, RunInv
<1>9. CASE WorkflowStep(r) /\ ~Release(r)
  <2>1. Op(r) = "start"
    BY <1>9 DEF WorkflowStep, CreateRun, EmitCreated, CreateStep, EmitStep, EmitWaiting,
       RequestInv, StepOfOp, At
  <2>2. Op(r) \notin Deciding
    BY <2>1 DEF Deciding, Reviews
  <2>3. CASE CreateRun(r)
    <3>1. Goto(r, "emitCreated") /\ Time(r) \in runs' /\ steps'[Time(r)] = 0
      BY <2>1, <2>3 DEF CreateRun, RequestInv, RunInv, At
    <3> QED
      BY <1>d, <2>1, <2>2, <3>1, Moved DEF RequestInv, StepOfOp, DecisionInv, RunInv
  <2>4. CASE EmitCreated(r)
    <3>1. Goto(r, "createStep") /\ Time(r) \in runs' /\ steps'[Time(r)] < StepCount
      BY <2>1, <2>4, ReviewBoundsAreNat DEF EmitCreated, RequestInv, RunInv, At
    <3> QED
      BY <1>d, <2>1, <2>2, <3>1, Moved DEF RequestInv, StepOfOp, DecisionInv, RunInv
  <2>5. CASE CreateStep(r)
    <3>1. Goto(r, "emitStep") /\ Time(r) \in runs'
      BY <2>1, <2>5 DEF CreateStep, RequestInv, RunInv, At
    <3> QED
      BY <1>d, <2>1, <2>2, <3>1, Moved DEF RequestInv, StepOfOp, DecisionInv, RunInv
  <2>6. CASE EmitStep(r)
    <3>1. Time(r) \in runs' /\ UNCHANGED steps
      BY <2>1, <2>6 DEF EmitStep, RequestInv, RunInv, At
    <3>2. steps[Time(r)] \in 0..StepCount
      BY <1>0 DEF TypeOK
    <3>3. CASE steps[Time(r)] < StepCount
      <4>1. Goto(r, "createStep")
        BY <2>6, <3>3 DEF EmitStep
      <4> QED
        BY <1>d, <2>1, <2>2, <3>1, <3>3, <4>1, Moved
           DEF RequestInv, StepOfOp, DecisionInv, RunInv
    <3>4. CASE ~(steps[Time(r)] < StepCount)
      <4>1. Goto(r, "setStatus") /\ steps[Time(r)] = StepCount
        BY <2>6, <3>2, <3>4, ReviewBoundsAreNat DEF EmitStep
      <4> QED
        BY <1>d, <2>1, <2>2, <3>1, <4>1, Moved
           DEF RequestInv, StepOfOp, DecisionInv, RunInv
    <3> QED
      BY <3>3, <3>4
  <2> QED
    BY <1>9, <2>3, <2>4, <2>5, <2>6 DEF WorkflowStep, EmitWaiting
<1> QED
  BY <1>1, <1>2, <1>3, <1>4, <1>5, <1>6, <1>7, <1>8, <1>9
     DEF Step, DecisionStep, Emit, SaveReport, Cut

\* A request that begins relies on nothing but its time being new.
LEMMA RequestInvBegin ==
  ASSUME TypeOK, TimesInv, NEW r \in Requests, NEW op \in Operations, Begin(r, op)
  PROVE  RequestInv(r)'
<1>1. /\ req'[r].step = FirstStep(op) /\ Op(r)' = op /\ Time(r)' = now + 1
      /\ req'[r].requested = 0 /\ UNCHANGED <<runs, steps>>
  BY DEF Begin, TypeOK, flow, Op, Time
<1>2. now \in Nat /\ now + 1 \in Times
  BY ReviewBoundsAreNat DEF Begin, TypeOK, MaybeTime, Times
<1>3. now + 1 \notin runs /\ steps[now + 1] = 0
  BY <1>2 DEF TimesInv
<1>4. op \in Deciding \cup {"compliance", "start", "patch"}
  BY OperationsExist DEF Deciding
<1>5. /\ FirstStep(op) = "addDecision" => op = "request_approval"
      /\ FirstStep(op) = "readCompliance" => op = "approve"
      /\ FirstStep(op) = "readApproval" => op \in Reviews
      /\ FirstStep(op) = "createRun" => op = "start"
      /\ FirstStep(op) = "setStatus" => op = "patch"
      /\ FirstStep(op) \in {"addDecision", "readCompliance", "readApproval", "saveReport",
                            "createRun", "setStatus"}
  BY <1>4 DEF FirstStep, Deciding, Reviews
<1>6. StepOfOp(r)'
  BY <1>1, <1>5 DEF StepOfOp, Deciding, Reviews
<1>7. DecisionInv(r)'
  BY <1>1, <1>5 DEF DecisionInv, Deciding, Reviews
<1>8. RunInv(r)'
  BY <1>1, <1>3, <1>5 DEF RunInv
<1> QED
  BY <1>6, <1>7, <1>8 DEF RequestInv

\* Every request keeps what its steps rely on, whoever moves.
LEMMA RequestsInvStep ==
  TypeOK /\ TypeOK' /\ Monotone /\ TimesInv /\ RequestsInv /\ AggregateBacked /\ [Next]_vars
    => RequestsInv'
<1> SUFFICES ASSUME TypeOK, TypeOK', Monotone, TimesInv, RequestsInv, AggregateBacked,
                    [Next]_vars, NEW q \in Requests
             PROVE  RequestInv(q)'
  BY DEF RequestsInv
<1>1. RequestInv(q)
  BY DEF RequestsInv
<1>2. CASE UNCHANGED vars
  BY <1>1, <1>2 DEF vars, log, flow, RequestInv, StepOfOp, DecisionInv, RunInv, Op, Time, Logged
<1>3. ASSUME NEW r \in Requests, Step(r) \/ Cut(r) \/ \E op \in Operations : Begin(r, op)
      PROVE  RequestInv(q)'
  <2>1. CASE r # q
    BY <1>3, <2>1, RequestInvStable
  <2>2. CASE r = q
    BY <1>1, <1>3, <2>2, RequestInvOwn, RequestInvBegin
  <2> QED
    BY <2>1, <2>2
<1> QED
  BY <1>2, <1>3 DEF Next

-----------------------------------------------------------------------------
(* The safety invariants *)

\* Logged decisions stay logged.
LEMMA LoggedStays ==
  ASSUME Monotone, NEW t, NEW verdicts, Logged(t, verdicts)
  PROVE  Logged(t, verdicts)'
BY DEF Logged, Monotone

\* The columns upsert_approval writes come from its own decision, logged before, from
\* the request time it read, or from the row that was there.
LEMMA AggregateBackedStep ==
  TypeOK /\ Monotone /\ RequestsInv /\ AggregateBacked /\ [Next]_vars => AggregateBacked'
<1> SUFFICES ASSUME TypeOK, Monotone, RequestsInv, AggregateBacked, [Next]_vars
             PROVE  AggregateBacked'
  OBVIOUS
<1>1. CASE UNCHANGED approval
  BY <1>1, LoggedStays DEF AggregateBacked, Monotone
<1>2. ASSUME NEW r \in Requests, InsertApproval(r) \/ UpdateApproval(r), ~UNCHANGED approval
      PROVE  AggregateBacked'
  <2>1. /\ Op(r) \in Deciding /\ Logged(Time(r), {Verdict(Op(r))})
        /\ req[r].requested # 0 => Logged(req[r].requested, {"awaiting_review"})
    BY <1>2 DEF InsertApproval, UpdateApproval, At, RequestsInv, RequestInv, StepOfOp,
                DecisionInv
  <2>2. Op(r) # "request_approval" => Verdict(Op(r)) \in Decided
    BY <2>1 DEF Deciding, Reviews, Verdict, Decided
  <2>3. Verdict("request_approval") = "awaiting_review"
    BY DEF Verdict
  <2>4. /\ \E d \in decisions : d.status = NewApproval(r).status
        /\ NewApproval(r).requested # 0 =>
             Logged(NewApproval(r).requested, {"awaiting_review"})
        /\ NewApproval(r).decided # 0 => Logged(NewApproval(r).decided, Decided)
    BY <2>1, <2>2, <2>3 DEF NewApproval, Logged
  <2>5. /\ approval'.status \in {NewApproval(r).status, approval.status}
        /\ approval'.requested \in {NewApproval(r).requested, approval.requested}
        /\ approval'.decided \in {NewApproval(r).decided, approval.decided}
    BY <1>2 DEF InsertApproval, UpdateApproval
  <2>6. /\ approval'.status # "none" => \E d \in decisions : d.status = approval'.status
        /\ approval'.requested # 0 => Logged(approval'.requested, {"awaiting_review"})
        /\ approval'.decided # 0 => Logged(approval'.decided, Decided)
    BY <2>4, <2>5 DEF AggregateBacked
  <2> QED
    BY <2>6, LoggedStays DEF AggregateBacked, Monotone
<1> QED
  BY <1>1, <1>2, ApprovalWriters

\* A verdict reaches the project's status after it was logged.
LEMMA StatusBackedStep ==
  TypeOK /\ Monotone /\ RequestsInv /\ StatusBacked /\ [Next]_vars => StatusBacked'
<1> SUFFICES ASSUME TypeOK, Monotone, RequestsInv, StatusBacked, [Next]_vars,
                    ~status'.patched, status'.value \in Decided
             PROVE  \E d \in decisions' : d.status = status'.value
  BY DEF StatusBacked
<1>1. CASE UNCHANGED status
  BY <1>1 DEF StatusBacked, Monotone
<1>2. ASSUME NEW r \in Requests, SetStatus(r)
      PROVE  \E d \in decisions' : d.status = status'.value
  <2>1. CASE status' = status
    BY <2>1 DEF StatusBacked, Monotone
  <2>2. CASE Op(r) # "patch" /\ status' = Written(Op(r))
    <3>1. status'.value = Verdict(Op(r))
      BY <2>2 DEF Written
    <3>2. Op(r) \in Reviews
      BY <1>2, <2>2, <3>1 DEF SetStatus, At, RequestsInv, RequestInv, StepOfOp, Verdict, Decided,
                             Reviews
    <3>3. Logged(Time(r), {Verdict(Op(r))})
      BY <1>2, <3>2 DEF SetStatus, At, RequestsInv, RequestInv, DecisionInv, Deciding
    <3> QED
      BY <3>1, <3>3 DEF Logged, Monotone
  <2> QED
    BY <1>2, <2>1, <2>2 DEF SetStatus, Patched
<1> QED
  BY <1>1, <1>2, StatusWriters

\* append_event attaches an event to the newest run, which is not older than the run
\* of the start that emits it.
LEMMA EventsBackedStep ==
  TypeOK /\ TypeOK' /\ Monotone /\ RequestsInv /\ EventsBacked /\ [Next]_vars => EventsBacked'
<1> SUFFICES ASSUME TypeOK, TypeOK', Monotone, RequestsInv, EventsBacked, [Next]_vars,
                    NEW e \in events'
             PROVE  /\ e.run \in runs'
                    /\ e.type \in Reviews => Logged(e.of, {Verdict(e.type)})'
                    /\ e.type \notin Reviews => e.of \in runs' /\ e.run >= e.of
                    /\ e.type = "step" => e.n <= steps'[e.of]
                    /\ e.type = "waiting" => steps'[e.of] = StepCount
  BY DEF EventsBacked
<1>1. CASE e \in events
  <2>1. e.of \in Times /\ e.n \in 0..StepCount
    BY <1>1 DEF TypeOK, EventRows
  <2>2. /\ steps[e.of] \in 0..StepCount /\ steps'[e.of] \in 0..StepCount
        /\ steps'[e.of] >= steps[e.of]
    BY <2>1 DEF TypeOK, Monotone
  <2>a. /\ e.type = "step" => e.n <= steps[e.of]
        /\ e.type = "waiting" => steps[e.of] = StepCount
    BY <1>1 DEF EventsBacked
  <2>b. /\ StepCount \in Nat /\ e.n \in Nat
        /\ steps[e.of] \in Nat /\ steps'[e.of] \in Nat /\ steps'[e.of] <= StepCount
    BY <2>1, <2>2, ReviewBoundsAreNat
  <2>3. e.type = "step" => e.n <= steps'[e.of]
    BY <2>2, <2>a, <2>b
  <2>4. e.type = "waiting" => steps'[e.of] = StepCount
    BY <2>2, <2>a, <2>b
  <2>5. /\ e.run \in runs'
        /\ e.type \notin Reviews => e.of \in runs' /\ e.run >= e.of
    BY <1>1 DEF EventsBacked, Monotone
  <2>6. e.type \in Reviews => Logged(e.of, {Verdict(e.type)})'
    BY <1>1, LoggedStays DEF EventsBacked, Logged, Verdict, Monotone
  <2> QED
    BY <2>3, <2>4, <2>5, <2>6
<1>2. ASSUME NEW r \in Requests, Emit(r) \/ EmitCreated(r) \/ EmitStep(r) \/ EmitWaiting(r),
             e \notin events
      PROVE  /\ e.run \in runs'
             /\ e.type \in Reviews => Logged(e.of, {Verdict(e.type)})'
             /\ e.type \notin Reviews => e.of \in runs' /\ e.run >= e.of
             /\ e.type = "step" => e.n <= steps'[e.of]
             /\ e.type = "waiting" => steps'[e.of] = StepCount
  <2>0. RequestInv(r) /\ Time(r) \in Times /\ Time(r) \in Nat
    <3>1. ~At(r, "idle")
      BY <1>2 DEF Emit, EmitCreated, EmitStep, EmitWaiting, At
    <3>2. RequestInv(r) /\ Time(r) \in Times
      BY <3>1, BusyRequest DEF RequestsInv
    <3> QED
      BY <3>2, ReviewBoundsAreNat DEF Times
  <2>1. PICK type, n : /\ AppendEvent(r, type, n)
                       /\ \/ Emit(r) /\ type = Op(r)
                          \/ EmitCreated(r) /\ type = "created"
                          \/ EmitStep(r) /\ type = "step" /\ n = steps[Time(r)]
                          \/ EmitWaiting(r) /\ type = "waiting"
    BY <1>2 DEF Emit, EmitCreated, EmitStep, EmitWaiting
  <2>2. /\ e.type = type /\ e.of = Time(r) /\ e.n = n
        /\ e.run \in runs /\ \A t \in runs : t <= e.run
    BY <1>2, <2>1 DEF AppendEvent
  <2>3. UNCHANGED <<runs, steps, decisions>>
    BY <1>2 DEF Emit, EmitCreated, EmitStep, EmitWaiting, log
  <2>4. CASE Emit(r)
    <3>1. Op(r) \in Reviews /\ Logged(Time(r), {Verdict(Op(r))})
      BY <2>0, <2>4 DEF Emit, At, RequestInv, StepOfOp, DecisionInv, Deciding
    <3>2. type = Op(r)
      BY <2>1, <2>4 DEF Emit, EmitCreated, EmitStep, EmitWaiting, At
    <3>3. Logged(e.of, {Verdict(e.type)})'
      BY <2>2, <2>3, <3>1, <3>2 DEF Logged, Verdict
    <3> QED
      BY <2>2, <2>3, <3>1, <3>2, <3>3 DEF Reviews
  <2>5. CASE ~Emit(r)
    <3>1. type \notin Reviews
      BY <2>1, <2>5 DEF Reviews
    <3>2. Time(r) \in runs
      BY <1>2, <2>0, <2>5 DEF EmitCreated, EmitStep, EmitWaiting, At, RequestInv, StepOfOp,
         RunInv
    <3>3. e.run >= e.of
      BY <2>0, <2>2, <3>2, ReviewBoundsAreNat DEF TypeOK, Times
    <3>4. type = "step" => n <= steps'[Time(r)]
      <4>1. type = "step" => n = steps[Time(r)]
        BY <2>1, <2>5
      <4>2. steps[Time(r)] \in Nat
        BY <2>0, ReviewBoundsAreNat DEF TypeOK
      <4> QED
        BY <2>3, <4>1, <4>2
    <3>5. type = "waiting" => steps'[Time(r)] = StepCount
      <4>1. type = "waiting" => EmitWaiting(r)
        BY <2>1, <2>5
      <4> QED
        BY <2>0, <2>3, <4>1 DEF EmitWaiting, At, RequestInv, StepOfOp, RunInv
    <3> QED
      BY <2>2, <2>3, <3>1, <3>2, <3>3, <3>4, <3>5
  <2> QED
    BY <2>4, <2>5
<1> QED
  BY <1>1, <1>2, EventWriters

-----------------------------------------------------------------------------
(* The theorems *)

\* Types and the inductive invariant together hold initially and are kept.
LEMMA Inductive ==
  /\ Init => TypeOK /\ IInv
  /\ TypeOK /\ IInv /\ [Next]_vars => TypeOK' /\ IInv'
<1>1. Init => TypeOK /\ IInv
  <2> SUFFICES ASSUME Init
               PROVE  TypeOK /\ IInv
    OBVIOUS
  <2>1. NoApproval \in Approvals /\ 0 \in MaybeTime
    BY ReviewBoundsAreNat DEF NoApproval, Approvals, MaybeTime
  <2>2. TypeOK
    BY <2>1, ReviewBoundsAreNat DEF Init, TypeOK, ProjectStatus, Idle, Handlers, ReqSteps
  <2>3. \A r \in Requests : req[r] = Idle
    BY DEF Init
  <2>4. TimesInv
    BY <2>3, ReviewBoundsAreNat DEF Init, TimesInv, At, Time, Idle
  <2>5. RequestsInv
    <3>0. Idle.step = "idle" /\ Idle.requested = 0
      BY DEF Idle
    <3>1. \A r \in Requests : req[r].step = "idle" /\ req[r].requested = 0
      BY <2>3, <3>0
    <3> QED
      BY <3>1 DEF RequestsInv, RequestInv, StepOfOp, DecisionInv, RunInv
  <2>6. AggregateBacked /\ StatusBacked /\ EventsBacked
    BY DEF Init, AggregateBacked, StatusBacked, EventsBacked, NoApproval, Decided
  <2> QED
    BY <2>2, <2>4, <2>5, <2>6 DEF IInv
<1>2. TypeOK /\ IInv /\ [Next]_vars => TypeOK' /\ IInv'
  BY TypeStep, MonotoneStep, TimesInvStep, RequestsInvStep, AggregateBackedStep,
     StatusBackedStep, EventsBackedStep DEF IInv
<1> QED
  BY <1>1, <1>2

\* Every reachable state of the review is well typed and satisfies the strengthened
\* invariant.
THEOREM Invariant == Spec => [](TypeOK /\ IInv)
<1>1. Init => TypeOK /\ IInv
  BY Inductive
<1>2. TypeOK /\ IInv /\ [Next]_vars => TypeOK' /\ IInv'
  BY Inductive
<1> QED
  BY <1>1, <1>2, PTL DEF Spec

\* TypeOK is an invariant; a run never has more steps than the sequence.
THEOREM TypeCorrect == Spec => []TypeOK
BY Invariant, PTL

\* Each column of the approval aggregate comes from a decision in the log, however the
\* reviewers' requests interleave and wherever they are cut short.
THEOREM AggregateBackedAlways == Spec => []AggregateBacked
<1>1. IInv => AggregateBacked
  BY DEF IInv
<1> QED
  BY <1>1, Invariant, PTL

\* A project is approved, rejected or sent back only after that decision was logged, or by
\* a PATCH of its status.
THEOREM StatusBackedAlways == Spec => []StatusBacked
<1>1. IInv => StatusBacked
  BY DEF IInv
<1> QED
  BY <1>1, Invariant, PTL

\* Workflow events tell of decisions that were logged and of runs and steps that exist.
THEOREM EventsBackedAlways == Spec => []EventsBacked
<1>1. IInv => EventsBacked
  BY DEF IInv
<1> QED
  BY <1>1, Invariant, PTL

-----------------------------------------------------------------------------
(* Requests that come one at a time: the history of MCReview *)

\* Where the step of a request leads.
LEMMA StepGoes ==
  ASSUME TypeOK, NEW r \in Requests, Step(r)
  PROVE  \/ req'[r].step = "idle"
         \/ ReadCompliance(r) /\ req'[r].step = "readApproval"
         \/ ReadApproval(r) /\ req'[r].step = "addDecision"
         \/ AddDecision(r) /\ req'[r].step = "findApproval"
         \/ FindApproval(r) /\ req'[r].step = "writeApproval" /\ req'[r].row = approval
         \/ InsertApproval(r) /\ req'[r].step = "setStatus"
         \/ UpdateApproval(r) /\ req'[r].step = "setStatus"
         \/ SetStatus(r) /\ req'[r].step \in {"emitWaiting", "findRun"}
         \/ FindRun(r) /\ req'[r].step = "emit"
         \/ CreateRun(r) /\ req'[r].step = "emitCreated"
         \/ EmitCreated(r) /\ req'[r].step = "createStep"
         \/ CreateStep(r) /\ req'[r].step = "emitStep"
         \/ EmitStep(r) /\ req'[r].step \in {"createStep", "setStatus"}
<1>1. Release(r) => req'[r].step = "idle"
  BY DEF Release, Idle, TypeOK
<1>2. ASSUME NEW s, Goto(r, s)
      PROVE  req'[r].step = s
  BY <1>2, Moved
<1>3. ReadApproval(r) => req'[r].step = "addDecision"
  BY DEF ReadApproval, TypeOK, Handlers
<1>4. FindApproval(r) => req'[r].step = "writeApproval" /\ req'[r].row = approval
  BY DEF FindApproval, TypeOK, Handlers
<1> QED
  BY <1>1, <1>2, <1>3, <1>4 DEF Step, DecisionStep, ReadCompliance, AddDecision,
     InsertApproval, UpdateApproval, AfterApproval, SetStatus, FindRun, Emit, SaveReport,
     WorkflowStep, CreateRun, EmitCreated, CreateStep, EmitStep, EmitWaiting

\* A request at rest owes nothing.
LEMMA IdleOwes ==
  ASSUME NEW q \in Requests, At(q, "idle")
  PROVE  ~OwesApproval(q) /\ ~OwesStatus(q) /\ ~OwesRun(q)
BY DEF At, OwesApproval, OwesStatus, OwesRun

\* While the history is quiet a request begins only when all are at rest, and none is cut.
LEMMA SequentialMoves ==
  ASSUME TypeOK, [MCNext]_mcvars, Sequential'
  PROVE  /\ Sequential
         /\ \/ UNCHANGED vars
            \/ \E r \in Requests, op \in Operations : Idling /\ Begin(r, op)
            \/ \E r \in Requests : Step(r)
<1>1. faults \in Nat
  BY DEF TypeOK
<1>2. CASE UNCHANGED mcvars
  BY <1>2 DEF mcvars, vars, Sequential
<1>3. ASSUME NEW r \in Requests, Cut(r)
      PROVE  FALSE
  BY <1>1, <1>3 DEF Cut, Sequential
<1>4. ASSUME NEW r \in Requests, NEW op \in Operations, Begin(r, op),
             overlapped' = (overlapped \/ ~Idling)
      PROVE  Sequential /\ Idling
  <2>1. ~overlapped /\ Idling
    BY <1>4, Zenon DEF Sequential
  <2> QED
    BY <1>4, <2>1 DEF Begin, Sequential
<1>5. ASSUME NEW r \in Requests, Step(r), UNCHANGED overlapped
      PROVE  Sequential
  BY <1>5 DEF Sequential, Step, DecisionStep, ReadCompliance, ReadApproval, AddDecision,
     FindApproval, InsertApproval, UpdateApproval, SetStatus, FindRun, Emit, SaveReport,
     WorkflowStep, CreateRun, EmitCreated, CreateStep, EmitStep, EmitWaiting
<1> QED
  BY <1>2, <1>3, <1>4, <1>5 DEF MCNext, mcvars

\* Beside the request that takes a step all are at rest.
LEMMA OthersRest ==
  ASSUME TypeOK, OneInv, NEW r \in Requests, Step(r), NEW q \in Requests, q # r
  PROVE  At(q, "idle") /\ req'[q] = req[q] /\ At(q, "idle")'
BY StepIsBusy, OthersStay DEF OneInv, At

\* A request that begins finds all others at rest, and owes nothing yet.
LEMMA SequentialBegin ==
  ASSUME TypeOK, TypeOK', OneInv, AggregateInv, StatusInv, RunsInv, TimesInv, Idling,
         NEW r \in Requests, NEW op \in Operations, Begin(r, op)
  PROVE  OneInv' /\ AggregateInv' /\ StatusInv' /\ RunsInv'
<1>1. /\ req'[r].step = FirstStep(op) /\ Op(r)' = op /\ Time(r)' = now + 1
      /\ now' = now + 1
  BY DEF Begin, TypeOK, Op, Time
<1>2. UNCHANGED <<decisions, approval, status, runs, steps, events>>
  BY DEF Begin, log, flow
<1>3. ASSUME NEW q \in Requests, q # r
      PROVE  At(q, "idle")'
  <2>1. req'[q] = req[q]
    BY <1>3, OthersStay
  <2> QED
    BY <2>1 DEF Idling, At
<1>4. \A q \in Requests : ~OwesApproval(q) /\ ~OwesStatus(q) /\ ~OwesRun(q)
  BY IdleOwes DEF Idling
<1>5. /\ FirstStep(op) = "setStatus" => op = "patch"
      /\ FirstStep(op) \in {"addDecision", "readCompliance", "readApproval", "saveReport",
                            "createRun", "setStatus"}
  BY OperationsExist DEF FirstStep, Reviews
<1>6. ~OwesApproval(r)' /\ ~OwesStatus(r)' /\ ~OwesRun(r)' /\ ~At(r, "writeApproval")'
  BY <1>1, <1>5 DEF OwesApproval, OwesStatus, OwesRun, At, Reviews
<1>7. \A q \in Requests : /\ ~OwesApproval(q)' /\ ~OwesStatus(q)' /\ ~OwesRun(q)'
                          /\ ~At(q, "writeApproval")'
  BY <1>3, <1>6 DEF At, OwesApproval, OwesStatus, OwesRun
<1>8. AggregateInv'
  BY <1>2, <1>4, <1>7 DEF AggregateInv, AggregateAgrees, Newest
<1>9. StatusInv'
  BY <1>2, <1>4, <1>7 DEF StatusInv, StatusAgrees, Rulings, Newest
<1>10. RunsInv'
  BY <1>2, <1>4, <1>7 DEF RunsInv, RunAgrees, Emitted
<1>11. OneInv'
  <2>1. now \in Nat
    BY ReviewBoundsAreNat DEF TypeOK, MaybeTime
  <2>2. \A d \in decisions : d.at \in Nat /\ d.at <= now
    BY ReviewBoundsAreNat DEF TypeOK, Times, OneInv
  <2>3. \A t \in runs : t \in Nat /\ t <= now
    BY ReviewBoundsAreNat DEF TypeOK, Times, TimesInv
  <2>4. \A d \in decisions : d.at < now + 1
    BY <2>1, <2>2
  <2>5. \A t \in runs : t < now + 1
    BY <2>1, <2>3
  <2>6. \A d \in decisions : d.at <= now + 1
    BY <2>1, <2>2
  <2>7. \A q \in Requests : ~At(q, "idle")' => q = r
    BY <1>3
  <2>8. \A q \in Requests : ~At(q, "idle")' => Time(q)' = now'
    BY <1>1, <2>7
  <2> QED
    BY <1>1, <1>2, <2>4, <2>5, <2>6, <2>7, <2>8 DEF OneInv
<1> QED
  BY <1>8, <1>9, <1>10, <1>11

\* The request in progress stays the only one, with the newest time.
LEMMA OneInvStep ==
  ASSUME TypeOK, OneInv, NEW r \in Requests, Step(r)
  PROVE  OneInv'
<1>1. ~At(r, "idle") /\ Time(r) = now
  BY StepIsBusy DEF OneInv
<1>2. now \in Nat /\ now' = now
  <2>1. now \in Nat
    BY ReviewBoundsAreNat DEF TypeOK, MaybeTime
  <2>2. now' = now
    BY DEF Step, DecisionStep, ReadCompliance, ReadApproval, AddDecision, FindApproval,
       InsertApproval, UpdateApproval, SetStatus, FindRun, Emit, SaveReport, WorkflowStep,
       CreateRun, EmitCreated, CreateStep, EmitStep, EmitWaiting
  <2> QED
    BY <2>1, <2>2
<1>3. \A q \in Requests : ~At(q, "idle")' => q = r
  BY OthersRest
<1>4. ~At(r, "idle")' => Time(r)' = now'
  <2>1. Idle.step = "idle"
    BY DEF Idle
  <2> QED
    BY <1>1, <1>2, <2>1, HandlerKept DEF At, Time
<1>5. \A d \in decisions' : d.at <= now'
  <2>1. decisions' = decisions \/ AddDecision(r)
    BY DEF Step, DecisionStep, ReadCompliance, ReadApproval, FindApproval, log,
       InsertApproval, UpdateApproval, SetStatus, FindRun, Emit, SaveReport, WorkflowStep,
       CreateRun, EmitCreated, CreateStep, EmitStep, EmitWaiting
  <2> QED
    BY <1>1, <1>2, <2>1 DEF AddDecision, OneInv
<1>6. ASSUME req'[r].step \in {"readCompliance", "readApproval", "addDecision", "createRun"}
      PROVE  (\A d \in decisions' : d.at < now') /\ (\A t \in runs' : t < now')
  <2>1. ReadCompliance(r) \/ ReadApproval(r)
    BY <1>6, StepGoes
  <2>2. /\ req[r].step \in {"readCompliance", "readApproval"}
        /\ UNCHANGED <<decisions, runs>>
    BY <2>1 DEF ReadCompliance, ReadApproval, At, log, flow
  <2> QED
    BY <1>2, <2>2 DEF OneInv
<1> QED
  BY <1>3, <1>4, <1>5, <1>6 DEF OneInv, At

\* A row that the request adds to older ones is the newest.
LEMMA NewestIsNew ==
  ASSUME NEW rows, NEW new, new.at \in Nat, \A q \in rows : q.at \in Nat /\ q.at < new.at,
         NEW d, Newest(d, rows \cup {new})
  PROVE  d = new
<1>1. new.at <= d.at /\ d \in rows \cup {new}
  BY DEF Newest
<1>2. d \in rows => d.at \in Nat /\ d.at < new.at
  OBVIOUS
<1>3. d \notin rows
  BY <1>1, <1>2
<1> QED
  BY <1>1, <1>3

\* What upsert_approval writes when nobody else wrote the aggregate since it was loaded.
LEMMA ApprovalWritten ==
  ASSUME TypeOK, NEW r \in Requests, InsertApproval(r) \/ UpdateApproval(r),
         req[r].row = approval
  PROVE  approval'.status = Verdict(Op(r)) /\ AfterApproval(r)
<1>1. NewApproval(r).status = Verdict(Op(r))
  BY DEF NewApproval, Verdict
<1>2. CASE InsertApproval(r)
  BY <1>1, <1>2 DEF InsertApproval
<1>3. CASE UpdateApproval(r)
  <2>1. approval'.status = IF NewApproval(r)["status"] = req[r].row["status"]
                             THEN approval["status"] ELSE NewApproval(r)["status"]
    BY <1>3 DEF UpdateApproval
  <2> QED
    BY <1>1, <1>3, <2>1 DEF UpdateApproval
<1> QED
  BY <1>2, <1>3

\* The decision is logged, then written to the aggregate, by the same request.
LEMMA AggregateInvStep ==
  ASSUME TypeOK, OneInv, AggregateInv, NEW r \in Requests, Step(r)
  PROVE  AggregateInv'
<1> USE DEF log, flow
<1>1. ASSUME NEW q \in Requests, q # r
      PROVE  ~OwesApproval(q) /\ ~OwesApproval(q)' /\ ~At(q, "writeApproval")'
  BY <1>1, OthersRest DEF OwesApproval, At
<1>2. CASE AddDecision(r)
  <2>1. req[r].step = "addDecision" /\ Time(r) = now /\ now \in Nat
    BY <1>2, ReviewBoundsAreNat DEF AddDecision, At, OneInv, TypeOK, MaybeTime
  <2>2. req'[r].step = "findApproval" /\ Op(r)' = Op(r)
    BY <1>2, Moved DEF AddDecision
  <2>3. \A d \in decisions : d.at \in Nat /\ d.at < now
    BY <2>1, ReviewBoundsAreNat DEF OneInv, TypeOK, Times
  <2> DEFINE new == [at |-> now, status |-> Verdict(Op(r))]
  <2>4. new.at \in Nat /\ new.at = now /\ new.status = Verdict(Op(r))
    BY <2>1
  <2>5. decisions' = decisions \cup {new}
    BY <1>2, <2>1 DEF AddDecision
  <2> HIDE DEF new
  <2>6. \A d : Newest(d, decisions \cup {new}) => d = new
    BY <2>3, <2>4, NewestIsNew
  <2>7. \A d \in decisions' : Newest(d, decisions') => d.status = Verdict(Op(r)')
    BY <2>2, <2>4, <2>5, <2>6
  <2>8. OwesApproval(r)' /\ ~At(r, "writeApproval")'
    BY <2>2 DEF OwesApproval, At
  <2> QED
    BY <1>1, <2>7, <2>8 DEF AggregateInv, Newest
<1>3. CASE FindApproval(r)
  <2>1. /\ req'[r].step = "writeApproval" /\ req'[r].row = approval
        /\ Op(r)' = Op(r) /\ UNCHANGED <<decisions, approval>> /\ OwesApproval(r)
    BY <1>3 DEF FindApproval, TypeOK, Handlers, Op, OwesApproval, At
  <2>2. OwesApproval(r)'
    BY <2>1 DEF OwesApproval
  <2> QED
    BY <1>1, <2>1, <2>2 DEF AggregateInv, Newest
<1>4. CASE InsertApproval(r) \/ UpdateApproval(r)
  <2>1. At(r, "writeApproval") /\ UNCHANGED decisions
    BY <1>4 DEF InsertApproval, UpdateApproval
  <2>2. approval'.status = Verdict(Op(r))
    BY <1>4, <2>1, ApprovalWritten DEF AggregateInv
  <2>3. ~OwesApproval(r)'
    BY <2>1, StepGoes DEF OwesApproval, AddDecision, FindApproval, At
  <2>4. AggregateAgrees'
    BY <2>1, <2>2 DEF AggregateInv, AggregateAgrees, Newest, OwesApproval, At
  <2> QED
    BY <1>1, <2>3, <2>4 DEF AggregateInv, OwesApproval, At
<1>5. CASE ~AddDecision(r) /\ ~FindApproval(r) /\ ~InsertApproval(r) /\ ~UpdateApproval(r)
  <2>1. UNCHANGED <<decisions, approval>> /\ ~OwesApproval(r)
    BY <1>5 DEF Step, DecisionStep, ReadCompliance, ReadApproval, SetStatus, FindRun, Emit,
       SaveReport, WorkflowStep, CreateRun, EmitCreated, CreateStep, EmitStep, EmitWaiting,
       OwesApproval, At
  <2>2. ~OwesApproval(r)'
    BY <1>5, StepGoes DEF OwesApproval
  <2> QED
    BY <1>1, <2>1, <2>2 DEF AggregateInv, AggregateAgrees, Newest, OwesApproval, At
<1> QED
  BY <1>2, <1>3, <1>4, <1>5

\* The ruling is logged, then written to the project's status, by the same request.
LEMMA StatusInvStep ==
  ASSUME TypeOK, RequestsInv, OneInv, AggregateInv, StatusInv, NEW r \in Requests, Step(r)
  PROVE  StatusInv'
<1> USE DEF log, flow
<1>1. ASSUME NEW q \in Requests, q # r
      PROVE  ~OwesStatus(q) /\ ~OwesStatus(q)'
  BY <1>1, OthersRest DEF OwesStatus, At
<1>2. StepOfOp(r)
  BY DEF RequestsInv, RequestInv
<1>3. CASE \/ AddDecision(r) /\ Op(r) \in Reviews
           \/ CreateRun(r)
  <2>1. /\ req[r].step \in {"addDecision", "createRun"} /\ Time(r) = now /\ now \in Nat
        /\ CreateRun(r) => Op(r) = "start"
    BY <1>2, <1>3, ReviewBoundsAreNat
       DEF AddDecision, CreateRun, At, OneInv, TypeOK, MaybeTime, StepOfOp
  <2>2. Op(r)' = Op(r) /\ OwesStatus(r)'
    BY <1>3, <2>1, Moved DEF AddDecision, CreateRun, OwesStatus
  <2>3. \A d \in Rulings : d.at \in Nat /\ d.at < now
    BY <2>1, ReviewBoundsAreNat DEF Rulings, OneInv, TypeOK, Times
  <2> DEFINE new == [at |-> now, status |-> Verdict(Op(r))]
  <2>4. new.at \in Nat /\ new.at = now /\ new.status = Verdict(Op(r))
    BY <2>1
  <2>5. Rulings' = Rulings \cup {new}
    <3>1. CASE AddDecision(r) /\ Op(r) \in Reviews
      <4>1. decisions' = decisions \cup {new} /\ runs' = runs
        BY <2>1, <3>1 DEF AddDecision
      <4>2. new.status \in Decided
        BY <3>1 DEF Verdict, Reviews, Decided
      <4> QED
        BY <4>1, <4>2 DEF Rulings
    <3>2. CASE CreateRun(r)
      <4>1. decisions' = decisions /\ runs' = runs \cup {now}
        BY <2>1, <3>2 DEF CreateRun
      <4>2. new = [at |-> now, status |-> "awaiting_review"]
        BY <2>1, <3>2 DEF Verdict
      <4> QED
        BY <4>1, <4>2 DEF Rulings
    <3> QED
      BY <1>3, <3>1, <3>2
  <2> HIDE DEF new
  <2>6. \A d : Newest(d, Rulings \cup {new}) => d = new
    BY <2>3, <2>4, NewestIsNew
  <2>7. \A d \in Rulings' : Newest(d, Rulings') => d.status = Verdict(Op(r)')
    BY <2>2, <2>4, <2>5, <2>6
  <2> QED
    BY <1>1, <2>2, <2>7 DEF StatusInv, Newest
<1>4. CASE AddDecision(r) /\ Op(r) \notin Reviews
  <2>1. Op(r) = "request_approval"
    BY <1>2, <1>4 DEF AddDecision, At, StepOfOp, Deciding
  <2>2. decisions' = decisions \cup {[at |-> Time(r), status |-> "awaiting_review"]}
    BY <1>4, <2>1 DEF AddDecision, Verdict
  <2>3. UNCHANGED <<runs, status>> /\ Op(r)' = Op(r)
    BY <1>4, Moved DEF AddDecision
  <2>4. Rulings' = Rulings
    BY <2>2, <2>3 DEF Rulings, Decided
  <2>5. ~OwesStatus(r) /\ ~OwesStatus(r)'
    BY <2>1, <2>3 DEF OwesStatus, Reviews
  <2> QED
    BY <1>1, <2>3, <2>4, <2>5 DEF StatusInv, StatusAgrees, Newest
<1>5. CASE SetStatus(r)
  <2>1. At(r, "setStatus") /\ UNCHANGED <<decisions, runs>>
    BY <1>5 DEF SetStatus
  <2>2. Rulings' = Rulings
    BY <2>1 DEF Rulings
  <2>3. ~OwesStatus(r)'
    BY <1>5, <2>1, StepGoes DEF OwesStatus, At, ReadCompliance, ReadApproval, AddDecision,
       FindApproval, InsertApproval, UpdateApproval, FindRun, CreateRun, EmitCreated,
       CreateStep, EmitStep
  <2>4. CASE Op(r) = "patch"
    <3>1. status' = status \/ status'.patched
      BY <1>5, <2>4 DEF SetStatus, Patched
    <3>2. ~OwesStatus(r)
      BY <2>4 DEF OwesStatus, Reviews
    <3>3. StatusAgrees
      BY <1>1, <3>2 DEF StatusInv
    <3>4. StatusAgrees'
      <4>1. CASE status' = status
        BY <2>2, <3>3, <4>1 DEF StatusAgrees, Newest
      <4>2. CASE status'.patched
        BY <4>2, Zenon DEF StatusAgrees
      <4> QED
        BY <3>1, <4>1, <4>2
    <3> QED
      BY <1>1, <2>3, <3>4 DEF StatusInv
  <2>5. CASE Op(r) # "patch"
    <3>1. status'.value = Verdict(Op(r))
      BY <1>5, <2>5 DEF SetStatus, Written
    <3>2. OwesStatus(r)
      BY <1>2, <2>1, <2>5 DEF StepOfOp, OwesStatus, At
    <3>3. StatusAgrees'
      BY <2>2, <3>1, <3>2 DEF StatusInv, StatusAgrees, Newest
    <3> QED
      BY <1>1, <2>3, <3>3 DEF StatusInv
  <2> QED
    BY <2>4, <2>5
<1>6. CASE ~AddDecision(r) /\ ~CreateRun(r) /\ ~SetStatus(r)
  <2>1. UNCHANGED <<decisions, runs, status>>
    BY <1>6 DEF Step, DecisionStep, ReadCompliance, ReadApproval, FindApproval, InsertApproval,
       UpdateApproval, FindRun, Emit, SaveReport, WorkflowStep, EmitCreated, CreateStep,
       EmitStep, EmitWaiting
  <2>2. Rulings' = Rulings
    BY <2>1 DEF Rulings
  <2>3. req'[r].step # "idle" => Op(r)' = Op(r)
    <3>1. Idle.step = "idle"
      BY DEF Idle
    <3> QED
      BY <3>1, HandlerKept DEF Op
  <2>4. OwesStatus(r)' => OwesStatus(r)
    BY <1>2, <1>6, <2>3, StepGoes DEF OwesStatus, At, ReadCompliance, ReadApproval,
       FindApproval, InsertApproval, UpdateApproval, FindRun, EmitCreated, CreateStep,
       EmitStep, StepOfOp, Deciding, Reviews
  <2>5. OwesStatus(r) => OwesStatus(r)'
    <3>1. CASE FindApproval(r)
      BY <3>1 DEF FindApproval, TypeOK, Handlers, OwesStatus, Op, At
    <3>2. CASE InsertApproval(r) \/ UpdateApproval(r)
      <4>1. At(r, "writeApproval")
        BY <3>2 DEF InsertApproval, UpdateApproval
      <4>2. AfterApproval(r)
        BY <3>2, <4>1, ApprovalWritten DEF AggregateInv
      <4>3. Op(r) \in Reviews => req'[r].step = "setStatus" /\ Op(r)' = Op(r)
        BY <4>2, Moved DEF AfterApproval, Reviews
      <4> QED
        BY <4>1, <4>3 DEF OwesStatus, At
    <3>3. CASE EmitCreated(r) \/ CreateStep(r) \/ EmitStep(r)
      BY <3>3, Moved DEF EmitCreated, CreateStep, EmitStep, OwesStatus, At
    <3> QED
      BY <1>6, <3>1, <3>2, <3>3 DEF OwesStatus, Step, DecisionStep, ReadCompliance,
         ReadApproval, FindRun, Emit, SaveReport, WorkflowStep, EmitWaiting, At
  <2>6. OwesStatus(r) => Op(r)' = Op(r)
    BY <2>3, <2>5 DEF OwesStatus
  <2> QED
    BY <1>1, <2>1, <2>2, <2>4, <2>5, <2>6 DEF StatusInv, StatusAgrees, Newest
<1> QED
  BY <1>3, <1>4, <1>5, <1>6

\* append_event attaches an event of the request that owns the newest run to that run.
LEMMA EventOfOwnRun ==
  ASSUME TypeOK, TimesInv, OneInv, NEW r \in Requests, ~At(r, "idle"),
         NEW own \in runs, Time(r) = own, NEW type, NEW n, AppendEvent(r, type, n)
  PROVE  Emitted(own, type, n)'
<1>1. own = now /\ now \in Nat
  BY ReviewBoundsAreNat DEF OneInv, TypeOK, MaybeTime
<1>2. PICK run \in runs :
        /\ \A t \in runs : t <= run
        /\ events' = events \cup {[type |-> type, of |-> own, run |-> run, n |-> n]}
  BY DEF AppendEvent
<1>3. run \in Nat /\ run <= now /\ now <= run
  BY <1>1, <1>2, ReviewBoundsAreNat DEF TypeOK, Times, TimesInv
<1> QED
  BY <1>1, <1>2, <1>3 DEF Emitted

\* The run is created, gets its steps and announces them, by the same request.
LEMMA RunsInvStep ==
  ASSUME TypeOK, TypeOK', TimesInv, RequestsInv, OneInv, RunsInv, NEW r \in Requests, Step(r)
  PROVE  RunsInv'
<1> USE DEF log, flow
<1>1. ASSUME NEW q \in Requests, q # r
      PROVE  ~OwesRun(q) /\ ~OwesRun(q)'
  BY <1>1, OthersRest DEF OwesRun, OwesStatus, At
<1>2. StepOfOp(r) /\ RunInv(r)
  BY DEF RequestsInv, RequestInv
<1> PICK own \in Times : Time(r) = own
  BY StepIsBusy, BusyRequest
<1>3. ~At(r, "idle") /\ \A t \in runs : t \in Times
  BY StepIsBusy DEF TypeOK
<1>4. events \subseteq events'
  BY DEF Step, DecisionStep, ReadCompliance, ReadApproval, AddDecision, FindApproval,
     InsertApproval, UpdateApproval, SetStatus, FindRun, Emit, SaveReport, WorkflowStep,
     CreateRun, EmitCreated, CreateStep, EmitStep, EmitWaiting, AppendEvent
<1>5. \A t, type, n : Emitted(t, type, n) => Emitted(t, type, n)'
  BY <1>4 DEF Emitted
<1>6. ASSUME NEW t \in runs, RunAgrees(t), steps'[t] = steps[t]
      PROVE  RunAgrees(t)'
  BY <1>5, <1>6 DEF RunAgrees
<1>7. \A t \in runs : RunAgrees(t) \/ (OwesRun(r) /\ own = t)
  <2> SUFFICES ASSUME NEW t \in runs, ~(OwesRun(r) /\ own = t)
               PROVE  RunAgrees(t)
    OBVIOUS
  <2>1. \A q \in Requests : OwesRun(q) => Time(q) # t
    BY <1>1
  <2> QED
    BY <2>1 DEF RunsInv
<1>8. CASE CreateRun(r)
  <2>1. /\ Op(r) = "start" /\ ~OwesRun(r) /\ steps[own] = 0
        /\ runs' = runs \cup {own} /\ UNCHANGED <<steps, events>>
    BY <1>2, <1>8 DEF CreateRun, StepOfOp, RunInv, OwesRun, OwesStatus, At, Reviews
  <2>2. req'[r].step = "emitCreated" /\ Op(r)' = Op(r) /\ Time(r)' = own
    BY <1>8, Moved DEF CreateRun
  <2>3. OwesRun(r)'
    BY <2>1, <2>2 DEF OwesRun, OwesStatus
  <2>4. \A t \in runs : RunAgrees(t)'
    BY <1>6, <1>7, <2>1
  <2>5. 1..steps'[own] = {}
    BY <2>1
  <2> QED
    BY <1>1, <2>1, <2>2, <2>3, <2>4, <2>5 DEF RunsInv, At
<1>9. CASE EmitCreated(r) \/ CreateStep(r) \/ EmitStep(r) \/ (SetStatus(r) /\ Op(r) = "start")
  <2>1. /\ Op(r) = "start" /\ OwesRun(r) /\ own \in runs /\ UNCHANGED runs
    BY <1>2, <1>9 DEF EmitCreated, CreateStep, EmitStep, SetStatus, StepOfOp, RunInv,
       OwesRun, OwesStatus, At
  <2>2. PICK s : /\ Goto(r, s)
                 /\ \/ EmitCreated(r) /\ s = "createStep"
                    \/ CreateStep(r) /\ s = "emitStep"
                    \/ EmitStep(r) /\ s \in {"createStep", "setStatus"}
                    \/ SetStatus(r) /\ s = "emitWaiting"
    BY <1>9, <2>1 DEF EmitCreated, CreateStep, EmitStep, SetStatus
  <2>3. req'[r].step = s /\ Op(r)' = Op(r) /\ Time(r)' = own
    BY <2>2, Moved
  <2>4. OwesRun(r)' /\ ~At(r, "emitCreated")'
    BY <2>1, <2>2, <2>3 DEF OwesRun, OwesStatus, At
  <2>5. \A t \in runs : t # own => steps'[t] = steps[t]
    BY <1>3, <1>9 DEF EmitCreated, CreateStep, EmitStep, SetStatus, TypeOK
  <2>6. \A t \in runs : t # own => RunAgrees(t)'
    BY <1>6, <1>7, <2>5
  <2>7. Emitted(own, "created", 0)'
    <3>1. CASE EmitCreated(r)
      BY <1>3, <2>1, <3>1, EventOfOwnRun DEF EmitCreated
    <3>2. CASE ~EmitCreated(r)
      <4>1. ~At(r, "emitCreated")
        BY <1>9, <3>2 DEF CreateStep, EmitStep, SetStatus, At
      <4> QED
        BY <1>5, <2>1, <4>1 DEF RunsInv
    <3> QED
      BY <3>1, <3>2
  <2>8. steps[own] \in Nat /\ steps'[own] \in Nat
    BY <1>3, ReviewBoundsAreNat DEF TypeOK
  <2>9. ASSUME NEW n \in 1..steps'[own],
               n < steps'[own] \/ s # "emitStep"
        PROVE  Emitted(own, "step", n)'
    <3>1. CASE CreateStep(r)
      <4>1. s = "emitStep" /\ steps'[own] = steps[own] + 1
        BY <1>3, <2>2, <3>1
           DEF CreateStep, EmitCreated, EmitStep, SetStatus, At, TypeOK
      <4>2. n \in 1..steps[own]
        BY <2>8, <2>9, <4>1
      <4>3. ~At(r, "emitStep")
        BY <3>1 DEF CreateStep, At
      <4> QED
        BY <1>5, <2>1, <4>2, <4>3 DEF RunsInv
    <3>2. CASE EmitStep(r)
      <4>1. steps' = steps /\ AppendEvent(r, "step", steps[own])
        BY <3>2 DEF EmitStep
      <4>2. CASE n = steps[own]
        BY <1>3, <2>1, <4>1, <4>2, EventOfOwnRun
      <4>3. CASE n # steps[own]
        <5>1. n \in 1..steps[own] /\ n < steps[own]
          BY <2>8, <4>1, <4>3
        <5> QED
          BY <1>5, <2>1, <5>1 DEF RunsInv
      <4> QED
        BY <4>2, <4>3
    <3>3. CASE EmitCreated(r) \/ SetStatus(r)
      <4>1. steps' = steps /\ ~At(r, "emitStep")
        BY <3>3 DEF EmitCreated, SetStatus, At
      <4> QED
        BY <1>5, <2>1, <4>1 DEF RunsInv
    <3> QED
      BY <2>2, <3>1, <3>2, <3>3
  <2> QED
    BY <1>1, <2>1, <2>3, <2>4, <2>6, <2>7, <2>9 DEF RunsInv, At
<1>10. CASE EmitWaiting(r)
  <2>1. /\ Op(r) = "start" /\ OwesRun(r) /\ own \in runs /\ steps[own] = StepCount
        /\ UNCHANGED <<runs, steps>> /\ At(r, "emitWaiting")
    BY <1>2, <1>10 DEF EmitWaiting, StepOfOp, RunInv, OwesRun, At
  <2>2. Emitted(own, "waiting", 0)'
    BY <1>3, <1>10, <2>1, EventOfOwnRun DEF EmitWaiting
  <2>3. RunAgrees(own)'
    BY <1>5, <2>1, <2>2 DEF RunsInv, RunAgrees, At
  <2>4. \A t \in runs : t # own => RunAgrees(t)'
    BY <1>6, <1>7, <2>1
  <2>5. ~OwesRun(r)'
    <3>1. req'[r].step = "idle"
      BY <1>10 DEF EmitWaiting, Release, Idle, TypeOK
    <3> QED
      BY <3>1 DEF OwesRun, OwesStatus, At
  <2> QED
    BY <1>1, <2>1, <2>3, <2>4, <2>5 DEF RunsInv
<1>11. CASE /\ ~CreateRun(r) /\ ~EmitCreated(r) /\ ~CreateStep(r) /\ ~EmitStep(r)
            /\ ~EmitWaiting(r) /\ ~(SetStatus(r) /\ Op(r) = "start")
  <2>1. UNCHANGED <<runs, steps>>
    BY <1>11 DEF Step, DecisionStep, ReadCompliance, ReadApproval, AddDecision, FindApproval,
       InsertApproval, UpdateApproval, SetStatus, FindRun, Emit, SaveReport, WorkflowStep
  <2>2. ~OwesRun(r)
    BY <1>2, <1>11 DEF Step, DecisionStep, ReadCompliance, ReadApproval, AddDecision,
       FindApproval, InsertApproval, UpdateApproval, SetStatus, FindRun, Emit, SaveReport,
       WorkflowStep, OwesRun, OwesStatus, StepOfOp, At, Deciding, Reviews
  <2>3. ~OwesRun(r)'
    <3>1. req'[r].step = "idle" \/ Op(r)' = Op(r)
      <4>1. Idle.step = "idle"
        BY DEF Idle
      <4> QED
        BY <4>1, HandlerKept DEF Op
    <3>2. Op(r) = "start" => SaveReport(r)
      BY <1>2, <1>11 DEF Step, DecisionStep, ReadCompliance, ReadApproval, AddDecision,
         FindApproval, InsertApproval, UpdateApproval, SetStatus, FindRun, Emit, SaveReport,
         WorkflowStep, StepOfOp, At, Deciding, Reviews
    <3>3. At(r, "emitWaiting")' => SetStatus(r)
      BY <1>11, StepGoes DEF At
    <3>4. SaveReport(r) => req'[r].step = "idle"
      BY DEF SaveReport, Release, Idle, TypeOK
    <3>5. SetStatus(r) => Op(r) # "start" /\ req'[r].step # "emitWaiting"
      <4>1. SetStatus(r) => Op(r) # "start"
        BY <1>11
      <4>2. SetStatus(r) /\ Op(r) = "patch" => req'[r].step = "idle"
        BY DEF SetStatus, Release, Idle, TypeOK
      <4>3. SetStatus(r) /\ Op(r) \notin {"patch", "start"} => req'[r].step = "findRun"
        BY Moved DEF SetStatus
      <4> QED
        BY <4>1, <4>2, <4>3
    <3> QED
      BY <3>1, <3>2, <3>3, <3>4, <3>5 DEF OwesRun, OwesStatus, At
  <2> QED
    BY <1>1, <1>6, <1>7, <2>1, <2>2, <2>3 DEF RunsInv
<1> QED
  BY <1>8, <1>9, <1>10, <1>11

\* Every step of requests that come one at a time keeps what is owed.
LEMMA SequentialInvStep ==
  TypeOK /\ TypeOK' /\ IInv /\ SequentialInv /\ [MCNext]_mcvars => SequentialInv'
<1> SUFFICES ASSUME TypeOK, TypeOK', IInv, SequentialInv, [MCNext]_mcvars, Sequential'
             PROVE  OneInv' /\ AggregateInv' /\ StatusInv' /\ RunsInv'
  BY DEF SequentialInv
<1>1. OneInv /\ AggregateInv /\ StatusInv /\ RunsInv /\ TimesInv /\ RequestsInv
  BY SequentialMoves DEF SequentialInv, IInv
<1>2. CASE UNCHANGED vars
  BY <1>1, <1>2 DEF vars, log, flow, OneInv, AggregateInv, AggregateAgrees, StatusInv,
     StatusAgrees, Rulings, RunsInv, RunAgrees, Emitted, OwesApproval, OwesStatus, OwesRun,
     Newest, At, Op, Time
<1>3. ASSUME NEW r \in Requests, NEW op \in Operations, Idling, Begin(r, op)
      PROVE  OneInv' /\ AggregateInv' /\ StatusInv' /\ RunsInv'
  BY <1>1, <1>3, SequentialBegin
<1>4. ASSUME NEW r \in Requests, Step(r)
      PROVE  OneInv' /\ AggregateInv' /\ StatusInv' /\ RunsInv'
  BY <1>1, <1>4, OneInvStep, AggregateInvStep, StatusInvStep, RunsInvStep
<1> QED
  BY <1>2, <1>3, <1>4, SequentialMoves

\* With the history every behaviour is one of the specification.
LEMMA HistorySpec == MCSpec => Spec
<1>1. MCInit => Init
  BY DEF MCInit
<1>2. [MCNext]_mcvars => [Next]_vars
  BY DEF MCNext, mcvars, Next
<1> QED
  BY <1>1, <1>2, PTL DEF MCSpec, Spec

\* Requests that come one at a time and are not cut leave the aggregate, the project's
\* status and every run in agreement with the newest rows of the logs, however many
\* requests there were and in whatever order.
THEOREM SettledAgreesAlways == MCSpec => []SettledAgrees
<1>1. MCInit => SequentialInv
  <2> SUFFICES ASSUME MCInit
               PROVE  SequentialInv
    OBVIOUS
  <2>1. /\ \A r \in Requests : req[r].step = "idle"
        /\ decisions = {} /\ runs = {}
    BY DEF MCInit, Init, Idle
  <2>2. \A r \in Requests : At(r, "idle") /\ ~At(r, "writeApproval")
    BY <2>1 DEF At
  <2>3. \A r \in Requests : ~OwesApproval(r) /\ ~OwesStatus(r) /\ ~OwesRun(r)
    BY <2>2, IdleOwes
  <2>4. OneInv
    BY <2>1, <2>2 DEF OneInv
  <2>5. AggregateInv /\ StatusInv /\ RunsInv
    BY <2>1, <2>2, <2>3 DEF AggregateInv, AggregateAgrees, StatusInv, StatusAgrees, Rulings,
       RunsInv
  <2> QED
    BY <2>4, <2>5 DEF SequentialInv
<1>2. MCSpec => [](TypeOK /\ IInv)
  BY HistorySpec, Invariant, PTL
<1>3. SequentialInv => SettledAgrees
  <2> SUFFICES ASSUME SequentialInv, Sequential, Idling
               PROVE  AggregateAgrees /\ StatusAgrees /\ \A t \in runs : RunAgrees(t)
    BY DEF SettledAgrees
  <2>1. \A r \in Requests : ~OwesApproval(r) /\ ~OwesStatus(r) /\ ~OwesRun(r)
    BY IdleOwes DEF Idling
  <2> QED
    BY <2>1 DEF SequentialInv, AggregateInv, StatusInv, RunsInv
<1> QED
  BY <1>1, <1>2, <1>3, SequentialInvStep, PTL DEF MCSpec

=============================================================================
