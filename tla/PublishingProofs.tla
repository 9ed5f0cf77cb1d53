--------------------------- MODULE PublishingProofs ---------------------------
(* Proofs about Publishing, for every set of plans and processes and all bounds. *)
EXTENDS MCPublishing, TLAPS

-----------------------------------------------------------------------------
(* Type correctness *)

\* A retry puts a task of the same plan back in the broker, with one more try.
LEMMA RequeueType ==
  ASSUME TypeOK, NEW w \in Procs, proc[w].step # "idle", Requeue(w)
  PROVE  messages' \in [Plans \X (0..MaxRetries) -> Nat]
<1>1. PlanOf(w) \in Plans /\ proc[w].tries \in 0..MaxRetries
  BY DEF TypeOK, Processes, PlanOf
<1>2. CASE proc[w].tries < MaxRetries
  <2>1. <<PlanOf(w), proc[w].tries + 1>> \in Plans \X (0..MaxRetries)
    BY <1>1, <1>2, BoundsAreNat
  <2>2. messages' = [messages EXCEPT ![<<PlanOf(w), proc[w].tries + 1>>] = @ + 1]
    BY <1>2 DEF Requeue
  <2> QED
    BY <2>1, <2>2 DEF TypeOK
<1>3. CASE ~(proc[w].tries < MaxRetries)
  BY <1>3 DEF Requeue, TypeOK
<1> QED
  BY <1>2, <1>3

\* A process that moves to another step, or ends, keeps a well-typed record.
LEMMA ProcType ==
  ASSUME TypeOK, NEW c \in Procs, NEW s \in Steps, c \in Procs
  PROVE  /\ Release(c) => /\ proc' \in [Procs -> Processes]
                          /\ \A d \in Procs : proc'[d].step # "idle" => proc'[d].plan \in Plans
         /\ Goto(c, s) /\ proc[c].step # "idle" =>
              /\ proc' \in [Procs -> Processes]
              /\ \A d \in Procs : proc'[d].step # "idle" => proc'[d].plan \in Plans
         /\ \A p \in Plans, t \in 0..MaxRetries : Enter(c, s, p, t) =>
              /\ proc' \in [Procs -> Processes]
              /\ \A d \in Procs : proc'[d].step # "idle" => proc'[d].plan \in Plans
<1>0. NoExecution \in Executions
  BY DEF NoExecution, Executions, ExecStatus
<1>1. 0 \in 0..MaxRetries /\ Idle \in Processes /\ Idle.step = "idle"
  BY <1>0, BoundsAreNat DEF Idle, Processes, Steps
<1>2. Release(c) => /\ proc' \in [Procs -> Processes]
                    /\ \A d \in Procs : proc'[d].step # "idle" => proc'[d].plan \in Plans
  BY <1>1 DEF Release, TypeOK
<1>3. ASSUME Goto(c, s), proc[c].step # "idle"
      PROVE  /\ proc' \in [Procs -> Processes]
             /\ \A d \in Procs : proc'[d].step # "idle" => proc'[d].plan \in Plans
  BY <1>3 DEF Goto, TypeOK, Processes
<1>4. ASSUME NEW p \in Plans, NEW t \in 0..MaxRetries, Enter(c, s, p, t)
      PROVE  /\ proc' \in [Procs -> Processes]
             /\ \A d \in Procs : proc'[d].step # "idle" => proc'[d].plan \in Plans
  BY <1>0, <1>4 DEF Enter, TypeOK, Processes
<1> QED
  BY <1>2, <1>3, <1>4

\* So does one that loads its execution.
LEMMA LoadType ==
  ASSUME TypeOK, NEW w \in Procs, proc[w].step # "idle", NEW s \in Steps, NEW n \in Nat,
         Load(w, s, n)
  PROVE  /\ proc' \in [Procs -> Processes]
         /\ \A d \in Procs : proc'[d].step # "idle" => proc'[d].plan \in Plans
<1>1. executions[PlanOf(w)] \in Executions
  BY DEF TypeOK, PlanOf
<1> QED
  BY <1>1 DEF Load, TypeOK, Processes

\* Every step of the specification keeps the types.
LEMMA TypeStep == TypeOK /\ [Next]_vars => TypeOK'
<1> SUFFICES ASSUME TypeOK, [Next]_vars
             PROVE  TypeOK'
  OBVIOUS
<1> USE DEF rows, tasks, broker
<1>1. CASE ReviewStep
  BY <1>1 DEF ReviewStep, TypeOK
<1>2. CASE Arrival
  <2>1. ASSUME NEW p \in Plans, NEW complete \in BOOLEAN, CreatePlan(p, complete)
        PROVE  TypeOK'
    BY <2>1 DEF CreatePlan, TypeOK, PlanRows, PlanStatus
  <2>2. ASSUME NEW p \in Plans, NEW c \in Schedulers, BeginSchedule(c, p)
        PROVE  TypeOK'
    <3>1. c \in Procs /\ "scheduleApproval" \in Steps /\ 0 \in 0..MaxRetries
      BY BoundsAreNat DEF Procs, Steps, ScheduleSteps
    <3> QED
      BY <2>2, <3>1, ProcType DEF BeginSchedule, TypeOK
  <2>3. ASSUME NEW p \in Plans, NEW c \in Publishers, BeginPublish(c, p)
        PROVE  TypeOK'
    <3>1. c \in Procs /\ "checkPlan" \in Steps /\ 0 \in 0..MaxRetries
      BY BoundsAreNat DEF Procs, Steps, WorkerSteps, TrySteps, PublishSteps
    <3> QED
      BY <2>3, <3>1, ProcType DEF BeginPublish, TypeOK
  <2>4. ASSUME NEW p \in Plans, Send(p)
        PROVE  TypeOK'
    <3>1. <<p, 0>> \in Plans \X (0..MaxRetries)
      BY BoundsAreNat
    <3> QED
      BY <2>4, <3>1 DEF Send, TypeOK
  <2> QED
    BY <1>2, <2>1, <2>2, <2>3, <2>4 DEF Arrival
<1>3. ASSUME NEW w \in Workers, Receive(w)
      PROVE  TypeOK'
  <2> PICK p \in Plans, t \in 0..MaxRetries : Take(w, p, t)
    BY <1>3 DEF Receive
  <2>1. w \in Procs /\ "claim" \in Steps
    BY DEF Procs, Steps, WorkerSteps
  <2>2. messages' \in [Plans \X (0..MaxRetries) -> Nat]
    BY DEF Take, TypeOK
  <2> QED
    BY <2>1, <2>2, ProcType DEF Take, TypeOK
<1>4. ASSUME NEW c \in Procs, ScheduleStep(c)
      PROVE  TypeOK'
  <2>1. proc[c].step # "idle" /\ PlanOf(c) \in Plans
    BY <1>4 DEF ScheduleStep, ScheduleCheckApproval, ScheduleCheckCompliance,
                ScheduleWrite, At, TypeOK, PlanOf
  <2>2. {"scheduleCompliance", "scheduleWrite"} \subseteq Steps
    BY DEF Steps, ScheduleSteps
  <2>3. CASE ScheduleCheckApproval(c)
    BY <2>1, <2>2, <2>3, ProcType DEF ScheduleCheckApproval, TypeOK
  <2>4. CASE ScheduleCheckCompliance(c)
    BY <2>1, <2>2, <2>4, ProcType DEF ScheduleCheckCompliance, TypeOK
  <2>5. CASE ScheduleWrite(c)
    <3>1. plans' \in [Plans -> PlanRows]
      BY <2>1, <2>5 DEF ScheduleWrite, TypeOK, PlanRows, PlanStatus
    <3>2. "idle" \in Steps
      BY DEF Steps
    <3> QED
      BY <2>5, <3>1, <3>2, ProcType DEF ScheduleWrite, TypeOK
  <2> QED
    BY <1>4, <2>3, <2>4, <2>5 DEF ScheduleStep
<1>5. ASSUME NEW c \in Procs, PublishStep(c)
      PROVE  TypeOK'
  <2>1. proc[c].step # "idle" /\ PlanOf(c) \in Plans
    BY <1>5 DEF PublishStep, PublishCheckPlan, PublishCheckApproval,
                PublishCheckCompliance, Upload, LogQuota, Finish, At, TypeOK, PlanOf
  <2>2. {"checkApproval", "checkCompliance", "upload", "logQuota", "finish",
         "markSucceeded", "markFailed"} \subseteq Steps
    BY DEF Steps, WorkerSteps, TrySteps, PublishSteps
  <2>3. CASE PublishCheckPlan(c)
    BY <2>1, <2>2, <2>3, ProcType DEF PublishCheckPlan, Refuse, TypeOK
  <2>4. CASE PublishCheckApproval(c)
    BY <2>1, <2>2, <2>4, ProcType DEF PublishCheckApproval, Refuse, TypeOK
  <2>5. CASE PublishCheckCompliance(c)
    BY <2>1, <2>2, <2>5, ProcType DEF PublishCheckCompliance, Refuse, TypeOK
  <2>6. CASE Upload(c)
    <3>1. plans' \in [Plans -> PlanRows]
      BY <2>1, <2>6 DEF Upload, TypeOK, PlanRows, PlanStatus
    <3> QED
      BY <2>1, <2>2, <2>6, <3>1, ProcType DEF Upload, TypeOK
  <2>7. CASE LogQuota(c)
    <3>1. quota' \in [Plans -> Nat]
      BY <2>1, <2>7 DEF LogQuota, TypeOK
    <3> QED
      BY <2>1, <2>2, <2>7, <3>1, ProcType DEF LogQuota, TypeOK
  <2>8. CASE Finish(c)
    <3>1. plans' \in [Plans -> PlanRows]
      BY <2>1, <2>8 DEF Finish, TypeOK, PlanRows, PlanStatus
    <3> QED
      BY <2>1, <2>2, <2>8, <3>1, ProcType DEF Finish, TypeOK
  <2> QED
    BY <1>5, <2>3, <2>4, <2>5, <2>6, <2>7, <2>8 DEF PublishStep
<1>6. ASSUME NEW c \in Procs, TaskStep(c)
      PROVE  TypeOK'
  <2>1. proc[c].step # "idle" /\ PlanOf(c) \in Plans
    BY <1>6 DEF TaskStep, Claim, InsertExecution, InsertConflict, StartAttempt,
                MarkSucceeded, Refresh, AttemptSucceeded, Emit, MarkFailed, AttemptFailed,
                At, TypeOK, PlanOf
  <2>2. {"idle", "claim", "insert", "startAttempt", "checkPlan", "refresh",
         "attemptSucceeded", "emit", "attemptFailed"} \subseteq Steps
    BY DEF Steps, WorkerSteps, TrySteps, PublishSteps
  <2>3. /\ proc[c].attempt \in Nat /\ proc[c].row \in Executions
        /\ executions[PlanOf(c)] \in Executions
    BY <2>1 DEF TypeOK, Processes
  <2>4. CASE Claim(c)
    <3>1. executions[PlanOf(c)].retries + 1 \in Nat
      BY <2>3 DEF Executions
    <3>2. CASE Load(c, "startAttempt", executions[PlanOf(c)].retries + 1)
      BY <2>1, <2>2, <2>4, <3>1, <3>2, LoadType DEF Claim, TypeOK
    <3>3. CASE Goto(c, "insert") \/ Release(c)
      BY <2>1, <2>2, <2>4, <3>3, ProcType DEF Claim, TypeOK
    <3> QED
      BY <2>4, <3>2, <3>3 DEF Claim
  <2>5. CASE InsertExecution(c)
    <3>1. executions' \in [Plans -> Executions]
      BY <2>1, <2>5 DEF InsertExecution, TypeOK, Executions, ExecStatus
    <3> QED
      BY <2>1, <2>2, <2>5, <3>1, ProcType DEF InsertExecution, TypeOK
  <2>6. CASE InsertConflict(c)
    BY <2>1, <2>2, <2>6, ProcType, RequeueType DEF InsertConflict, TypeOK
  <2>7. ASSUME NEW status \in {"running", "succeeded", "failed"}, AddAttempt(c, status)
        PROVE  attempts' \in [Plans -> SUBSET Attempts]
    BY <2>1, <2>3, <2>7 DEF AddAttempt, TypeOK, Attempts
  <2>8. ASSUME NEW status \in ExecStatus, NEW n \in Nat, MarkExecution(c, status, n)
        PROVE  executions' \in [Plans -> Executions]
    <3>1. PICK st \in ExecStatus, m \in Nat :
            executions' = [executions EXCEPT ![PlanOf(c)] = [status |-> st, retries |-> m]]
      BY <2>3, <2>8 DEF MarkExecution, Executions
    <3> QED
      BY <2>1, <3>1 DEF TypeOK, Executions
  <2>9. CASE StartAttempt(c)
    BY <2>1, <2>2, <2>7, <2>9, ProcType DEF StartAttempt, TypeOK
  <2>10. CASE MarkSucceeded(c)
    <3>1. proc[c].row.retries \in Nat /\ "succeeded" \in ExecStatus
      BY <2>3 DEF Executions, ExecStatus
    <3>2. executions' \in [Plans -> Executions]
      BY <2>8, <2>10, <3>1 DEF MarkSucceeded
    <3> QED
      BY <2>1, <2>2, <2>10, <3>2, ProcType DEF MarkSucceeded, TypeOK
  <2>15. CASE Refresh(c)
    BY <2>1, <2>2, <2>3, <2>15, LoadType DEF Refresh, TypeOK
  <2>11. CASE AttemptSucceeded(c)
    BY <2>1, <2>2, <2>7, <2>11, ProcType DEF Refresh, AttemptSucceeded, TypeOK
  <2>12. CASE Emit(c)
    <3>1. events' \in [Plans -> Nat]
      BY <2>1, <2>12 DEF Emit, TypeOK
    <3> QED
      BY <2>1, <2>2, <2>12, <3>1, ProcType DEF Emit, TypeOK
  <2>13. CASE MarkFailed(c)
    <3>1. proc[c].row.retries + 1 \in Nat /\ "failed" \in ExecStatus
      BY <2>3 DEF Executions, ExecStatus
    <3>2. executions' \in [Plans -> Executions]
      BY <2>8, <2>13, <3>1 DEF MarkFailed
    <3> QED
      BY <2>1, <2>2, <2>13, <3>2, ProcType DEF MarkFailed, TypeOK
  <2>14. CASE AttemptFailed(c)
    BY <2>1, <2>2, <2>7, <2>14, ProcType, RequeueType DEF AttemptFailed, TypeOK
  <2> QED
    BY <1>6, <2>4, <2>5, <2>6, <2>9, <2>10, <2>11, <2>12, <2>13, <2>14, <2>15 DEF TaskStep
<1>7. ASSUME NEW c \in Procs, Fault(c)
      PROVE  TypeOK'
  <2>1. {"idle", "markFailed"} \subseteq Steps
    BY DEF Steps, WorkerSteps
  <2>2. CASE Crash(c)
    BY <2>1, <2>2, ProcType DEF Crash, TypeOK
  <2>3. CASE TaskAborts(c)
    BY <2>1, <2>3, ProcType, RequeueType DEF TaskAborts, At, TypeOK
  <2>4. CASE TaskRecovers(c)
    <3>1. proc[c].step # "idle"
      BY <2>4 DEF TaskRecovers, Connecting
    <3> QED
      BY <2>1, <2>4, <3>1, ProcType DEF TaskRecovers, TypeOK
  <2> QED
    BY <1>7, <2>2, <2>3, <2>4 DEF Fault
<1>8. CASE UNCHANGED vars
  BY <1>8 DEF vars, TypeOK
<1> QED
  BY <1>1, <1>2, <1>3, <1>4, <1>5, <1>6, <1>7, <1>8 DEF Next, Step

\* TypeOK is an invariant: every row, message and process record stays in its type.
THEOREM TypeCorrect == Spec => []TypeOK
<1>1. Init => TypeOK
  BY BoundsAreNat DEF Init, TypeOK, Gates, PlanRows, PlanStatus, Executions, ExecStatus,
                      Attempts, Processes, Idle, NoExecution, Steps
<1> QED
  BY <1>1, TypeStep, PTL DEF Spec

-----------------------------------------------------------------------------
(* Frame lemmas: which actions write a variable *)

\* Only a reviewer or a compliance check changes the gate.
LEMMA ReviewWritesGate == [Next]_vars => UNCHANGED gate \/ ReviewStep
BY DEF Next, vars, Arrival, CreatePlan, BeginSchedule, BeginPublish, Send, Receive, Take,
  Step, ScheduleStep, ScheduleCheckApproval, ScheduleCheckCompliance, ScheduleWrite,
  PublishStep, PublishCheckPlan, PublishCheckApproval, PublishCheckCompliance, Upload,
  LogQuota, Finish, TaskStep, Claim, InsertExecution, InsertConflict, StartAttempt,
  MarkSucceeded, Refresh, AttemptSucceeded, Emit, MarkFailed, AttemptFailed,
  Fault, Crash, TaskAborts, TaskRecovers

\* Which steps write a row of publishing_plans.
LEMMA PlanWriters ==
  [Next]_vars => \/ UNCHANGED plans
                 \/ \E p \in Plans, complete \in BOOLEAN : CreatePlan(p, complete)
                 \/ \E c \in Procs : ScheduleWrite(c) \/ Upload(c) \/ Finish(c)
BY DEF Next, vars, rows, ReviewStep, Arrival, BeginSchedule, BeginPublish, Send, Receive, Take,
  Step, ScheduleStep, ScheduleCheckApproval, ScheduleCheckCompliance,
  PublishStep, PublishCheckPlan, PublishCheckApproval, PublishCheckCompliance,
  LogQuota, TaskStep, Claim, InsertExecution, InsertConflict, StartAttempt,
  MarkSucceeded, Refresh, AttemptSucceeded, Emit, MarkFailed, AttemptFailed,
  Fault, Crash, TaskAborts, TaskRecovers

\* Only the quota wrapper writes the ledger.
LEMMA QuotaWriters == [Next]_vars => UNCHANGED quota \/ \E c \in Procs : LogQuota(c)
BY DEF Next, vars, rows, ReviewStep, Arrival, CreatePlan, BeginSchedule, BeginPublish, Send,
  Receive, Take, Step, ScheduleStep, ScheduleCheckApproval, ScheduleCheckCompliance,
  ScheduleWrite, PublishStep, PublishCheckPlan, PublishCheckApproval, PublishCheckCompliance,
  Upload, Finish, TaskStep, Claim, InsertExecution, InsertConflict, StartAttempt,
  MarkSucceeded, Refresh, AttemptSucceeded, Emit, MarkFailed, AttemptFailed,
  Fault, Crash, TaskAborts, TaskRecovers

\* Which steps write executions, attempts and events.
LEMMA TaskWriters ==
  [Next]_vars =>
    \/ UNCHANGED tasks
    \/ \E w \in Procs : InsertExecution(w) \/ StartAttempt(w) \/ MarkSucceeded(w)
                        \/ AttemptSucceeded(w) \/ Emit(w) \/ MarkFailed(w) \/ AttemptFailed(w)
BY DEF Next, vars, tasks, ReviewStep, Arrival, CreatePlan, BeginSchedule, BeginPublish, Send,
  Receive, Take, Step, ScheduleStep, ScheduleCheckApproval, ScheduleCheckCompliance,
  ScheduleWrite, PublishStep, PublishCheckPlan, PublishCheckApproval, PublishCheckCompliance,
  Upload, LogQuota, Finish, TaskStep, Claim, InsertConflict, Refresh,
  Fault, Crash, TaskAborts, TaskRecovers

\* Which steps change the messages waiting in the broker.
LEMMA MessageWriters ==
  [Next]_vars =>
    \/ UNCHANGED messages
    \/ \E p \in Plans : Send(p)
    \/ \E w \in Workers, p \in Plans, t \in 0..MaxRetries : Take(w, p, t)
    \/ \E w \in Procs : ~At(w, "idle") /\ Requeue(w) /\ UNCHANGED plans
BY DEF Next, vars, rows, broker, ReviewStep, Arrival, CreatePlan, BeginSchedule, BeginPublish,
  Receive, Step, ScheduleStep, ScheduleCheckApproval, ScheduleCheckCompliance,
  ScheduleWrite, PublishStep, PublishCheckPlan, PublishCheckApproval, PublishCheckCompliance,
  Upload, LogQuota, Finish, TaskStep, Claim, InsertExecution, InsertConflict, StartAttempt,
  MarkSucceeded, Refresh, AttemptSucceeded, Emit, MarkFailed, AttemptFailed,
  Fault, Crash, TaskAborts, TaskRecovers, At

-----------------------------------------------------------------------------
(* What no step takes back *)

Monotone ==
  /\ gate.onRecord => gate'.onRecord
  /\ \A p \in Plans :
       /\ plans[p].status # "absent" => plans'[p].status # "absent"
       /\ plans[p].status # "absent" => plans'[p].complete = plans[p].complete
       /\ plans[p].status \in Lifecycle!Released => plans'[p].status \in Lifecycle!Released
       /\ plans[p].status # "absent" /\ plans[p].video => plans'[p].video
       /\ quota'[p] >= quota[p]
       /\ attempts[p] \subseteq attempts'[p]

\* What no step takes back: see Monotone.
LEMMA MonotoneStep == TypeOK /\ TypeOK' /\ [Next]_vars => Monotone
<1> SUFFICES ASSUME TypeOK, TypeOK', [Next]_vars
             PROVE  Monotone
  OBVIOUS
<1>0. \A c \in Procs : ~At(c, "idle") => PlanOf(c) \in Plans
  BY DEF TypeOK, At, PlanOf
<1>1. gate.onRecord => gate'.onRecord
  BY ReviewWritesGate DEF ReviewStep
<1>2. ASSUME NEW p \in Plans, plans[p].status # "absent"
      PROVE  /\ plans'[p].status # "absent"
             /\ plans'[p].complete = plans[p].complete
             /\ plans[p].status \in Lifecycle!Released => plans'[p].status \in Lifecycle!Released
             /\ plans[p].video => plans'[p].video
  <2>1. CASE UNCHANGED plans
    BY <1>2, <2>1
  <2>2. CASE \E q \in Plans, complete \in BOOLEAN : CreatePlan(q, complete)
    BY <1>2, <2>2 DEF CreatePlan, TypeOK
  <2>3. ASSUME NEW c \in Procs, ScheduleWrite(c) \/ Upload(c) \/ Finish(c)
        PROVE  /\ plans'[p].status # "absent"
               /\ plans'[p].complete = plans[p].complete
               /\ plans[p].status \in Lifecycle!Released => plans'[p].status \in Lifecycle!Released
               /\ plans[p].video => plans'[p].video
    <3>1. CASE ScheduleWrite(c)
      BY <1>2, <3>1 DEF ScheduleWrite, TypeOK, PlanRows, Lifecycle!Released
    <3>2. CASE Upload(c)
      BY <1>2, <3>2 DEF Upload, TypeOK, PlanRows, Lifecycle!Released
    <3>3. CASE Finish(c)
      BY <1>2, <3>3 DEF Finish, TypeOK, PlanRows, Lifecycle!Released
    <3> QED
      BY <2>3, <3>1, <3>2, <3>3
  <2> QED
    BY <2>1, <2>2, <2>3, PlanWriters
<1>3. ASSUME NEW p \in Plans
      PROVE  quota'[p] >= quota[p]
  <2>1. quota[p] \in Nat
    BY DEF TypeOK
  <2>2. CASE UNCHANGED quota
    BY <2>1, <2>2
  <2>3. ASSUME NEW c \in Procs, LogQuota(c)
        PROVE  quota'[p] >= quota[p]
    BY <2>1, <2>3 DEF LogQuota, TypeOK
  <2> QED
    BY <2>2, <2>3, QuotaWriters
<1>4. ASSUME NEW p \in Plans
      PROVE  attempts[p] \subseteq attempts'[p]
  <2>1. CASE UNCHANGED attempts
    BY <2>1
  <2>2. ASSUME NEW w \in Procs, NEW status, AddAttempt(w, status)
        PROVE  attempts[p] \subseteq attempts'[p]
    BY <2>2 DEF AddAttempt, TypeOK
  <2> QED
    BY <2>1, <2>2, TaskWriters DEF tasks, InsertExecution, StartAttempt, MarkSucceeded,
       Refresh, AttemptSucceeded, Emit, MarkFailed, AttemptFailed
<1>5. ASSUME NEW p \in Plans, plans[p].status \in Lifecycle!Released
      PROVE  plans[p].status # "absent"
  BY <1>5 DEF Lifecycle!Released
<1> QED
  BY <1>1, <1>2, <1>3, <1>4, <1>5 DEF Monotone

-----------------------------------------------------------------------------
(* The parts of the inductive invariant *)

\* The latest decision stays one of the log.
LEMMA GateInvStep == GateInv /\ [Next]_vars => GateInv'
BY ReviewWritesGate DEF GateInv, ReviewStep

\* A process is idle, was just given a plan that exists, or keeps its plan.
LEMMA PlanKept ==
  TypeOK /\ [Next]_vars =>
    \A c \in Procs :
      \/ proc'[c].step = "idle"
      \/ proc[c].step # "idle" /\ proc'[c].plan = proc[c].plan
      \/ plans[proc'[c].plan].status # "absent" /\ proc'[c].plan \in Plans
      \/ \E t \in 0..MaxRetries : proc'[c].plan \in Plans /\ messages[<<proc'[c].plan, t>>] > 0
<1> SUFFICES ASSUME TypeOK, [Next]_vars, NEW c \in Procs
             PROVE  \/ proc'[c].step = "idle"
                    \/ proc[c].step # "idle" /\ proc'[c].plan = proc[c].plan
                    \/ plans[proc'[c].plan].status # "absent" /\ proc'[c].plan \in Plans
                    \/ \E t \in 0..MaxRetries :
                         proc'[c].plan \in Plans /\ messages[<<proc'[c].plan, t>>] > 0
  OBVIOUS
<1>0. Idle.step = "idle"
  BY DEF Idle
<1>1. CASE UNCHANGED proc
  BY <1>1
<1>2. ASSUME NEW d \in Procs, Release(d)
      PROVE  proc'[c].step = "idle" \/ proc'[c] = proc[c]
  BY <1>0, <1>2 DEF Release, TypeOK
<1>3. ASSUME NEW d \in Procs, NEW s \in Steps, Goto(d, s), ~At(d, "idle")
      PROVE  proc'[c] = proc[c] \/ (proc[c].step # "idle" /\ proc'[c].plan = proc[c].plan)
  BY <1>3 DEF Goto, At, TypeOK, Processes
<1>4. ASSUME NEW d \in Procs, Step(d) \/ Fault(d)
      PROVE  \/ UNCHANGED proc \/ Release(d)
             \/ \E s \in Steps : Goto(d, s) /\ ~At(d, "idle")
             \/ ~At(d, "idle") /\ \E s, n : Load(d, s, n)
  BY <1>4 DEF Step, Fault, ScheduleStep, ScheduleCheckApproval, ScheduleCheckCompliance,
    ScheduleWrite, PublishStep, PublishCheckPlan, PublishCheckApproval, PublishCheckCompliance,
    Upload, LogQuota, Finish, TaskStep, Claim, InsertExecution, InsertConflict, StartAttempt,
    MarkSucceeded, Refresh, AttemptSucceeded, Emit, MarkFailed, AttemptFailed, Crash, TaskAborts,
    TaskRecovers, Connecting, Refuse, At, Steps, ScheduleSteps, WorkerSteps, TrySteps,
    PublishSteps
<1>5. ASSUME NEW d \in Procs, ~At(d, "idle"), NEW s, NEW n, Load(d, s, n)
      PROVE  proc'[c] = proc[c] \/ (proc[c].step # "idle" /\ proc'[c].plan = proc[c].plan)
  BY <1>5 DEF Load, At, TypeOK, Processes
<1>6. ASSUME NEW d \in Procs, NEW s, NEW p \in Plans, NEW t, Enter(d, s, p, t)
      PROVE  proc'[c] = proc[c] \/ proc'[c].plan = p
  BY <1>6 DEF Enter, TypeOK
<1>7. CASE Arrival
  BY <1>1, <1>6, <1>7 DEF Arrival, CreatePlan, BeginSchedule, BeginPublish, Send, Procs
<1>8. CASE \E w \in Workers : Receive(w)
  BY <1>6, <1>8 DEF Receive, Take, Procs
<1> QED
  BY <1>1, <1>2, <1>3, <1>4, <1>5, <1>7, <1>8 DEF Next, ReviewStep, vars

\* Plans in use go on existing.
LEMMA RowsInvStep ==
  TypeOK /\ TypeOK' /\ Monotone /\ RowsInv /\ [Next]_vars => RowsInv'
<1> SUFFICES ASSUME TypeOK, TypeOK', Monotone, RowsInv, [Next]_vars
             PROVE  RowsInv'
  OBVIOUS
<1>1. ASSUME NEW p \in Plans, plans'[p].video
      PROVE  plans'[p].status # "absent"
  <2>1. CASE UNCHANGED plans
    BY <1>1, <2>1 DEF RowsInv
  <2>2. CASE \E q \in Plans, complete \in BOOLEAN : CreatePlan(q, complete)
    BY <1>1, <2>2 DEF CreatePlan, TypeOK, RowsInv
  <2>3. ASSUME NEW c \in Procs, ScheduleWrite(c) \/ Upload(c) \/ Finish(c)
        PROVE  plans'[p].status # "absent"
    <3>1. CASE ScheduleWrite(c)
      BY <1>1, <3>1 DEF ScheduleWrite, TypeOK, PlanRows, RowsInv
    <3>2. CASE Upload(c)
      BY <1>1, <3>2 DEF Upload, TypeOK, PlanRows, RowsInv
    <3>3. CASE Finish(c)
      BY <1>1, <3>3 DEF Finish, TypeOK, PlanRows, RowsInv
    <3> QED
      BY <2>3, <3>1, <3>2, <3>3
  <2> QED
    BY <2>1, <2>2, <2>3, PlanWriters
<1>2. ASSUME NEW p \in Plans, NEW t \in 0..MaxRetries, messages'[<<p, t>>] > 0
      PROVE  plans'[p].status # "absent"
  <2>1. messages[<<p, t>>] \in Nat
    BY DEF TypeOK
  <2>2. SUFFICES plans[p].status # "absent"
    BY DEF Monotone
  <2>3. CASE UNCHANGED messages
    BY <1>2, <2>3 DEF RowsInv
  <2>4. ASSUME NEW q \in Plans, Send(q)
        PROVE  plans[p].status # "absent"
    <3>1. CASE p = q
      BY <2>4, <3>1 DEF Send
    <3>2. CASE p # q
      <4>1. messages'[<<p, t>>] = messages[<<p, t>>]
        BY <2>4, <3>2 DEF Send, TypeOK
      <4> QED
        BY <1>2, <4>1 DEF RowsInv
    <3> QED
      BY <3>1, <3>2
  <2>5. ASSUME NEW w \in Workers, NEW q \in Plans, NEW u \in 0..MaxRetries, Take(w, q, u)
        PROVE  plans[p].status # "absent"
    <3>1. messages[<<p, t>>] > 0
      BY <1>2, <2>1, <2>5 DEF Take, TypeOK
    <3> QED
      BY <3>1 DEF RowsInv
  <2>6. ASSUME NEW w \in Procs, ~At(w, "idle"), Requeue(w)
        PROVE  plans[p].status # "absent"
    <3>1. CASE p = PlanOf(w)
      BY <2>6, <3>1 DEF RowsInv, At
    <3>2. CASE p # PlanOf(w)
      <4>1. messages'[<<p, t>>] = messages[<<p, t>>]
        BY <2>6, <3>2 DEF Requeue, TypeOK
      <4> QED
        BY <1>2, <4>1 DEF RowsInv
    <3> QED
      BY <3>1, <3>2
  <2> QED
    BY <2>3, <2>4, <2>5, <2>6, MessageWriters
<1>3. ASSUME NEW c \in Procs, proc'[c].step # "idle"
      PROVE  plans'[proc'[c].plan].status # "absent"
  <2>1. proc'[c].plan \in Plans
    BY <1>3 DEF TypeOK
  <2>2. plans[proc'[c].plan].status # "absent"
    BY <1>3, PlanKept DEF RowsInv, PlanOf
  <2> QED
    BY <2>1, <2>2 DEF Monotone
<1> QED
  BY <1>1, <1>2, <1>3 DEF RowsInv, PlanOf

\* What a process has established stays true while it does not move.
LEMMA ProcessInvStable ==
  ASSUME TypeOK, TypeOK', Monotone, RowsInv, NEW c \in Procs, ProcessInv(c),
         proc'[c] = proc[c]
  PROVE  ProcessInv(c)'
<1>1. CASE proc[c].step = "idle"
  BY <1>1 DEF ProcessInv, PastApproval, PastCheckPlan, PastPackage, PastPublish, InAttempt,
     TrySteps, PublishSteps, TaskOnly
<1>2. CASE proc[c].step # "idle"
  <2>1. PlanOf(c) \in Plans /\ plans[PlanOf(c)].status # "absent" /\ PlanOf(c)' = PlanOf(c)
    BY <1>2 DEF TypeOK, RowsInv, PlanOf
  <2>2. quota[PlanOf(c)] \in Nat /\ quota'[PlanOf(c)] \in Nat
    BY <2>1 DEF TypeOK
  <2> QED
    BY <2>1, <2>2 DEF ProcessInv, Monotone
<1> QED
  BY <1>1, <1>2

\* A process that moves to step s with the same plan and the same retry count.
LEMMA ProcessInvMove ==
  ASSUME TypeOK, TypeOK', Monotone, RowsInv, NEW c \in Procs, ProcessInv(c), ~At(c, "idle"),
         NEW s \in Steps, Goto(c, s),
         s \in TaskOnly => proc[c].step \in TaskOnly \/ c \in Workers,
         s \in PastApproval => proc[c].step \in PastApproval \/ gate.onRecord,
         s \in PastCheckPlan => \/ proc[c].step \in PastCheckPlan
                                \/ plans[PlanOf(c)].status \in Lifecycle!Released,
         s \in PastPackage => proc[c].step \in PastPackage \/ plans[PlanOf(c)].complete,
         s = "finish" => quota'[PlanOf(c)] >= 1,
         s \in PastPublish => proc[c].step \in PastPublish \/ plans'[PlanOf(c)].video,
         c \in Workers /\ s \in InAttempt =>
           \/ proc[c].step \in InAttempt
           \/ [no |-> proc[c].attempt, status |-> "running"] \in attempts'[PlanOf(c)]
  PROVE  ProcessInv(c)'
<1>1. /\ PlanOf(c) \in Plans /\ plans[PlanOf(c)].status # "absent"
  BY DEF TypeOK, RowsInv, PlanOf, At
<1>2. /\ proc'[c].step = s
      /\ PlanOf(c)' = PlanOf(c)
      /\ proc'[c].attempt = proc[c].attempt
  BY DEF Goto, TypeOK, Processes, PlanOf
<1> QED
  BY <1>1, <1>2 DEF ProcessInv, Monotone

\* An idle process has nothing to establish.
LEMMA ProcessInvIdle ==
  ASSUME NEW c \in Procs, proc'[c].step \in {"idle", "claim", "checkPlan", "scheduleApproval"},
         c \in Workers => proc'[c].step # "checkPlan",
         proc'[c].step = "claim" => c \in Workers
  PROVE  ProcessInv(c)'
BY DEF ProcessInv, TaskOnly, PastApproval, PastCheckPlan, PastPackage, PastPublish, InAttempt,
   TrySteps, PublishSteps

\* The step c itself takes keeps what its next step needs.
LEMMA ProcessInvOwnStep ==
  ASSUME TypeOK, TypeOK', Monotone, GateInv, RowsInv, NEW c \in Procs, ProcessInv(c),
         Step(c) \/ Fault(c)
  PROVE  ProcessInv(c)'
<1> USE DEF rows, tasks, broker
<1>1. ~At(c, "idle")
  BY DEF Step, Fault, ScheduleStep, ScheduleCheckApproval, ScheduleCheckCompliance,
    ScheduleWrite, PublishStep, PublishCheckPlan, PublishCheckApproval, PublishCheckCompliance,
    Upload, LogQuota, Finish, TaskStep, Claim, InsertExecution, InsertConflict, StartAttempt,
    MarkSucceeded, Refresh, AttemptSucceeded, Emit, MarkFailed, AttemptFailed, Crash, TaskAborts,
    TaskRecovers, At, Connecting
<1>2. PlanOf(c) \in Plans /\ plans[PlanOf(c)].status # "absent"
  BY <1>1 DEF TypeOK, RowsInv, PlanOf, At
<1>3. CASE Release(c)
  <2>1. proc'[c].step = "idle"
    BY <1>3 DEF Release, TypeOK, Idle
  <2> QED
    BY <2>1, ProcessInvIdle
<1>4. CASE Goto(c, "markFailed")
  <2>1. "markFailed" \in Steps
    BY DEF Steps, WorkerSteps
  <2>2. SUFFICES c \in Workers /\ proc[c].step \in InAttempt
    BY <1>1, <1>4, <2>1, ProcessInvMove DEF TaskOnly, PastApproval, PastCheckPlan,
       PastPackage, PastPublish
  <2>3. proc'[c].step = "markFailed"
    BY <1>4 DEF Goto, TypeOK, Processes
  <2>4. ASSUME NEW t, Goto(c, t)
        PROVE  t = "markFailed"
    BY <2>3, <2>4 DEF Goto, TypeOK, Processes
  <2>5. ~Release(c)
    BY <2>3 DEF Release, Idle, TypeOK
  <2>6. ~ScheduleStep(c)
    BY <2>4, <2>5 DEF ScheduleStep, ScheduleCheckApproval, ScheduleCheckCompliance, ScheduleWrite
  <2>7. ~TaskStep(c)
    <3>1. ASSUME NEW s, NEW n, Load(c, s, n)
          PROVE  s = "markFailed"
      BY <2>3, <3>1 DEF Load, TypeOK, Processes
    <3> QED
      BY <2>4, <2>5, <3>1 DEF TaskStep, Claim, InsertExecution, InsertConflict, StartAttempt,
         MarkSucceeded, Refresh, AttemptSucceeded, Emit, MarkFailed, AttemptFailed
  <2>8. CASE PublishStep(c)
    <3>1. c \in Workers
      BY <2>4, <2>5, <2>8 DEF PublishStep, PublishCheckPlan, PublishCheckApproval,
         PublishCheckCompliance, Upload, LogQuota, Finish, Refuse
    <3>2. proc[c].step \in PublishSteps
      BY <2>8 DEF PublishStep, PublishCheckPlan, PublishCheckApproval,
         PublishCheckCompliance, Upload, LogQuota, Finish, At, PublishSteps
    <3> QED
      BY <3>1, <3>2 DEF InAttempt, TrySteps
  <2>9. CASE Fault(c)
    BY <2>5, <2>9 DEF Fault, Crash, TaskAborts, TaskRecovers, Connecting, InAttempt,
       TrySteps, PublishSteps
  <2> QED
    BY <2>6, <2>7, <2>8, <2>9 DEF Step
<1>5. CASE ScheduleStep(c)
  <2>1. {"scheduleCompliance", "scheduleWrite"} \subseteq Steps
    BY DEF Steps, ScheduleSteps
  <2>2. CASE ScheduleCheckApproval(c) /\ ~Release(c)
    <3>1. Goto(c, "scheduleCompliance") /\ gate.onRecord
      BY <2>2 DEF ScheduleCheckApproval, GateInv
    <3> QED
      BY <1>1, <2>1, <3>1, ProcessInvMove DEF TaskOnly, PastCheckPlan, PastPackage,
         PastPublish, InAttempt, TrySteps, PublishSteps
  <2>3. CASE ScheduleCheckCompliance(c) /\ ~Release(c)
    <3>1. Goto(c, "scheduleWrite") /\ plans[PlanOf(c)].complete /\ proc[c].step \in PastApproval
      BY <2>3 DEF ScheduleCheckCompliance, At, PastApproval
    <3> QED
      BY <1>1, <2>1, <3>1, ProcessInvMove DEF TaskOnly, PastCheckPlan, PastPublish,
         InAttempt, TrySteps, PublishSteps
  <2> QED
    BY <1>3, <1>5, <2>2, <2>3 DEF ScheduleStep, ScheduleWrite
<1>6. CASE PublishStep(c) /\ ~Release(c) /\ ~Goto(c, "markFailed")
  <2>1. {"checkApproval", "checkCompliance", "upload", "logQuota", "finish",
         "markSucceeded"} \subseteq Steps
    BY DEF Steps, WorkerSteps, TrySteps, PublishSteps
  <2>2. CASE PublishCheckPlan(c)
    <3>1. /\ Goto(c, "checkApproval") /\ proc[c].step \in InAttempt
          /\ plans[PlanOf(c)].status \in Lifecycle!Released
      BY <1>6, <2>2 DEF PublishCheckPlan, Refuse, At, InAttempt, TrySteps, PublishSteps,
                        Lifecycle!Released
    <3> QED
      BY <1>1, <2>1, <3>1, ProcessInvMove DEF TaskOnly, PastApproval, PastCheckPlan,
         PastPackage, PastPublish
  <2>3. CASE PublishCheckApproval(c)
    <3>1. /\ Goto(c, "checkCompliance") /\ proc[c].step \in InAttempt /\ gate.onRecord
          /\ proc[c].step \in PastCheckPlan
      BY <1>6, <2>3 DEF PublishCheckApproval, Refuse, At, InAttempt, TrySteps, PublishSteps,
                        PastCheckPlan, GateInv
    <3> QED
      BY <1>1, <2>1, <3>1, ProcessInvMove DEF TaskOnly, PastCheckPlan, PastPackage, PastPublish
  <2>4. CASE PublishCheckCompliance(c)
    <3>1. /\ Goto(c, "upload") /\ proc[c].step \in InAttempt
          /\ proc[c].step \in PastApproval /\ plans[PlanOf(c)].complete
          /\ proc[c].step \in PastCheckPlan
      BY <1>6, <2>4 DEF PublishCheckCompliance, Refuse, At, InAttempt, TrySteps, PublishSteps,
                        PastCheckPlan, PastApproval
    <3> QED
      BY <1>1, <2>1, <3>1, ProcessInvMove DEF TaskOnly, PastCheckPlan, PastPublish
  <2>5. CASE Upload(c)
    <3>1. /\ Goto(c, "logQuota") /\ proc[c].step \in InAttempt
          /\ proc[c].step \in PastApproval /\ proc[c].step \in PastPackage
          /\ proc[c].step \in PastCheckPlan
      BY <2>5 DEF Upload, At, InAttempt, TrySteps, PublishSteps, PastApproval,
                  PastCheckPlan, PastPackage
    <3> QED
      BY <1>1, <2>1, <3>1, ProcessInvMove DEF TaskOnly, PastCheckPlan, PastPublish
  <2>6. CASE LogQuota(c)
    <3>1. /\ Goto(c, "finish") /\ proc[c].step \in InAttempt
          /\ proc[c].step \in PastApproval /\ proc[c].step \in PastPackage
          /\ proc[c].step \in PastCheckPlan
      BY <2>6 DEF LogQuota, At, InAttempt, TrySteps, PublishSteps, PastApproval,
                  PastCheckPlan, PastPackage
    <3>2. quota'[PlanOf(c)] >= 1
      BY <1>2, <2>6 DEF LogQuota, TypeOK
    <3> QED
      BY <1>1, <2>1, <3>1, <3>2, ProcessInvMove DEF TaskOnly, PastCheckPlan, PastPublish
  <2>7. CASE Finish(c)
    <3>1. Goto(c, "markSucceeded") /\ proc[c].step \in InAttempt /\ c \in Workers
      BY <1>6, <2>7 DEF Finish, At, InAttempt, TrySteps, PublishSteps
    <3>2. plans'[PlanOf(c)].video
      BY <1>2, <2>7 DEF Finish, TypeOK, PlanRows
    <3> QED
      BY <1>1, <2>1, <3>1, <3>2, ProcessInvMove DEF TaskOnly, PastApproval, PastCheckPlan,
         PastPackage
  <2> QED
    BY <1>6, <2>2, <2>3, <2>4, <2>5, <2>6, <2>7 DEF PublishStep
<1>7. CASE TaskStep(c) /\ ~Release(c)
  <2>0. c \in Workers
    BY <1>7 DEF TaskStep, Claim, InsertExecution, InsertConflict, StartAttempt, MarkSucceeded,
       Refresh, AttemptSucceeded, Emit, MarkFailed, AttemptFailed, At, ProcessInv, TaskOnly
  <2>1. {"claim", "insert", "startAttempt", "checkPlan", "refresh", "attemptSucceeded",
         "emit", "attemptFailed"} \subseteq Steps
    BY DEF Steps, WorkerSteps, TrySteps, PublishSteps
  <2>2. ASSUME Goto(c, "insert") \/ Goto(c, "claim")
        PROVE  ProcessInv(c)'
    BY <1>1, <2>0, <2>1, <2>2, ProcessInvMove DEF PastApproval, PastCheckPlan, PastPackage,
       PastPublish, InAttempt, TrySteps, PublishSteps
  <2>3. CASE Claim(c)
    <3>1. CASE Load(c, "startAttempt", executions[PlanOf(c)].retries + 1)
      <4>1. proc'[c].step = "startAttempt"
        BY <3>1 DEF Load, TypeOK, Processes
      <4> QED
        BY <2>0, <4>1 DEF ProcessInv, PastApproval, PastCheckPlan, PastPackage,
           PastPublish, InAttempt, TrySteps, PublishSteps
    <3> QED
      BY <1>7, <2>2, <2>3, <3>1 DEF Claim
  <2>4. CASE InsertExecution(c)
    BY <2>2, <2>4 DEF InsertExecution
  <2>5. CASE StartAttempt(c)
    <3>1. Goto(c, "checkPlan")
      BY <2>5 DEF StartAttempt
    <3>2. [no |-> proc[c].attempt, status |-> "running"] \in attempts'[PlanOf(c)]
      BY <1>2, <2>5 DEF StartAttempt, AddAttempt, TypeOK
    <3> QED
      BY <1>1, <2>0, <2>1, <3>1, <3>2, ProcessInvMove DEF PastApproval, PastCheckPlan,
         PastPackage, PastPublish
  <2>6. CASE MarkSucceeded(c)
    <3>1. /\ Goto(c, "refresh") /\ proc[c].step \in InAttempt
          /\ proc[c].step \in PastPublish
      BY <2>6 DEF MarkSucceeded, At, InAttempt, TrySteps, PublishSteps, PastPublish
    <3> QED
      BY <1>1, <2>0, <2>1, <3>1, ProcessInvMove DEF PastApproval, PastCheckPlan, PastPackage
  <2>9. CASE Refresh(c)
    <3>1. /\ proc'[c].step = "attemptSucceeded"
          /\ PlanOf(c)' = PlanOf(c) /\ proc'[c].attempt = proc[c].attempt
          /\ UNCHANGED <<plans, attempts>>
      BY <2>9 DEF Refresh, Load, TypeOK, Processes, PlanOf
    <3>2. proc[c].step \in PastPublish /\ proc[c].step \in InAttempt
      BY <2>9 DEF Refresh, At, PastPublish, InAttempt, TrySteps
    <3> QED
      BY <2>0, <3>1, <3>2 DEF ProcessInv, PastApproval, PastCheckPlan, PastPackage
  <2>7. CASE AttemptSucceeded(c)
    <3>1. /\ Goto(c, "emit") /\ proc[c].step \in InAttempt
          /\ proc[c].step \in PastPublish
      BY <2>7 DEF Refresh, AttemptSucceeded, At, InAttempt, TrySteps, PublishSteps, PastPublish
    <3> QED
      BY <1>1, <2>0, <2>1, <3>1, ProcessInvMove DEF PastApproval, PastCheckPlan, PastPackage
  <2>8. CASE MarkFailed(c)
    <3>1. Goto(c, "attemptFailed") /\ proc[c].step \in InAttempt
      BY <2>8 DEF MarkFailed, At, InAttempt
    <3> QED
      BY <1>1, <2>0, <2>1, <3>1, ProcessInvMove DEF PastApproval, PastCheckPlan,
         PastPackage, PastPublish
  <2> QED
    BY <1>7, <2>3, <2>4, <2>5, <2>6, <2>7, <2>8, <2>9
       DEF TaskStep, InsertConflict, Emit, AttemptFailed
<1> QED
  BY <1>3, <1>4, <1>5, <1>6, <1>7 DEF Step, Fault, Crash, TaskAborts, TaskRecovers

\* In one step at most one process moves.
LEMMA OneMoves ==
  TypeOK /\ [Next]_vars =>
    \A c \in Procs :
      \/ proc'[c] = proc[c]
      \/ Step(c) \/ Fault(c)
      \/ /\ At(c, "idle")
         /\ proc'[c].step \in {"claim", "checkPlan", "scheduleApproval"}
         /\ proc'[c].step = "checkPlan" => c \in Publishers
         /\ proc'[c].step = "claim" => c \in Workers
<1> SUFFICES ASSUME TypeOK, [Next]_vars, NEW c \in Procs
             PROVE  \/ proc'[c] = proc[c]
                    \/ Step(c) \/ Fault(c)
                    \/ /\ At(c, "idle")
                       /\ proc'[c].step \in {"claim", "checkPlan", "scheduleApproval"}
                       /\ proc'[c].step = "checkPlan" => c \in Publishers
                       /\ proc'[c].step = "claim" => c \in Workers
  OBVIOUS
<1>1. CASE UNCHANGED proc
  BY <1>1
<1>2. ASSUME NEW d \in Procs, d # c, NEW s, Goto(d, s) \/ Release(d)
      PROVE  proc'[c] = proc[c]
  BY <1>2 DEF Goto, Release, TypeOK
<1>3. ASSUME NEW d \in Procs, d # c, Step(d) \/ Fault(d)
      PROVE  proc'[c] = proc[c]
  <2>1. \/ UNCHANGED proc \/ Release(d) \/ \E s \in Steps : Goto(d, s)
        \/ \E s, n : Load(d, s, n)
    BY <1>3 DEF Step, Fault, ScheduleStep, ScheduleCheckApproval, ScheduleCheckCompliance,
      ScheduleWrite, PublishStep, PublishCheckPlan, PublishCheckApproval,
      PublishCheckCompliance, Upload, LogQuota, Finish, TaskStep, Claim, InsertExecution,
      InsertConflict, StartAttempt, MarkSucceeded, Refresh, AttemptSucceeded, Emit, MarkFailed,
      AttemptFailed, Crash, TaskAborts, TaskRecovers, Refuse, Steps, ScheduleSteps,
      WorkerSteps, TrySteps, PublishSteps
  <2>2. CASE \E s, n : Load(d, s, n)
    BY <1>3, <2>2 DEF Load, TypeOK
  <2> QED
    BY <1>1, <1>2, <1>3, <2>1, <2>2
<1>4. ASSUME NEW d \in Procs, NEW s, NEW p, NEW t, Enter(d, s, p, t)
      PROVE  proc'[c] = proc[c] \/ (d = c /\ At(c, "idle") /\ proc'[c].step = s)
  BY <1>4 DEF Enter, TypeOK
<1>5. CASE Arrival
  <2>1. ASSUME NEW p \in Plans, NEW d \in Schedulers, BeginSchedule(d, p)
        PROVE  \/ proc'[c] = proc[c]
               \/ At(c, "idle") /\ proc'[c].step = "scheduleApproval"
    BY <1>4, <2>1 DEF BeginSchedule, Procs
  <2>2. ASSUME NEW p \in Plans, NEW d \in Publishers, BeginPublish(d, p)
        PROVE  \/ proc'[c] = proc[c]
               \/ c \in Publishers /\ At(c, "idle") /\ proc'[c].step = "checkPlan"
    BY <1>4, <2>2 DEF BeginPublish, Procs
  <2> QED
    BY <1>1, <1>5, <2>1, <2>2, ProcsDisjoint DEF Arrival, CreatePlan, Send
<1>6. ASSUME NEW w \in Workers, Receive(w)
      PROVE  \/ proc'[c] = proc[c]
             \/ c \in Workers /\ At(c, "idle") /\ proc'[c].step = "claim"
  BY <1>4, <1>6 DEF Receive, Take, Procs
<1> QED
  BY <1>1, <1>3, <1>5, <1>6 DEF Next, ReviewStep, vars

\* Every step preserves what every process has established.
LEMMA ProcessesInvStep ==
  TypeOK /\ TypeOK' /\ Monotone /\ GateInv /\ RowsInv /\ ProcessesInv /\ [Next]_vars
    => ProcessesInv'
<1> SUFFICES ASSUME TypeOK, TypeOK', Monotone, GateInv, RowsInv, ProcessesInv, [Next]_vars,
                    NEW c \in Procs
             PROVE  ProcessInv(c)'
  BY DEF ProcessesInv
<1>1. ProcessInv(c)
  BY DEF ProcessesInv
<1>2. CASE proc'[c] = proc[c]
  BY <1>1, <1>2, ProcessInvStable
<1>3. CASE Step(c) \/ Fault(c)
  BY <1>1, <1>3, ProcessInvOwnStep
<1>4. CASE /\ proc'[c].step \in {"claim", "checkPlan", "scheduleApproval"}
           /\ c \in Workers => proc'[c].step # "checkPlan"
           /\ proc'[c].step = "claim" => c \in Workers
  BY <1>4, ProcessInvIdle
<1> QED
  BY <1>2, <1>3, <1>4, OneMoves, ProcsDisjoint

-----------------------------------------------------------------------------
(* The safety invariants *)

\* Every step preserves the gate of the plans that left "draft".
LEMMA GatePassedStep ==
  TypeOK /\ Monotone /\ ProcessesInv /\ GatePassed /\ [Next]_vars => GatePassed'
<1> SUFFICES ASSUME TypeOK, Monotone, ProcessesInv, GatePassed, [Next]_vars, NEW p \in Plans,
                    plans'[p].status \in {"scheduled", "uploading", "published"}
             PROVE  plans'[p].complete /\ gate'.onRecord
  BY DEF GatePassed
<1>1. CASE plans'[p] = plans[p]
  BY <1>1 DEF GatePassed, Monotone
<1>2. CASE \E q \in Plans, complete \in BOOLEAN : CreatePlan(q, complete)
  <2> PICK q \in Plans, complete \in BOOLEAN : CreatePlan(q, complete)
    BY <1>2
  <2>1. plans'[p] = plans[p] \/ plans'[p].status = "draft"
    BY DEF CreatePlan, TypeOK
  <2> QED
    BY <1>1, <2>1
<1>3. ASSUME NEW c \in Procs, ScheduleWrite(c) \/ Upload(c) \/ Finish(c)
      PROVE  plans'[p].complete /\ gate'.onRecord
  <2>1. gate.onRecord /\ plans[PlanOf(c)].complete
    BY <1>3 DEF ProcessesInv, ProcessInv, ScheduleWrite, Upload, Finish, At, PastApproval,
                PastPackage
  <2>2. PlanOf(c) \in Plans
    BY <1>3 DEF TypeOK, ScheduleWrite, Upload, Finish, At, PlanOf
  <2>3. plans'[p] = plans[p] \/ (p = PlanOf(c) /\ plans'[p].complete = plans[p].complete)
    <3>1. CASE ScheduleWrite(c)
      BY <2>2, <3>1 DEF ScheduleWrite, TypeOK, PlanRows
    <3>2. CASE Upload(c)
      BY <2>2, <3>2 DEF Upload, TypeOK, PlanRows
    <3>3. CASE Finish(c)
      BY <2>2, <3>3 DEF Finish, TypeOK, PlanRows
    <3> QED
      BY <1>3, <3>1, <3>2, <3>3
  <2> QED
    BY <1>1, <2>1, <2>3 DEF Monotone
<1> QED
  BY <1>1, <1>2, <1>3, PlanWriters

\* Every step preserves that the ledger precedes the publication.
LEMMA PublishedIsAccountedStep ==
  TypeOK /\ TypeOK' /\ Monotone /\ ProcessesInv /\ PublishedIsAccounted /\ [Next]_vars
    => PublishedIsAccounted'
<1> SUFFICES ASSUME TypeOK, TypeOK', Monotone, ProcessesInv, PublishedIsAccounted, [Next]_vars,
                    NEW p \in Plans
             PROVE  /\ plans'[p].status = "published" => plans'[p].video
                    /\ plans'[p].video => quota'[p] >= 1
  BY DEF PublishedIsAccounted
<1>0. quota[p] \in Nat /\ quota'[p] \in Nat /\ quota'[p] >= quota[p]
  BY DEF TypeOK, Monotone
<1>1. CASE plans'[p] = plans[p]
  BY <1>0, <1>1 DEF PublishedIsAccounted
<1>2. CASE \E q \in Plans, complete \in BOOLEAN : CreatePlan(q, complete)
  <2> PICK q \in Plans, complete \in BOOLEAN : CreatePlan(q, complete)
    BY <1>2
  <2>1. plans'[p] = plans[p] \/ (plans'[p].status = "draft" /\ ~plans'[p].video)
    BY DEF CreatePlan, TypeOK
  <2> QED
    BY <1>1, <2>1
<1>3. ASSUME NEW c \in Procs, ScheduleWrite(c) \/ Upload(c)
      PROVE  \/ plans'[p] = plans[p]
             \/ plans'[p].status # "published" /\ plans'[p].video = plans[p].video
  <2>1. CASE ScheduleWrite(c)
    BY <2>1 DEF ScheduleWrite, TypeOK, PlanRows
  <2>2. CASE Upload(c)
    BY <2>2 DEF Upload, TypeOK, PlanRows
  <2> QED
    BY <1>3, <2>1, <2>2
<1>4. ASSUME NEW c \in Procs, Finish(c)
      PROVE  plans'[p] = plans[p] \/ (plans'[p].video /\ quota'[p] >= 1)
  <2>1. quota[PlanOf(c)] >= 1
    BY <1>4 DEF ProcessesInv, ProcessInv, Finish, At
  <2>2. plans'[p] = plans[p] \/ (p = PlanOf(c) /\ plans'[p].video)
    BY <1>4 DEF Finish, TypeOK, PlanRows
  <2> QED
    BY <1>0, <2>1, <2>2
<1> QED
  BY <1>0, <1>1, <1>2, <1>3, <1>4, PlanWriters DEF PublishedIsAccounted

\* A "succeeded" execution, attempt or event stays about a published plan, and an
\* attempt keeps its "running" row: the task writes them in that order.
LEMMA SuccessIsRealStep ==
  TypeOK /\ Monotone /\ RowsInv /\ ProcessesInv /\ SuccessIsReal /\ [Next]_vars
    => SuccessIsReal'
<1> SUFFICES ASSUME TypeOK, Monotone, RowsInv, ProcessesInv, SuccessIsReal, [Next]_vars,
                    NEW p \in Plans
             PROVE  /\ executions'[p].status = "succeeded" \/ events'[p] > 0 => plans'[p].video
                    /\ \A a \in attempts'[p] : a.status = "succeeded" => plans'[p].video
                    /\ \A a \in attempts'[p] :
                         [no |-> a.no, status |-> "running"] \in attempts'[p]
  BY DEF SuccessIsReal
<1> DEFINE Old == /\ executions'[p].status = "succeeded" => executions[p].status = "succeeded"
                  /\ events'[p] > 0 => events[p] > 0
                  /\ attempts'[p] = attempts[p]
           NewExecution(s) == executions'[p].status \in {s, executions[p].status}
                              /\ events'[p] = events[p] /\ attempts'[p] = attempts[p]
           NewAttempt(w, s) ==
             /\ executions'[p] = executions[p] /\ events'[p] = events[p]
             /\ attempts'[p] = attempts[p] \cup {[no |-> proc[w].attempt, status |-> s]}
<1>0. plans[p].video => plans'[p].video
  BY DEF RowsInv, Monotone
<1>1. CASE Old
  BY <1>0, <1>1 DEF SuccessIsReal
<1>2. ASSUME NEW s, NewExecution(s), s = "succeeded" => plans[p].video
      PROVE  /\ executions'[p].status = "succeeded" \/ events'[p] > 0 => plans'[p].video
             /\ \A a \in attempts'[p] : a.status = "succeeded" => plans'[p].video
             /\ \A a \in attempts'[p] : [no |-> a.no, status |-> "running"] \in attempts'[p]
  BY <1>0, <1>2 DEF SuccessIsReal
<1>3. ASSUME NEW w, NEW s, NewAttempt(w, s), s = "succeeded" => plans[p].video,
             s # "running" => [no |-> proc[w].attempt, status |-> "running"] \in attempts[p]
      PROVE  /\ executions'[p].status = "succeeded" \/ events'[p] > 0 => plans'[p].video
             /\ \A a \in attempts'[p] : a.status = "succeeded" => plans'[p].video
             /\ \A a \in attempts'[p] : [no |-> a.no, status |-> "running"] \in attempts'[p]
  BY <1>0, <1>3 DEF SuccessIsReal
<1>4. CASE UNCHANGED tasks
  BY <1>1, <1>4 DEF tasks
<1>5. ASSUME NEW w \in Procs,
             \/ InsertExecution(w) \/ StartAttempt(w) \/ MarkSucceeded(w)
             \/ AttemptSucceeded(w) \/ Emit(w) \/ MarkFailed(w) \/ AttemptFailed(w)
      PROVE  /\ executions'[p].status = "succeeded" \/ events'[p] > 0 => plans'[p].video
             /\ \A a \in attempts'[p] : a.status = "succeeded" => plans'[p].video
             /\ \A a \in attempts'[p] : [no |-> a.no, status |-> "running"] \in attempts'[p]
  <2>1. PlanOf(w) \in Plans /\ ProcessInv(w)
    BY <1>5 DEF ProcessesInv, InsertExecution, StartAttempt, MarkSucceeded, AttemptSucceeded,
       Emit, MarkFailed, AttemptFailed, At, TypeOK, PlanOf
  <2>2. CASE p # PlanOf(w)
    <3>1. Old
      BY <1>5, <2>2 DEF InsertExecution, StartAttempt, MarkSucceeded, AttemptSucceeded, Emit,
         MarkFailed, AttemptFailed, AddAttempt, MarkExecution, TypeOK
    <3> QED
      BY <1>1, <3>1
  <2>3. CASE InsertExecution(w) /\ p = PlanOf(w)
    <3>1. NewExecution("pending")
      BY <2>3 DEF InsertExecution, TypeOK
    <3> QED
      BY <1>2, <3>1
  <2>4. CASE StartAttempt(w) /\ p = PlanOf(w)
    <3>1. NewAttempt(w, "running")
      BY <2>4 DEF StartAttempt, AddAttempt, TypeOK
    <3> QED
      BY <1>3, <3>1
  <2>5. CASE MarkSucceeded(w) /\ p = PlanOf(w)
    <3>1. NewExecution("succeeded")
      BY <2>5 DEF MarkSucceeded, MarkExecution, TypeOK
    <3>2. plans[p].video
      BY <2>1, <2>5 DEF MarkSucceeded, At, ProcessInv, PastPublish
    <3> QED
      BY <1>2, <3>1, <3>2
  <2>6. CASE AttemptSucceeded(w) /\ p = PlanOf(w)
    <3>1. NewAttempt(w, "succeeded")
      BY <2>6 DEF Refresh, AttemptSucceeded, AddAttempt, TypeOK
    <3>2. plans[p].video /\ [no |-> proc[w].attempt, status |-> "running"] \in attempts[p]
      BY <2>1, <2>6 DEF Refresh, AttemptSucceeded, At, ProcessInv, PastPublish, TaskOnly, InAttempt,
                        TrySteps
    <3> QED
      BY <1>3, <3>1, <3>2
  <2>7. CASE Emit(w) /\ p = PlanOf(w)
    <3>1. plans[p].video
      BY <2>1, <2>7 DEF Emit, At, ProcessInv, PastPublish
    <3> QED
      BY <1>0, <2>7, <3>1 DEF Emit, SuccessIsReal
  <2>8. CASE MarkFailed(w) /\ p = PlanOf(w)
    <3>1. NewExecution("failed")
      BY <2>8 DEF MarkFailed, MarkExecution, TypeOK
    <3> QED
      BY <1>2, <3>1
  <2>9. CASE AttemptFailed(w) /\ p = PlanOf(w)
    <3>1. NewAttempt(w, "failed")
      BY <2>9 DEF AttemptFailed, AddAttempt, TypeOK
    <3>2. [no |-> proc[w].attempt, status |-> "running"] \in attempts[p]
      BY <2>1, <2>9 DEF AttemptFailed, At, ProcessInv, TaskOnly, InAttempt
    <3>3. "failed" # "succeeded"
      OBVIOUS
    <3> HIDE DEF NewAttempt
    <3> QED
      BY <1>3, <3>1, <3>2, <3>3
  <2> QED
    BY <1>5, <2>2, <2>3, <2>4, <2>5, <2>6, <2>7, <2>8, <2>9
<1> QED
  BY <1>4, <1>5, TaskWriters

\* Only a fault counts a fault.
LEMMA FaultWriters ==
  [Next]_vars => UNCHANGED faults \/ (faults' = faults + 1 /\ \E c \in Procs : Fault(c))
BY DEF Next, vars, rows, tasks, ReviewStep, Arrival, CreatePlan, BeginSchedule, BeginPublish,
  Send, Receive, Take, Step, ScheduleStep, ScheduleCheckApproval, ScheduleCheckCompliance,
  ScheduleWrite, PublishStep, PublishCheckPlan, PublishCheckApproval, PublishCheckCompliance,
  Upload, LogQuota, Finish, TaskStep, Claim, InsertExecution, InsertConflict, StartAttempt,
  MarkSucceeded, Refresh, AttemptSucceeded, Emit, MarkFailed, AttemptFailed,
  Fault, Crash, TaskAborts, TaskRecovers

\* While no fault happened, the process that took the upload on either still has it to
\* finish or finishes it in this step.
LEMMA UploadingIsOwnedStep ==
  TypeOK /\ UploadingIsOwned /\ [Next]_vars => UploadingIsOwned'
<1> SUFFICES ASSUME TypeOK, UploadingIsOwned, [Next]_vars, faults' = 0, NEW p \in Plans,
                    plans'[p].status = "uploading"
             PROVE  \E c \in Procs : Owns(c, p)'
  BY DEF UploadingIsOwned
<1>1. faults = 0 /\ UNCHANGED faults
  BY FaultWriters DEF TypeOK
<1>2. ASSUME NEW c \in Procs
      PROVE  ~Fault(c)
  BY <1>1 DEF Fault, Crash, TaskAborts, TaskRecovers
<1>3. ASSUME NEW c \in Procs, Upload(c), PlanOf(c) = p
      PROVE  Owns(c, p)'
  BY <1>3 DEF Upload, Goto, Owns, PlanOf, TypeOK, Processes
<1>4. ASSUME plans[p].status = "uploading"
      PROVE  \E c \in Procs : Owns(c, p)'
  <2>1. PICK c \in Procs : Owns(c, p)
    BY <1>1, <1>4 DEF UploadingIsOwned
  <2>2. CASE proc'[c] = proc[c]
    BY <2>1, <2>2 DEF Owns
  <2>3. CASE Step(c)
    <3>1. LogQuota(c) \/ Finish(c)
      BY <2>1, <2>3 DEF Step, ScheduleStep, ScheduleCheckApproval, ScheduleCheckCompliance,
         ScheduleWrite, PublishStep, PublishCheckPlan, PublishCheckApproval,
         PublishCheckCompliance, Upload, TaskStep, Claim, InsertExecution, InsertConflict,
         StartAttempt, MarkSucceeded, Refresh, AttemptSucceeded, Emit, MarkFailed, AttemptFailed,
         At, Owns
    <3>2. ~Finish(c)
      BY <2>1 DEF Finish, Owns, PlanOf, TypeOK, PlanRows
    <3> QED
      BY <2>1, <3>1, <3>2 DEF LogQuota, Goto, Owns, TypeOK, Processes
  <2>4. ~At(c, "idle")
    BY <2>1 DEF Owns, At
  <2> QED
    BY <1>2, <2>2, <2>3, <2>4, OneMoves
<1>5. CASE plans'[p] = plans[p]
  BY <1>4, <1>5
<1>6. CASE \E q \in Plans, complete \in BOOLEAN : CreatePlan(q, complete)
  BY <1>5, <1>6 DEF CreatePlan, TypeOK
<1>7. ASSUME NEW c \in Procs, ScheduleWrite(c) \/ Upload(c) \/ Finish(c)
      PROVE  \E d \in Procs : Owns(d, p)'
  <2>1. PlanOf(c) # p => plans'[p] = plans[p]
    BY <1>7 DEF ScheduleWrite, Upload, Finish, TypeOK
  <2>2. PlanOf(c) = p => Upload(c)
    BY <1>7 DEF ScheduleWrite, Finish, TypeOK, PlanRows
  <2> QED
    BY <1>3, <1>5, <2>1, <2>2
<1> QED
  BY <1>5, <1>6, <1>7, PlanWriters

-----------------------------------------------------------------------------
(* The theorems *)

\* The inductive invariant holds initially and every step keeps it.
LEMMA Inductive ==
  /\ Init => IInv
  /\ TypeOK /\ TypeOK' /\ IInv /\ [Next]_vars => IInv'
<1>1. Init => IInv
  <2> SUFFICES ASSUME Init
               PROVE  IInv
    OBVIOUS
  <2>1. GateInv /\ GatePassed /\ PublishedIsAccounted /\ SuccessIsReal /\ UploadingIsOwned
    BY DEF Init, NoExecution, GateInv, GatePassed, PublishedIsAccounted, SuccessIsReal,
           UploadingIsOwned
  <2>2. \A c \in Procs : proc[c].step = "idle"
    <3>1. Idle.step = "idle"
      BY DEF Idle
    <3> QED
      BY <3>1 DEF Init
  <2>3. RowsInv
    BY <2>2 DEF Init, RowsInv
  <2>4. ProcessesInv
    BY <2>2 DEF ProcessesInv, ProcessInv, TaskOnly, PastApproval, PastCheckPlan, PastPackage,
       PastPublish, InAttempt, TrySteps, PublishSteps
  <2> QED
    BY <2>1, <2>3, <2>4 DEF IInv
<1>2. TypeOK /\ TypeOK' /\ IInv /\ [Next]_vars => IInv'
  BY MonotoneStep, GateInvStep, RowsInvStep, ProcessesInvStep, GatePassedStep,
     PublishedIsAccountedStep, SuccessIsRealStep, UploadingIsOwnedStep DEF IInv
<1> QED
  BY <1>1, <1>2

\* The strengthened invariant holds in every reachable state of publishing.
THEOREM Invariant == Spec => []IInv
<1>1. Spec => []TypeOK
  BY TypeCorrect
<1>2. Init => IInv
  BY Inductive
<1>3. TypeOK /\ TypeOK' /\ IInv /\ [Next]_vars => IInv'
  BY Inductive
<1> QED
  BY <1>1, <1>2, <1>3, PTL DEF Spec

\* Whatever requests, workers, faults and reviews interleave, a plan that left "draft"
\* has a complete package and an approval in the decision log.
THEOREM GatePassedAlways == Spec => []GatePassed
<1>1. IInv => GatePassed
  BY DEF IInv
<1> QED
  BY <1>1, Invariant, PTL

\* A published plan has a video, and a plan with a video has a quota ledger entry.
THEOREM PublishedIsAccountedAlways == Spec => []PublishedIsAccounted
<1>1. IInv => PublishedIsAccounted
  BY DEF IInv
<1> QED
  BY <1>1, Invariant, PTL

\* What the task records as succeeded was published, and follows a running attempt.
THEOREM SuccessIsRealAlways == Spec => []SuccessIsReal
<1>1. IInv => SuccessIsReal
  BY DEF IInv
<1> QED
  BY <1>1, Invariant, PTL

\* Without faults, an uploading plan is in the hands of a process.
THEOREM UploadingIsOwnedAlways == Spec => []UploadingIsOwned
<1>1. IInv => UploadingIsOwned
  BY DEF IInv
<1> QED
  BY <1>1, Invariant, PTL

-----------------------------------------------------------------------------
(* Publishing implements PlanLifecycle *)

\* Six kinds of step are visible in the life of a plan; the others leave it alone.
LEMMA VisibleSteps ==
  [Next]_vars =>
    \/ UNCHANGED <<gate, plans, quota>>
    \/ ReviewStep
    \/ \E p \in Plans, complete \in BOOLEAN : CreatePlan(p, complete)
    \/ \E c \in Procs : ScheduleWrite(c) \/ Upload(c) \/ LogQuota(c) \/ Finish(c)
BY DEF Next, vars, rows, Arrival, BeginSchedule, BeginPublish, Send, Receive, Take, Step,
  ScheduleStep, ScheduleCheckApproval, ScheduleCheckCompliance, PublishStep, PublishCheckPlan,
  PublishCheckApproval, PublishCheckCompliance, TaskStep, Claim, InsertExecution,
  InsertConflict, StartAttempt, MarkSucceeded, Refresh, AttemptSucceeded, Emit, MarkFailed,
  AttemptFailed, Fault, Crash, TaskAborts, TaskRecovers

\* Every step of Publishing is a step of PlanLifecycle or leaves its variables alone.
LEMMA LifecycleStep ==
  TypeOK /\ IInv /\ [Next]_vars => [Lifecycle!Next]_(Lifecycle!vars)
<1> SUFFICES ASSUME TypeOK, IInv, [Next]_vars
             PROVE  Lifecycle!Next \/ UNCHANGED Lifecycle!vars
  OBVIOUS
<1>1. ASSUME NEW c \in Procs, ~At(c, "idle")
      PROVE  /\ PlanOf(c) \in Plans
             /\ plans[PlanOf(c)].status # "absent"
             /\ ProcessInv(c)
  BY <1>1 DEF IInv, RowsInv, ProcessesInv, TypeOK, At, PlanOf
<1>2. CASE UNCHANGED <<gate, plans, quota>>
  BY <1>2 DEF Lifecycle!vars
<1>3. CASE ReviewStep
  <2>1. gate.onRecord \in BOOLEAN /\ gate'.onRecord \in BOOLEAN
    BY <1>3 DEF ReviewStep, TypeOK, Gates
  <2>2. CASE gate'.onRecord
    BY <1>3, <2>1, <2>2 DEF ReviewStep, rows, Lifecycle!Next, Lifecycle!Approve
  <2>3. CASE ~gate'.onRecord
    BY <1>3, <2>1, <2>3 DEF ReviewStep, rows, Lifecycle!vars
  <2> QED
    BY <2>2, <2>3
<1>4. ASSUME NEW p \in Plans, NEW complete \in BOOLEAN, CreatePlan(p, complete)
      PROVE  Lifecycle!Next
  BY <1>4 DEF CreatePlan, Lifecycle!Next, Lifecycle!Create
<1>5. ASSUME NEW c \in Procs, ScheduleWrite(c)
      PROVE  Lifecycle!Next
  <2>1. PlanOf(c) \in Plans /\ plans[PlanOf(c)].status # "absent" /\ ProcessInv(c)
    BY <1>1, <1>5 DEF ScheduleWrite, At
  <2>2. gate.onRecord /\ plans[PlanOf(c)].complete
    BY <1>5, <2>1 DEF ScheduleWrite, At, ProcessInv, PastApproval, PastPackage
  <2>3. Lifecycle!Schedule(PlanOf(c))
    BY <1>5, <2>1, <2>2 DEF ScheduleWrite, Lifecycle!Schedule
  <2> QED
    BY <2>1, <2>3 DEF Lifecycle!Next
<1>6. ASSUME NEW c \in Procs, Upload(c) \/ LogQuota(c) \/ Finish(c)
      PROVE  Lifecycle!Next
  <2>1. PlanOf(c) \in Plans /\ ProcessInv(c)
    BY <1>1, <1>6 DEF Upload, LogQuota, Finish, At
  <2>2. plans[PlanOf(c)].status \in Lifecycle!Released
    BY <1>6, <2>1 DEF Upload, LogQuota, Finish, At, ProcessInv, PastCheckPlan
  <2>3. CASE Upload(c)
    <3>1. Lifecycle!Upload(PlanOf(c))
      BY <2>2, <2>3 DEF Upload, Lifecycle!Upload
    <3> QED
      BY <2>1, <3>1 DEF Lifecycle!Next
  <2>4. CASE LogQuota(c)
    <3>1. Lifecycle!Charge(PlanOf(c))
      BY <2>2, <2>4 DEF LogQuota, Lifecycle!Charge
    <3> QED
      BY <2>1, <3>1 DEF Lifecycle!Next
  <2>5. CASE Finish(c)
    <3>1. quota[PlanOf(c)] >= 1
      BY <2>1, <2>5 DEF Finish, At, ProcessInv
    <3>2. Lifecycle!Publish(PlanOf(c))
      BY <2>2, <2>5, <3>1 DEF Finish, Lifecycle!Publish
    <3> QED
      BY <2>1, <3>2 DEF Lifecycle!Next
  <2> QED
    BY <1>6, <2>3, <2>4, <2>5
<1> QED
  BY <1>2, <1>3, <1>4, <1>5, <1>6, VisibleSteps

\* Publishing implements PlanLifecycle: a plan is created, scheduled, uploaded, charged
\* and published in no other order, whatever the handlers and workers interleave.
THEOREM Refinement == Spec => LifecycleSpec
<1>1. Init => Lifecycle!Init
  BY DEF Init, Lifecycle!Init
<1>2. TypeOK /\ IInv /\ [Next]_vars => [Lifecycle!Next]_(Lifecycle!vars)
  BY LifecycleStep
<1> QED
  BY <1>1, <1>2, TypeCorrect, Invariant, PTL DEF Spec, LifecycleSpec, Lifecycle!Spec

-----------------------------------------------------------------------------
(* One worker alone: the history of MCPublishing *)

\* The history only watches: every step with it is a step without it.
LEMMA HistoryWatches ==
  [MCNext]_mcvars => /\ [Next]_vars
                     /\ Recorded \/ UNCHANGED mcvars
BY DEF MCNext, mcvars, Next

\* Every process keeps to the code of its kind, and the history knows who publishes.
LEMMA RolesInvStep == TypeOK /\ RolesInv /\ [MCNext]_mcvars => RolesInv'
<1> SUFFICES ASSUME TypeOK, RolesInv, [MCNext]_mcvars
             PROVE  RolesInv'
  OBVIOUS
<1>1. [Next]_vars /\ (Recorded \/ UNCHANGED mcvars)
  BY HistoryWatches
<1>2. ASSUME NEW c \in Publishers, proc'[c].step # "idle"
      PROVE  requested'
  <2>1. CASE Recorded
    <3>1. Busy(Publishers)' # {}
      BY <1>2 DEF Busy
    <3> QED
      BY <2>1, <3>1, Zenon DEF Recorded
  <2>2. CASE UNCHANGED mcvars
    <3>1. proc' = proc /\ requested' = requested
      BY <2>2 DEF mcvars, vars
    <3> QED
      BY <1>2, <3>1 DEF RolesInv, At
  <2> QED
    BY <1>1, <2>1, <2>2
<1>3. ASSUME NEW c \in Workers, proc'[c].step # "idle"
      PROVE  c \in received'
  BY <1>1, <1>3 DEF Recorded, Busy, mcvars, vars, RolesInv, At
<1>4. ASSUME NEW c \in Schedulers
      PROVE  proc'[c].step \in ScheduleSteps \cup {"idle"}
  <2>1. c \in Procs /\ c \notin Publishers /\ c \notin Workers
    BY ProcsDisjoint DEF Procs
  <2>2. proc[c].step \in ScheduleSteps \cup {"idle"}
    BY DEF RolesInv
  <2>3. CASE proc'[c] = proc[c]
    BY <2>2, <2>3
  <2>4. CASE ScheduleStep(c)
    BY <2>1, <2>4 DEF ScheduleStep, ScheduleCheckApproval, ScheduleCheckCompliance,
       ScheduleWrite, Goto, Release, Idle, TypeOK, Processes, ScheduleSteps
  <2>5. CASE Fault(c)
    BY <2>1, <2>5 DEF Fault, Crash, TaskAborts, TaskRecovers, Release, Idle, TypeOK
  <2>6. ~PublishStep(c) /\ ~TaskStep(c)
    BY <2>2 DEF PublishStep, PublishCheckPlan, PublishCheckApproval, PublishCheckCompliance,
       Upload, LogQuota, Finish, TaskStep, Claim, InsertExecution, InsertConflict, StartAttempt,
       MarkSucceeded, Refresh, AttemptSucceeded, Emit, MarkFailed, AttemptFailed, At,
       ScheduleSteps
  <2> QED
    BY <1>1, <2>1, <2>3, <2>4, <2>5, <2>6, OneMoves DEF Step, ScheduleSteps
<1> QED
  BY <1>2, <1>3, <1>4 DEF RolesInv, At

\* A step that neither uploads nor marks keeps the count: the worker stays where it is or
\* leaves the upload, unrecorded only when a fault is counted.
LEMMA UploadsStable ==
  ASSUME TypeOK, NEW w \in Workers, UploadsInv(w),
         UNCHANGED <<quota, executions>>, UNCHANGED faults \/ faults' = faults + 1,
         \/ proc'[w] = proc[w]
         \/ /\ proc'[w].step \notin BeforeSuccess \cup {"markFailed"}
            /\ proc[w].step \in {"finish", "markSucceeded"} => faults' = faults + 1
  PROVE  UploadsInv(w)'
<1>1. faults \in Nat /\ \A p \in Plans : quota[p] \in Nat
  BY DEF TypeOK
<1>2. "finish" \in BeforeSuccess /\ "markSucceeded" \in BeforeSuccess
  BY DEF BeforeSuccess, PublishSteps
<1>3. w \in Procs
  BY DEF Procs
<1>4. CASE proc'[w] = proc[w]
  <2>1. proc[w].step = "markFailed" => proc[w].plan \in Plans
    BY <1>3 DEF TypeOK
  <2> QED
    BY <1>1, <1>4, <2>1 DEF UploadsInv, Recording, PlanOf, At
<1>5. CASE /\ proc'[w].step \notin BeforeSuccess \cup {"markFailed"}
           /\ proc[w].step \in {"finish", "markSucceeded"} => faults' = faults + 1
  BY <1>1, <1>2, <1>5 DEF UploadsInv, Recording, PlanOf, At
<1> QED
  BY <1>4, <1>5

\* What a worker that moves to step s takes along.
LEMMA WorkerMoves ==
  ASSUME TypeOK, NEW w \in Workers, NEW s, Goto(w, s)
  PROVE  /\ proc'[w].step = s
         /\ PlanOf(w)' = PlanOf(w)
         /\ proc'[w].row = proc[w].row
BY DEF Goto, TypeOK, Processes, PlanOf, Procs

\* A worker that goes on inside its attempt, up to the mark, keeps the count.
LEMMA UploadsAttempt ==
  ASSUME TypeOK, NEW w \in Workers, UploadsInv(w), NEW s \in BeforeSuccess, Goto(w, s),
         proc[w].step \in BeforeSuccess, UNCHANGED <<quota, executions, faults>>,
         s \in {"finish", "markSucceeded"} \/ proc[w].step \notin {"finish", "markSucceeded"}
  PROVE  UploadsInv(w)'
<1>1. /\ proc'[w].step = s
      /\ PlanOf(w)' = PlanOf(w)
      /\ proc'[w].row = proc[w].row
  BY WorkerMoves
<1>2. "markFailed" \notin BeforeSuccess
  BY DEF BeforeSuccess, PublishSteps
<1> QED
  BY <1>1, <1>2 DEF UploadsInv, Recording, At

\* The except branch is reached before the upload, or through a fault.
LEMMA UploadsRefused ==
  ASSUME TypeOK, NEW w \in Workers, ~At(w, "idle"), UploadsInv(w), Goto(w, "markFailed"),
         UNCHANGED <<quota, executions>>,
         \/ faults' = faults + 1
         \/ /\ UNCHANGED faults
            /\ proc[w].step \in BeforeSuccess \ {"finish", "markSucceeded"}
  PROVE  UploadsInv(w)'
<1>1. proc'[w].step = "markFailed" /\ PlanOf(w)' = PlanOf(w)
  BY WorkerMoves
<1>2. "markFailed" \notin BeforeSuccess
  BY DEF BeforeSuccess, PublishSteps
<1>3. faults \in Nat /\ \A p \in Plans : quota[p] \in Nat
  BY DEF TypeOK
<1>4. PlanOf(w) \in Plans
  BY DEF TypeOK, PlanOf, At, Procs
<1>5. quota[PlanOf(w)] <= faults'
  BY <1>3, <1>4 DEF UploadsInv, Recording
<1>6. \A p \in Plans : executions[p].status # "succeeded" => quota[p] <= faults'
  BY <1>3 DEF UploadsInv, Recording
<1>7. \A p \in Plans : quota[p] <= 1 + faults'
  BY <1>3 DEF UploadsInv
<1> QED
  BY <1>1, <1>2, <1>5, <1>6, <1>7 DEF UploadsInv, At

\* The upload itself: the execution is not marked yet, so the count has room for it.
LEMMA UploadsLogged ==
  ASSUME TypeOK, NEW w \in Workers, UploadsInv(w), LogQuota(w)
  PROVE  UploadsInv(w)'
<1>1. At(w, "logQuota") /\ Goto(w, "finish") /\ UNCHANGED <<executions, faults>>
  BY DEF LogQuota, tasks
<1>2. proc'[w].step = "finish" /\ PlanOf(w)' = PlanOf(w) /\ proc'[w].row = proc[w].row
  BY <1>1, WorkerMoves
<1>3. PlanOf(w) \in Plans
  BY <1>1 DEF TypeOK, PlanOf, At, Procs
<1>4. "logQuota" \in BeforeSuccess /\ "finish" \in BeforeSuccess
  BY DEF BeforeSuccess, PublishSteps
<1>5. "succeeded" \notin {executions[PlanOf(w)].status, proc[w].row.status}
  BY <1>1, <1>4 DEF UploadsInv, At
<1>6. faults \in Nat /\ \A p \in Plans : quota[p] \in Nat
  BY DEF TypeOK
<1>7. quota[PlanOf(w)] <= faults
  BY <1>1, <1>3, <1>5 DEF UploadsInv, Recording, At
<1>8. \A p \in Plans : quota'[p] = IF p = PlanOf(w) THEN quota[p] + 1 ELSE quota[p]
  BY <1>3 DEF LogQuota, TypeOK
<1>9. \A p \in Plans : quota'[p] <= 1 + faults
  BY <1>6, <1>7, <1>8 DEF UploadsInv
<1>10. \A p \in Plans :
         executions[p].status # "succeeded" /\ p # PlanOf(w) => quota'[p] <= faults
  BY <1>1, <1>8 DEF UploadsInv, Recording, At
<1> QED
  BY <1>1, <1>2, <1>5, <1>9, <1>10 DEF UploadsInv, Recording, At

\* A write of the execution: the count is kept when the row that is written says
\* "succeeded", or had an entry to spare.
LEMMA UploadsMarked ==
  ASSUME TypeOK, NEW w \in Workers, ~At(w, "idle"), UploadsInv(w), NEW new,
         executions' = [executions EXCEPT ![PlanOf(w)] = new],
         new.status = "succeeded" \/ quota[PlanOf(w)] <= faults,
         NEW s, Goto(w, s), s \notin BeforeSuccess \cup {"markFailed"},
         UNCHANGED <<quota, faults>>
  PROVE  UploadsInv(w)'
<1>1. proc'[w].step = s /\ PlanOf(w)' = PlanOf(w)
  BY WorkerMoves
<1>2. "finish" \in BeforeSuccess /\ "markSucceeded" \in BeforeSuccess
  BY DEF BeforeSuccess, PublishSteps
<1>3. PlanOf(w) \in Plans
  BY DEF TypeOK, PlanOf, At, Procs
<1>4. \A p \in Plans :
        executions'[p] = IF p = PlanOf(w) THEN new ELSE executions[p]
  BY <1>3 DEF TypeOK
<1>5. \A p \in Plans : executions'[p].status # "succeeded" => quota[p] <= faults
  BY <1>4 DEF UploadsInv, Recording
<1> QED
  BY <1>1, <1>2, <1>5 DEF UploadsInv, At

\* A step of the lone worker itself keeps the count.
LEMMA UploadsOwnStep ==
  ASSUME TypeOK, NEW w \in Workers, UploadsInv(w), Step(w) \/ Fault(w)
  PROVE  UploadsInv(w)'
<1> USE DEF rows, tasks, broker
<1> DEFINE Special == BeforeSuccess \cup {"markFailed"}
<1>1. w \in Procs
  BY DEF Procs
<1>2. Release(w) => proc'[w].step = "idle"
  BY <1>1 DEF Release, Idle, TypeOK
<1>3. "idle" \notin Special
  BY DEF BeforeSuccess, PublishSteps
<1>4. CASE Crash(w) \/ TaskAborts(w)
  BY <1>2, <1>3, <1>4, UploadsStable DEF Crash, TaskAborts
<1>5. CASE TaskRecovers(w)
  <2>1. ~At(w, "idle")
    BY <1>5 DEF TaskRecovers, Connecting, At
  <2> QED
    BY <1>5, <2>1, UploadsRefused DEF TaskRecovers
<1>6. CASE ScheduleStep(w)
  <2>1. ASSUME NEW s \in {"scheduleCompliance", "scheduleWrite"}, Goto(w, s)
        PROVE  proc'[w].step \notin Special
    BY <2>1, WorkerMoves DEF BeforeSuccess, PublishSteps
  <2>2. proc'[w].step \notin Special /\ proc[w].step \notin {"finish", "markSucceeded"}
    BY <1>2, <1>3, <1>6, <2>1 DEF ScheduleStep, ScheduleCheckApproval,
       ScheduleCheckCompliance, ScheduleWrite, At
  <2>3. UNCHANGED <<quota, executions, faults>>
    BY <1>6 DEF ScheduleStep, ScheduleCheckApproval, ScheduleCheckCompliance, ScheduleWrite
  <2> QED
    BY <2>2, <2>3, UploadsStable
<1>7. CASE PublishStep(w)
  <2>1. PublishSteps \cup {"markSucceeded"} \subseteq BeforeSuccess
    BY DEF BeforeSuccess
  <2>2. CASE PublishCheckPlan(w)
    BY <2>1, <2>2, UploadsAttempt, UploadsRefused
       DEF PublishCheckPlan, Refuse, PublishSteps, At
  <2>3. CASE PublishCheckApproval(w)
    BY <2>1, <2>3, UploadsAttempt, UploadsRefused
       DEF PublishCheckApproval, Refuse, PublishSteps, At
  <2>4. CASE PublishCheckCompliance(w)
    BY <2>1, <2>4, UploadsAttempt, UploadsRefused
       DEF PublishCheckCompliance, Refuse, PublishSteps, At
  <2>5. CASE Upload(w)
    BY <2>1, <2>5, UploadsAttempt DEF Upload, PublishSteps, At
  <2>6. CASE LogQuota(w)
    BY <2>6, UploadsLogged
  <2>7. CASE Finish(w)
    BY <2>1, <2>7, UploadsAttempt DEF Finish, PublishSteps, At
  <2> QED
    BY <1>7, <2>2, <2>3, <2>4, <2>5, <2>6, <2>7 DEF PublishStep
<1>8. CASE TaskStep(w)
  <2>1. ASSUME Release(w), UNCHANGED <<quota, executions, faults>>,
               proc[w].step \notin {"finish", "markSucceeded"}
        PROVE  UploadsInv(w)'
    BY <1>2, <1>3, <2>1, UploadsStable
  <2>2. ASSUME NEW s, NEW n, Load(w, s, n)
        PROVE  /\ proc'[w].step = s /\ PlanOf(w)' = PlanOf(w)
               /\ proc'[w].row = executions[PlanOf(w)]
    BY <1>1, <2>2 DEF Load, TypeOK, Processes, PlanOf
  <2>3. ~At(w, "idle") => PlanOf(w) \in Plans
    BY <1>1 DEF TypeOK, PlanOf, At
  <2>4. {"insert", "claim", "refresh", "attemptSucceeded", "emit", "attemptFailed"}
          \cap Special = {}
    BY DEF BeforeSuccess, PublishSteps
  <2>5. CASE Claim(w)
    <3>1. CASE executions[PlanOf(w)].status = "absent"
      BY <2>4, <2>5, <3>1, WorkerMoves, UploadsStable DEF Claim, At
    <3>2. CASE executions[PlanOf(w)].status = "succeeded"
      BY <2>1, <2>5, <3>2 DEF Claim, At
    <3>3. CASE executions[PlanOf(w)].status \notin {"absent", "succeeded"}
      <4>1. Load(w, "startAttempt", executions[PlanOf(w)].retries + 1)
        BY <2>5, <3>3 DEF Claim
      <4>2. /\ proc'[w].step = "startAttempt" /\ PlanOf(w)' = PlanOf(w)
            /\ proc'[w].row = executions[PlanOf(w)]
        BY <2>2, <4>1
      <4> QED
        BY <2>5, <3>3, <4>2 DEF Claim, UploadsInv, Recording, At
    <3> QED
      BY <3>1, <3>2, <3>3
  <2>6. CASE InsertExecution(w)
    <3>1. quota[PlanOf(w)] <= faults
      BY <2>3, <2>6 DEF InsertExecution, UploadsInv, Recording, At
    <3> QED
      BY <2>4, <2>6, <3>1, UploadsMarked DEF InsertExecution, At
  <2>7. CASE InsertConflict(w)
    BY <2>1, <2>7 DEF InsertConflict, At
  <2>8. CASE StartAttempt(w)
    BY <2>8, UploadsAttempt DEF StartAttempt, BeforeSuccess, PublishSteps, At
  <2>9. CASE MarkSucceeded(w)
    <3>1. proc[w].row.status # "succeeded"
      BY <2>9 DEF MarkSucceeded, UploadsInv, BeforeSuccess, At
    <3>2. PICK r : executions' = [executions EXCEPT
                    ![PlanOf(w)] = [status |-> "succeeded", retries |-> r]]
      BY <2>9, <3>1 DEF MarkSucceeded, MarkExecution
    <3> QED
      BY <2>4, <2>9, <3>2, UploadsMarked DEF MarkSucceeded, At
  <2>10. CASE Refresh(w)
    BY <2>2, <2>4, <2>10, UploadsStable DEF Refresh, At
  <2>11. CASE AttemptSucceeded(w)
    BY <2>4, <2>11, WorkerMoves, UploadsStable DEF AttemptSucceeded, At
  <2>12. CASE Emit(w)
    BY <2>1, <2>12 DEF Emit, At
  <2>13. CASE MarkFailed(w)
    <3>1. quota[PlanOf(w)] <= faults
      BY <2>13 DEF MarkFailed, UploadsInv
    <3>2. PICK new : executions' = [executions EXCEPT ![PlanOf(w)] = new]
      BY <2>13 DEF MarkFailed, MarkExecution
    <3> QED
      BY <2>4, <2>13, <3>1, <3>2, UploadsMarked DEF MarkFailed, At
  <2>14. CASE AttemptFailed(w)
    BY <2>1, <2>14 DEF AttemptFailed, At
  <2> QED
    BY <1>8, <2>5, <2>6, <2>7, <2>8, <2>9, <2>10, <2>11, <2>12, <2>13, <2>14 DEF TaskStep
<1> QED
  BY <1>4, <1>5, <1>6, <1>7, <1>8 DEF Step, Fault

\* Beside the lone worker only the API schedules, which neither uploads nor marks.
LEMMA OthersSchedule ==
  ASSUME TypeOK, RolesInv, NEW w \in Workers, Alone(w), NEW c \in Procs, c # w,
         Step(c) \/ Fault(c)
  PROVE  UNCHANGED <<quota, executions>> /\ (UNCHANGED faults \/ faults' = faults + 1)
<1> USE DEF rows, tasks, broker
<1>1. CASE Fault(c)
  BY <1>1 DEF Fault, Crash, TaskAborts, TaskRecovers
<1>2. CASE Step(c)
  <2>1. ~At(c, "idle")
    BY <1>2 DEF Step, ScheduleStep, ScheduleCheckApproval, ScheduleCheckCompliance,
      ScheduleWrite, PublishStep, PublishCheckPlan, PublishCheckApproval,
      PublishCheckCompliance, Upload, LogQuota, Finish, TaskStep, Claim, InsertExecution,
      InsertConflict, StartAttempt, MarkSucceeded, Refresh, AttemptSucceeded, Emit,
      MarkFailed, AttemptFailed, At
  <2>2. c \notin Publishers
    BY <2>1, Zenon DEF RolesInv, Alone
  <2>3. c \notin Workers
    BY <2>1 DEF RolesInv, Alone
  <2>4. proc[c].step \in ScheduleSteps \cup {"idle"}
    BY <2>2, <2>3 DEF RolesInv, Procs
  <2>5. ~PublishStep(c) /\ ~TaskStep(c)
    BY <2>4 DEF PublishStep, PublishCheckPlan, PublishCheckApproval, PublishCheckCompliance,
       Upload, LogQuota, Finish, TaskStep, Claim, InsertExecution, InsertConflict, StartAttempt,
       MarkSucceeded, Refresh, AttemptSucceeded, Emit, MarkFailed, AttemptFailed, At,
       ScheduleSteps
  <2>6. ScheduleStep(c)
    BY <1>2, <2>5 DEF Step
  <2> QED
    BY <2>6 DEF ScheduleStep, ScheduleCheckApproval, ScheduleCheckCompliance, ScheduleWrite
<1> QED
  BY <1>1, <1>2

\* Every step keeps the count of the worker that is still alone after it.
LEMMA AloneInvStep == TypeOK /\ AloneInv /\ [MCNext]_mcvars => AloneInv'
<1> SUFFICES ASSUME TypeOK, AloneInv, [MCNext]_mcvars
             PROVE  AloneInv'
  OBVIOUS
<1>1. RolesInv'
  BY RolesInvStep DEF AloneInv
<1>2. [Next]_vars /\ (Recorded \/ UNCHANGED mcvars)
  BY HistoryWatches
<1>3. ASSUME NEW w \in Workers, Alone(w)'
      PROVE  UploadsInv(w)'
  <2>1. Alone(w)
    <3>1. received \subseteq received'
      BY <1>2 DEF Recorded, mcvars
    <3>2. requested => requested'
      BY <1>2, Zenon DEF Recorded, mcvars
    <3> QED
      BY <1>3, <3>1, <3>2 DEF Alone
  <2>2. UploadsInv(w) /\ RolesInv
    BY <2>1 DEF AloneInv
  <2>3. w \in Procs /\ w \notin Publishers
    BY ProcsDisjoint DEF Procs
  <2>4. CASE Step(w) \/ Fault(w)
    BY <2>2, <2>4, UploadsOwnStep
  <2>5. CASE ~Step(w) /\ ~Fault(w)
    <3>1. \/ proc'[w] = proc[w]
          \/ At(w, "idle") /\ proc'[w].step \in {"claim", "scheduleApproval"}
      BY <1>2, <2>3, <2>5, OneMoves
    <3>2. {"claim", "scheduleApproval"} \cap (BeforeSuccess \cup {"markFailed"}) = {}
      BY DEF BeforeSuccess, PublishSteps
    <3>3. /\ UNCHANGED <<quota, executions>>
          /\ UNCHANGED faults \/ faults' = faults + 1
      <4>1. CASE \E c \in Procs : Step(c) \/ Fault(c)
        BY <2>1, <2>2, <2>5, <4>1, OthersSchedule
      <4>2. CASE ~\E c \in Procs : Step(c) \/ Fault(c)
        BY <1>2, <4>2 DEF Next, vars, rows, tasks, ReviewStep, Arrival, CreatePlan,
           BeginSchedule, BeginPublish, Send, Receive, Take
      <4> QED
        BY <4>1, <4>2
    <3> QED
      BY <2>2, <3>1, <3>2, <3>3, UploadsStable DEF At
  <2> QED
    BY <2>4, <2>5
<1> QED
  BY <1>1, <1>3 DEF AloneInv

\* With the history every behaviour is one of the specification.
LEMMA HistorySpec == MCSpec => Spec
<1>1. MCInit => Init
  BY DEF MCInit
<1>2. [MCNext]_mcvars => [Next]_vars
  BY HistoryWatches
<1> QED
  BY <1>1, <1>2, PTL DEF MCSpec, Spec

\* While one worker alone publishes, whatever plans, retries, reviews and schedules there
\* are, each upload of a plan beyond the first was paid for by a fault.
THEOREM UploadsNeedFaultsAlways == MCSpec => []UploadsNeedFaults
<1>1. MCInit => AloneInv
  BY DEF MCInit, Init, Idle, NoExecution, AloneInv, RolesInv, Alone, UploadsInv, Recording,
     BeforeSuccess, PublishSteps, PlanOf, At, Procs
<1>2. MCSpec => []TypeOK
  BY HistorySpec, TypeCorrect, PTL
<1>3. AloneInv => UploadsNeedFaults
  BY DEF AloneInv, UploadsInv, UploadsNeedFaults
<1> QED
  BY <1>1, <1>2, <1>3, AloneInvStep, PTL DEF MCSpec

=============================================================================
