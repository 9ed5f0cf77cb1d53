------------------------------ MODULE Publishing ------------------------------
(***************************************************************************)
(* The publishing plans of one video project: the API handlers that create, *)
(* schedule and publish a plan, and the Celery task that publishes it.      *)
(*                                                                         *)
(* Every repository call commits on its own (apps/backend/app/repositories/ *)
(* video_project_repository.py), so a handler is a sequence of steps, one   *)
(* for each call whose result or effect matters, and the steps of different *)
(* handlers and workers interleave.  The in-memory repository never         *)
(* suspends: its runs are the behaviours in which a handler's steps happen  *)
(* one after the other.                                                     *)
(***************************************************************************)
EXTENDS Naturals

CONSTANTS
  Plans,        \* publishing plans of the project
  Schedulers,   \* API requests in progress on .../schedule
  Publishers,   \* API requests in progress on .../publish
  Workers,      \* Celery worker processes
  NoPlan,       \* the plan of a process that is not working
  MaxSends,     \* bound: publish tasks sent to the broker
  MaxRetries,   \* max_retries of the task (5 in the code)
  MaxFaults,    \* bound: crashes and database errors
  MaxQuota      \* bound: no API publish starts once the plan has this many ledger entries

Procs == Schedulers \cup Publishers \cup Workers

ASSUME ProcsDisjoint ==
  /\ Schedulers \cap Publishers = {}
  /\ Schedulers \cap Workers = {}
  /\ Publishers \cap Workers = {}

ASSUME BoundsAreNat ==
  /\ MaxSends \in Nat
  /\ MaxRetries \in Nat
  /\ MaxFaults \in Nat
  /\ MaxQuota \in Nat

VARIABLES
  gate,        \* what the approval log and the compliance reports say now
  plans,       \* rows of publishing_plans
  quota,       \* videos.insert entries of the quota ledger, per plan
  executions,  \* rows of task_executions, by business key "<plan>:publish_video"
  attempts,    \* rows of task_attempts, per execution
  events,      \* task.publish_video.succeeded events kept, per plan
  messages,    \* <<plan, retries so far>> -> tasks waiting in the broker
  sent,        \* tasks sent so far
  faults,      \* faults so far
  proc         \* the step each process is at, and its local variables

rows   == <<plans, quota>>
tasks  == <<executions, attempts, events>>
broker == <<messages, sent>>
vars   == <<gate, rows, tasks, broker, faults, proc>>

-----------------------------------------------------------------------------
(* Types *)

PlanStatus == {"absent", "draft", "scheduled", "uploading", "published"}
ExecStatus == {"absent", "pending", "succeeded", "failed"}

\* approved: the latest decision is "approved"; onRecord: some decision is;
\* blocked: the latest compliance report is.
Gates == [approved : BOOLEAN, onRecord : BOOLEAN, blocked : BOOLEAN]
PlanRows == [status : PlanStatus, complete : BOOLEAN, video : BOOLEAN]
Executions == [status : ExecStatus, retries : Nat]
Attempts == [no : Nat, status : {"running", "succeeded", "failed"}]

ScheduleSteps == {"scheduleApproval", "scheduleCompliance", "scheduleWrite"}
PublishSteps == {"checkPlan", "checkApproval", "checkCompliance",
                 "upload", "logQuota", "finish"}
\* The steps inside the task's try block.
TrySteps == PublishSteps \cup {"markSucceeded", "refresh", "attemptSucceeded", "emit"}
WorkerSteps == TrySteps \cup {"claim", "insert", "startAttempt",
                              "markFailed", "attemptFailed"}
Steps == {"idle"} \cup ScheduleSteps \cup WorkerSteps

\* attempt: attempt_no; row: the execution as the worker's session last loaded it.
Processes == [step : Steps, plan : Plans \cup {NoPlan}, tries : 0..MaxRetries,
              attempt : Nat, row : Executions]

NoExecution == [status |-> "absent", retries |-> 0]
Idle == [step |-> "idle", plan |-> NoPlan, tries |-> 0, attempt |-> 0, row |-> NoExecution]

TypeOK ==
  /\ gate \in Gates
  /\ plans \in [Plans -> PlanRows]
  /\ quota \in [Plans -> Nat]
  /\ executions \in [Plans -> Executions]
  /\ attempts \in [Plans -> SUBSET Attempts]
  /\ events \in [Plans -> Nat]
  /\ messages \in [Plans \X (0..MaxRetries) -> Nat]
  /\ sent \in Nat
  /\ faults \in Nat
  /\ proc \in [Procs -> Processes]
  /\ \A c \in Procs : proc[c].step # "idle" => proc[c].plan \in Plans

Init ==
  /\ gate = [approved |-> FALSE, onRecord |-> FALSE, blocked |-> FALSE]
  /\ plans = [p \in Plans |-> [status |-> "absent", complete |-> FALSE, video |-> FALSE]]
  /\ quota = [p \in Plans |-> 0]
  /\ executions = [p \in Plans |-> NoExecution]
  /\ attempts = [p \in Plans |-> {}]
  /\ events = [p \in Plans |-> 0]
  /\ messages = [m \in Plans \X (0..MaxRetries) |-> 0]
  /\ sent = 0
  /\ faults = 0
  /\ proc = [c \in Procs |-> Idle]

-----------------------------------------------------------------------------
(* Steps of a process *)

PlanOf(c) == proc[c].plan
At(c, s) == proc[c].step = s
Goto(c, s) == proc' = [proc EXCEPT ![c].step = s]
Release(c) == proc' = [proc EXCEPT ![c] = Idle]
Enter(c, s, p, t) ==
  /\ At(c, "idle")
  /\ proc' = [proc EXCEPT ![c] = [step |-> s, plan |-> p, tries |-> t,
                                  attempt |-> 0, row |-> NoExecution]]

\* A refused publish: ValueError is a 409 answer in the API, the except branch in the task.
Refuse(c) == IF c \in Workers THEN Goto(c, "markFailed") ELSE Release(c)

-----------------------------------------------------------------------------
(* Reviewers and compliance checks change the gate. *)

\* A decision, once logged, stays in the log.
ReviewStep ==
  /\ gate' \in Gates
  /\ gate.onRecord => gate'.onRecord
  /\ gate'.approved => gate'.onRecord
  /\ UNCHANGED <<rows, tasks, broker, faults, proc>>

-----------------------------------------------------------------------------
(* API handlers *)

\* The row is kept even when its package is partial and the handler then fails.
CreatePlan(p, complete) ==
  /\ plans[p].status = "absent"
  /\ plans' = [plans EXCEPT ![p] = [status |-> "draft", complete |-> complete, video |-> FALSE]]
  /\ UNCHANGED <<gate, quota, tasks, broker, faults, proc>>

BeginSchedule(c, p) ==
  /\ c \in Schedulers
  /\ plans[p].status # "absent"
  /\ Enter(c, "scheduleApproval", p, 0)
  /\ UNCHANGED <<gate, rows, tasks, broker, faults>>

\* Mutation: the latest decision is not looked at.
ScheduleUnapproved(c) ==
  /\ At(c, "scheduleApproval")
  /\ Goto(c, "scheduleCompliance")
  /\ UNCHANGED <<gate, rows, tasks, broker, faults>>

ScheduleCheckApproval(c) ==
  /\ At(c, "scheduleApproval")
  /\ IF gate.approved THEN Goto(c, "scheduleCompliance") ELSE Release(c)
  /\ UNCHANGED <<gate, rows, tasks, broker, faults>>

\* Mutation: the package is not looked at.
ScheduleUnpackaged(c) ==
  /\ At(c, "scheduleCompliance")
  /\ IF ~gate.blocked THEN Goto(c, "scheduleWrite") ELSE Release(c)
  /\ UNCHANGED <<gate, rows, tasks, broker, faults>>

ScheduleCheckCompliance(c) ==
  /\ At(c, "scheduleCompliance")
  /\ IF ~gate.blocked /\ plans[PlanOf(c)].complete
       THEN Goto(c, "scheduleWrite")
       ELSE Release(c)
  /\ UNCHANGED <<gate, rows, tasks, broker, faults>>

\* The plan's own status is never looked at.
ScheduleWrite(c) ==
  /\ At(c, "scheduleWrite")
  /\ plans' = [plans EXCEPT ![PlanOf(c)].status = "scheduled"]
  /\ Release(c)
  /\ UNCHANGED <<gate, quota, tasks, broker, faults>>

BeginPublish(c, p) ==
  /\ c \in Publishers
  /\ plans[p].status # "absent"
  /\ quota[p] < MaxQuota
  /\ Enter(c, "checkPlan", p, 0)
  /\ UNCHANGED <<gate, rows, tasks, broker, faults>>

-----------------------------------------------------------------------------
(* VideoProjectService.publish_video, run by API handlers and by the task *)

PublishCheckPlan(c) ==
  /\ At(c, "checkPlan")
  /\ IF plans[PlanOf(c)].status = "scheduled"
       THEN Goto(c, "checkApproval")
       ELSE Refuse(c)
  /\ UNCHANGED <<gate, rows, tasks, broker, faults>>

PublishCheckApproval(c) ==
  /\ At(c, "checkApproval")
  /\ IF gate.approved THEN Goto(c, "checkCompliance") ELSE Refuse(c)
  /\ UNCHANGED <<gate, rows, tasks, broker, faults>>

PublishCheckCompliance(c) ==
  /\ At(c, "checkCompliance")
  /\ IF ~gate.blocked /\ plans[PlanOf(c)].complete
       THEN Goto(c, "upload")
       ELSE Refuse(c)
  /\ UNCHANGED <<gate, rows, tasks, broker, faults>>

\* Mutation: the call is not logged before the plan is published.
UploadUnlogged(c) ==
  /\ At(c, "upload")
  /\ plans' = [plans EXCEPT ![PlanOf(c)].status = "uploading"]
  /\ Goto(c, "finish")
  /\ UNCHANGED <<gate, quota, tasks, broker, faults>>

Upload(c) ==
  /\ At(c, "upload")
  /\ plans' = [plans EXCEPT ![PlanOf(c)].status = "uploading"]
  /\ Goto(c, "logQuota")
  /\ UNCHANGED <<gate, quota, tasks, broker, faults>>

\* Mutation: the handler returns once the call is logged.
LogQuotaReturns(c) ==
  /\ At(c, "logQuota")
  /\ quota' = [quota EXCEPT ![PlanOf(c)] = @ + 1]
  /\ Release(c)
  /\ UNCHANGED <<gate, plans, tasks, broker, faults>>

LogQuota(c) ==
  /\ At(c, "logQuota")
  /\ quota' = [quota EXCEPT ![PlanOf(c)] = @ + 1]
  /\ Goto(c, "finish")
  /\ UNCHANGED <<gate, plans, tasks, broker, faults>>

\* Mutation: the plan gets a status of the project's enumeration.
FinishCompleted(c) ==
  /\ At(c, "finish")
  /\ plans' = [plans EXCEPT ![PlanOf(c)].status = "completed", ![PlanOf(c)].video = TRUE]
  /\ IF c \in Workers THEN Goto(c, "markSucceeded") ELSE Release(c)
  /\ UNCHANGED <<gate, quota, tasks, broker, faults>>

\* Mutation: the second update sets the video and forgets the status.
FinishKeepsStatus(c) ==
  /\ At(c, "finish")
  /\ plans' = [plans EXCEPT ![PlanOf(c)].video = TRUE]
  /\ IF c \in Workers THEN Goto(c, "markSucceeded") ELSE Release(c)
  /\ UNCHANGED <<gate, quota, tasks, broker, faults>>

Finish(c) ==
  /\ At(c, "finish")
  /\ plans' = [plans EXCEPT ![PlanOf(c)].status = "published", ![PlanOf(c)].video = TRUE]
  /\ IF c \in Workers THEN Goto(c, "markSucceeded") ELSE Release(c)
  /\ UNCHANGED <<gate, quota, tasks, broker, faults>>

-----------------------------------------------------------------------------
(* The task workflow.video.publish *)

Send(p) ==
  /\ plans[p].status # "absent"
  /\ sent < MaxSends
  /\ sent' = sent + 1
  /\ messages' = [messages EXCEPT ![<<p, 0>>] = @ + 1]
  /\ UNCHANGED <<gate, rows, tasks, faults, proc>>

Take(w, p, t) ==
  /\ w \in Workers
  /\ messages[<<p, t>>] > 0
  /\ messages' = [messages EXCEPT ![<<p, t>>] = @ - 1]
  /\ Enter(w, "claim", p, t)
  /\ UNCHANGED <<gate, rows, tasks, sent, faults>>

\* Celery's retry, for every exception: autoretry_for names Exception, so the
\* ValueError that the task re-raises is retried like the rest.
Requeue(w) ==
  IF proc[w].tries < MaxRetries
    THEN messages' = [messages EXCEPT ![<<PlanOf(w), proc[w].tries + 1>>] = @ + 1]
    ELSE UNCHANGED messages

\* The row is loaded into the session, which keeps it for the rest of the task.
Load(w, step, attempt) ==
  proc' = [proc EXCEPT ![w].step = step, ![w].attempt = attempt,
                       ![w].row = executions[PlanOf(w)]]

\* Mutation: an execution that already succeeded is run again.
ClaimAgain(w) ==
  /\ At(w, "claim")
  /\ IF executions[PlanOf(w)].status = "absent"
       THEN Goto(w, "insert")
       ELSE Load(w, "startAttempt", executions[PlanOf(w)].retries + 1)
  /\ UNCHANGED <<gate, rows, tasks, broker, faults>>

\* Mutation: a pending execution is left to the worker that created it.
ClaimSkipsPending(w) ==
  /\ At(w, "claim")
  /\ CASE executions[PlanOf(w)].status = "absent" -> Goto(w, "insert")
       [] executions[PlanOf(w)].status \in {"pending", "succeeded"} -> Release(w)
       [] OTHER -> Load(w, "startAttempt", executions[PlanOf(w)].retries + 1)
  /\ UNCHANGED <<gate, rows, tasks, broker, faults>>

\* The SELECT of get_or_create_task_execution and the test on its result.
Claim(w) ==
  /\ At(w, "claim")
  /\ CASE executions[PlanOf(w)].status = "absent" -> Goto(w, "insert")
       [] executions[PlanOf(w)].status = "succeeded" -> Release(w)
       [] OTHER -> Load(w, "startAttempt", executions[PlanOf(w)].retries + 1)
  /\ UNCHANGED <<gate, rows, tasks, broker, faults>>

\* The new row is refreshed before it is tested: the worker is back at "claim".
InsertExecution(w) ==
  /\ At(w, "insert")
  /\ executions[PlanOf(w)].status = "absent"
  /\ executions' = [executions EXCEPT ![PlanOf(w)] = [status |-> "pending", retries |-> 0]]
  /\ Goto(w, "claim")
  /\ UNCHANGED <<gate, rows, attempts, events, broker, faults>>

\* Another worker inserted the row first: the unique business key fails the
\* INSERT, outside the try block.
InsertConflict(w) ==
  /\ At(w, "insert")
  /\ executions[PlanOf(w)].status # "absent"
  /\ Requeue(w)
  /\ Release(w)
  /\ UNCHANGED <<gate, rows, tasks, sent, faults>>

AddAttempt(w, status) ==
  attempts' = [attempts EXCEPT ![PlanOf(w)] = @ \cup {[no |-> proc[w].attempt, status |-> status]}]

StartAttempt(w) ==
  /\ At(w, "startAttempt")
  /\ AddAttempt(w, "running")
  /\ Goto(w, "checkPlan")
  /\ UNCHANGED <<gate, rows, executions, events, broker, faults>>

\* The UPDATE sets only the columns whose new value differs from the one the session
\* loaded; the others keep what other workers wrote meanwhile.
MarkExecution(w, status, retries) ==
  LET new == [status |-> status, retries |-> retries]
      Column(f) == IF new[f] = proc[w].row[f] THEN executions[PlanOf(w)][f] ELSE new[f]
  IN  executions' = [executions EXCEPT
        ![PlanOf(w)] = [status |-> Column("status"), retries |-> Column("retries")]]

MarkSucceeded(w) ==
  /\ At(w, "markSucceeded")
  /\ MarkExecution(w, "succeeded", proc[w].row.retries)
  /\ Goto(w, "refresh")
  /\ UNCHANGED <<gate, rows, attempts, events, broker, faults>>

\* mark_task_execution reads the row again after its commit.
Refresh(w) ==
  /\ At(w, "refresh")
  /\ Load(w, "attemptSucceeded", proc[w].attempt)
  /\ UNCHANGED <<gate, rows, tasks, broker, faults>>

AttemptSucceeded(w) ==
  /\ At(w, "attemptSucceeded")
  /\ AddAttempt(w, "succeeded")
  /\ Goto(w, "emit")
  /\ UNCHANGED <<gate, rows, executions, events, broker, faults>>

\* append_event drops the event of a project that has no workflow run; whether it
\* has one is not this module's business.
Emit(w) ==
  /\ At(w, "emit")
  /\ events' \in {events, [events EXCEPT ![PlanOf(w)] = @ + 1]}
  /\ Release(w)
  /\ UNCHANGED <<gate, rows, executions, attempts, broker, faults>>

\* Mutation: the except branch writes the status of the try branch.
MarkFailedSucceeded(w) ==
  /\ At(w, "markFailed")
  /\ MarkExecution(w, "succeeded", proc[w].row.retries + 1)
  /\ Goto(w, "attemptFailed")
  /\ UNCHANGED <<gate, rows, attempts, events, broker, faults>>

\* retry_count is the value this worker loaded, plus one.
MarkFailed(w) ==
  /\ At(w, "markFailed")
  /\ MarkExecution(w, "failed", proc[w].row.retries + 1)
  /\ Goto(w, "attemptFailed")
  /\ UNCHANGED <<gate, rows, attempts, events, broker, faults>>

AttemptFailed(w) ==
  /\ At(w, "attemptFailed")
  /\ AddAttempt(w, "failed")
  /\ Requeue(w)
  /\ Release(w)
  /\ UNCHANGED <<gate, rows, executions, events, sent, faults>>

-----------------------------------------------------------------------------
(* Faults *)

\* A process dies between two commits; a task acknowledged on receipt is lost.
Crash(c) ==
  /\ faults < MaxFaults
  /\ ~At(c, "idle")
  /\ faults' = faults + 1
  /\ Release(c)
  /\ UNCHANGED <<gate, rows, tasks, broker>>

\* A database error that leaves the session unusable ends the task at once, and
\* Celery retries it.
TaskAborts(w) ==
  /\ w \in Workers
  /\ faults < MaxFaults
  /\ ~At(w, "idle")
  /\ faults' = faults + 1
  /\ Requeue(w)
  /\ Release(w)
  /\ UNCHANGED <<gate, rows, tasks, sent>>

\* The first SELECT after a commit takes a connection from the pool; when it gets
\* none, the session stays usable and the except branch runs.
Connecting == {"checkPlan", "logQuota", "finish", "markSucceeded", "emit"}

TaskRecovers(w) ==
  /\ w \in Workers
  /\ faults < MaxFaults
  /\ proc[w].step \in Connecting
  /\ faults' = faults + 1
  /\ Goto(w, "markFailed")
  /\ UNCHANGED <<gate, rows, tasks, broker>>

-----------------------------------------------------------------------------

ScheduleStep(c) ==
  ScheduleCheckApproval(c) \/ ScheduleCheckCompliance(c) \/ ScheduleWrite(c)

PublishStep(c) ==
  \/ PublishCheckPlan(c) \/ PublishCheckApproval(c) \/ PublishCheckCompliance(c)
  \/ Upload(c) \/ LogQuota(c) \/ Finish(c)

TaskStep(w) ==
  \/ Claim(w) \/ InsertExecution(w) \/ InsertConflict(w) \/ StartAttempt(w)
  \/ MarkSucceeded(w) \/ Refresh(w) \/ AttemptSucceeded(w) \/ Emit(w)
  \/ MarkFailed(w) \/ AttemptFailed(w)

Step(c) == ScheduleStep(c) \/ PublishStep(c) \/ TaskStep(c)

Fault(c) == Crash(c) \/ TaskAborts(c) \/ TaskRecovers(c)

Arrival ==
  \E p \in Plans :
    \/ \E complete \in BOOLEAN : CreatePlan(p, complete)
    \/ \E c \in Schedulers : BeginSchedule(c, p)
    \/ \E c \in Publishers : BeginPublish(c, p)
    \/ Send(p)

Receive(w) == \E p \in Plans, t \in 0..MaxRetries : Take(w, p, t)

Next ==
  \/ ReviewStep
  \/ Arrival
  \/ \E w \in Workers : Receive(w)
  \/ \E c \in Procs : Step(c) \/ Fault(c)

\* The event loop and the worker run every started step to its end, and a worker
\* without a task takes one that waits.
Fairness ==
  /\ \A c \in Procs : WF_vars(Step(c))
  /\ \A w \in Workers : WF_vars(Receive(w))

Spec == Init /\ [][Next]_vars
FairSpec == Spec /\ Fairness

-----------------------------------------------------------------------------
(* Properties *)

\* Whatever interleaves with schedule and publish, a plan that left "draft" has a
\* complete package and an approval in the project's decision log.
GatePassed ==
  \A p \in Plans : plans[p].status \in {"scheduled", "uploading", "published"} =>
    plans[p].complete /\ gate.onRecord

\* The ledger is written before the plan is published: a plan with a YouTube id has
\* a videos.insert entry, and a published plan has an id.
PublishedIsAccounted ==
  \A p \in Plans :
    /\ plans[p].status = "published" => plans[p].video
    /\ plans[p].video => quota[p] >= 1

\* A task execution, an attempt or an event that says "succeeded" is about a plan
\* that was published, and follows a "running" attempt of the same number.
SuccessIsReal ==
  \A p \in Plans :
    /\ executions[p].status = "succeeded" \/ events[p] > 0 => plans[p].video
    /\ \A a \in attempts[p] : a.status = "succeeded" => plans[p].video
    /\ \A a \in attempts[p] : [no |-> a.no, status |-> "running"] \in attempts[p]

\* As long as nothing failed, a plan is "uploading" only while some process is
\* between the two writes that frame the upload.
Owns(c, p) == proc[c].plan = p /\ proc[c].step \in {"logQuota", "finish"}
UploadingIsOwned ==
  faults = 0 => \A p \in Plans :
    plans[p].status = "uploading" => \E c \in Procs : Owns(c, p)

\* The handlers and the task implement the life of a plan that PlanLifecycle states.
Lifecycle == INSTANCE PlanLifecycle WITH onRecord <- gate.onRecord
LifecycleSpec == Lifecycle!Spec

\* The task is idempotent: with nothing failing, one upload however often it is sent.
\* Two workers that claim the pending execution together both upload.
UploadedOnce == faults = 0 => \A p \in Plans : quota[p] <= 1

\* Unless something fails an upload ends: the plan is published or scheduled again.
UploadEnds ==
  \A p \in Plans :
    plans[p].status = "uploading" ~> (faults > 0 \/ plans[p].status # "uploading")

\* Unless something fails a task that was sent is settled: its execution is marked.
TaskSettles ==
  \A p \in Plans :
    messages[<<p, 0>>] > 0 ~> (faults > 0 \/ executions[p].status \in {"succeeded", "failed"})

-----------------------------------------------------------------------------
(* The strengthening of the safety invariants that is inductive *)

PastApproval == {"scheduleCompliance", "scheduleWrite", "checkCompliance",
                 "upload", "logQuota", "finish"}
PastPackage == {"scheduleWrite", "upload", "logQuota", "finish"}
PastCheckPlan == {"checkApproval", "checkCompliance", "upload", "logQuota", "finish"}
PastPublish == {"markSucceeded", "refresh", "attemptSucceeded", "emit"}
InAttempt == TrySteps \cup {"markFailed", "attemptFailed"}
TaskOnly == {"claim", "insert", "startAttempt", "markSucceeded", "refresh",
             "attemptSucceeded", "emit", "markFailed", "attemptFailed"}

\* The latest decision is one of the log.
GateInv == gate.approved => gate.onRecord

\* Plans in use exist, and a plan that does not exist has no video.
RowsInv ==
  /\ \A p \in Plans : plans[p].video => plans[p].status # "absent"
  /\ \A p \in Plans, t \in 0..MaxRetries :
       messages[<<p, t>>] > 0 => plans[p].status # "absent"
  /\ \A c \in Procs : proc[c].step # "idle" => plans[PlanOf(c)].status # "absent"

\* What a process has established by the time it reaches a step.
ProcessInv(c) ==
  /\ proc[c].step \in TaskOnly => c \in Workers
  /\ proc[c].step \in PastApproval => gate.onRecord
  /\ proc[c].step \in PastCheckPlan => plans[PlanOf(c)].status \in Lifecycle!Released
  /\ proc[c].step \in PastPackage => plans[PlanOf(c)].complete
  /\ proc[c].step = "finish" => quota[PlanOf(c)] >= 1
  /\ proc[c].step \in PastPublish => plans[PlanOf(c)].video
  /\ c \in Workers /\ proc[c].step \in InAttempt =>
       [no |-> proc[c].attempt, status |-> "running"] \in attempts[PlanOf(c)]

ProcessesInv == \A c \in Procs : ProcessInv(c)

IInv ==
  /\ GateInv
  /\ RowsInv
  /\ ProcessesInv
  /\ GatePassed
  /\ PublishedIsAccounted
  /\ SuccessIsReal
  /\ UploadingIsOwned

=============================================================================
