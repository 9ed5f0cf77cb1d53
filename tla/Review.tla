-------------------------------- MODULE Review --------------------------------
(***************************************************************************)
(* The review of one video project: the handlers that request, grant and    *)
(* refuse approval, save compliance reports, start the workflow and patch   *)
(* the status.  They share the decision log, the approval aggregate, the    *)
(* project's status, the compliance reports and the workflow runs, and      *)
(* write them with one commit per repository call.                         *)
(*                                                                         *)
(* created_at is the database's now(), the start of the transaction: rows    *)
(* are dated when their handler begins and appear when it commits, so the    *)
(* newest row need not be the last one committed.                          *)
(***************************************************************************)
EXTENDS Naturals

CONSTANTS
  Requests,     \* requests that can be in progress at the same time
  Operations,   \* the operations they ask for
  StepCount,    \* workflow steps up to wait_for_approval (7 in the code)
  MaxRequests,  \* bound: requests begun
  MaxFaults     \* bound: requests cut short

Reviews == {"approve", "reject", "needs_changes"}

ASSUME OperationsExist ==
  Operations \subseteq Reviews \cup {"request_approval", "compliance", "start", "patch"}

ASSUME ReviewBoundsAreNat ==
  /\ StepCount \in Nat \ {0}
  /\ MaxRequests \in Nat
  /\ MaxFaults \in Nat

VARIABLES
  now,        \* requests begun so far: the time now() returns to each
  decisions,  \* rows of approval_decisions
  approval,   \* the row of approvals
  status,     \* video_projects.status, and whether a PATCH wrote it last
  reports,    \* rows of compliance_reports
  runs,       \* rows of workflow_runs, by created_at
  steps,      \* workflow_steps of each run
  events,     \* rows of workflow_events
  faults,     \* requests cut short so far
  req         \* the step each request is at, and its local variables

log  == <<decisions, reports>>
flow == <<runs, steps, events>>
vars == <<now, log, approval, status, flow, faults, req>>

-----------------------------------------------------------------------------
(* Types *)

Times == 1..MaxRequests
MaybeTime == 0..MaxRequests
Verdicts == {"awaiting_review", "approved", "rejected", "needs_changes"}
\* "other" stands for the project statuses no handler here writes.
ProjectStatus == Verdicts \cup {"draft", "other"}

\* requested and decided: the request that wrote the field, 0 for NULL.
Approvals == [status : Verdicts \cup {"none"}, requested : MaybeTime, decided : MaybeTime]
NoApproval == [status |-> "none", requested |-> 0, decided |-> 0]

EventTypes == Reviews \cup {"created", "step", "waiting"}
\* of: the request that emitted the event; run: the run append_event attached it to.
EventRows == [type : EventTypes, of : Times, run : Times, n : 0..StepCount]

ReqSteps == {"idle", "readCompliance", "readApproval", "addDecision", "findApproval",
             "writeApproval", "setStatus", "findRun", "emit", "saveReport",
             "createRun", "emitCreated", "createStep", "emitStep", "emitWaiting"}

\* requested: requested_at as read before the decision; row: the aggregate as loaded.
Handlers == [step : ReqSteps, op : Operations \cup {"none"}, at : MaybeTime,
             requested : MaybeTime, row : Approvals]

Idle == [step |-> "idle", op |-> "none", at |-> 0, requested |-> 0, row |-> NoApproval]

TypeOK ==
  /\ now \in MaybeTime
  /\ decisions \subseteq [at : Times, status : Verdicts]
  /\ approval \in Approvals
  /\ status \in [value : ProjectStatus, patched : BOOLEAN]
  /\ reports \subseteq [at : Times, blocked : BOOLEAN]
  /\ runs \subseteq Times
  /\ steps \in [Times -> 0..StepCount]
  /\ events \subseteq EventRows
  /\ faults \in Nat
  /\ req \in [Requests -> Handlers]
  /\ \A r \in Requests : req[r].step # "idle" => req[r].op \in Operations /\ req[r].at \in Times

Init ==
  /\ now = 0
  /\ decisions = {}
  /\ approval = NoApproval
  /\ status = [value |-> "draft", patched |-> FALSE]
  /\ reports = {}
  /\ runs = {}
  /\ steps = [t \in Times |-> 0]
  /\ events = {}
  /\ faults = 0
  /\ req = [r \in Requests |-> Idle]

-----------------------------------------------------------------------------
(* Steps of a request *)

At(r, s) == req[r].step = s
Op(r) == req[r].op
Time(r) == req[r].at
Goto(r, s) == req' = [req EXCEPT ![r].step = s]
Release(r) == req' = [req EXCEPT ![r] = Idle]

\* The newest row of a log: the one whose transaction began last.
Newest(row, rows) == row \in rows /\ \A q \in rows : q.at <= row.at
Blocked == \E row \in reports : Newest(row, reports) /\ row.blocked

Verdict(op) ==
  CASE op = "approve" -> "approved"
    [] op = "reject" -> "rejected"
    [] op = "needs_changes" -> "needs_changes"
    [] OTHER -> "awaiting_review"

FirstStep(op) ==
  CASE op = "request_approval" -> "addDecision"
    [] op = "approve" -> "readCompliance"
    [] op \in {"reject", "needs_changes"} -> "readApproval"
    [] op = "compliance" -> "saveReport"
    [] op = "start" -> "createRun"
    [] OTHER -> "setStatus"

\* _require_project's first SELECT opens the transaction that the first INSERT commits.
Begin(r, op) ==
  /\ At(r, "idle")
  /\ now < MaxRequests
  /\ now' = now + 1
  /\ req' = [req EXCEPT ![r] = [step |-> FirstStep(op), op |-> op, at |-> now + 1,
                                requested |-> 0, row |-> NoApproval]]
  /\ UNCHANGED <<log, approval, status, flow, faults>>

-----------------------------------------------------------------------------
(* WorkflowEngine.approve, reject and needs_changes; request_approval *)

\* Blocking issues answer an approval with 409.
ReadCompliance(r) ==
  /\ At(r, "readCompliance")
  /\ IF Blocked THEN Release(r) ELSE Goto(r, "readApproval")
  /\ UNCHANGED <<now, log, approval, status, flow, faults>>

\* Mutation: the decision is not logged.
ReadApprovalUnlogged(r) ==
  /\ At(r, "readApproval")
  /\ req' = [req EXCEPT ![r].step = "findApproval", ![r].requested = approval.requested]
  /\ UNCHANGED <<now, log, approval, status, flow, faults>>

ReadApproval(r) ==
  /\ At(r, "readApproval")
  /\ req' = [req EXCEPT ![r].step = "addDecision", ![r].requested = approval.requested]
  /\ UNCHANGED <<now, log, approval, status, flow, faults>>

AddDecision(r) ==
  /\ At(r, "addDecision")
  /\ decisions' = decisions \cup {[at |-> Time(r), status |-> Verdict(Op(r))]}
  /\ Goto(r, "findApproval")
  /\ UNCHANGED <<now, approval, status, reports, flow, faults>>

\* upsert_approval loads the row ...
FindApproval(r) ==
  /\ At(r, "findApproval")
  /\ req' = [req EXCEPT ![r].step = "writeApproval", ![r].row = approval]
  /\ UNCHANGED <<now, log, approval, status, flow, faults>>

\* Mutation: a decision overwrites the time of the request.
NewApprovalResets(r) ==
  [status |-> Verdict(Op(r)), requested |-> Time(r),
   decided |-> IF Op(r) = "request_approval" THEN 0 ELSE Time(r)]

NewApproval(r) ==
  IF Op(r) = "request_approval"
    THEN [status |-> "awaiting_review", requested |-> Time(r), decided |-> 0]
    ELSE [status |-> Verdict(Op(r)), requested |-> req[r].requested, decided |-> Time(r)]

\* Mutation: the project's status does not follow the decision.
AfterApprovalNoStatus(r) == IF Op(r) = "request_approval" THEN Release(r) ELSE Goto(r, "findRun")

AfterApproval(r) == IF Op(r) = "request_approval" THEN Release(r) ELSE Goto(r, "setStatus")

\* ... and writes it.  No row found: INSERT, which fails when another request has
\* inserted it meanwhile.  A row found: the UPDATE sets only the columns whose new
\* value differs from the one loaded.
InsertApproval(r) ==
  /\ At(r, "writeApproval")
  /\ req[r].row.status = "none"
  /\ IF approval.status = "none"
       THEN approval' = NewApproval(r) /\ AfterApproval(r)
       ELSE UNCHANGED approval /\ Release(r)
  /\ UNCHANGED <<now, log, status, flow, faults>>

UpdateApproval(r) ==
  /\ At(r, "writeApproval")
  /\ req[r].row.status # "none"
  /\ LET Column(f) == IF NewApproval(r)[f] = req[r].row[f] THEN approval[f] ELSE NewApproval(r)[f]
     IN  approval' = [status |-> Column("status"), requested |-> Column("requested"),
                      decided |-> Column("decided")]
  /\ AfterApproval(r)
  /\ UNCHANGED <<now, log, status, flow, faults>>

\* A PATCH may set any status, and its body may leave the status alone.
Patched(old) == {old} \cup [value : ProjectStatus, patched : {TRUE}]
Written(op) == [value |-> Verdict(op), patched |-> FALSE]

\* Mutation: a started workflow goes on as a decision does, without its waiting event.
SetStatusUnannounced(r) ==
  /\ At(r, "setStatus")
  /\ IF Op(r) = "patch"
       THEN status' \in Patched(status) /\ Release(r)
       ELSE status' = Written(Op(r)) /\ Goto(r, "findRun")
  /\ UNCHANGED <<now, log, approval, flow, faults>>

\* update_project_status, of a decision, of a started workflow, or of a PATCH.
SetStatus(r) ==
  /\ At(r, "setStatus")
  /\ IF Op(r) = "patch"
       THEN status' \in Patched(status) /\ Release(r)
       ELSE /\ status' = Written(Op(r))
            /\ Goto(r, IF Op(r) = "start" THEN "emitWaiting" ELSE "findRun")
  /\ UNCHANGED <<now, log, approval, flow, faults>>

\* A decision of a project that has no workflow run emits no event.
FindRun(r) ==
  /\ At(r, "findRun")
  /\ IF runs = {} THEN Release(r) ELSE Goto(r, "emit")
  /\ UNCHANGED <<now, log, approval, status, flow, faults>>

\* Mutation: the runs are sorted the other way round.
AppendToOldest(r, type, n) ==
  \E run \in runs :
    /\ \A t \in runs : run <= t
    /\ events' = events \cup {[type |-> type, of |-> Time(r), run |-> run, n |-> n]}

\* append_event ignores the run it is given: the event goes to the newest one.
AppendEvent(r, type, n) ==
  \E run \in runs :
    /\ \A t \in runs : t <= run
    /\ events' = events \cup {[type |-> type, of |-> Time(r), run |-> run, n |-> n]}

Emit(r) ==
  /\ At(r, "emit")
  /\ AppendEvent(r, Op(r), 0)
  /\ Release(r)
  /\ UNCHANGED <<now, log, approval, status, runs, steps, faults>>

-----------------------------------------------------------------------------
(* run_compliance *)

SaveReport(r) ==
  /\ At(r, "saveReport")
  /\ \E blocked \in BOOLEAN : reports' = reports \cup {[at |-> Time(r), blocked |-> blocked]}
  /\ Release(r)
  /\ UNCHANGED <<now, decisions, approval, status, flow, faults>>

-----------------------------------------------------------------------------
(* WorkflowEngine.start *)

CreateRun(r) ==
  /\ At(r, "createRun")
  /\ runs' = runs \cup {Time(r)}
  /\ Goto(r, "emitCreated")
  /\ UNCHANGED <<now, log, approval, status, steps, events, faults>>

EmitCreated(r) ==
  /\ At(r, "emitCreated")
  /\ AppendEvent(r, "created", 0)
  /\ Goto(r, "createStep")
  /\ UNCHANGED <<now, log, approval, status, runs, steps, faults>>

CreateStep(r) ==
  /\ At(r, "createStep")
  /\ steps' = [steps EXCEPT ![Time(r)] = @ + 1]
  /\ Goto(r, "emitStep")
  /\ UNCHANGED <<now, log, approval, status, runs, events, faults>>

\* Mutation: the loop goes one step too far.
EmitStepTooFar(r) ==
  /\ At(r, "emitStep")
  /\ AppendEvent(r, "step", steps[Time(r)])
  /\ Goto(r, IF steps[Time(r)] <= StepCount THEN "createStep" ELSE "setStatus")
  /\ UNCHANGED <<now, log, approval, status, runs, steps, faults>>

\* The loop ends after wait_for_approval.
EmitStep(r) ==
  /\ At(r, "emitStep")
  /\ AppendEvent(r, "step", steps[Time(r)])
  /\ Goto(r, IF steps[Time(r)] < StepCount THEN "createStep" ELSE "setStatus")
  /\ UNCHANGED <<now, log, approval, status, runs, steps, faults>>

EmitWaiting(r) ==
  /\ At(r, "emitWaiting")
  /\ AppendEvent(r, "waiting", 0)
  /\ Release(r)
  /\ UNCHANGED <<now, log, approval, status, runs, steps, faults>>

-----------------------------------------------------------------------------

\* A request dies between two commits: the server stops, the client goes away, or
\* the database fails.
Cut(r) ==
  /\ faults < MaxFaults
  /\ ~At(r, "idle")
  /\ faults' = faults + 1
  /\ Release(r)
  /\ UNCHANGED <<now, log, approval, status, flow>>

DecisionStep(r) ==
  \/ ReadCompliance(r) \/ ReadApproval(r) \/ AddDecision(r) \/ FindApproval(r)
  \/ InsertApproval(r) \/ UpdateApproval(r) \/ SetStatus(r) \/ FindRun(r) \/ Emit(r)

WorkflowStep(r) ==
  CreateRun(r) \/ EmitCreated(r) \/ CreateStep(r) \/ EmitStep(r) \/ EmitWaiting(r)

Step(r) == DecisionStep(r) \/ SaveReport(r) \/ WorkflowStep(r)

Next ==
  \E r \in Requests :
    \/ \E op \in Operations : Begin(r, op)
    \/ Step(r)
    \/ Cut(r)

Spec == Init /\ [][Next]_vars

\* The event loop runs every request it began to its end.
FairSpec == Spec /\ \A r \in Requests : WF_vars(Step(r))

-----------------------------------------------------------------------------
(* Properties *)

Logged(t, verdicts) == \E d \in decisions : d.at = t /\ d.status \in verdicts
Decided == {"approved", "rejected", "needs_changes"}

\* The decision log is written before the aggregate: whatever requests interleave or
\* die, each column of the aggregate comes from a decision that is in the log.
AggregateBacked ==
  /\ approval.status # "none" => \E d \in decisions : d.status = approval.status
  /\ approval.requested # 0 => Logged(approval.requested, {"awaiting_review"})
  /\ approval.decided # 0 => Logged(approval.decided, Decided)

\* A status that names a verdict, and that no PATCH has set, follows that decision.
StatusBacked ==
  ~status.patched /\ status.value \in Decided => \E d \in decisions : d.status = status.value

\* An event of a decision follows it; an event of a started workflow is never attached
\* to a run older than its own, and announces steps its run has.
EventsBacked ==
  \A e \in events :
    /\ e.run \in runs
    /\ e.type \in Reviews => Logged(e.of, {Verdict(e.type)})
    /\ e.type \notin Reviews => e.of \in runs /\ e.run >= e.of
    /\ e.type = "step" => e.n <= steps[e.of]
    /\ e.type = "waiting" => steps[e.of] = StepCount

\* Unless a request is cut every run that was created comes to wait for approval.
RunsReachReview ==
  \A t \in Times :
    t \in runs ~> (faults > 0 \/ \E e \in events : e.type = "waiting" /\ e.of = t)

-----------------------------------------------------------------------------
(* The strengthening of the safety invariants that is inductive *)

Deciding == Reviews \cup {"request_approval"}

\* Which operation a request at a step can have.
StepOfOp(r) ==
  /\ req[r].step \in {"addDecision", "findApproval", "writeApproval"} => Op(r) \in Deciding
  /\ req[r].step \in {"readCompliance", "readApproval", "findRun", "emit"} => Op(r) \in Reviews
  /\ req[r].step = "setStatus" => Op(r) \in Reviews \cup {"start", "patch"}
  /\ req[r].step \in {"createRun", "emitCreated", "createStep", "emitStep", "emitWaiting"} =>
       Op(r) = "start"

\* Past the commit of its decision a request finds it in the log, and the request
\* time it carries over is one that was logged.
DecisionInv(r) ==
  /\ req[r].step \in {"findApproval", "writeApproval", "setStatus", "findRun", "emit"}
       /\ Op(r) \in Deciding => Logged(Time(r), {Verdict(Op(r))})
  /\ req[r].requested # 0 => Logged(req[r].requested, {"awaiting_review"})

\* How far a start has come with its run.
RunInv(r) ==
  LET started(s) == req[r].step = s /\ Op(r) = "start"
  IN  /\ started("createRun") => Time(r) \notin runs /\ steps[Time(r)] = 0
      /\ started("emitCreated") => Time(r) \in runs /\ steps[Time(r)] = 0
      /\ started("createStep") => Time(r) \in runs /\ steps[Time(r)] < StepCount
      /\ started("emitStep") => Time(r) \in runs
      /\ started("setStatus") \/ started("emitWaiting") =>
           Time(r) \in runs /\ steps[Time(r)] = StepCount

\* Every request has a time of its own, none of the future.
TimesInv ==
  /\ \A t \in runs : t <= now
  /\ \A t \in Times : t > now => steps[t] = 0
  /\ \A r \in Requests : Time(r) <= now
  /\ \A r, q \in Requests : r # q /\ ~At(r, "idle") /\ ~At(q, "idle") => Time(r) # Time(q)

RequestInv(r) == StepOfOp(r) /\ DecisionInv(r) /\ RunInv(r)
RequestsInv == \A r \in Requests : RequestInv(r)

IInv == TimesInv /\ RequestsInv /\ AggregateBacked /\ StatusBacked /\ EventsBacked

=============================================================================
