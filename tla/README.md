# StudioFlow: a TLA+ model

StudioFlow turns ideas into published videos: a FastAPI backend over PostgreSQL keeps channels,
content ideas, video projects, their reviews, compliance reports and publishing plans; language
models draft what the ideas need; a Celery worker publishes plans; a Next.js frontend loads and
shows what the API answers. This directory models the parts of it that keep state or decide
something: where interleaving, failure and order matter as state machines, where rules and
thresholds matter as operators with a state machine that feeds them.

Paths below are relative to `src/apps/backend/app/` unless they begin with `worker/`, which
stands for `src/apps/worker/`. `VPS` is `services/video_project_service.py`, `REPO` is
`repositories/video_project_repository.py`.

## The system

| part | state | operations | interacts with |
|---|---|---|---|
| publishing plans (VPS 102-173, `api/video_projects.py` 145-174) | `publishing_plans`, quota ledger | create, schedule, publish | reads decisions and compliance reports; publish is also called by the task |
| publish task (`worker/app/tasks/video_workflow.py`) | `task_executions`, `task_attempts`, an event | `workflow.video.publish`, `sync_analytics` | calls `publish_video`; Celery delivers and retries |
| review (`services/workflow_engine.py`, VPS 51-66) | `approval_decisions`, `approvals`, project status | request approval, approve, reject, needs changes | reads compliance; emits workflow events |
| workflow (`workflow_engine.py` 17-28, `workflow_events.py`) | `workflow_runs`, `workflow_steps`, `workflow_events` | start | sets the project's status |
| compliance (`services/compliance_service.py`, `repetitive_content_detector.py`) | `compliance_reports` | evaluate and save a report | blocks approve, schedule, publish |
| projects (`api/video_projects.py`) | `video_projects`, `channels` | create, patch, delete | usage limits, ledgers |
| quota (`services/youtube_quota_service.py`) | ledger entries | log a call, synchronous wrapper | publish; deletion of projects |
| usage limits (`services/usage_service.py`, `plan_limit_service.py`, `api/usage.py`) | plan codes, counts, monthly snapshots | check a limit, register a channel, set a plan | create project |
| channels (`api/channels.py`) | `channels`, `channel_memories` | create, list, patch, delete, memory | everything that belongs to a channel |
| content ideas (`api/content_ideas.py`) | `video_ideas`, research reports, calls | create, list, patch, status, delete, research | channels, language models |
| angles (`api/content_ideas.py` 57-79, 395-536, `services/angle_validation_service.py`) | `_memory_angles` | generate, evaluate, approve, override | ideas, the approval gate |
| niche intelligence (`api/niche_intelligence.py`, `services/niche_intelligence_service.py`) | reports, calls | analyse, list, latest | channels, language models |
| LLM agents (`services/product_agents.py`, `ai_provider.py`) | costs, failures | five agents with retry and repair | providers |
| analysis services (`services/topic_research_service.py`, `angle_generation_service.py`, `angle_evaluation_service.py`) | `llm_calls` in the caller's session | ask once, validate | providers; no handler uses them |
| authorisation (`api/deps.py`) | none | tenant and role of a call | all handlers |
| rate limiter (`main.py`) | a deque per client and path | every request | all handlers |

### What is hard here

* **One commit per repository call.** Every method of `DBVideoProjectRepository` commits, so
  a handler is a sequence of transactions. Other handlers and workers run between any two of
  them, and a process can die between any two of them.
* **Check, then write.** `schedule_publishing`, `publish_video`, `approve` and the task read a
  status in one transaction and act on it in a later one.
* **Sessions remember rows.** An UPDATE writes only the columns whose new value differs from
  the row the session loaded. Concurrent writers of one row can leave a mixture.
* **created_at is the start of the transaction** (`db/base.py` 14), so the "latest" decision,
  report or run is the one whose request began last, not the one that committed last.
* **Retries.** The task is retried for every exception, refusals included
  (`autoretry_for=(Exception,)`), and a task of a worker that died is lost. The agents retry
  around a client that repairs, each unaware of the other's count.
* **Load, ask, commit.** Handlers of channels and ideas check the tenant when they load a row,
  may wait for a language model, and commit later; the row may be gone by then.
* **Two repositories.** Without `DATABASE_URL` the rows live in the process: no interleaving,
  but no foreign keys either, and dictionaries shared by parts that disagree about their keys.
* **One handler for two failures.** The quota wrapper logs in a `try` whose `except` also logs.
* **The same rule twice.** Scores are gated before rounding by one function and after it by
  another; similarities pass weights, bonuses, a sort and a cut before they block anything.
* **A clock that can be set.** The rate limiter compares readings of `time.time()`.

The full list of hazards, each at its line with the properties that watch it, is in
`PROJECT.json`.

### What makes each part correct

* Plans: no plan is scheduled, uploading or published without a complete package and an
  approval on record; a published plan was charged; a plan does not stay "uploading" unless a
  process failed.
* Task: a recorded success is true; each upload beyond the first costs a fault; a task that
  was sent is settled.
* Review: the log is the source of the aggregate, the status and the events, in whatever
  order requests commit or die.
* Workflow: events go to the run they are about or a newer one and announce steps that exist;
  every run comes to wait for approval.
* Channels, ideas, reports: no tenant writes or is answered another one's rows; nothing refers
  to a row that is gone; a memory that was patched without a rival is the one served.
* Angles: an angle is approved because the gate let it through or because an override named
  what the gate said, and remains so.
* Agents: at most two requests per attempt, each with a cost or a failure beside it; the
  workflow ends and survives short outages.
* Analysis services: an accepted answer is complete.
* Compliance: a copy is blocked, a stranger is not, and more history never lifts a block.
* Usage: a limit can be overrun only by requests open at the same time; a call's result is
  returned only charged, and charged twice only if the ledger answered too late; with a database
  no entry is without its project.
* Rate limiter: whatever the clock does, the limit per window moves by no more than it did.

## Modules

| module | role |
|---|---|
| `PlanLifecycle` | abstract: the life of a plan, one step per promise |
| `Publishing` | the plan handlers and the publish task, one action per committed step |
| `Review` | the review, workflow and compliance handlers of one project |
| `Angles` | the angles of ideas, their scores and both gates |
| `Catalog` | channels, memories, ideas and reports of several tenants |
| `Agents` | the agent workflow: retry, repair, accounting |
| `Analysis` | the services that ask a language model once |
| `Compliance` | similarity and compliance rules, fed by a growing history |
| `Usage` | plans and limits of an organisation, its projects, ledgers and the quota wrapper |
| `RateLimit` | the rate limiter of one client under a clock that can be set |
| `AnglesProofs`, `CatalogProofs`, `ComplianceProofs`, `UsageProofs`, `RateLimitProofs` | theorems about the module they are named after |
| `AgentsProofs` | theorems about `Agents` and about `Analysis`, whose names differ so that it can extend both |
| `PublishingProofs`, `ReviewProofs` | theorems about `Publishing` and `Review`, and about `MCPublishing` and `MCReview` |
| `MCPublishing`, `MCReview` | history variables, the property that needs them and its invariant; values for the runs |
| `MCAngles`, `MCCatalog`, `MCCompliance`, `MCUsage` | model values, features and limits, symmetry |

The components meet in state that one of them owns. `Publishing` sees the review as `gate`;
`Usage` and `Catalog` both have projects or channels, each with the columns it compares: a
channel of `Catalog` is a row with a tenant, one of `Usage` an entry of the in-memory dictionary
that its registrations share. `Agents` and `Analysis` are called by nothing that keeps state.

### Publishing

Processes are API requests on `/schedule` (`Schedulers`), on `/publish` (`Publishers`) and
Celery workers (`Workers`). `proc[c].step` is the next repository call a process makes.

| code | actions |
|---|---|
| create_publishing_plan | `CreatePlan` (the row is kept when the package check then fails) |
| schedule_publishing | `BeginSchedule`, `ScheduleCheckApproval`, `ScheduleCheckCompliance`, `ScheduleWrite` |
| publish_video | `BeginPublish`, `PublishCheckPlan`, `PublishCheckApproval`, `PublishCheckCompliance`, `Upload`, `LogQuota`, `Finish` |
| `_run_publish_video` | `Take`, `Claim`, `InsertExecution`, `InsertConflict`, `StartAttempt`, then publish_video, then `MarkSucceeded`, `Refresh`, `AttemptSucceeded`, `Emit`; or `MarkFailed`, `AttemptFailed` |
| Celery | `Send` (environment: nothing in the repository enqueues the task), `Take`, `Requeue` |
| failures | `Crash`, `TaskAborts`, `TaskRecovers` |

What the reviewers and compliance checks do is reduced to `gate`: whether the latest decision
is an approval, whether some decision is, whether the latest report is blocked. `ReviewStep`
changes it in every way `Review` can, save that a logged approval stays logged.

The repository objects for plans, projects and reports are loaded afresh by each call: nothing
in a handler holds them, and the identity map of the session is weak. Only the worker's
`execution` object lives through the task, so `proc[w].row` holds it as loaded and
`MarkExecution` writes per column. The plan's `status` is one column, and an UPDATE that leaves
it alone because the session already saw that value is the same as a write at the time of the
read, so the plan updates are single steps.

A database error normally leaves the session unusable: the except branch fails too and Celery
retries the task (`TaskAborts`). Only a failure to get a connection for the first SELECT after
a commit leaves the session as it was, so that the except branch marks the execution
(`TaskRecovers`, at the steps in `Connecting`). A crash loses the task, as Celery acknowledges
on receipt by default (`Crash`).

### Review

`Requests` are the requests in progress at one time; each takes the steps of its operation
`op`. `now` counts the requests begun and dates their rows: the request's `at` is the time
`now()` returns in the transaction that `_require_project` opens, which is the one its first
INSERT commits. Later rows of the same request (steps, events) are identified by that time
too.

| code | actions |
|---|---|
| request_approval | `AddDecision`, `FindApproval`, `InsertApproval` or `UpdateApproval` |
| approve, reject, needs_changes | `ReadCompliance` (approve), `ReadApproval`, the same three, `SetStatus`, `FindRun`, `Emit` |
| run_compliance | `SaveReport`, with either verdict |
| PATCH | `SetStatus`, which marks the status as patched |
| start | `CreateRun`, `EmitCreated`, then `CreateStep` and `EmitStep` for each step, `SetStatus`, `EmitWaiting` |
| failures | `Cut` |

`upsert_approval` loads the row and flushes it in two statements; both the INSERT that fails on
the primary key and the UPDATE of only the changed columns are modelled. `append_event`, a
SELECT of the newest run and an INSERT, is one step.

The in-memory repository (no `DATABASE_URL`) never suspends: its behaviours are those in which
each request ends before the next begins, which `MCReview` tells apart by a history variable. A
compliance report's verdict is nondeterministic here; `Compliance` has the rules.

### Angles

Angles live in the process's `_memory_angles` whether there is a database or not, and no handler
suspends while it changes them, so each call is one action. With a database the commit of a
generated angle always fails (it is given no headline), so angles are only made in memory.
An angle is the features that scoring looks at: the length of its hook and whether three words
occur. Scores are in thousandths; `Rounded` is the rounding to three digits.

| code | definitions |
|---|---|
| generate | `Generate` (the provider's angles, cut at `count`), `GenerateFallback` |
| evaluate | `Evaluate`; of an angle in the payload nothing is stored, so there is no action |
| approve, override | `Approve`, `Override`, with both answers |
| delete idea | `DeleteIdea`, which leaves its angles behind |
| `_score_angle_payload` | `Overall`, `Blocked`, `Score` |
| `AngleValidationService` | `Rejections` |

### Catalog

`database`, chosen at the start and never changed, is whether there is one. With it a request is
`Begin` (all its loading reads and the checks of the tenant and the payload), then `Commit` or
`Fail`; the commit fails as a whole when a row it writes or refers to is gone, or when something
refers to a row it deletes (`Commits`). Without it a request is `Handle`. What each handler writes
is an operator of the handler's name, used by both. A row's `by` is the tenant that wrote it last
and stands for what was written; `served` collects who was answered whose rows. `alone` is
history: the last PATCH of a memory that overlapped no other one.

With a database `create_channel` always fails (`slug` is NOT NULL and nothing sets it), so the
channels are there at the start; `niche` needs a session and fails without a database. A call
that is refused changes nothing and has no action.

### Agents

One action is one request to the provider with all that follows its answer, up to the next
request. `provider` (the mock with its number of injected failures, or a chat endpoint that may
answer anything) and `inputs` (which agents' input can be serialised) are chosen at the start.

| code | actions |
|---|---|
| `_generate_dict`: the provider raised, the answer parsed or not, the repair parsed or not | `ProviderFails`, `Fits` and `Misfits`, `Repair`, `ParseFails` |
| `json.dumps` raises | `Unsent` |
| `_generate_typed`: validation and the retry loop | `Misfits`, `Retry` |
| `ProductWorkflow.run` | `Advance` |

### Analysis

A call of one of the three services is one action with a verdict (`Verdict`) and a row in the
caller's session where the code adds one (`Logs`). The caller, who commits or rolls back, is not in
the repository: what becomes of the rows of refused answers is its choice, and no property is
about it. Of an answer the items that the completeness checks compare are kept.

### Compliance

The rules are operators over sets of tokens, named after the methods: `Lexical`, `Structural`,
`MetadataSimilarity`, `Weighted`, `Penalty`, `Similarity`, `Scored`, `Ranked`, `Detect` and, for
the service, `Normalized`, `Issues`, `Evaluate`. The reversed stable sort is given by its order
(`Precedes`): a project's place is one more than the number of projects that precede it. The state machine only feeds them: a project and
metadata chosen at the start, then a channel's history that grows by one project (`Recheck`).
Arithmetic is exact in 1/6000, where the code has floats: what rounding does within an ulp of a
threshold is not modelled. `Embedded` stands for the cosine of two embeddings.

### Usage

One organisation. `database` is chosen at the start. Without it creation is one step
(`CreateAtOnce`); with it `CheckLimit` and `Insert` are the count and the commit of one transaction:
under READ COMMITTED others commit in between, and none of them counts the insert before it is
committed. The ledgers' foreign keys are `Deletable` and `Chargeable`. The in-memory
dictionary of channels is `registered` (keys `organisation:channel`, by register_channel and by
creating a project) and `catalogued` (keys of `POST /channels`).

| code | actions |
|---|---|
| set_plan, register_channel, `POST`/`DELETE /channels` | `SetPlan`, `RegisterChannel`, `CreateChannel`, `DeleteChannel` |
| create and delete of a project | `CreateAtOnce`, `CheckLimit`, `Insert`, `InsertFails`, `DeleteProject` |
| ledgers | `LogCost`, `WriteRow` |
| `YouTubeClientQuotaWrapper.call` | `ClientAnswers`, then `Log`, `LogLate` (committed, but the ten seconds are over or the connection fails after it) or `LogFails`, twice at most; `Forget` |

Usage counts every project of the organisation, of any month; snapshots are written and never
read, and are left out.

### RateLimit

One key of the middleware's dictionary. `dispatch` does not suspend between the look at the deque
and the append, so a request is one step, `Accept` or `Refuse`. The deque is the part of
`accepted` after `head`. `now` is real time and `clock` is `time.time()`; `SetAhead` and `SetBack`
are the host's, with `ahead` and `back` how far it went in all.

Set aside, as they would stop the program before any behaviour modelled here: `db/models.py` 202-205
names `created_at` in a class body where it is undefined, and `save_compliance_report` hands a
UUID to a JSONB column. Repository calls are taken at their written meaning.

## Runs

| cfg | checks | instance | what it shows |
|---|---|---|---|
| `PublishingApi` | `TypeOK`, `GatePassed`, `PublishedIsAccounted`, `UploadingIsOwned`, `UploadsNeedFaults`, `LifecycleSpec` | one plan, a scheduler, a publisher, a worker, one retry, one fault | the gate and the ledger hold while API and worker publish the same plan; a lone worker uploads once plus once per fault; the handlers implement the abstract life cycle |
| `PublishingLive` | `SuccessIsReal`, `UploadEnds`, `TaskSettles` | a scheduler, two workers, two deliveries, no retry, one fault, fair | recorded successes are true, also with a fault between the racing workers; uploads end and tasks are settled unless it comes |
| `PublishingTwice` | `UploadedOnce` (violated) | two workers, two deliveries, no fault | the documented idempotency does not hold |
| `ReviewRequests` | `TypeOK`, `AggregateBacked`, `EventsBacked`, `StatusBacked`, `SettledAgrees`, `RunsReachReview` | two requests at once of three, all operations, two steps per run, one cut, fair | log, aggregate, status, runs and events stay consistent; one at a time they agree at rest; every run comes to wait for review |
| `Angles` | `TypeOK`, `GatesAgree`, `ApprovedThroughGate`, `DecisionsStick` | two ideas, two angles, two editors, hooks on both sides of each threshold | the gates agree and decide for good |
| `Agents` | `TypeOK`, `CallBudget`, `Accounted`, `Ends` | five agents, three attempts, both providers, fair | requests are bounded and accounted for; the workflow ends and survives short outages |
| `Analysis` | `AcceptedIsComplete` | two calls, up to three items for up to two expected | accepted answers are complete |
| `Compliance` | `CopiesAreBlocked`, `NoSharedWordNoBlock`, `RiskNeverDrops` | six projects, histories of up to four, ten metadata | what the rules block, whatever the history's order |
| `Catalog` | `TypeOK`, `Isolated`, `NoOrphans`, `AloneIsServed` | two tenants, two channels, an idea, four requests, two at once, both modes | tenants stay apart, no orphans, memories served |
| `Usage` | `TypeOK`, `OvershootBounded`, `ReturnedIsCharged`, `TwiceOnlyIfLate`, `EntriesKeepProjects` | two requests, a thread, three projects, a channel, four plan codes, faults, both modes | how far a limit is overrun, how calls are charged, and that deletions leave no entry behind |
| `RateLimit` | `TypeOK`, `WindowBounded`, `RefusalsExplained` | two per window of two, five instants, the clock set by two each way | what passes in a window, and who is refused |
| `UsageListing` | `ListingWorks` (violated) | one organisation, one channel | a registered channel breaks the listing |

**Bounds.** Plans share nothing but the gate, so one plan shows every interleaving on a plan.
Two workers and one publisher suffice for each pair of processes that can conflict: every
check-then-write in the code is between two steps of one process, with one other process in
between; the same holds of two requests in `Review`, `Catalog` and `Usage`. A third request of
`Review` and `Catalog` finds what a race left behind, and the fourth of `Catalog` overlaps with
it. `MaxRetries` is 1 instead of 5: a second delivery of a retried task already takes every
branch of `Claim`; `PublishingLive` has the second delivery without a retry. `StepCount` is 2
instead of 7: the loop has a first and a last step. `EveryAngle` has a hook on each side of
each score at which a decision changes (24 and 25, 41 and 42), an empty one and one beyond the
cap. Three projects are one more than the smaller limit and a race; `MCLimit` keeps the order
of the plans. Histories of four are one more than the three that are shown. Each of
`MCMetadata` has one more reason to block, and one has two. `MaxSends`, `MaxFaults`,
`MaxQuota`, `MaxRequests`, `MaxOpen`, `MaxAngles`, `MaxRows`, `MaxCalls`, `Horizon`, `MaxSet`,
`MaxAccepted` and `MaxHistory` stop the counters. Where these bounds make a run come to rest
the deadlock check is off, and the cfg says why; the Publishing runs keep it.

**Symmetry** is used in `Angles` (ideas, editors), `Catalog` (tenants, channels) and `Usage`
(projects), with invariants and action properties only; none of them names an element.

**History.** `MCReview` adds `overlapped`, whether two requests were ever in progress at once:
`SettledAgrees` is about the executions in which they were not, which are those of the
in-memory repository, whose handlers never suspend. `MCPublishing` adds which workers have
taken a task and whether the API has published, for `UploadsNeedFaults`.

**Fairness.** `Publishing!Fairness` is weak fairness of each process's next step, which the
event loop and the worker give to every coroutine that can run (no step waits for another
process: the database's row locks are held for one UPDATE), and of a worker without a task
taking one that waits. Nothing is assumed of users: nobody has to schedule, publish or decide.
`Review!FairSpec` and `MCReview!MCSpec` have weak fairness of the steps of a request that began,
cut requests excepted: a cut one is over. `Agents!FairSpec` is weak fairness of `Next`: the caller
waits for `run()`, and every request to a provider has a timeout.

**Sequential requests.** `SettledAgrees` holds only when requests come one at a time. With two
reviewers at once the aggregate can show one verdict, the status another, and the log a third
as its newest, and the events of a start can be attached to a later run. This is what the code
does, not a misreading of it; `AggregateBacked`, `StatusBacked` and `EventsBacked` say what is
left. `StatusBacked` is about a status that no PATCH wrote: `PATCH /video-projects` may write
any status, a verdict too.

Next to the definitions that runs exercise stand named mutations (comment `Mutation:`), the
same step with a plausible mistake. They are no part of the specification; each makes one
property of one run fail.

## Disagreements with documents and tests

Two are shown by a run:

* `docs/architecture/repo-reconnaissance.md` 46 says that the tasks track idempotency by their
  executions. The status of the execution is only tested for "succeeded", so two workers that
  find it pending both publish: `PublishingTwice` gives the trace. `UploadsNeedFaults` states
  what is true, for a single worker.
* `tests/test_channels_api.py` 57-58 lists a tenant's channels and is answered 200. After
  register_channel, or the creation of a project, the same dictionary holds rows without a
  workspace, an id and a name, and `GET /channels` fails: `UsageListing`.

The others were met while modelling and can be read off the definitions:

* `docs/product/originality-angle-engine.md` 184 asks for an immutable override event; a second
  override replaces the first in the angle's row (`api/content_ideas.py` 528, `Override`).
* `tests/test_angle_workflow.py` 152-153 expects 409 from the approval of an angle that was
  evaluated from a payload; nothing was stored, so it is 404 (449-461).
* `angle_evaluation_service.py` 138 says "exactly one evaluation per candidate" where sets of
  indexes are compared: duplicates are accepted (`Partial`).
* `tests/test_usage_limits.py` 18 and 10 say that the starter plan cannot exceed its project and
  channel limits; concurrent creations exceed the first by what `OvershootBounded` allows, and
  creating a project registers its channel past the second (VPS 30).
* The quota wrapper "logs every call" (`youtube_quota_service.py` 34); when the project is deleted
  in the meantime the ledger refuses both entries and the call is charged nowhere (`LogFails`).
* `docs/product/topic-research-engine.md` 156 wants an `LLMCall` for each interaction; an answer
  that is refused, or whose commit fails, leaves none (`api/content_ideas.py` 321-341, `Fail`).
* Line 97 of the same document says that `latest` is the most recent report. In memory a report is
  dated by its idea's last change, and of equal dates the first wins (`api/content_ideas.py`
  308-313, 355-358).

## Proofs

All theorems hold for any sets of plans, processes, requests, tenants, ideas, agents and so on,
and any bounds, from the named assumptions beside the CONSTANTS of each module. Each module of
proofs proves an inductive invariant, mostly `IInv` (`Invariant`), of which the properties are a
part or a consequence. The invariants were checked on the instances of the runs before they were
proved.

`Publishing`: `TypeCorrect`, then `Invariant` for `IInv`, which adds to the checked invariants

* `GateInv`, the latest approval is on record;
* `RowsInv`, every plan that a process or a message names exists;
* `ProcessInv(c)`, what a process knows at each step: past its approval check an approval is
  on record, past the plan check the plan was released, past the package check the package is
  complete, before `Finish` the plan was charged, after it the plan has its video, and in its
  try block the worker's attempt has a "running" row.

Without these a process in the middle of a handler could write anything. They are stable under
the steps of others because decisions, packages, quota entries, videos and attempts are never
taken back (`Monotone`). Each invariant has one lemma, with one case per action that writes its
variables (the `...Writers` lemmas). `GatePassedAlways`, `PublishedIsAccountedAlways`,
`SuccessIsRealAlways` and `UploadingIsOwnedAlways` follow. `Refinement` proves
`Spec => LifecycleSpec`: each step of a handler is a step of `PlanLifecycle` or changes nothing
it sees, and it needs `IInv` to know that a schedule is approved and a publication charged.

`MCPublishing`: `UploadsNeedFaultsAlways`, for any retries and deliveries, from `AloneInv`. While one
worker alone has published, a plan has at most as many uploads as there were faults, and one more
that is either recorded, its execution "succeeded", or about to be, the worker being between the
upload and the mark (`UploadsInv`). A worker that passed its claim works on an execution that is
not "succeeded", in the table and in the row it loaded; so when it uploads, no unpaid upload is
there, and when it dies before the mark, the fault pays for it. `WorkerMoves` lists what a worker's
step can do to executions, row and quota, one lemma each says what follows for the plan, and
`OthersSchedule` that nobody else takes a step that matters.

`Review`: type correctness and `IInv` are proved together (`Invariant`), as a step count stays
in its range only because a start stops at `StepCount`. `IInv` adds `TimesInv` (each request has
a time of its own), `StepOfOp` (which operation can be at which step), `DecisionInv` (past its
commit a request finds its decision in the log) and `RunInv` (how far a start has come with its
run). `AggregateBackedAlways`, `StatusBackedAlways` and `EventsBackedAlways` follow.

`MCReview`: `SettledAgreesAlways`, from `SequentialInv`. `SettledAgrees` says nothing while a request
is in progress; what makes it inductive is what that one request still owes. It alone is dated
`now` (`OneInv`), so the decision it logs is the newest and owed to the aggregate until `FindApproval`
or its write (`AggregateInv`), its verdict is owed to the status until `SetStatus` (`StatusInv`), and
the events of its run up to the present step are there (`RunsInv`). The row that `upsert_approval`
loaded is still the stored one when it is written, which is what two requests at once break.

`Angles`: `HookRounding` is the arithmetic of the two gates, for a hook of any length;
`ScoreFacts` follows, that both gates read a score alike. `IInv` says of every row that a stored
evaluation is the score of its own angle and that its status, approval and override fit together.

`Catalog`: `IInv` says what a request may rely on between its loads and its commit (`CallOK`: the
tenant that was checked still owns the channel, the idea is still of that channel, a PATCH without
a rival holds the newest memory), and that such a PATCH is the only one (`SoloOK`). It is stable
because tenants and channels of rows never change and commits check the rest.

`Agents`: `WithinBudget` bounds the requests by the agent, the attempt and whether a repair is
pending; `Balanced` keeps the difference of requests, costs and failures.

`Usage`: the overshoot is inductive because a request that passed its check is counted as the
project it may still insert; the plans held so far make a change to a smaller plan harmless.
`RowsByPhase` lists the entries a wrapper call can have written in each phase. `RowsCounted` makes
`EntriesKeepProjects` inductive: a call with an entry is among the charges of its project, which no
step takes away and which keep the project.

`Compliance`: the report is always that of the present history (`AlwaysReported`), so the
properties are about the operators. `Shares` and `JaccardRanges` give the range of a quotient of
cardinalities and its values for equal and for disjoint texts; `CopyScores` and `UnlikeScores` add
up the weights, 1 for a copy and 0.7 at most without a common word. `MostSimilarFirst` is that the
sort returns a whole list whose first is a greatest: different places are preceded by different
numbers of others (`BeforeCounts`), and by the pigeonhole principle n places have all the numbers
from 0 to n - 1 (`PlacesAreTaken`); no induction is needed. `CopiesAlwaysBlocked`,
`NoSharedWordNeverBlocks` and `RiskNeverDropsAlways` follow, for texts and histories of any
length. The integer quotient rounds down a share of texts that have more than six tokens together;
none of the three depends on how it rounds, only on its range and order.

`Analysis`: the last verdict is that on the last answer (`LastJudged`), from which
`AcceptedAlwaysComplete` follows; both are in `AgentsProofs`.

`RateLimit`: `Drift` relates the ages of an entry by the clock and in real time; entries that were
dropped are therefore at least a window old, less `ahead` (`DroppedAreOld`), and entries that
refuse are younger than a window and `back`.

Every invariant and every action property that a run checks is stated by a theorem. Only
model-checked are the liveness properties (`UploadEnds`, `TaskSettles`, `RunsReachReview`,
`Ends`): they need ENABLED and fairness, which are out of the prover's reach. The two violated
properties are shown by their traces.

## Not modelled

* The frontend: pages load once and show what they loaded; no state is kept between requests.
* `services/content_idea_service.py` and `repositories/content_idea_repository.py`: imported by
  nothing.
* `model_router.py`, `prompt_registry.py`, `llm_config.py`, `redaction.py`: lookups and text.
* The role matrix of `api/deps.py`: a table that is looked up; the tenant checks are in `Catalog`.
* `workflow.video.sync_analytics`: the publish task's protocol around no work.
  `workflow.video.start` keeps no state.
* Analytics: one row appended, to which nothing refers.
* Usage snapshots, written and never read.
* Error bodies, metrics, logging, CORS, migrations, generated API types, containers: wiring and
  wording.
* What an approval is worth at upload time: `Publishing` takes the gate's changes as
  nondeterministic as `Review` can make them, and the two are not composed.

## Plan

1. `Studio`: Review and Publishing composed, `gate` computed from the decision log and the
   reports: which blocking report or rejection an upload can have overlooked.
2. The answer "published" of the task for a plan that was scheduled again, with the client's view.
3. `sync_analytics` and the history of research reports.
4. An abstract life of a task beside that of a plan: which executions a plan can have had, and
   the handlers shown to implement it.
