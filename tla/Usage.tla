------------------------------- MODULE Usage -------------------------------
(***************************************************************************)
(* What one organisation may use and what it has used: its plan's limits   *)
(* on projects and channels, the projects it creates and deletes, the LLM  *)
(* cost ledger, and the wrapper that charges each YouTube call to the      *)
(* quota ledger (usage_service.py, plan_limit_service.py,                  *)
(* youtube_quota_service.py and the repositories they call).               *)
(*                                                                         *)
(* Without a database a creation runs without suspending: one action.      *)
(* With one it is a check and a later insert.  Both are in the request's   *)
(* one transaction, but under READ COMMITTED the check sees what others    *)
(* have committed, others do not see the insert before its commit, and     *)
(* they run in between.  Refusals change nothing and are the states where  *)
(* an action's guard is false.                                             *)
(***************************************************************************)
EXTENDS Integers, FiniteSets, Sequences

CONSTANTS
  Requests,      \* the POST /video-projects requests that can be open at once
  Threads,       \* the threads that call YouTube through the wrapper
  Projects,      \* project ids
  NoProject,     \* the context of a call that concerns no project
  Channels,      \* channel ids
  Codes,         \* the plan codes an organisation can hold, known or not
  NoLimit,       \* the limit None
  ProjectLimit,  \* max_video_projects_per_month of the known plans
  ChannelLimit,  \* max_channels of the known plans
  MaxRows,       \* bound: no entry is begun for a project with this many in a ledger
  Faults         \* TRUE: writing to the quota ledger may fail or time out

ASSUME KindAssumption == Faults \in BOOLEAN /\ MaxRows \in Nat
ASSUME RequestsAssumption == IsFiniteSet(Requests) /\ Requests # {}
ASSUME ProjectsAssumption == IsFiniteSet(Projects) /\ NoProject \notin Projects
ASSUME LimitsAssumption ==
  /\ NoLimit \notin Nat
  /\ "starter" \in DOMAIN ProjectLimit /\ "starter" \in Codes
  /\ ProjectLimit \in [DOMAIN ProjectLimit -> Nat \cup {NoLimit}]
  /\ ChannelLimit \in [DOMAIN ProjectLimit -> Nat \cup {NoLimit}]

VARIABLES
  database,    \* TRUE: DBVideoProjectRepository; FALSE: the in-memory one
  plan,        \* the organisation's plan code
  held,        \* history: the plan codes it has held so far
  project,     \* the row of each project id
  registered,  \* entries "organisation:channel" of the in-memory channels dictionary
  catalogued,  \* the other entries of that dictionary: rows of POST /channels, by their id
  request,     \* "checked": the limit was read and the project is not inserted yet
  cost,        \* LLM cost entries, per project
  charges,     \* quota ledger entries, per project or without one
  call         \* the wrapper call each thread is in

channels == <<registered, catalogued>>
vars     == <<database, plan, held, project, channels, request, cost, charges, call>>

RowStates == {"unborn", "stored", "deleted"}
Contexts  == Projects \cup {NoProject}
Phases    == {"idle", "first", "second", "returned", "raised"}

\* The handler logs the call as a success first, and as a failure if anything raised.
Status(phase) == IF phase = "first" THEN "success" ELSE "failure"
CallStates ==
  [phase: Phases, project: Contexts, rows: Seq({"success", "failure"}), late: BOOLEAN]

NoCall == [phase |-> "idle", project |-> NoProject, rows |-> <<>>, late |-> FALSE]

TypeOK ==
  /\ database \in BOOLEAN
  /\ plan \in Codes
  /\ held \in SUBSET Codes
  /\ project \in [Projects -> RowStates]
  /\ registered \in SUBSET Channels
  /\ catalogued \in SUBSET Channels
  /\ request \in [Requests -> {"idle", "checked"}]
  /\ cost \in [Projects -> Nat]
  /\ charges \in [Contexts -> Nat]
  /\ call \in [Threads -> CallStates]

Init ==
  /\ database \in BOOLEAN
  /\ plan = "starter"
  /\ held = {"starter"}
  /\ project = [p \in Projects |-> "unborn"]
  /\ registered = {} /\ catalogued = {}
  /\ request = [r \in Requests |-> "idle"]
  /\ cost = [p \in Projects |-> 0]
  /\ charges = [p \in Contexts |-> 0]
  /\ call = [t \in Threads |-> NoCall]

-----------------------------------------------------------------------------
(* Limits *)

Stored  == {p \in Projects : project[p] = "stored"}
Checked == {r \in Requests : request[r] = "checked"}

\* An unknown code has the limits of the starter plan.
Limits(limit, code) == IF code \in DOMAIN limit THEN limit[code] ELSE limit["starter"]

\* Mutation: one more than the limit is let through.
WithinOff(used, max) == max # NoLimit => used < max + 1

Within(used, max) == max # NoLimit => used < max

\* The count is over every project of the organisation, of any month.
CanCreate == Within(Cardinality(Stored), Limits(ProjectLimit, plan))

CanAddChannel == Within(Cardinality(registered), Limits(ChannelLimit, plan))

SetPlan(code) ==
  /\ plan' = code
  /\ held' = held \cup {code}
  /\ UNCHANGED <<database, project, channels, request, cost, charges, call>>

\* POST /usage/{org}/channels/{channel}; the database's register_channel does nothing.
RegisterChannel(c) ==
  /\ ~database
  /\ CanAddChannel
  /\ registered' = registered \cup {c}
  /\ UNCHANGED <<database, plan, held, project, catalogued, request, cost, charges, call>>

\* POST /channels in memory: a row of the same dictionary, under another key, without a limit.
CreateChannel(c) ==
  /\ ~database
  /\ catalogued' = catalogued \cup {c}
  /\ UNCHANGED <<database, plan, held, project, registered, request, cost, charges, call>>

DeleteChannel(c) ==
  /\ c \in catalogued
  /\ catalogued' = catalogued \ {c}
  /\ UNCHANGED <<database, plan, held, project, registered, request, cost, charges, call>>

\* GET /channels takes the workspace, the organisation and the name of every value of the
\* dictionary; those registered with a project have no workspace: KeyError.
ListingAnswers == database \/ registered = {}

-----------------------------------------------------------------------------
(* Projects *)

\* POST /video-projects in memory; the channel is registered without a check of its limit.
CreateAtOnce(p, c) ==
  /\ ~database
  /\ project[p] = "unborn"
  /\ CanCreate
  /\ registered' = registered \cup {c}
  /\ project' = [project EXCEPT ![p] = "stored"]
  /\ UNCHANGED <<database, plan, held, catalogued, request, cost, charges, call>>

\* With a database: the request counts what is committed and checks the limit ...
CheckLimit(r) ==
  /\ database
  /\ request[r] = "idle"
  /\ CanCreate
  /\ request' = [request EXCEPT ![r] = "checked"]
  /\ UNCHANGED <<database, plan, held, project, channels, cost, charges, call>>

\* ... inserts the project and commits, and only then do others count it ...
Insert(r, p) ==
  /\ request[r] = "checked"
  /\ project[p] = "unborn"
  /\ request' = [request EXCEPT ![r] = "idle"]
  /\ project' = [project EXCEPT ![p] = "stored"]
  /\ UNCHANGED <<database, plan, held, channels, cost, charges, call>>

\* ... which may fail.
InsertFails(r) ==
  /\ request[r] = "checked"
  /\ request' = [request EXCEPT ![r] = "idle"]
  /\ UNCHANGED <<database, plan, held, project, channels, cost, charges, call>>

\* The ledgers' foreign keys hold a project in the database.
Deletable(p) == ~database \/ (cost[p] = 0 /\ charges[p] = 0)

DeleteProject(p) ==
  /\ project[p] = "stored"
  /\ Deletable(p)
  /\ project' = [project EXCEPT ![p] = "deleted"]
  /\ UNCHANGED <<database, plan, held, channels, request, cost, charges, call>>

\* Mutation: an entry is accepted although its project was deleted since it was begun.
ChargeableOnce(p) == database /\ p \in Projects => project[p] # "unborn"

\* A ledger entry of a project the database no longer has violates the foreign key.
Chargeable(p) == database /\ p \in Projects => project[p] = "stored"

LogCost(p) ==
  /\ project[p] # "unborn"
  /\ Chargeable(p)
  /\ cost[p] < MaxRows
  /\ cost' = [cost EXCEPT ![p] = @ + 1]
  /\ UNCHANGED <<database, plan, held, project, channels, request, charges, call>>

-----------------------------------------------------------------------------
(* YouTubeClientQuotaWrapper.call *)

ClientAnswers(t, p) ==
  /\ call[t].phase = "idle"
  /\ p \in Projects => project[p] # "unborn"
  /\ charges[p] < MaxRows
  /\ \E phase \in {"first", "second"} :     \* it returned, it raised
       call' = [call EXCEPT ![t] = [phase |-> phase, project |-> p, rows |-> <<>>, late |-> FALSE]]
  /\ UNCHANGED <<database, plan, held, project, channels, request, cost, charges>>

\* Mutation: the caller gets the client's result although its log raised.
AfterRaiseReturns(phase) == IF phase = "first" THEN "returned" ELSE "raised"

\* Mutation: a second log that raised is tried once more.
AfterRaiseAgain(phase) == IF phase = "first" THEN "second" ELSE "third"

\* An exception of the first log reaches the same handler as one of the client.
AfterRaise(phase) == IF phase = "first" THEN "second" ELSE "raised"

\* Mutation: the handler's log runs for a call that succeeded as well.
AfterLogAgain(phase) == IF phase = "first" THEN "second" ELSE "raised"

AfterLog(phase) == IF phase = "first" THEN "returned" ELSE "raised"

WriteRow(t, phase, late) ==
  /\ Chargeable(call[t].project)
  /\ charges' = [charges EXCEPT ![call[t].project] = @ + 1]
  /\ call' = [call EXCEPT ![t] = [phase |-> phase, project |-> call[t].project, late |-> late,
                                  rows |-> Append(call[t].rows, Status(call[t].phase))]]

\* The row is committed and the log returns.
Log(t) ==
  /\ call[t].phase \in {"first", "second"}
  /\ WriteRow(t, AfterLog(call[t].phase), call[t].late)
  /\ UNCHANGED <<database, plan, held, project, channels, request, cost>>

\* The row is committed, but result(timeout=10) raises first or the connection fails after it.
LogLate(t) ==
  /\ Faults
  /\ call[t].phase \in {"first", "second"}
  /\ WriteRow(t, AfterRaise(call[t].phase), TRUE)
  /\ UNCHANGED <<database, plan, held, project, channels, request, cost>>

\* No row: the ledger fails, or refuses the deleted project.
LogFails(t) ==
  /\ Faults \/ ~Chargeable(call[t].project)
  /\ call[t].phase \in {"first", "second"}
  /\ call' = [call EXCEPT ![t].phase = AfterRaise(@)]
  /\ UNCHANGED <<database, plan, held, project, channels, request, cost, charges>>

Forget(t) ==
  /\ call[t].phase \in {"returned", "raised"}
  /\ call' = [call EXCEPT ![t] = NoCall]
  /\ UNCHANGED <<database, plan, held, project, channels, request, cost, charges>>

Next ==
  \/ \E code \in Codes : SetPlan(code)
  \/ \E c \in Channels : RegisterChannel(c) \/ CreateChannel(c) \/ DeleteChannel(c)
  \/ \E p \in Projects, c \in Channels : CreateAtOnce(p, c)
  \/ \E r \in Requests : CheckLimit(r) \/ InsertFails(r)
  \/ \E r \in Requests, p \in Projects : Insert(r, p)
  \/ \E p \in Projects : DeleteProject(p) \/ LogCost(p)
  \/ \E t \in Threads, p \in Contexts : ClientAnswers(t, p)
  \/ \E t \in Threads : Log(t) \/ LogLate(t) \/ LogFails(t) \/ Forget(t)

Spec == Init /\ [][Next]_vars

-----------------------------------------------------------------------------
(* Properties *)

\* A limit of some plan held so far leaves room for n more.
LeavesRoom(limit, n) ==
  \E code \in held : Limits(limit, code) = NoLimit \/ n < Limits(limit, code)

\* Requests that read the same count pass the check together, so the limit can be exceeded, but
\* only by the requests open besides one: projects and the inserts that passed the check stay
\* below limit plus open requests (usage_service.py:34-36 and video_project_service.py:28-31).
OvershootBounded ==
  LET open == IF database THEN Cardinality(Requests) - 1 ELSE 0
  IN  LeavesRoom(ProjectLimit, Cardinality(Stored) + Cardinality(Checked) - 1 - open)

\* With a database a deletion that runs between YouTube's answer and the call's entry either
\* comes first, and then the call leaves no entry, or is refused: no entry of either ledger is
\* without its project, and a call that was charged still has its project, whatever its caller
\* does next (delete_video_project, YouTubeClientQuotaWrapper.call).
EntriesKeepProjects ==
  database =>
    /\ \A p \in Projects : cost[p] + charges[p] > 0 => project[p] = "stored"
    /\ \A t \in Threads :
         call[t].rows # <<>> /\ call[t].project \in Projects => project[call[t].project] = "stored"

\* A result reaches the caller only after exactly one entry, a success, was written for the call
\* (YouTubeClientQuotaWrapper.call).
ReturnedIsCharged == \A t \in Threads : call[t].phase = "returned" => call[t].rows = <<"success">>

\* A call is charged twice only when the log of its success raised after its entry was written;
\* the second entry says the call failed (YouTubeClientQuotaWrapper.call's one handler for both).
TwiceOnlyIfLate ==
  \A t \in Threads :
    Len(call[t].rows) > 1 => call[t].late /\ call[t].rows = <<"success", "failure">>

\* tests/test_channels_api.py:57 lists the channels of a tenant and is answered 200, with
\* projects or registrations of the same tenant.
ListingWorks == ListingAnswers
=============================================================================
