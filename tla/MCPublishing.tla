----------------------------- MODULE MCPublishing -----------------------------
(* Publishing for model checking, with a history of who has published.     *)
EXTENDS Publishing

VARIABLES
  requested,  \* an API request has begun to publish
  received    \* the workers that have taken a task

Busy(procs) == {c \in procs : proc[c].step # "idle"}

mcvars == <<vars, requested, received>>

Recorded ==
  /\ requested' = (requested \/ Busy(Publishers)' # {})
  /\ received' = received \cup Busy(Workers)'

MCInit == Init /\ requested = FALSE /\ received = {}

MCNext ==
  \/ ReviewStep /\ Recorded
  \/ Arrival /\ Recorded
  \/ \E w \in Workers : Receive(w) /\ Recorded
  \/ \E c \in Procs : (Step(c) /\ Recorded) \/ (Fault(c) /\ Recorded)

MCSpec == MCInit /\ [][MCNext]_mcvars

-----------------------------------------------------------------------------

\* Nobody but this worker has published.
Alone(w) == ~requested /\ received \subseteq {w}

\* While one worker alone publishes, each upload beyond the first costs a fault: a second
\* one needs the task to have died before it was marked (video_workflow.py:24).
UploadsNeedFaults ==
  (\E w \in Workers : Alone(w)) => \A p \in Plans : quota[p] <= 1 + faults

-----------------------------------------------------------------------------
(* The strengthening of UploadsNeedFaults that is inductive *)

\* Every process keeps to the code of its kind, and who publishes is in the history.
RolesInv ==
  /\ \A c \in Schedulers : proc[c].step \in ScheduleSteps \cup {"idle"}
  /\ \A c \in Publishers : ~At(c, "idle") => requested
  /\ \A c \in Workers : ~At(c, "idle") => c \in received

\* The worker is between its claim and the mark of its success.
BeforeSuccess == PublishSteps \cup {"startAttempt", "markSucceeded"}

\* An upload that no fault pays for is the one that the execution's "succeeded" records,
\* or that the worker is about to record.
Recording(w, p) == proc[w].step \in {"finish", "markSucceeded"} /\ PlanOf(w) = p

UploadsInv(w) ==
  /\ \A p \in Plans : quota[p] <= 1 + faults
  /\ \A p \in Plans :
       executions[p].status # "succeeded" /\ ~Recording(w, p) => quota[p] <= faults
  /\ At(w, "markFailed") => quota[PlanOf(w)] <= faults
  /\ proc[w].step \in BeforeSuccess =>
       "succeeded" \notin {executions[PlanOf(w)].status, proc[w].row.status}

AloneInv == RolesInv /\ \A w \in Workers : Alone(w) => UploadsInv(w)

=============================================================================
