------------------------------- MODULE MCReview -------------------------------
(* Instances of Review for model checking, with a history of whether       *)
(* requests have come one at a time.                                       *)
EXTENDS Review

CONSTANTS r1, r2

TwoRequests == {r1, r2}
AllOperations == Reviews \cup {"request_approval", "compliance", "start", "patch"}

VARIABLE overlapped  \* a request has begun before another had ended

Idling == \A r \in Requests : At(r, "idle")

MCInit == Init /\ overlapped = FALSE

MCNext ==
  \E r \in Requests :
    \/ \E op \in Operations :
         Begin(r, op) /\ overlapped' = (overlapped \/ ~Idling)
    \/ Step(r) /\ UNCHANGED overlapped
    \/ Cut(r) /\ UNCHANGED overlapped

mcvars == <<vars, overlapped>>
MCSpec == MCInit /\ [][MCNext]_mcvars /\ \A r \in Requests : WF_vars(Step(r))

-----------------------------------------------------------------------------
(* Properties of requests that come one at a time: without a database the  *)
(* handlers never suspend.                                                 *)

Sequential == faults = 0 /\ ~overlapped

\* What writes the project's status, PATCHes apart: verdicts and started runs.
Rulings == {d \in decisions : d.status \in Decided}
             \cup {[at |-> t, status |-> "awaiting_review"] : t \in runs}

AggregateAgrees == \A d \in decisions : Newest(d, decisions) => approval.status = d.status
StatusAgrees == ~status.patched => \A d \in Rulings : Newest(d, Rulings) => status.value = d.status

Emitted(t, type, n) == [type |-> type, of |-> t, run |-> t, n |-> n] \in events
RunAgrees(t) ==
  /\ steps[t] = StepCount
  /\ \A n \in 1..StepCount : Emitted(t, "step", n)
  /\ Emitted(t, "created", 0) /\ Emitted(t, "waiting", 0)

\* One request at a time (the in-memory repository): at rest the aggregate shows the
\* newest decision, and the project's status the newest verdict or start, or a PATCH;
\* and every run has all its steps and all its events.
SettledAgrees ==
  Sequential /\ Idling => AggregateAgrees /\ StatusAgrees /\ \A t \in runs : RunAgrees(t)

-----------------------------------------------------------------------------
(* The strengthening of SettledAgrees that is inductive: what the one request in   *)
(* progress has logged and not yet written, or begun and not yet ended.            *)

\* It has no row yet, and all rows are older.
OneInv ==
  /\ \A r, q \in Requests : ~At(r, "idle") /\ ~At(q, "idle") => r = q
  /\ \A r \in Requests : ~At(r, "idle") => Time(r) = now
  /\ \A d \in decisions : d.at <= now
  /\ \A r \in Requests :
       req[r].step \in {"readCompliance", "readApproval", "addDecision", "createRun"} =>
         (\A d \in decisions : d.at < now) /\ (\A t \in runs : t < now)

\* Its decision is the newest, and not yet in the aggregate.
OwesApproval(r) == req[r].step \in {"findApproval", "writeApproval"}
AggregateInv ==
  /\ (\A r \in Requests : ~OwesApproval(r)) => AggregateAgrees
  /\ \A r \in Requests : OwesApproval(r) =>
       \A d \in decisions : Newest(d, decisions) => d.status = Verdict(Op(r))
  /\ \A r \in Requests : At(r, "writeApproval") => req[r].row = approval

\* Its ruling is the newest, and not yet in the project's status.
OwesStatus(r) ==
  \/ Op(r) \in Reviews /\ req[r].step \in {"findApproval", "writeApproval", "setStatus"}
  \/ Op(r) = "start" /\ req[r].step \in {"emitCreated", "createStep", "emitStep", "setStatus"}
StatusInv ==
  /\ (\A r \in Requests : ~OwesStatus(r)) => StatusAgrees
  /\ \A r \in Requests : OwesStatus(r) =>
       \A d \in Rulings : Newest(d, Rulings) => d.status = Verdict(Op(r))

\* Its run is not yet complete: the events so far.
OwesRun(r) == (OwesStatus(r) /\ Op(r) = "start") \/ At(r, "emitWaiting")
RunsInv ==
  /\ \A t \in runs : (\A r \in Requests : OwesRun(r) => Time(r) # t) => RunAgrees(t)
  /\ \A r \in Requests : OwesRun(r) =>
       /\ \A n \in 1..steps[Time(r)] :
            n < steps[Time(r)] \/ ~At(r, "emitStep") => Emitted(Time(r), "step", n)
       /\ ~At(r, "emitCreated") => Emitted(Time(r), "created", 0)

SequentialInv == Sequential => OneInv /\ AggregateInv /\ StatusInv /\ RunsInv

=============================================================================
