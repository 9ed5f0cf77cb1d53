----------------------------- MODULE PlanLifecycle -----------------------------
(***************************************************************************)
(* What publishing promises, seen from outside: the life of each plan, one  *)
(* step per promise, with no handler, worker or message in it.  Publishing   *)
(* implements it (Publishing!Lifecycle).                                     *)
(***************************************************************************)
EXTENDS Naturals

CONSTANT Plans

VARIABLES
  onRecord,   \* an approval is in the project's decision log
  plans,      \* status, package and video of each plan
  quota       \* upload calls charged to each plan

vars == <<onRecord, plans, quota>>

\* A plan that was scheduled once; it never becomes a draft again.
Released == {"scheduled", "uploading", "published"}

Init ==
  /\ onRecord = FALSE
  /\ plans = [p \in Plans |-> [status |-> "absent", complete |-> FALSE, video |-> FALSE]]
  /\ quota = [p \in Plans |-> 0]

\* The decision log only grows.
Approve ==
  /\ onRecord' = TRUE
  /\ UNCHANGED <<plans, quota>>

Create(p) ==
  /\ plans[p].status = "absent"
  /\ \E complete \in BOOLEAN :
       plans' = [plans EXCEPT ![p] = [status |-> "draft", complete |-> complete, video |-> FALSE]]
  /\ UNCHANGED <<onRecord, quota>>

\* Drafts with a complete package of an approved project are scheduled; so is any
\* plan that was scheduled before, published ones included.
Schedule(p) ==
  /\ plans[p].status # "absent"
  /\ onRecord
  /\ plans[p].complete
  /\ plans' = [plans EXCEPT ![p].status = "scheduled"]
  /\ UNCHANGED <<onRecord, quota>>

Upload(p) ==
  /\ plans[p].status \in Released
  /\ plans' = [plans EXCEPT ![p].status = "uploading"]
  /\ UNCHANGED <<onRecord, quota>>

\* An upload is charged, one call at a time.
Charge(p) ==
  /\ plans[p].status \in Released
  /\ quota' = [quota EXCEPT ![p] = @ + 1]
  /\ UNCHANGED <<onRecord, plans>>

\* Only a charged plan is published.
Publish(p) ==
  /\ plans[p].status \in Released
  /\ quota[p] >= 1
  /\ plans' = [plans EXCEPT ![p].status = "published", ![p].video = TRUE]
  /\ UNCHANGED <<onRecord, quota>>

Next ==
  \/ Approve
  \/ \E p \in Plans : Create(p) \/ Schedule(p) \/ Upload(p) \/ Charge(p) \/ Publish(p)

Spec == Init /\ [][Next]_vars

=============================================================================
