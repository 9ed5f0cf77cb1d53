----------------------------- MODULE UsageProofs -----------------------------
(***************************************************************************)
(* Theorems about Usage, for all limits, plan codes, projects, threads and   *)
(* numbers of concurrent requests.  The overshoot is bounded by counting a   *)
(* request that passed the check as the project it may still insert; the     *)
(* charges of a call by listing the rows each of its phases can have; a      *)
(* project is held by the entries of its calls because none is taken away.   *)
(***************************************************************************)
EXTENDS Usage, FiniteSetTheorems, SequenceTheorems, TLAPS

\* The rows a call can have, by its phase.
RowsByPhase(c) ==
  /\ c.phase \in {"idle", "first"} => c.rows = <<>>
  /\ c.phase = "second" => c.rows = <<>> \/ (c.late /\ c.rows = <<"success">>)
  /\ c.phase = "returned" => c.rows = <<"success">>
  /\ c.phase = "raised" =>
       \/ c.rows \in {<<>>, <<"failure">>}
       \/ c.late /\ c.rows \in {<<"success">>, <<"success", "failure">>}

CallsKnown == \A t \in Threads : RowsByPhase(call[t])

\* Only a database lets a request pass the check before its insert.
MemoryNeverWaits == ~database => Checked = {}

\* The history holds the present plan.
PlanHeld == plan \in held

\* The inductive invariant.
IInv == TypeOK /\ CallsKnown /\ MemoryNeverWaits /\ PlanHeld /\ OvershootBounded

\* The room some plan leaves is not lost when there are fewer projects or more plans held.
LEMMA RoomStays ==
  ASSUME NEW limit, NEW n \in Int, NEW m \in Int, m <= n, held \subseteq held',
         \A code \in Codes : Limits(limit, code) \in Nat \cup {NoLimit},
         held \subseteq Codes, LeavesRoom(limit, n)
  PROVE  \E code \in held' : Limits(limit, code) = NoLimit \/ m < Limits(limit, code)
<1>1. PICK code \in held : Limits(limit, code) = NoLimit \/ n < Limits(limit, code)
  BY DEF LeavesRoom
<1>2. CASE Limits(limit, code) = NoLimit
  BY <1>1, <1>2
<1>3. CASE Limits(limit, code) # NoLimit
  <2>1. Limits(limit, code) \in Nat /\ n < Limits(limit, code)
    BY <1>1, <1>3
  <2>2. m < Limits(limit, code)
    BY <2>1
  <2> QED  BY <1>1, <2>2
<1> QED  BY <1>2, <1>3

\* A plan's limit is a number or None, for unknown codes too.
LEMMA LimitType == \A code : Limits(ProjectLimit, code) \in Nat \cup {NoLimit}
BY LimitsAssumption DEF Limits

\* The sets that are counted are finite.
LEMMA Counts ==
  ASSUME TypeOK
  PROVE  /\ IsFiniteSet(Stored) /\ IsFiniteSet(Checked)
         /\ Cardinality(Stored) \in Nat /\ Cardinality(Checked) \in Nat
         /\ Cardinality(Requests) \in Nat /\ Cardinality(Checked) <= Cardinality(Requests)
<1>1. Stored \subseteq Projects /\ Checked \subseteq Requests
  BY DEF Stored, Checked
<1> QED
  BY <1>1, RequestsAssumption, ProjectsAssumption, FS_Subset, FS_CardinalityType

\* The initial states satisfy the invariant.
LEMMA Initially == Init => IInv
<1> SUFFICES ASSUME Init PROVE IInv
  OBVIOUS
<1>1. TypeOK
  <2>1. <<>> \in Seq({"success", "failure"})
    OBVIOUS
  <2> QED
    BY <2>1, LimitsAssumption DEF Init, TypeOK, RowStates, CallStates, NoCall, Contexts, Phases
<1>2. CallsKnown
  BY DEF Init, CallsKnown, RowsByPhase, NoCall
<1>3. Stored = {} /\ Checked = {}
  BY DEF Init, Stored, Checked
<1>4. OvershootBounded
  <2>1. Cardinality(Stored) = 0 /\ Cardinality(Checked) = 0
    BY <1>3, FS_EmptySet
  <2>2. Cardinality(Requests) \in Nat /\ Cardinality(Requests) # 0
    BY RequestsAssumption, FS_CardinalityType, FS_EmptySet
  <2>3. "starter" \in held
    BY DEF Init
  <2>4. Limits(ProjectLimit, "starter") \in Nat \cup {NoLimit}
    BY LimitType
  <2> DEFINE open == IF database THEN Cardinality(Requests) - 1 ELSE 0
  <2>5. open \in Nat
    BY <2>2
  <2> HIDE DEF open
  <2>6. \/ Limits(ProjectLimit, "starter") = NoLimit
        \/ 0 + 0 - 1 - open < Limits(ProjectLimit, "starter")
    BY <2>4, <2>5
  <2> QED
    BY <2>1, <2>3, <2>6 DEF OvershootBounded, LeavesRoom, open
<1>5. PlanHeld
  BY DEF Init, PlanHeld
<1> QED  BY <1>1, <1>2, <1>3, <1>4, <1>5 DEF IInv, MemoryNeverWaits

\* The rows of a call whose success was logged too late to be returned.
LEMMA TwoRows == Append(<<"success">>, "failure") = <<"success", "failure">>
<1> DEFINE s == <<"success">>
           a == Append(s, "failure")
           b == <<"success", "failure">>
<1>1. s \in Seq({"success", "failure"}) /\ Len(s) = 1 /\ s[1] = "success"
  OBVIOUS
<1>2. b \in Seq({"success", "failure"}) /\ Len(b) = 2 /\ b[1] = "success" /\ b[2] = "failure"
  OBVIOUS
<1> HIDE DEF s, b
<1>3. a \in Seq({"success", "failure"}) /\ Len(a) = 2 /\ a[1] = "success" /\ a[2] = "failure"
  <2> DEFINE R == {"success", "failure"}
  <2>1. "failure" \in R /\ s \in Seq(R)
    BY <1>1
  <2> HIDE DEF R
  <2>2. /\ a \in Seq(R) /\ Len(a) = Len(s) + 1
        /\ \A i \in 1..Len(s) : a[i] = s[i]
        /\ a[Len(s) + 1] = "failure"
    BY <2>1, AppendProperties
  <2> QED  BY <1>1, <2>2 DEF R
<1>4. \A i \in 1..2 : a[i] = b[i]
  BY <1>2, <1>3
<1> QED
  BY <1>2, <1>3, <1>4, SeqEqual DEF s, b

\* What an action on the calls alone leaves as it was.
CallStep(t) ==
  \/ \E p \in Contexts : ClientAnswers(t, p)
  \/ Log(t) \/ LogLate(t) \/ LogFails(t) \/ Forget(t)

\* What writing a row changes.
LEMMA Written ==
  ASSUME TypeOK, NEW t \in Threads, NEW phase \in Phases, NEW late \in BOOLEAN,
         call[t].phase \in {"first", "second"}, WriteRow(t, phase, late)
  PROVE  /\ call' \in [Threads -> CallStates]
         /\ charges' \in [Contexts -> Nat]
         /\ \A u \in Threads \ {t} : call'[u] = call[u]
         /\ call'[t].phase = phase /\ call'[t].late = late
         /\ call'[t].rows = Append(call[t].rows, Status(call[t].phase))
<1> DEFINE new == [phase |-> phase, project |-> call[t].project, late |-> late,
                   rows |-> Append(call[t].rows, Status(call[t].phase))]
<1>1. call[t] \in CallStates
  BY DEF TypeOK
<1>2. new \in CallStates
  <2>1. /\ call[t].rows \in Seq({"success", "failure"})
        /\ Status(call[t].phase) \in {"success", "failure"}
    BY <1>1 DEF CallStates, Status
  <2>2. Append(call[t].rows, Status(call[t].phase)) \in Seq({"success", "failure"})
    BY <2>1, SMT
  <2> QED  BY <1>1, <2>2 DEF CallStates
<1>3. call' = [call EXCEPT ![t] = new]
  BY <1>1 DEF WriteRow, TypeOK, CallStates
<1>4. charges' \in [Contexts -> Nat]
  <2>1. call[t].project \in Contexts
    BY <1>1 DEF CallStates
  <2> QED  BY <2>1 DEF WriteRow, TypeOK
<1> QED  BY <1>2, <1>3, <1>4 DEF TypeOK

\* The steps of the wrapper keep the invariant.
LEMMA CallSteps ==
  ASSUME IInv, NEW t \in Threads, CallStep(t)
  PROVE  IInv'
<1>1. call[t] \in CallStates /\ RowsByPhase(call[t]) /\ call \in [Threads -> CallStates]
  BY DEF IInv, TypeOK, CallsKnown
<1>2. UNCHANGED <<database, plan, held, project, channels, request, cost>>
  BY DEF CallStep, ClientAnswers, Log, LogLate, LogFails, Forget
<1>3. SUFFICES /\ call' \in [Threads -> CallStates]
               /\ charges' \in [Contexts -> Nat]
               /\ \A u \in Threads \ {t} : call'[u] = call[u]
               /\ RowsByPhase(call'[t])
  <2>1. CallsKnown'
    BY <1>3 DEF IInv, CallsKnown, RowsByPhase
  <2>2. TypeOK'
    BY <1>2, <1>3 DEF IInv, TypeOK, channels
  <2>3. MemoryNeverWaits' /\ PlanHeld' /\ OvershootBounded'
    BY <1>2 DEF IInv, MemoryNeverWaits, PlanHeld, OvershootBounded, LeavesRoom, Stored, Checked
  <2> QED  BY <2>1, <2>2, <2>3 DEF IInv
<1>4. ASSUME NEW p \in Contexts, ClientAnswers(t, p)
      PROVE  /\ call' \in [Threads -> CallStates]
             /\ charges' \in [Contexts -> Nat]
             /\ \A u \in Threads \ {t} : call'[u] = call[u]
             /\ RowsByPhase(call'[t])
  <2>1. PICK phase \in {"first", "second"} :
          call' = [call EXCEPT ![t] = [phase |-> phase, project |-> p, rows |-> <<>>,
                                       late |-> FALSE]]
    BY <1>4 DEF ClientAnswers
  <2>2. [phase |-> phase, project |-> p, rows |-> <<>>, late |-> FALSE] \in CallStates
    BY DEF CallStates, Phases
  <2>3. charges' = charges
    BY <1>4 DEF ClientAnswers
  <2> QED  BY <1>1, <2>1, <2>2, <2>3 DEF IInv, TypeOK, RowsByPhase
<1>5. CASE Log(t)
  <2>1. AfterLog(call[t].phase) \in Phases
    BY DEF AfterLog, Phases
  <2>2. call[t].late \in BOOLEAN
    BY <1>1 DEF CallStates
  <2>3. call[t].phase \in {"first", "second"} /\ WriteRow(t, AfterLog(call[t].phase), call[t].late)
    BY <1>5 DEF Log
  <2>4. /\ call' \in [Threads -> CallStates] /\ charges' \in [Contexts -> Nat]
        /\ \A u \in Threads \ {t} : call'[u] = call[u]
        /\ call'[t].phase = AfterLog(call[t].phase) /\ call'[t].late = call[t].late
        /\ call'[t].rows = Append(call[t].rows, Status(call[t].phase))
    BY <2>1, <2>2, <2>3, Written DEF IInv
  <2>5. CASE call[t].phase = "first"
    <3>1. call[t].rows = <<>> /\ call'[t].phase = "returned"
      BY <1>1, <2>4, <2>5 DEF RowsByPhase, AfterLog
    <3>2. call'[t].rows = <<"success">>
      BY <2>4, <2>5, <3>1 DEF Status
    <3> QED  BY <2>4, <3>1, <3>2 DEF RowsByPhase
  <2>6. CASE call[t].phase = "second"
    <3>1. call'[t].phase = "raised" /\ call'[t].rows = Append(call[t].rows, "failure")
      BY <2>4, <2>6 DEF AfterLog, Status
    <3>2. CASE call[t].rows = <<>>
      <4>1. call'[t].rows = <<"failure">>
        BY <3>1, <3>2
      <4> QED  BY <2>4, <3>1, <4>1 DEF RowsByPhase
    <3>3. CASE call[t].late /\ call[t].rows = <<"success">>
      <4>1. call'[t].rows = <<"success", "failure">>
        BY <3>1, <3>3, TwoRows
      <4> QED  BY <2>4, <3>1, <3>3, <4>1 DEF RowsByPhase
    <3> QED  BY <1>1, <2>6, <3>2, <3>3 DEF RowsByPhase
  <2> QED  BY <2>3, <2>5, <2>6
<1>6. CASE LogLate(t)
  <2>1. AfterRaise(call[t].phase) \in Phases
    BY DEF AfterRaise, Phases
  <2>3. call[t].phase \in {"first", "second"} /\ WriteRow(t, AfterRaise(call[t].phase), TRUE)
    BY <1>6 DEF LogLate
  <2>4. /\ call' \in [Threads -> CallStates] /\ charges' \in [Contexts -> Nat]
        /\ \A u \in Threads \ {t} : call'[u] = call[u]
        /\ call'[t].phase = AfterRaise(call[t].phase) /\ call'[t].late = TRUE
        /\ call'[t].rows = Append(call[t].rows, Status(call[t].phase))
    BY <2>1, <2>3, Written DEF IInv
  <2>5. CASE call[t].phase = "first"
    <3>1. call[t].rows = <<>> /\ call'[t].phase = "second"
      BY <1>1, <2>4, <2>5 DEF RowsByPhase, AfterRaise
    <3>2. call'[t].rows = <<"success">>
      BY <2>4, <2>5, <3>1 DEF Status
    <3> QED  BY <2>4, <3>1, <3>2 DEF RowsByPhase
  <2>6. CASE call[t].phase = "second"
    <3>1. call'[t].phase = "raised" /\ call'[t].rows = Append(call[t].rows, "failure")
      BY <2>4, <2>6 DEF AfterRaise, Status
    <3>2. CASE call[t].rows = <<>>
      <4>1. call'[t].rows = <<"failure">>
        BY <3>1, <3>2
      <4> QED  BY <2>4, <3>1, <4>1 DEF RowsByPhase
    <3>3. CASE call[t].rows = <<"success">>
      <4>1. call'[t].rows = <<"success", "failure">>
        BY <3>1, <3>3, TwoRows
      <4> QED  BY <2>4, <3>1, <4>1 DEF RowsByPhase
    <3> QED  BY <1>1, <2>6, <3>2, <3>3 DEF RowsByPhase
  <2> QED  BY <2>3, <2>5, <2>6
<1>7. CASE LogFails(t)
  <2>1. /\ call[t].phase \in {"first", "second"}
        /\ call' = [call EXCEPT ![t].phase = AfterRaise(@)] /\ charges' = charges
    BY <1>7 DEF LogFails
  <2>2. AfterRaise(call[t].phase) \in Phases
    BY DEF AfterRaise, Phases
  <2>3. /\ call'[t].rows = call[t].rows /\ call'[t].late = call[t].late
        /\ call'[t].phase = AfterRaise(call[t].phase)
        /\ call' \in [Threads -> CallStates]
        /\ \A u \in Threads \ {t} : call'[u] = call[u]
    BY <1>1, <2>1, <2>2 DEF CallStates
  <2>4. RowsByPhase(call'[t])
    <3>1. CASE call[t].phase = "first"
      BY <1>1, <2>3, <3>1 DEF RowsByPhase, AfterRaise
    <3>2. CASE call[t].phase = "second"
      <4>1. call'[t].phase = "raised"
        BY <2>3, <3>2 DEF AfterRaise
      <4> QED  BY <1>1, <2>3, <3>2, <4>1 DEF RowsByPhase
    <3> QED  BY <2>1, <3>1, <3>2
  <2> QED  BY <2>1, <2>3, <2>4 DEF IInv, TypeOK
<1>8. CASE Forget(t)
  <2>1. call' = [call EXCEPT ![t] = NoCall] /\ charges' = charges
    BY <1>8 DEF Forget
  <2>2. NoCall \in CallStates
    BY DEF NoCall, CallStates, Phases, Contexts
  <2> QED  BY <1>1, <2>1, <2>2 DEF RowsByPhase, NoCall, IInv, TypeOK
<1> QED  BY <1>4, <1>5, <1>6, <1>7, <1>8 DEF CallStep

\* The steps of the plan, the projects and the LLM cost keep the invariant.
LEMMA OtherSteps ==
  ASSUME IInv, Next, UNCHANGED call
  PROVE  IInv'
<1> USE DEF IInv
<1> DEFINE room == IF database THEN Cardinality(Requests) - 1 ELSE 0
<1>1. /\ IsFiniteSet(Stored) /\ IsFiniteSet(Checked)
      /\ Cardinality(Stored) \in Nat /\ Cardinality(Checked) \in Nat
      /\ Cardinality(Requests) \in Nat /\ Cardinality(Checked) <= Cardinality(Requests)
  BY Counts
<1>2. room \in Int /\ Cardinality(Stored) + Cardinality(Checked) - 1 - room \in Int
  BY <1>1
<1>3. LeavesRoom(ProjectLimit, Cardinality(Stored) + Cardinality(Checked) - 1 - room)
  BY DEF OvershootBounded
<1>4. ASSUME CallsKnown', TypeOK', MemoryNeverWaits', PlanHeld', database' = database,
             held \subseteq held', held \subseteq Codes,
             Cardinality(Stored') \in Nat, Cardinality(Checked') \in Nat,
             Cardinality(Stored') + Cardinality(Checked')
               <= Cardinality(Stored) + Cardinality(Checked)
      PROVE  IInv'
  <2> DEFINE n == Cardinality(Stored) + Cardinality(Checked) - 1 - room
             m == Cardinality(Stored') + Cardinality(Checked') - 1 - room
  <2>1. n \in Int /\ m \in Int /\ m <= n
    BY <1>1, <1>2, <1>4
  <2> HIDE DEF n, m
  <2>2. LeavesRoom(ProjectLimit, n)
    BY <1>3 DEF n
  <2>3. \E code \in held' :
          Limits(ProjectLimit, code) = NoLimit \/ m < Limits(ProjectLimit, code)
    BY <1>4, <2>1, <2>2, RoomStays, LimitType
  <2>4. OvershootBounded'
    BY <1>4, <2>3 DEF OvershootBounded, LeavesRoom, m
  <2> QED  BY <1>4, <2>4
<1>5. CallsKnown'
  BY DEF CallsKnown, RowsByPhase
<1>held. PlanHeld' /\ held \subseteq held' /\ database' = database
  BY DEF Next, PlanHeld, SetPlan, RegisterChannel, CreateChannel, DeleteChannel,
         CreateAtOnce, CheckLimit, Insert, InsertFails, DeleteProject, LogCost,
         ClientAnswers, Log, LogLate, LogFails, Forget
<1>6. ASSUME NEW code \in Codes, SetPlan(code) PROVE IInv'
  <2>1. TypeOK' /\ MemoryNeverWaits' /\ held \subseteq held' /\ held \subseteq Codes
    BY <1>6 DEF SetPlan, channels, TypeOK, MemoryNeverWaits, Checked
  <2>2. Stored' = Stored /\ Checked' = Checked
    BY <1>6 DEF SetPlan, Stored, Checked
  <2> QED  BY <1>1, <1>4, <1>5, <1>held, <2>1, <2>2
<1>7. ASSUME NEW c \in Channels, RegisterChannel(c) PROVE IInv'
  <2>1. TypeOK' /\ MemoryNeverWaits' /\ held \subseteq held' /\ held \subseteq Codes
    BY <1>7 DEF RegisterChannel, TypeOK, MemoryNeverWaits, Checked
  <2>2. Stored' = Stored /\ Checked' = Checked
    BY <1>7 DEF RegisterChannel, Stored, Checked
  <2> QED  BY <1>1, <1>4, <1>5, <1>held, <2>1, <2>2
<1>chan. ASSUME NEW c \in Channels, CreateChannel(c) \/ DeleteChannel(c) PROVE IInv'
  <2>1. TypeOK' /\ MemoryNeverWaits'
    BY <1>chan DEF CreateChannel, DeleteChannel, TypeOK, MemoryNeverWaits, Checked
  <2>2. Stored' = Stored /\ Checked' = Checked /\ held \subseteq Codes
    BY <1>chan DEF CreateChannel, DeleteChannel, TypeOK, Stored, Checked
  <2> QED  BY <1>1, <1>4, <1>5, <1>held, <2>1, <2>2
<1>8. ASSUME NEW p \in Projects, NEW c \in Channels, CreateAtOnce(p, c) PROVE IInv'
  <2>1. TypeOK' /\ MemoryNeverWaits' /\ ~database /\ ~database'
    BY <1>8 DEF CreateAtOnce, TypeOK, RowStates, MemoryNeverWaits, Checked
  <2>2. Checked = {} /\ Checked' = {}
    BY <2>1 DEF MemoryNeverWaits
  <2>3. Stored' = Stored \cup {p} /\ p \notin Stored
    BY <1>8 DEF CreateAtOnce, Stored, TypeOK
  <2>4. Cardinality(Stored') = Cardinality(Stored) + 1
    BY <1>1, <2>3, FS_AddElement
  <2>5. Cardinality(Checked') = 0
    BY <2>2, FS_EmptySet
  <2>6. Limits(ProjectLimit, plan) # NoLimit => Cardinality(Stored) < Limits(ProjectLimit, plan)
    BY <1>8 DEF CreateAtOnce, CanCreate, Within
  <2>7. plan \in Codes /\ Limits(ProjectLimit, plan) \in Nat \cup {NoLimit}
    BY LimitType DEF TypeOK
  <2>8. plan \in held'
    BY <1>8 DEF CreateAtOnce, PlanHeld
  <2>9. \/ Limits(ProjectLimit, plan) = NoLimit
        \/ Cardinality(Stored') + Cardinality(Checked') - 1 - room < Limits(ProjectLimit, plan)
    BY <1>1, <2>1, <2>4, <2>5, <2>6, <2>7
  <2>10. OvershootBounded'
    BY <1>held, <2>8, <2>9 DEF OvershootBounded, LeavesRoom
  <2> QED  BY <1>5, <1>held, <2>1, <2>10
<1>9. ASSUME NEW r \in Requests, CheckLimit(r) PROVE IInv'
  <2>1. TypeOK' /\ MemoryNeverWaits' /\ database
    BY <1>9 DEF CheckLimit, channels, TypeOK, MemoryNeverWaits
  <2>2. Stored' = Stored
    BY <1>9 DEF CheckLimit, Stored
  <2>3. Cardinality(Checked') \in Nat /\ Cardinality(Checked') <= Cardinality(Requests)
    <3>1. Checked' \subseteq Requests
      BY DEF Checked
    <3> QED  BY <3>1, RequestsAssumption, FS_Subset, FS_CardinalityType
  <2>4. Limits(ProjectLimit, plan) # NoLimit => Cardinality(Stored) < Limits(ProjectLimit, plan)
    BY <1>9 DEF CheckLimit, CanCreate, Within
  <2>5. Limits(ProjectLimit, plan) \in Nat \cup {NoLimit}
    BY LimitType
  <2>6. plan \in held'
    BY <1>9 DEF CheckLimit, PlanHeld
  <2>7. \/ Limits(ProjectLimit, plan) = NoLimit
        \/ Cardinality(Stored') + Cardinality(Checked') - 1 - room < Limits(ProjectLimit, plan)
    <3> DEFINE S == Cardinality(Stored)
               C == Cardinality(Checked')
               N == Cardinality(Requests)
               L == Limits(ProjectLimit, plan)
    <3>1. S \in Nat /\ C \in Nat /\ N \in Nat /\ C <= N /\ room = N - 1
      BY <1>1, <2>1, <2>3
    <3>2. CASE L # NoLimit
      <4>1. L \in Nat /\ S < L
        BY <2>4, <2>5, <3>2
      <4> HIDE DEF S, C, N, L, room
      <4>2. S + C - 1 - room < L
        BY <3>1, <4>1
      <4> QED  BY <2>2, <4>2 DEF S, C, N, L, room
    <3> QED  BY <3>2
  <2>8. OvershootBounded'
    BY <1>held, <2>6, <2>7 DEF OvershootBounded, LeavesRoom
  <2> QED  BY <1>5, <1>held, <2>1, <2>8
<1>10. ASSUME NEW r \in Requests, NEW p \in Projects, Insert(r, p) PROVE IInv'
  <2>1. TypeOK' /\ MemoryNeverWaits' /\ held' = held /\ held \subseteq Codes
    BY <1>10 DEF Insert, channels, TypeOK, RowStates, MemoryNeverWaits, Checked
  <2>2. Stored' = Stored \cup {p} /\ p \notin Stored
    BY <1>10 DEF Insert, Stored, TypeOK
  <2>3. Checked' = Checked \ {r} /\ r \in Checked
    BY <1>10 DEF Insert, Checked, TypeOK
  <2>4. Cardinality(Stored') = Cardinality(Stored) + 1
    BY <1>1, <2>2, FS_AddElement
  <2>5. Cardinality(Checked') = Cardinality(Checked) - 1 /\ Cardinality(Checked') \in Nat
    BY <1>1, <2>3, FS_RemoveElement, FS_CardinalityType
  <2> QED  BY <1>1, <1>4, <1>5, <1>held, <2>1, <2>4, <2>5
<1>11. ASSUME NEW r \in Requests, InsertFails(r) PROVE IInv'
  <2>1. TypeOK' /\ MemoryNeverWaits' /\ held' = held /\ held \subseteq Codes
    BY <1>11 DEF InsertFails, channels, TypeOK, MemoryNeverWaits, Checked
  <2>2. Stored' = Stored /\ Checked' = Checked \ {r} /\ r \in Checked
    BY <1>11 DEF InsertFails, Checked, Stored, TypeOK
  <2>3. Cardinality(Checked') = Cardinality(Checked) - 1 /\ Cardinality(Checked') \in Nat
    BY <1>1, <2>2, FS_RemoveElement, FS_CardinalityType
  <2> QED  BY <1>1, <1>4, <1>5, <1>held, <2>1, <2>2, <2>3
<1>12. ASSUME NEW p \in Projects, DeleteProject(p) PROVE IInv'
  <2>1. TypeOK' /\ MemoryNeverWaits' /\ held' = held /\ held \subseteq Codes
    BY <1>12 DEF DeleteProject, channels, TypeOK, RowStates, MemoryNeverWaits, Checked
  <2>2. Checked' = Checked /\ Stored' = Stored \ {p} /\ p \in Stored
    BY <1>12 DEF DeleteProject, Checked, Stored, TypeOK
  <2>3. Cardinality(Stored') = Cardinality(Stored) - 1 /\ Cardinality(Stored') \in Nat
    BY <1>1, <2>2, FS_RemoveElement, FS_CardinalityType
  <2> QED  BY <1>1, <1>4, <1>5, <1>held, <2>1, <2>2, <2>3
<1>13. ASSUME NEW p \in Projects, LogCost(p) PROVE IInv'
  <2>1. TypeOK' /\ MemoryNeverWaits' /\ held' = held /\ held \subseteq Codes
    BY <1>13 DEF LogCost, channels, TypeOK, MemoryNeverWaits, Checked
  <2>2. Stored' = Stored /\ Checked' = Checked
    BY <1>13 DEF LogCost, Stored, Checked
  <2> QED  BY <1>1, <1>4, <1>5, <1>held, <2>1, <2>2
<1>14. ASSUME NEW t \in Threads, CallStep(t) PROVE IInv'
  BY <1>14, CallSteps
<1> QED
  BY <1>6, <1>7, <1>chan, <1>8, <1>9, <1>10, <1>11, <1>12, <1>13, <1>14 DEF Next, CallStep

\* Every reachable state satisfies the inductive invariant.
THEOREM Invariant == Spec => []IInv
<1>1. Init => IInv
  BY Initially
<1>2. IInv /\ [Next]_vars => IInv'
  <2> SUFFICES ASSUME IInv, [Next]_vars PROVE IInv'
    OBVIOUS
  <2>1. CASE UNCHANGED vars
    BY <2>1 DEF vars, channels, IInv, TypeOK, CallsKnown, RowsByPhase, MemoryNeverWaits, PlanHeld,
                OvershootBounded, LeavesRoom, Stored, Checked
  <2>2. CASE Next /\ UNCHANGED call
    BY <2>2, OtherSteps
  <2>3. CASE Next /\ call' # call
    <3>1. \E t \in Threads : CallStep(t)
      BY <2>3 DEF Next, CallStep, SetPlan, RegisterChannel, CreateChannel, DeleteChannel,
                  CreateAtOnce, CheckLimit, Insert,
                  InsertFails, DeleteProject, LogCost
    <3> QED  BY <3>1, CallSteps
  <2> QED  BY <2>1, <2>2, <2>3
<1> QED  BY <1>1, <1>2, PTL DEF Spec

\* Type correctness.
THEOREM TypeCorrect == Spec => []TypeOK
<1>1. IInv => TypeOK
  BY DEF IInv
<1> QED  BY <1>1, Invariant, PTL

\* However many requests run together, the projects exceed the largest limit held by at most
\* the requests open besides one, and without a database by none
\* (UsageService.assert_can_create_project, VideoProjectService.create_project).
THEOREM OvershootIsBounded == Spec => []OvershootBounded
<1>1. IInv => OvershootBounded
  BY DEF IInv
<1> QED  BY <1>1, Invariant, PTL

\* A caller that gets a result has been charged for it exactly once
\* (YouTubeClientQuotaWrapper.call).
THEOREM ResultsAreCharged == Spec => []ReturnedIsCharged
<1>1. IInv => ReturnedIsCharged
  BY DEF IInv, CallsKnown, RowsByPhase, ReturnedIsCharged
<1> QED  BY <1>1, Invariant, PTL

\* A call is charged a second time only after the log of its success was committed and raised
\* (YouTubeClientQuotaWrapper.call).
THEOREM SecondChargeIsLate == Spec => []TwiceOnlyIfLate
<1>1. ASSUME IInv, NEW t \in Threads, Len(call[t].rows) > 1
      PROVE  call[t].late /\ call[t].rows = <<"success", "failure">>
  <2>1. RowsByPhase(call[t]) /\ call[t].phase \in Phases
    BY <1>1 DEF IInv, CallsKnown, TypeOK, CallStates
  <2>2. /\ call[t].rows # <<>> /\ call[t].rows # <<"success">>
        /\ call[t].rows # <<"failure">>
    <3>1. Len(<<>>) = 0 /\ Len(<<"success">>) = 1 /\ Len(<<"failure">>) = 1
      OBVIOUS
    <3>2. ~(0 > 1) /\ ~(1 > 1)
      OBVIOUS
    <3> QED  BY <1>1, <3>1, <3>2, Zenon
  <2> QED  BY <2>1, <2>2 DEF RowsByPhase, Phases
<1>2. IInv => TwiceOnlyIfLate
  BY <1>1 DEF TwiceOnlyIfLate
<1> QED  BY <1>2, Invariant, PTL

-----------------------------------------------------------------------------
(* Entries and projects *)

\* A call that wrote an entry is among the charges of its project.
RowsCounted == \A t \in Threads : call[t].rows # <<>> => charges[call[t].project] > 0

Kept == RowsCounted /\ EntriesKeepProjects

\* No step takes an entry away, and a step that writes one finds its project.
LEMMA EntriesGrow ==
  ASSUME TypeOK, Next
  PROVE  /\ database' = database
         /\ \A p \in Projects : /\ cost[p] \in Nat /\ cost'[p] \in Nat
                                /\ cost'[p] = cost[p] \/ Chargeable(p)
         /\ \A p \in Contexts : /\ charges[p] \in Nat /\ charges'[p] \in Nat
                                /\ charges'[p] >= charges[p]
                                /\ charges'[p] = charges[p] \/ Chargeable(p)
<1>1. cost \in [Projects -> Nat] /\ charges \in [Contexts -> Nat]
  BY DEF TypeOK
<1>2. CASE UNCHANGED <<database, cost, charges>>
  BY <1>1, <1>2
<1>3. ASSUME NEW p \in Projects, LogCost(p)
      PROVE  /\ UNCHANGED <<database, charges>> /\ Chargeable(p)
             /\ cost' \in [Projects -> Nat]
             /\ \A q \in Projects : q # p => cost'[q] = cost[q]
  BY <1>1, <1>3 DEF LogCost
<1>4. ASSUME NEW t \in Threads, Log(t) \/ LogLate(t)
      PROVE  /\ UNCHANGED <<database, cost>> /\ Chargeable(call[t].project)
             /\ call[t].project \in Contexts
             /\ charges' = [charges EXCEPT ![call[t].project] = @ + 1]
  BY <1>4 DEF Log, LogLate, WriteRow, TypeOK, CallStates
<1>5. CASE \E p \in Projects : LogCost(p)
  <2>1. PICK p \in Projects : LogCost(p)
    BY <1>5
  <2> QED  BY <1>1, <1>3, <2>1
<1>6. CASE \E t \in Threads : Log(t) \/ LogLate(t)
  <2>1. PICK t \in Threads : Log(t) \/ LogLate(t)
    BY <1>6
  <2>2. PICK q \in Contexts :
          /\ UNCHANGED <<database, cost>> /\ Chargeable(q)
          /\ charges' = [charges EXCEPT ![q] = @ + 1]
    BY <1>4, <2>1
  <2> QED  BY <1>1, <2>2
<1> QED
  BY <1>2, <1>5, <1>6 DEF Next, SetPlan, RegisterChannel, CreateChannel, DeleteChannel,
     CreateAtOnce, CheckLimit, Insert, InsertFails, DeleteProject, ClientAnswers, LogFails, Forget

\* A stored project is only given up by its deletion.
LEMMA ProjectsStay ==
  ASSUME TypeOK, Next, database, NEW p \in Projects, project[p] = "stored"
  PROVE  project'[p] = "stored" \/ (cost'[p] = 0 /\ charges'[p] = 0)
<1>1. project \in [Projects -> RowStates]
  BY DEF TypeOK
<1>2. CASE UNCHANGED project
  BY <1>2
<1>3. ASSUME NEW q \in Projects, project[q] = "unborn",
             project' = [project EXCEPT ![q] = "stored"]
      PROVE  project'[p] = "stored"
  BY <1>1, <1>3
<1>4. ASSUME NEW q \in Projects, DeleteProject(q)
      PROVE  project'[p] = "stored" \/ (cost'[p] = 0 /\ charges'[p] = 0)
  BY <1>1, <1>4 DEF DeleteProject, Deletable
<1> QED
  BY <1>2, <1>3, <1>4 DEF Next, SetPlan, RegisterChannel, CreateChannel, DeleteChannel,
     CreateAtOnce, CheckLimit, Insert, InsertFails, LogCost, ClientAnswers, Log, LogLate,
     LogFails, WriteRow, Forget

\* The calls that have an entry after a step had one before, or are charged by the step.
LEMMA RowsGrow ==
  ASSUME TypeOK, Next, NEW t \in Threads, call'[t].rows # <<>>
  PROVE  /\ call'[t].project = call[t].project /\ call[t].project \in Contexts
         /\ \/ call[t].rows # <<>>
            \/ charges'[call[t].project] = charges[call[t].project] + 1
<1>1. /\ call \in [Threads -> CallStates] /\ call[t].project \in Contexts
      /\ charges \in [Contexts -> Nat]
  BY DEF TypeOK, CallStates
<1>2. CASE call'[t] = call[t]
  BY <1>1, <1>2
<1>3. CASE \E p \in Contexts : ClientAnswers(t, p)
  <2>1. call'[t].rows = <<>>
    BY <1>1, <1>3 DEF ClientAnswers
  <2> QED  BY <2>1
<1>4. CASE Forget(t)
  <2>1. call'[t].rows = <<>>
    BY <1>1, <1>4 DEF Forget, NoCall
  <2> QED  BY <2>1
<1>5. CASE LogFails(t)
  BY <1>1, <1>5 DEF LogFails, CallStates
<1>6. CASE Log(t) \/ LogLate(t)
  <2>1. /\ call'[t].project = call[t].project
        /\ charges' = [charges EXCEPT ![call[t].project] = @ + 1]
    BY <1>1, <1>6 DEF Log, LogLate, WriteRow, CallStates
  <2> QED  BY <1>1, <2>1
<1>7. ASSUME NEW u \in Threads \ {t}, CallStep(u)
      PROVE  call'[t] = call[t]
  BY <1>1, <1>7 DEF CallStep, ClientAnswers, Log, LogLate, WriteRow, LogFails, Forget
<1>8. CASE UNCHANGED call
  BY <1>1, <1>8
<1>9. UNCHANGED call \/ \E u \in Threads : CallStep(u)
  BY DEF Next, CallStep, SetPlan, RegisterChannel, CreateChannel, DeleteChannel,
     CreateAtOnce, CheckLimit, Insert, InsertFails, DeleteProject, LogCost
<1> QED
  BY <1>2, <1>3, <1>4, <1>5, <1>6, <1>7, <1>8, <1>9 DEF CallStep

\* With a database every ledger entry and every charged call has its project, however
\* deletions and calls interleave (delete_video_project, YouTubeClientQuotaWrapper.call).
THEOREM EntriesAlwaysKeepProjects == Spec => []EntriesKeepProjects
<1>1. Init => Kept
  BY DEF Init, Kept, RowsCounted, EntriesKeepProjects, NoCall, Contexts
<1>2. TypeOK /\ Kept /\ [Next]_vars => Kept'
  <2> SUFFICES ASSUME TypeOK, Kept, Next PROVE Kept'
    BY DEF vars, channels, Kept, RowsCounted, EntriesKeepProjects
  <2>1. RowsCounted'
    <3> SUFFICES ASSUME NEW t \in Threads, call'[t].rows # <<>>
                 PROVE  charges'[call'[t].project] > 0
      BY DEF RowsCounted
    <3>1. PICK p \in Contexts :
            /\ p = call[t].project /\ p = call'[t].project
            /\ call[t].rows # <<>> \/ charges'[p] = charges[p] + 1
      BY RowsGrow
    <3>2. charges[p] \in Nat /\ charges'[p] \in Nat /\ charges'[p] >= charges[p]
      BY EntriesGrow
    <3>3. call[t].rows # <<>> => charges[p] > 0
      BY <3>1 DEF Kept, RowsCounted
    <3> QED  BY <3>1, <3>2, <3>3
  <2>2. ASSUME database', NEW p \in Projects, cost'[p] + charges'[p] > 0
        PROVE  project'[p] = "stored"
    <3>1. database /\ p \in Contexts
      BY <2>2, EntriesGrow DEF Contexts
    <3>2. /\ cost[p] \in Nat /\ cost'[p] \in Nat /\ charges[p] \in Nat /\ charges'[p] \in Nat
          /\ cost'[p] = cost[p] \/ Chargeable(p)
          /\ charges'[p] = charges[p] \/ Chargeable(p)
      BY <3>1, EntriesGrow
    <3>3. cost[p] + charges[p] > 0 \/ Chargeable(p)
      BY <2>2, <3>2
    <3>4. project[p] = "stored"
      BY <3>1, <3>3 DEF Chargeable, Kept, EntriesKeepProjects
    <3>5. ~(cost'[p] = 0 /\ charges'[p] = 0)
      BY <2>2, <3>2
    <3> QED  BY <3>1, <3>4, <3>5, ProjectsStay
  <2>3. ASSUME database', NEW t \in Threads, call'[t].rows # <<>>, call'[t].project \in Projects
        PROVE  project'[call'[t].project] = "stored"
    <3>1. PICK p \in Projects : p = call'[t].project
      BY <2>3
    <3>2. charges'[p] > 0
      BY <2>1, <2>3, <3>1 DEF RowsCounted
    <3>3. cost'[p] \in Nat /\ charges'[p] \in Nat
      BY EntriesGrow DEF Contexts
    <3>4. cost'[p] + charges'[p] > 0
      BY <3>2, <3>3
    <3> QED  BY <2>2, <2>3, <3>1, <3>4
  <2>4. EntriesKeepProjects'
    BY <2>2, <2>3 DEF EntriesKeepProjects
  <2> QED  BY <2>1, <2>4 DEF Kept
<1>3. Kept => EntriesKeepProjects
  BY DEF Kept
<1> QED  BY <1>1, <1>2, <1>3, TypeCorrect, PTL DEF Spec
=============================================================================
