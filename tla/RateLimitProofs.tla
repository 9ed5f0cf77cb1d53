--------------------------- MODULE RateLimitProofs ---------------------------
(***************************************************************************)
(* Theorems about RateLimit, for every limit, window and clock.  The        *)
(* inductive invariant relates the clock to real time: what an entry of the  *)
(* deque has aged by the clock differs from its real age by at most what the *)
(* clock was set ahead and back.  An entry that was dropped is therefore at  *)
(* least a window old, less what the clock was set ahead.                    *)
(***************************************************************************)
EXTENDS RateLimit, TLAPS

Entries == 1..Len(accepted)

\* Requests were accepted in the order of real time.
Ordered ==
  /\ \A i \in Entries : accepted[i].at <= now
  /\ \A i, j \in Entries : i <= j => accepted[i].at <= accepted[j].at

\* The age of an entry by the clock and its real age.
Drift ==
  \A i \in Entries :
    /\ now - accepted[i].at - back <= clock - accepted[i].clock
    /\ clock - accepted[i].clock <= now - accepted[i].at + ahead

DroppedAreOld == \A i \in 1..head : accepted[i].at + Window <= now + ahead

\* The inductive invariant.
IInv == TypeOK /\ Ordered /\ Drift /\ DroppedAreOld /\ WindowBounded /\ RefusalsExplained

\* The types of what arithmetic is done with.
LEMMA Numbers ==
  ASSUME TypeOK
  PROVE  /\ now \in Nat /\ clock \in Int /\ ahead \in Nat /\ back \in Nat
         /\ MaxRequests \in Nat /\ MaxRequests >= 1 /\ Window \in Nat
         /\ Len(accepted) \in Nat /\ head \in Nat /\ head <= Len(accepted)
         /\ \A i \in Entries : accepted[i].at \in Nat /\ accepted[i].clock \in Int
<1>1. /\ now \in Nat /\ clock \in Int /\ ahead \in Nat /\ back \in Nat
      /\ MaxRequests \in Nat /\ MaxRequests >= 1 /\ Window \in Nat
  BY LimitsAreNat DEF TypeOK
<1>2. accepted \in Seq([at : 0..Horizon, clock : Int])
  BY DEF TypeOK
<1>3. Len(accepted) \in Nat /\ head \in Nat /\ head <= Len(accepted)
  BY <1>2 DEF TypeOK
<1>4. \A i \in Entries : accepted[i] \in [at : 0..Horizon, clock : Int]
  <2> DEFINE R == [at : 0..Horizon, clock : Int]
  <2> HIDE DEF R
  <2>1. accepted \in Seq(R)
    BY <1>2 DEF R
  <2>2. \A i \in Entries : accepted[i] \in R
    BY <2>1 DEF Entries
  <2> QED  BY <2>2 DEF R
<1>5. \A i \in Entries : accepted[i].at \in Nat /\ accepted[i].clock \in Int
  BY <1>4, LimitsAreNat
<1> QED  BY <1>1, <1>3, <1>5

\* The new values of the clocks: by the clock nothing ages less than it does in real time,
\* less what the clock is set back, or more, but for what it is set ahead.
Moved(n, c, a, b) ==
  /\ now' = n /\ clock' = c /\ ahead' = a /\ back' = b
  /\ now <= n /\ ahead <= a /\ back <= b
  /\ n - b - c <= now - back - clock /\ c - n - a <= clock - now - ahead
  /\ n <= Horizon /\ a <= MaxSet /\ b <= MaxSet

\* Time that passes, and a clock that is set, keep the invariant.
LEMMA ClockSteps ==
  ASSUME IInv, Tick \/ \E d \in 1..MaxSet : SetAhead(d) \/ SetBack(d)
  PROVE  IInv'
<1> USE DEF IInv
<1>1. /\ now \in Nat /\ clock \in Int /\ ahead \in Nat /\ back \in Nat
      /\ Window \in Nat /\ Len(accepted) \in Nat /\ head \in Nat /\ head <= Len(accepted)
  BY Numbers
<1>0. \A i \in Entries : accepted[i].at \in Nat /\ accepted[i].clock \in Int
  BY Numbers
<1>2. UNCHANGED <<accepted, head, refused>>
  BY DEF Tick, SetAhead, SetBack
<1>3. \E n \in Nat, c \in Int, a \in Nat, b \in Nat : Moved(n, c, a, b)
  <2>0. now <= Horizon /\ ahead <= MaxSet /\ back <= MaxSet
    BY <1>1, LimitsAreNat DEF TypeOK
  <2>1. CASE Tick
    <3>1. now' = now + 1 /\ clock' = clock + 1 /\ ahead' = ahead /\ back' = back /\ now < Horizon
      BY <2>1 DEF Tick
    <3>2. Moved(now + 1, clock + 1, ahead, back) /\ now + 1 \in Nat /\ clock + 1 \in Int
      BY <1>1, <2>0, <3>1, LimitsAreNat DEF Moved
    <3> QED  BY <1>1, <3>2
  <2>2. ASSUME NEW d \in 1..MaxSet, SetAhead(d)
        PROVE  \E n \in Nat, c \in Int, a \in Nat, b \in Nat : Moved(n, c, a, b)
    <3>1. /\ now' = now /\ clock' = clock + d /\ ahead' = ahead + d /\ back' = back
          /\ ahead + d <= MaxSet
      BY <2>2 DEF SetAhead
    <3>2. Moved(now, clock + d, ahead + d, back) /\ clock + d \in Int /\ ahead + d \in Nat
      BY <1>1, <2>0, <3>1, LimitsAreNat DEF Moved
    <3> QED  BY <1>1, <3>2
  <2>3. ASSUME NEW d \in 1..MaxSet, SetBack(d)
        PROVE  \E n \in Nat, c \in Int, a \in Nat, b \in Nat : Moved(n, c, a, b)
    <3>1. /\ now' = now /\ clock' = clock - d /\ ahead' = ahead /\ back' = back + d
          /\ back + d <= MaxSet
      BY <2>3 DEF SetBack
    <3>2. Moved(now, clock - d, ahead, back + d) /\ clock - d \in Int /\ back + d \in Nat
      BY <1>1, <2>0, <3>1, LimitsAreNat DEF Moved
    <3> QED  BY <1>1, <3>2
  <2> QED  BY <2>1, <2>2, <2>3
<1>4. PICK n \in Nat, c \in Int, a \in Nat, b \in Nat : Moved(n, c, a, b)
  BY <1>3
<1>5. TypeOK'
  <2>1. n \in 0..Horizon /\ a \in 0..MaxSet /\ b \in 0..MaxSet
    BY <1>4, LimitsAreNat DEF Moved
  <2> QED  BY <1>2, <1>4, <2>1 DEF TypeOK, Moved
<1>6. Ordered'
  BY <1>0, <1>1, <1>2, <1>4 DEF Ordered, Entries, Moved
<1>7. Drift'
  <2> SUFFICES ASSUME NEW i \in Entries
               PROVE  /\ now' - accepted[i].at - back' <= clock' - accepted[i].clock
                      /\ clock' - accepted[i].clock <= now' - accepted[i].at + ahead'
    BY <1>2 DEF Drift, Entries
  <2> DEFINE t == accepted[i].at
             k == accepted[i].clock
  <2>1. now - t - back <= clock - k /\ clock - k <= now - t + ahead
    BY DEF Drift
  <2>2. t \in Nat /\ k \in Int
    BY <1>0
  <2> HIDE DEF t, k
  <2>3. n - t - b <= c - k /\ c - k <= n - t + a
    BY <1>1, <1>4, <2>1, <2>2 DEF Moved
  <2> QED  BY <1>4, <2>3 DEF t, k, Moved
<1>8. DroppedAreOld'
  <2> SUFFICES ASSUME NEW i \in 1..head
               PROVE  accepted[i].at + Window <= now' + ahead'
    BY <1>2 DEF DroppedAreOld
  <2> DEFINE t == accepted[i].at
  <2>1. t + Window <= now + ahead /\ i \in Entries
    BY <1>1 DEF DroppedAreOld, Entries
  <2>2. t \in Nat
    BY <1>0, <2>1
  <2> HIDE DEF t
  <2>3. t + Window <= n + a
    BY <1>1, <1>4, <2>1, <2>2 DEF Moved
  <2> QED  BY <1>4, <2>3 DEF t, Moved
<1>9. WindowBounded'
  <2> SUFFICES ASSUME NEW i \in Entries, NEW j \in Entries, j >= i + MaxRequests
               PROVE  accepted[j].at + ahead' >= accepted[i].at + Window
    BY <1>2 DEF WindowBounded, Entries
  <2> DEFINE t == accepted[i].at
             u == accepted[j].at
  <2>1. u + ahead >= t + Window
    BY DEF WindowBounded, Entries
  <2>2. t \in Nat /\ u \in Nat
    BY <1>0
  <2> HIDE DEF t, u
  <2>3. u + a >= t + Window
    BY <1>1, <1>4, <2>1, <2>2 DEF Moved
  <2> QED  BY <1>4, <2>3 DEF t, u, Moved
<1>10. RefusalsExplained'
  <2> SUFFICES ASSUME refused # <<>> PROVE RefusalsExplained'
    BY <1>2 DEF RefusalsExplained
  <2>1. refused \in [at : 0..Horizon, after : 0..Len(accepted)]
    BY DEF TypeOK
  <2>2. refused.at \in Nat /\ refused.after \in Nat /\ refused.after <= Len(accepted)
    BY <1>1, <2>1, LimitsAreNat
  <2> DEFINE e == accepted[refused.after - MaxRequests + 1].at
  <2>3. refused.after >= MaxRequests /\ e > refused.at - Window - back
    BY DEF RefusalsExplained
  <2>4. refused.after - MaxRequests + 1 \in Entries
    BY <1>1, <2>2, <2>3, LimitsAreNat DEF Entries
  <2>5. e \in Nat
    BY <1>0, <2>4
  <2>6. e > refused.at - Window - b
    <3> HIDE DEF e
    <3> QED  BY <1>1, <1>4, <2>2, <2>3, <2>5 DEF Moved
  <2> QED  BY <1>2, <1>4, <2>3, <2>6 DEF RefusalsExplained, Moved
<1> QED  BY <1>5, <1>6, <1>7, <1>8, <1>9, <1>10

\* What the purge drops is a window old, less what the clock was set ahead.
LEMMA PurgedAreOld ==
  ASSUME IInv, NEW h \in head..Len(accepted), Purges(h), NEW i \in 1..h
  PROVE  i \in Entries /\ accepted[i].at + Window <= now + ahead
<1> USE DEF IInv
<1>1. /\ now \in Nat /\ clock \in Int /\ ahead \in Nat
      /\ Window \in Nat /\ Len(accepted) \in Nat /\ head \in Nat
      /\ \A k \in Entries : accepted[k].at \in Nat /\ accepted[k].clock \in Int
  BY Numbers
<1>2. i \in Entries
  BY <1>1 DEF Entries
<1>3. CASE i \in 1..head
  BY <1>2, <1>3 DEF DroppedAreOld
<1>4. CASE i \in (head + 1)..h
  <2> DEFINE a == accepted[i].at
             b == accepted[i].clock
  <2>1. b <= clock - Window /\ clock - b <= now - a + ahead
    BY <1>2, <1>4 DEF Purges, Drift
  <2>2. a \in Nat /\ b \in Int
    BY <1>1, <1>2
  <2>3. a + Window <= now + ahead
    <3> HIDE DEF a, b
    <3> QED  BY <1>1, <2>1, <2>2
  <2> QED  BY <1>2, <2>3
<1> QED  BY <1>1, <1>3, <1>4

\* An accepted request keeps the invariant.
LEMMA AcceptKeeps ==
  ASSUME IInv, NEW h \in head..Len(accepted), Accept(h)
  PROVE  IInv'
<1> USE DEF IInv
<1>1. /\ now \in Nat /\ clock \in Int /\ ahead \in Nat /\ back \in Nat
      /\ MaxRequests \in Nat /\ MaxRequests >= 1
      /\ Window \in Nat /\ Len(accepted) \in Nat /\ head \in Nat /\ head <= Len(accepted)
      /\ \A i \in Entries : accepted[i].at \in Nat /\ accepted[i].clock \in Int
  BY Numbers
<1>2. /\ Purges(h) /\ Len(accepted) - h < MaxRequests /\ Len(accepted) < MaxAccepted
      /\ head' = h /\ UNCHANGED <<now, clock, ahead, back, refused>>
      /\ h \in Nat /\ head <= h /\ h <= Len(accepted)
  BY <1>1 DEF Accept
<1> DEFINE e == [at |-> now, clock |-> clock]
           n == Len(accepted)
<1>3. /\ accepted' = Append(accepted, e)
      /\ accepted \in Seq([at : 0..Horizon, clock : Int])
      /\ e \in [at : 0..Horizon, clock : Int]
  BY DEF Accept, TypeOK
<1>4. /\ accepted' \in Seq([at : 0..Horizon, clock : Int])
      /\ Len(accepted') = n + 1
      /\ \A i \in Entries : accepted'[i] = accepted[i]
      /\ accepted'[n + 1] = e
  <2> HIDE DEF e
  <2> QED  BY <1>3 DEF Entries
<1>5. Entries' = Entries \cup {n + 1}
  BY <1>1, <1>4 DEF Entries
<1>6. e.at = now /\ e.clock = clock
  OBVIOUS
<1> HIDE DEF e
<1>7. TypeOK'
  <2>1. Len(accepted') <= MaxAccepted /\ head' \in 0..Len(accepted')
    BY <1>1, <1>2, <1>4, LimitsAreNat
  <2>2. Len(accepted') - head' <= MaxRequests
    BY <1>1, <1>2, <1>4
  <2>3. refused' \in [at : 0..Horizon, after : 0..Len(accepted')] \cup {<<>>}
    <3>1. 0..Len(accepted) \subseteq 0..Len(accepted')
      BY <1>1, <1>4
    <3> QED  BY <1>2, <3>1 DEF TypeOK
  <2> QED  BY <1>2, <1>4, <2>1, <2>2, <2>3 DEF TypeOK
<1>8. Ordered'
  <2>1. \A i \in Entries' : accepted'[i].at <= now
    BY <1>1, <1>4, <1>5, <1>6 DEF Ordered
  <2>2. \A i, j \in Entries : i <= j => accepted'[i].at <= accepted'[j].at
    BY <1>4 DEF Ordered
  <2>3. \A j \in Entries : ~(n + 1 <= j)
    BY <1>1 DEF Entries
  <2>4. accepted'[n + 1].at = now
    BY <1>4, <1>6
  <2>5. now <= now
    BY <1>1
  <2>6. \A i, j \in Entries' : i <= j => accepted'[i].at <= accepted'[j].at
    BY <1>5, <2>1, <2>2, <2>3, <2>4, <2>5
  <2> QED  BY <1>2, <2>1, <2>6 DEF Ordered
<1>9. Drift'
  <2>1. \A i \in Entries : /\ now - accepted'[i].at - back <= clock - accepted'[i].clock
                           /\ clock - accepted'[i].clock <= now - accepted'[i].at + ahead
    BY <1>4 DEF Drift
  <2>2. /\ now - accepted'[n + 1].at - back <= clock - accepted'[n + 1].clock
        /\ clock - accepted'[n + 1].clock <= now - accepted'[n + 1].at + ahead
    BY <1>1, <1>4, <1>6
  <2> QED  BY <1>2, <1>5, <2>1, <2>2 DEF Drift
<1>10. DroppedAreOld'
  <2>1. \A i \in 1..h : i \in Entries /\ accepted[i].at + Window <= now + ahead
    BY <1>2, PurgedAreOld
  <2> QED  BY <1>2, <1>4, <2>1 DEF DroppedAreOld
<1>11. WindowBounded'
  <2> SUFFICES ASSUME NEW i \in Entries', NEW j \in Entries', j >= i + MaxRequests
               PROVE  accepted'[j].at + ahead >= accepted'[i].at + Window
    BY <1>2 DEF WindowBounded, Entries
  <2>1. i \in Nat /\ 1 <= i /\ j \in Nat /\ j <= n + 1
    BY <1>1, <1>4 DEF Entries
  <2>2. i \in Entries
    BY <1>1, <2>1 DEF Entries
  <2>3. CASE j \in Entries
    BY <1>4, <2>2, <2>3 DEF WindowBounded, Entries
  <2>4. CASE j = n + 1
    <3>1. i \in 1..h
      BY <1>1, <1>2, <2>1, <2>4
    <3>2. accepted[i].at + Window <= now + ahead /\ accepted[i].at \in Nat
      BY <1>1, <1>2, <2>2, <3>1, PurgedAreOld
    <3>3. accepted'[j].at = now /\ accepted'[i] = accepted[i]
      BY <1>4, <1>6, <2>2, <2>4
    <3> QED  BY <1>1, <3>2, <3>3
  <2> QED  BY <1>5, <2>3, <2>4
<1>12. RefusalsExplained'
  <2> SUFFICES ASSUME refused # <<>> PROVE RefusalsExplained'
    BY <1>2 DEF RefusalsExplained
  <2>1. refused.after \in Nat /\ refused.after <= n /\ refused.after >= MaxRequests
    BY <1>1 DEF TypeOK, RefusalsExplained
  <2>2. refused.after - MaxRequests + 1 \in Entries
    BY <1>1, <2>1 DEF Entries
  <2> QED  BY <1>2, <1>4, <2>2 DEF RefusalsExplained
<1> QED  BY <1>7, <1>8, <1>9, <1>10, <1>11, <1>12

\* A refused request keeps the invariant.
LEMMA RefuseKeeps ==
  ASSUME IInv, NEW h \in head..Len(accepted), Refuse(h)
  PROVE  IInv'
<1> USE DEF IInv
<1>1. /\ now \in Nat /\ clock \in Int /\ ahead \in Nat /\ back \in Nat
      /\ MaxRequests \in Nat /\ MaxRequests >= 1
      /\ Window \in Nat /\ Len(accepted) \in Nat /\ head \in Nat /\ head <= Len(accepted)
      /\ \A i \in Entries : accepted[i].at \in Nat /\ accepted[i].clock \in Int
  BY Numbers
<1>2. /\ Purges(h) /\ Len(accepted) - h >= MaxRequests /\ head' = h
      /\ refused' = [at |-> now, after |-> Len(accepted)]
      /\ UNCHANGED <<now, clock, ahead, back, accepted>>
      /\ h \in Nat /\ head <= h /\ h <= Len(accepted)
  BY <1>1 DEF Refuse
<1>3. TypeOK'
  <2>1. head' \in 0..Len(accepted) /\ Len(accepted) - head' <= MaxRequests
    BY <1>1, <1>2 DEF TypeOK
  <2>2. refused' \in [at : 0..Horizon, after : 0..Len(accepted)]
    BY <1>1, <1>2 DEF TypeOK
  <2> QED  BY <1>2, <2>1, <2>2 DEF TypeOK
<1>4. Ordered' /\ Drift' /\ WindowBounded'
  BY <1>2 DEF Ordered, Drift, WindowBounded, Entries
<1>5. DroppedAreOld'
  <2>1. \A i \in 1..h : i \in Entries /\ accepted[i].at + Window <= now + ahead
    BY <1>2, PurgedAreOld
  <2> QED  BY <1>2, <2>1 DEF DroppedAreOld
<1>6. RefusalsExplained'
  <2> DEFINE k == Len(accepted) - MaxRequests + 1
             a == accepted[k].at
             f == accepted[h + 1]
  <2>1. k \in Entries /\ h + 1 \in Entries /\ h + 1 <= k /\ h < Len(accepted)
    BY <1>1, <1>2 DEF Entries
  <2>2. f.clock > clock - Window /\ now - f.at - back <= clock - f.clock /\ f.at <= a
    BY <1>2, <2>1 DEF Purges, Drift, Ordered
  <2>3. a \in Nat /\ f.at \in Nat /\ f.clock \in Int
    BY <1>1, <2>1
  <2>4. a > now - Window - back
    <3> DEFINE fa == f.at
               fc == f.clock
    <3>1. fc > clock - Window /\ now - fa - back <= clock - fc /\ fa <= a
      BY <2>2
    <3>2. a \in Nat /\ fa \in Nat /\ fc \in Int
      BY <2>3
    <3> HIDE DEF a, fa, fc
    <3> QED  BY <1>1, <3>1, <3>2
  <2>5. refused'.after = Len(accepted) /\ refused'.at = now
    BY <1>2
  <2>6. Len(accepted) >= MaxRequests
    BY <1>1, <1>2
  <2> QED  BY <1>2, <2>4, <2>5, <2>6 DEF RefusalsExplained
<1> QED  BY <1>3, <1>4, <1>5, <1>6

\* The invariant holds at first.
LEMMA Initially == Init => IInv
<1> SUFFICES ASSUME Init PROVE IInv
  OBVIOUS
<1>1. accepted = <<>> /\ Len(accepted) = 0 /\ 1..0 = {}
  BY DEF Init
<1>2. TypeOK
  BY <1>1, LimitsAreNat DEF Init, TypeOK
<1> QED
  BY <1>1, <1>2 DEF Init, IInv, Ordered, Drift, DroppedAreOld, Entries, WindowBounded,
                    RefusalsExplained

\* However the clock is set, every reachable state satisfies the inductive invariant.
THEOREM Invariant == Spec => []IInv
<1>1. Init => IInv
  BY Initially
<1>2. IInv /\ [Next]_vars => IInv'
  <2> SUFFICES ASSUME IInv, [Next]_vars PROVE IInv'
    OBVIOUS
  <2>1. CASE UNCHANGED vars
    BY <2>1 DEF vars, IInv, TypeOK, Ordered, Drift, DroppedAreOld, Entries, WindowBounded,
                RefusalsExplained
  <2>2. CASE Next
    BY <2>2, ClockSteps, AcceptKeeps, RefuseKeeps DEF Next
  <2> QED  BY <2>1, <2>2
<1> QED  BY <1>1, <1>2, PTL DEF Spec

\* The deque holds at most MaxRequests entries (main.py:47-51).
THEOREM TypeCorrect == Spec => []TypeOK
<1>1. IInv => TypeOK
  BY DEF IInv
<1> QED  BY <1>1, Invariant, PTL

\* No window of real time sees more than MaxRequests accepted requests, but for what the
\* clock was set ahead (main.py:47-51).
THEOREM WindowIsBounded == Spec => []WindowBounded
<1>1. IInv => WindowBounded
  BY DEF IInv
<1> QED  BY <1>1, Invariant, PTL

\* Every refusal is due to MaxRequests accepted requests of the last window and what the
\* clock was set back (main.py:47-50).
THEOREM RefusalsAreExplained == Spec => []RefusalsExplained
<1>1. IInv => RefusalsExplained
  BY DEF IInv
<1> QED  BY <1>1, Invariant, PTL
=============================================================================
