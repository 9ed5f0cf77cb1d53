----------------------------- MODULE RateLimit -----------------------------
(* RateLimitMiddleware (main.py 35-67), for one key of its dictionary: one *)
(* client on one path, as keys share nothing.  dispatch does not suspend   *)
(* between the look at the deque and the append, so a request is one step. *)
(* It measures time by time.time(), which the host may set back or ahead   *)
(* while real time goes on.                                                *)
EXTENDS Integers, Sequences

CONSTANTS
  MaxRequests,   \* RATE_LIMIT_MAX_REQUESTS
  Window,        \* RATE_LIMIT_WINDOW_SECONDS
  Horizon,       \* bound: the last instant at which time passes
  MaxSet,        \* bound: how far the clock is set back, and ahead, in all
  MaxAccepted    \* bound: requests accepted

ASSUME LimitsAreNat ==
  /\ MaxRequests \in Nat \ {0} /\ Window \in Nat \ {0}
  /\ Horizon \in Nat /\ MaxSet \in Nat /\ MaxAccepted \in Nat

VARIABLES
  now,        \* real time
  clock,      \* time.time()
  ahead,      \* how far the clock was set ahead so far
  back,       \* how far it was set back
  accepted,   \* when each accepted request came, in real time and by the clock
  head,       \* how many of them were dropped; the deque holds the others
  refused     \* when a request was answered 429 last, and after how many accepted

vars == <<now, clock, ahead, back, accepted, head, refused>>

\* The deque never holds more than MaxRequests entries.
TypeOK ==
  /\ now \in 0..Horizon /\ clock \in Int
  /\ ahead \in 0..MaxSet /\ back \in 0..MaxSet
  /\ accepted \in Seq([at : 0..Horizon, clock : Int]) /\ Len(accepted) <= MaxAccepted
  /\ head \in 0..Len(accepted) /\ Len(accepted) - head <= MaxRequests
  /\ refused \in [at : 0..Horizon, after : 0..Len(accepted)] \cup {<<>>}

Init ==
  /\ now = 0 /\ clock = 0 /\ ahead = 0 /\ back = 0
  /\ accepted = <<>> /\ head = 0 /\ refused = <<>>

Tick ==
  /\ now < Horizon
  /\ now' = now + 1
  /\ clock' = clock + 1
  /\ UNCHANGED <<ahead, back, accepted, head, refused>>

SetAhead(d) ==
  /\ ahead + d <= MaxSet
  /\ clock' = clock + d
  /\ ahead' = ahead + d
  /\ UNCHANGED <<now, back, accepted, head, refused>>

SetBack(d) ==
  /\ back + d <= MaxSet
  /\ clock' = clock - d
  /\ back' = back + d
  /\ UNCHANGED <<now, ahead, accepted, head, refused>>

\* Mutation: the first entry still in the window is dropped too.
PurgesNext(h) ==
  /\ \A k \in (head + 1)..(h - 1) : accepted[k].clock <= clock - Window
  /\ h < Len(accepted) => accepted[h + 1].clock > clock - Window

\* The deque loses its first entries as long as they are old enough: only the first is
\* looked at, and after the clock was set back a later one may be older.
Purges(h) ==
  /\ \A k \in (head + 1)..h : accepted[k].clock <= clock - Window
  /\ h < Len(accepted) => accepted[h + 1].clock > clock - Window

\* Mutation: the limit itself is let through.
AcceptOneMore(h) ==
  /\ Purges(h)
  /\ Len(accepted) - h <= MaxRequests
  /\ Len(accepted) < MaxAccepted
  /\ head' = h
  /\ accepted' = Append(accepted, [at |-> now, clock |-> clock])
  /\ UNCHANGED <<now, clock, ahead, back, refused>>

\* The deque holds what was accepted only.
Accept(h) ==
  /\ Purges(h)
  /\ Len(accepted) - h < MaxRequests
  /\ Len(accepted) < MaxAccepted
  /\ head' = h
  /\ accepted' = Append(accepted, [at |-> now, clock |-> clock])
  /\ UNCHANGED <<now, clock, ahead, back, refused>>

\* Mutation: a refused request renews the entry that was accepted last.
RefuseRenews(h) ==
  /\ Purges(h)
  /\ Len(accepted) - h >= MaxRequests
  /\ head' = h
  /\ accepted' = [accepted EXCEPT ![Len(accepted)].clock = clock]
  /\ refused' = [at |-> now, after |-> Len(accepted)]
  /\ UNCHANGED <<now, clock, ahead, back>>

\* What was purged stays purged; the request itself is not counted.
Refuse(h) ==
  /\ Purges(h)
  /\ Len(accepted) - h >= MaxRequests
  /\ head' = h
  /\ refused' = [at |-> now, after |-> Len(accepted)]
  /\ UNCHANGED <<now, clock, ahead, back, accepted>>

Next ==
  \/ Tick
  \/ \E d \in 1..MaxSet : SetAhead(d) \/ SetBack(d)
  \/ \E h \in head..Len(accepted) : Accept(h) \/ Refuse(h)

Spec == Init /\ [][Next]_vars

-----------------------------------------------------------------------------
(* Properties *)

\* Of MaxRequests + 1 accepted requests the last comes a window after the first, less what
\* the clock was set ahead: setting it back never lets more through (main.py:47-51).
WindowBounded ==
  \A i, j \in 1..Len(accepted) :
    j >= i + MaxRequests => accepted[j].at + ahead >= accepted[i].at + Window

\* A request is refused only after MaxRequests were accepted in the last window, made longer
\* by what the clock was set back: refusals do not prolong themselves, and what a wrong clock
\* adds to them is at most what it was set back by (main.py:47-50).
RefusalsExplained ==
  refused # <<>> =>
    /\ refused.after >= MaxRequests
    /\ accepted[refused.after - MaxRequests + 1].at > refused.at - Window - back
=============================================================================
