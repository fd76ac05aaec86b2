------------------------------ MODULE RateLimit -----------------------------
(***************************************************************************)
(* limit (web/rate_limit.py): the sliding window of one bucket, shared     *)
(* without a lock by the threads that handle requests.  The steps are the  *)
(* operations on the deque between which another thread may run.           *)
(***************************************************************************)
EXTENDS Naturals, Sequences, FiniteSets

CONSTANTS
    Threads,        \* threads that call limit for this bucket
    MaxEvents,      \* max_events
    Window,         \* window
    MaxTime,        \* bound on the clock
    MaxCalls        \* bound on the calls

VARIABLES
    clock,          \* time.monotonic
    q,              \* the deque
    pc, now,        \* of each call: next step, its time
    admitted,       \* history: times of the calls let through
    refusals,       \* history: calls refused, with the calls admitted in their window
    raced,          \* history: two calls were under way at once
    calls           \* calls so far

vars == <<clock, q, pc, now, admitted, refusals, raced, calls>>

TypeOK ==
    /\ clock \in 0 .. MaxTime
    /\ q \in Seq(0 .. MaxTime)
    /\ pc \in [Threads -> {"idle", "test", "pop", "full", "append"}]
    /\ now \in [Threads -> 0 .. MaxTime]
    /\ admitted \in Seq(0 .. MaxTime)
    /\ refusals \subseteq [time : 0 .. MaxTime, before : Nat]
    /\ raced \in BOOLEAN /\ calls \in 0 .. MaxCalls

Init ==
    /\ clock = 0
    /\ q = <<>>
    /\ pc = [t \in Threads |-> "idle"]
    /\ now = [t \in Threads |-> 0]
    /\ admitted = <<>>
    /\ refusals = {}
    /\ raced = FALSE /\ calls = 0

Goto(t, step) == pc' = [pc EXCEPT ![t] = step]

Tick ==
    /\ clock < MaxTime
    /\ clock' = clock + 1
    /\ UNCHANGED <<q, pc, now, admitted, refusals, raced, calls>>

Call(t) ==
    /\ pc[t] = "idle"
    /\ calls < MaxCalls /\ calls' = calls + 1
    /\ raced' = (raced \/ \E u \in Threads : pc[u] # "idle")
    /\ Goto(t, "test")
    /\ now' = [now EXCEPT ![t] = clock]
    /\ UNCHANGED <<clock, q, admitted, refusals>>

\* Mutant of Expired: the comparison is not strict.
ExpiredEarly(t) == q # <<>> /\ now[t] >= Head(q) + Window

Expired(t) == q # <<>> /\ now[t] > Head(q) + Window

\* The condition of the while loop.
Test(t) ==
    /\ pc[t] = "test"
    /\ Goto(t, IF Expired(t) THEN "pop" ELSE "full")
    /\ UNCHANGED <<clock, q, now, admitted, refusals, raced, calls>>

PopLeft(t) ==
    /\ pc[t] = "pop" /\ q # <<>>
    /\ q' = Tail(q)
    /\ Goto(t, "test")
    /\ UNCHANGED <<clock, now, admitted, refusals, raced, calls>>

\* IndexError, and the request fails: another thread popped what the test had
\* seen.
PopFails(t) ==
    /\ pc[t] = "pop" /\ q = <<>>
    /\ Goto(t, "idle")
    /\ UNCHANGED <<clock, q, now, admitted, refusals, raced, calls>>

\* The calls admitted in the window that ends now.
Recent(t) == {n \in DOMAIN admitted : admitted[n] + Window >= now[t]}

Refuse(t) ==
    /\ pc[t] = "full" /\ Len(q) >= MaxEvents
    /\ refusals' = refusals \union {[time |-> now[t], before |-> Cardinality(Recent(t))]}
    /\ Goto(t, "idle")
    /\ UNCHANGED <<clock, q, now, admitted, raced, calls>>

Room == Len(q) < MaxEvents

Admit(t) ==
    /\ pc[t] = "full" /\ Room
    /\ Goto(t, "append")
    /\ UNCHANGED <<clock, q, now, admitted, refusals, raced, calls>>

Note(t) == Append(q, now[t])

Record(t) ==
    /\ pc[t] = "append"
    /\ q' = Note(t)
    /\ admitted' = Append(admitted, now[t])
    /\ Goto(t, "idle")
    /\ UNCHANGED <<clock, now, refusals, raced, calls>>

Limit(t) ==
    Call(t) \/ Test(t) \/ PopLeft(t) \/ PopFails(t) \/ Refuse(t) \/ Admit(t) \/ Record(t)

Next == Tick \/ \E t \in Threads : Limit(t)
-----------------------------------------------------------------------------
(***************************************************************************)
(* Properties.                                                             *)
(***************************************************************************)
\* Called one at a time, limit lets no window of the given length hold more
\* than max_events admitted calls,
WindowKept ==
    ~raced => \A start \in 0 .. MaxTime :
        Cardinality({n \in DOMAIN admitted : admitted[n] \in start .. start + Window}) <= MaxEvents

\* and refuses a call only after max_events admitted calls in its window.
RefusalsAreDue == ~raced => \A r \in refusals : r.before >= MaxEvents

\* Threads that race past the test overrun the bucket by one each at most.
BucketBounded == Len(q) < MaxEvents + Cardinality(Threads)

\* The limit is exact for one caller and near for racing ones.
LimitKept == WindowKept /\ RefusalsAreDue /\ BucketBounded
=============================================================================
