------------------------------- MODULE Visits -------------------------------
(***************************************************************************)
(* The visitor counter file (web/visits.py).  increment runs in the event  *)
(* loop of a web process, so a process makes one at a time; read_count     *)
(* runs in any thread and takes no lock.  The file is None when it does    *)
(* not exist, Empty when it holds no number.                               *)
(***************************************************************************)
EXTENDS Naturals

CONSTANTS
    Processes,      \* web processes on one data root
    None, Empty,    \* contents that are no number
    Firsts,         \* contents there may be before the first process starts
    MaxVisits,      \* bound on page views
    MaxKills        \* bound on killed processes

VARIABLES
    file,           \* content of visitor_count.json
    flock,          \* the process that has the lock
    step, n,        \* next step and local of each process's increment
    begun,          \* increments begun
    counted,        \* history: increments that returned a number
    shown,          \* the count last put on a page
    first,          \* history: the content at the start
    disturbed,      \* history: a process was killed, or another one was at work
                    \* while the file was created
    kills           \* processes killed

vars == <<file, flock, step, n, begun, counted, shown, first, disturbed, kills>>

\* What a content counts as: anything that does not parse is 0.
Parsed(content) == IF content \in {None, Empty} THEN 0 ELSE content

TypeOK ==
    /\ file \in 0 .. Parsed(first) + MaxVisits \union {None, Empty}
    /\ flock \in Processes \union {None}
    /\ step \in [Processes -> {"idle", "exists", "create", "fill", "lock", "read", "truncate", "dump", "unlock"}]
    /\ n \in [Processes -> 0 .. Parsed(first) + MaxVisits]
    /\ begun \in 0 .. MaxVisits /\ counted \in 0 .. MaxVisits
    /\ shown \in 0 .. Parsed(first) + MaxVisits
    /\ first \in Firsts /\ disturbed \in BOOLEAN
    /\ kills \in 0 .. MaxKills

Init ==
    /\ first \in Firsts /\ file = first /\ disturbed = FALSE
    /\ flock = None
    /\ step = [p \in Processes |-> "idle"]
    /\ n = [p \in Processes |-> 0]
    /\ begun = 0 /\ counted = 0 /\ shown = Parsed(first) /\ kills = 0

Goto(p, from, to) == step[p] = from /\ step' = [step EXCEPT ![p] = to]

\* Another process is at work.
Others(p) == \E q \in Processes \ {p} : step[q] # "idle"

PageView(p) ==
    /\ begun < MaxVisits /\ begun' = begun + 1
    /\ Goto(p, "idle", "exists")
    /\ disturbed' = (disturbed \/ \E q \in Processes : step[q] \in {"create", "fill"})
    /\ UNCHANGED <<file, flock, n, counted, shown, first, kills>>

Exists(p) ==
    /\ Goto(p, "exists", IF file = None THEN "create" ELSE "lock")
    /\ UNCHANGED <<file, flock, n, begun, counted, shown, first, disturbed, kills>>

\* write_text opens the file, which empties it, and writes a zero.
Create(p) ==
    /\ Goto(p, "create", "fill")
    /\ file' = Empty
    /\ disturbed' = (disturbed \/ Others(p))
    /\ UNCHANGED <<flock, n, begun, counted, shown, first, kills>>

Fill(p) ==
    /\ Goto(p, "fill", "lock")
    /\ file' = 0
    /\ disturbed' = (disturbed \/ Others(p))
    /\ UNCHANGED <<flock, n, begun, counted, shown, first, kills>>

\* Mutant of Free: the lock is shared.
SharedLock(p) == TRUE

Free(p) == flock = None

Lock(p) ==
    /\ Free(p)
    /\ Goto(p, "lock", "read")
    /\ flock' = p
    /\ UNCHANGED <<file, n, begun, counted, shown, first, disturbed, kills>>

Read(p) ==
    /\ Goto(p, "read", "truncate")
    /\ n' = [n EXCEPT ![p] = Parsed(file) + 1]
    /\ UNCHANGED <<file, flock, begun, counted, shown, first, disturbed, kills>>

Truncate(p) ==
    /\ Goto(p, "truncate", "dump")
    /\ file' = Empty
    /\ UNCHANGED <<flock, n, begun, counted, shown, first, disturbed, kills>>

Dump(p) ==
    /\ Goto(p, "dump", "unlock")
    /\ file' = n[p]
    /\ UNCHANGED <<flock, n, begun, counted, shown, first, disturbed, kills>>

Unlock(p) ==
    /\ Goto(p, "unlock", "idle")
    /\ flock' = None
    /\ counted' = counted + 1
    /\ UNCHANGED <<file, n, begun, shown, first, disturbed, kills>>

\* A killed process loses its lock and leaves the file as it is.
Kill(p) ==
    /\ kills < MaxKills /\ kills' = kills + 1
    /\ step[p] # "idle" /\ step' = [step EXCEPT ![p] = "idle"]
    /\ flock' = IF flock = p THEN None ELSE flock
    /\ disturbed' = TRUE
    /\ UNCHANGED <<file, n, begun, counted, shown, first>>

ReadCount ==
    /\ shown' = Parsed(file)
    /\ UNCHANGED <<file, flock, step, n, begun, counted, first, disturbed, kills>>

Increment(p) ==
    \/ Exists(p) \/ Create(p) \/ Fill(p) \/ Lock(p) \/ Read(p) \/ Truncate(p) \/ Dump(p) \/ Unlock(p)

Next == ReadCount \/ \E p \in Processes : PageView(p) \/ Increment(p) \/ Kill(p)

\* A running web process goes on, as long as the lock is free when it needs it.
Fairness == \A p \in Processes : WF_vars(Increment(p))
-----------------------------------------------------------------------------
(***************************************************************************)
(* Properties.                                                             *)
(***************************************************************************)
\* Once no increment is under way the file counts every one that returned,
\* unless a process was killed or two met while the file was created.
VisitsCounted ==
    ~disturbed /\ (\A p \in Processes : step[p] = "idle") =>
        Parsed(file) = Parsed(first) + counted

\* A count on a page never exceeds the page views there were.
ShownIsReal == shown <= Parsed(first) + begun

\* The counter neither loses visits nor makes them up.
CounterIsTrue == VisitsCounted /\ ShownIsReal

\* Every increment comes to an end.
IncrementsEnd == \A p \in Processes : step[p] # "idle" ~> step[p] = "idle"
=============================================================================
