------------------------------ MODULE JobQueue ------------------------------
(***************************************************************************)
(* The durable job queue (jobs/queue.py) and the processes that drain it   *)
(* (worker.py process_once, which the worker, the ingest and retry-failed  *)
(* commands and the harvest loop all call), each iteration inside one      *)
(* session_scope.                                                          *)
(*                                                                         *)
(* status, attempts and due are the COMMITTED rows.  A worker's session    *)
(* sees the row as it was at its SELECT; the flush at the end of claim_job *)
(* takes the write lock (SQLite) and the commit at the end of              *)
(* session_scope makes everything visible at once, so a committed row      *)
(* never says "running".  A job is given to a handler by Claim and its     *)
(* handler's effects become visible in Complete or Fail.                   *)
(*                                                                         *)
(* SkipLocked distinguishes the two databases: on Postgres the SELECT of   *)
(* claim_job locks the row and other sessions skip it; SQLite ignores FOR  *)
(* UPDATE, so a SELECT locks nothing and only the UPDATE serializes.       *)
(***************************************************************************)
EXTENDS Naturals

CONSTANTS
    Jobs,           \* primary keys of the jobs table
    Workers,        \* processes calling process_once
    None,           \* no job
    Priority,       \* Job.priority of each job
    MaxAttempts,    \* Job.max_attempts of each job
    Discovery,      \* jobs whose handler enqueues further jobs
    Poison,         \* jobs whose handler always ends in a failed flush
    Cancellable,    \* jobs somebody calls cancel_job on
    SkipLocked,     \* TRUE: Postgres, FALSE: SQLite
    MaxFaults       \* bound on crashes and failed commits (Poison aside)

ASSUME JobsAssumption == Jobs \subseteq Nat /\ None \notin Jobs
ASSUME PriorityAssumption == Priority \in [Jobs -> Nat]
ASSUME AttemptsAssumption == MaxAttempts \in [Jobs -> Nat \ {0}]
ASSUME LockAssumption == SkipLocked \in BOOLEAN
ASSUME FaultAssumption == MaxFaults \in Nat

VARIABLES
    status,         \* Job.status
    attempts,       \* Job.attempts
    due,            \* Job.run_after <= now
    pc,             \* where each worker stands in process_once
    held,           \* the job loaded in its session
    seen,           \* Job.attempts as its SELECT read it
    cancelling,     \* the job loaded by a cancel_job that has not committed
    faults,         \* crashes and failed commits so far
    ran             \* history: runs of each job's handler that were committed

rows == <<status, attempts, due, ran>>
sessions == <<pc, held, seen>>
vars == <<status, attempts, due, ran, pc, held, seen, cancelling, faults>>

Statuses == {"absent", "queued", "retrying", "done", "dead", "cancelled"}
Waiting(j) == status[j] \in {"queued", "retrying"}
Settled(j) == status[j] \in {"done", "dead", "cancelled"}
Absent == {j \in Jobs : status[j] = "absent"}

TypeOK ==
    /\ status \in [Jobs -> Statuses]
    /\ attempts \in [Jobs -> Nat]
    /\ due \in [Jobs -> BOOLEAN]
    /\ ran \in [Jobs -> Nat]
    /\ pc \in [Workers -> {"idle", "selected", "running", "down"}]
    /\ held \in [Workers -> Jobs \union {None}]
    /\ seen \in [Workers -> Nat]
    /\ cancelling \in Jobs \union {None}
    /\ faults \in Nat
    /\ \A w \in Workers : pc[w] \in {"selected", "running"} => held[w] \in Jobs

Init ==
    /\ status = [j \in Jobs |-> "absent"]
    /\ attempts = [j \in Jobs |-> 0]
    /\ due = [j \in Jobs |-> FALSE]
    /\ ran = [j \in Jobs |-> 0]
    /\ pc = [w \in Workers |-> "idle"]
    /\ held = [w \in Workers |-> None]
    /\ seen = [w \in Workers |-> 0]
    /\ cancelling = None
    /\ faults = 0
-----------------------------------------------------------------------------
(***************************************************************************)
(* Locks.  SQLite has one write lock, taken by the first flush of a        *)
(* transaction and kept until its end.  Postgres locks the selected row.   *)
(***************************************************************************)
WriteLockFree == SkipLocked \/ \A w \in Workers : pc[w] # "running"

\* Mutant of RowLocked: the row is locked by the UPDATE, not by the SELECT.
RowLockedByUpdate(j) == SkipLocked /\ \E w \in Workers : pc[w] = "running" /\ held[w] = j

RowLocked(j) ==
    SkipLocked /\ \E w \in Workers : pc[w] \in {"selected", "running"} /\ held[w] = j

\* order_by(Job.priority.desc(), Job.id.asc())
Before(j, k) ==
    \/ Priority[j] > Priority[k]
    \/ Priority[j] = Priority[k] /\ j < k

\* Mutants of Claimable: the filter on Job.status admits dead jobs, forgets the
\* retrying ones.
ClaimableDead ==
    {j \in Jobs : (Waiting(j) \/ status[j] = "dead") /\ due[j] /\ ~RowLocked(j)}
ClaimableQueued == {j \in Jobs : status[j] = "queued" /\ due[j] /\ ~RowLocked(j)}

Claimable == {j \in Jobs : Waiting(j) /\ due[j] /\ ~RowLocked(j)}

\* Job.status once the rows of new are inserted.
Inserted(new) ==
    [j \in Jobs |-> IF j \in new THEN "queued" ELSE status[j]]

(***************************************************************************)
(* Steps of the environment.                                               *)
(***************************************************************************)
\* enqueue, called and committed by a request or a command; now says that
\* delay_seconds was zero.
Enqueue(j, now) ==
    /\ status[j] = "absent"
    /\ WriteLockFree
    /\ status' = Inserted({j})
    /\ due' = [due EXCEPT ![j] = now]
    /\ UNCHANGED <<attempts, ran, sessions, cancelling, faults>>

\* Time passes run_after of a job.
Elapse(j) ==
    /\ Waiting(j) /\ ~due[j]
    /\ due' = [due EXCEPT ![j] = TRUE]
    /\ UNCHANGED <<status, attempts, ran, sessions, cancelling, faults>>

\* cancel_job loads the row and finds it neither done nor dead ...
CancelRead(j) ==
    /\ cancelling = None
    /\ j \in Cancellable
    /\ status[j] \notin {"absent", "done", "dead"}
    /\ cancelling' = j
    /\ UNCHANGED <<rows, sessions, faults>>

\* ... and writes it when its transaction gets the lock, whatever the row has
\* become meanwhile.
CancelWrite ==
    /\ cancelling # None
    /\ WriteLockFree
    /\ ~RowLocked(cancelling)
    /\ status' = [status EXCEPT ![cancelling] = "cancelled"]
    /\ cancelling' = None
    /\ UNCHANGED <<attempts, due, ran, sessions, faults>>
-----------------------------------------------------------------------------
(***************************************************************************)
(* One iteration of process_once in worker w.                              *)
(***************************************************************************)
\* claim_job, up to the result of its SELECT.
Select(w) ==
    /\ pc[w] = "idle"
    /\ \E j \in Claimable :
        /\ \A k \in Claimable \ {j} : Before(j, k)
        /\ held' = [held EXCEPT ![w] = j]
        /\ seen' = [seen EXCEPT ![w] = attempts[j]]
    /\ pc' = [pc EXCEPT ![w] = "selected"]
    /\ UNCHANGED <<rows, cancelling, faults>>

\* claim_job, its flush: the UPDATE writes status = running and
\* attempts = seen + 1 inside the transaction and the handler starts.
Claim(w) ==
    /\ pc[w] = "selected"
    /\ WriteLockFree
    /\ pc' = [pc EXCEPT ![w] = "running"]
    /\ UNCHANGED <<rows, held, seen, cancelling, faults>>

\* What the commit makes of the held row, given the verdict of complete_job or
\* fail_job, and of the rows the handler inserted.
Commit(w, verdict, new) ==
    /\ pc[w] = "running"
    /\ held[w] \notin Poison
    /\ new \subseteq Absent
    /\ held[w] \notin Discovery => new = {}
    /\ status' = [Inserted(new) EXCEPT ![held[w]] = verdict]
    /\ attempts' = [attempts EXCEPT ![held[w]] = seen[w] + 1]
    /\ ran' = [ran EXCEPT ![held[w]] = @ + 1]
    /\ pc' = [pc EXCEPT ![w] = "idle"]
    /\ held' = [held EXCEPT ![w] = None]
    /\ UNCHANGED <<seen, cancelling, faults>>

\* Mutant of Complete: complete_job leaves the status claim_job wrote.
CompleteForgotten(w, new) ==
    /\ Commit(w, "running", new)
    /\ due' = [j \in Jobs |-> due[j] \/ j \in new]

\* The handler returned: complete_job and commit.
Complete(w, new) ==
    /\ Commit(w, "done", new)
    /\ due' = [j \in Jobs |-> due[j] \/ j \in new]

\* Mutants of Exhausted: the bound is one off, never applies.
ExhaustedLate(w) == seen[w] >= MaxAttempts[held[w]]
ExhaustedNever(w) == FALSE

\* job.attempts >= job.max_attempts, in the session of w
Exhausted(w) == seen[w] + 1 >= MaxAttempts[held[w]]

\* The handler raised: fail_job and commit, with all the handler had flushed.
Fail(w, new) ==
    /\ Commit(w, IF Exhausted(w) THEN "dead" ELSE "retrying", new)
    /\ due' = [j \in Jobs |-> IF j = held[w] THEN Exhausted(w) /\ due[j]
                               ELSE due[j] \/ j \in new]

\* The process dies or the commit fails: the transaction is rolled back,
\* process_once raises, and main, which catches nothing, ends.  A poisoned
\* handler ends so every time, since a failed flush leaves the session
\* unusable for fail_job.
Abort(w) ==
    /\ pc[w] \in {"selected", "running"}
    /\ \/ pc[w] = "running" /\ held[w] \in Poison /\ faults' = faults
       \/ faults < MaxFaults /\ faults' = faults + 1
    /\ pc' = [pc EXCEPT ![w] = "down"]
    /\ held' = [held EXCEPT ![w] = None]
    /\ UNCHANGED <<rows, seen, cancelling>>

\* The platform starts the process again; harvest's loop just goes on.
Restart(w) ==
    /\ pc[w] = "down"
    /\ pc' = [pc EXCEPT ![w] = "idle"]
    /\ UNCHANGED <<rows, held, seen, cancelling, faults>>

Finish(w) == \E new \in SUBSET Absent : Complete(w, new) \/ Fail(w, new)

Next ==
    \/ \E j \in Jobs, now \in BOOLEAN : Enqueue(j, now)
    \/ \E j \in Jobs : Elapse(j)
    \/ \E j \in Jobs : CancelRead(j)
    \/ CancelWrite
    \/ \E w \in Workers : Select(w)
    \/ \E w \in Workers : Claim(w)
    \/ \E w \in Workers : Finish(w)
    \/ \E w \in Workers : Abort(w)
    \/ \E w \in Workers : Restart(w)

\* Workers poll for ever, handlers end (each network call has a timeout),
\* clocks advance, and a stopped process is started again.
Fairness ==
    /\ \A j \in Jobs : WF_vars(Elapse(j))
    /\ \A w \in Workers : /\ WF_vars(Select(w))
                          /\ WF_vars(Claim(w))
                          /\ WF_vars(Finish(w) \/ Abort(w))
                          /\ WF_vars(Restart(w))

Spec == Init /\ [][Next]_vars
FairSpec == Spec /\ Fairness
-----------------------------------------------------------------------------
(***************************************************************************)
(* Properties.                                                             *)
(***************************************************************************)
\* The deployments for which the queue keeps its promises: Postgres, or a
\* single consumer of the SQLite file with nobody cancelling jobs.
SafeDeployment ==
    \/ SkipLocked
    \/ Cancellable = {} /\ \A v, w \in Workers : v = w

\* A session between its SELECT and its commit works on a row nobody else has
\* taken, finished or counted in the meantime: what claim_job read is not
\* stale when it is written back.
ClaimIsCurrent ==
    \A w \in Workers : pc[w] \in {"selected", "running"} =>
        /\ Waiting(held[w])
        /\ seen[w] = attempts[held[w]]
        /\ \A v \in Workers \ {w} : pc[v] \in {"selected", "running"} => held[v] # held[w]

\* Every committed run of a handler is counted in Job.attempts, a job that may
\* still be claimed has tries left, and a dead one has used them all.
RetryBudget ==
    \A j \in Jobs :
        /\ attempts[j] = ran[j]
        /\ Waiting(j) => ran[j] < MaxAttempts[j]
        /\ ran[j] <= MaxAttempts[j]
        /\ status[j] = "dead" => ran[j] = MaxAttempts[j]

\* A job that is done or dead is never run, retried or counted again; at most
\* a cancel_job that read it earlier relabels it, and a cancelled job stays so.
SettledUntouched ==
    \A j \in Jobs : Settled(j) =>
        /\ status'[j] \in {status[j], "cancelled"}
        /\ ran'[j] = ran[j]
SettledStays == [][SettledUntouched]_vars

\* What the other safety properties rest on: a job nobody has enqueued was
\* never run, and a cancellation under way concerns an existing job that
\* somebody may cancel.
Provenance ==
    /\ \A j \in Jobs : status[j] = "absent" => ran[j] = 0
    /\ cancelling # None => cancelling \in Cancellable /\ status[cancelling] # "absent"

\* The inductive invariant.
IInv == TypeOK /\ ClaimIsCurrent /\ RetryBudget /\ Provenance

\* Unless its handler can never commit, every enqueued job comes to an end.
JobsSettle == \A j \in Jobs \ Poison : Waiting(j) ~> Settled(j)

\* The refinement mapping: queued and retrying are both waiting.
standing ==
    [j \in Jobs |-> IF Waiting(j) THEN "waiting"
                    ELSE IF status[j] = "done" THEN "finished" ELSE status[j]]
Lifecycle == INSTANCE JobLifecycle WITH state <- standing, tries <- ran

\* The committed rows, watched without the sessions, follow the lifecycle that
\* JobLifecycle promises: each try of a job is one step, counted once.
Implements == Lifecycle!Spec
=============================================================================
