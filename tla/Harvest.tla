------------------------------- MODULE Harvest ------------------------------
(***************************************************************************)
(* harvest_loop (ingestion/harvest.py): rounds of requeueing, draining the *)
(* queue and discovering, over the items of one source.  What a handler    *)
(* does with an item is reduced to its fate (see Ingestion for the rest):  *)
(*   "ok"        it ends settled,                                          *)
(*   "gone"      it fails with a permanent error,                          *)
(*   "fileless"  the handler returns after recording a failure that does   *)
(*               not count as permanent ("no files", "all files failed     *)
(*               validation"),                                             *)
(*   "broken"    the handler raises on every try,                          *)
(*   "poison"    process_once itself raises, every time.                   *)
(***************************************************************************)
EXTENDS Naturals, FiniteSets

CONSTANTS
    Items,          \* the source's items, in the order it lists them
    Fates,          \* what the fates of the items may be
    Target,         \* published works wanted
    Batch,          \* batch size; a drain runs up to three times as many jobs
    EmptyLimit,     \* rounds without news before giving up (3)
    FailureLimit,   \* rounds of failing discovery before giving up (15)
    MaxJobs,        \* bound on the jobs of one item that are due, and waiting
    MaxFaults       \* bound on exceptions that are nobody's fate

VARIABLES
    fate,           \* of each item, from the start
    status,         \* SourceItem.status; "gone" is failed with a permanent error
    due, waiting,   \* jobs of each item: claimable now, or after run_after
    pc,             \* where the loop is
    budget,         \* jobs the current drain may still run
    requeued, processed, emptyRounds,   \* locals of harvest_loop
    faults          \* exceptions so far

queue == <<status, due, waiting>>
vars == <<fate, queue, pc, budget, requeued, processed, emptyRounds, faults>>

Ends == {"target_reached", "blocked", "no_more_eligible"}

TypeOK ==
    /\ fate \in Fates
    /\ status \in [Items -> {"unknown", "queued", "settled", "failed", "gone"}]
    /\ due \in [Items -> 0 .. MaxJobs] /\ waiting \in [Items -> 0 .. MaxJobs]
    /\ pc \in {"top", "requeue", "drain", "discover", "drain_new"} \union Ends
    /\ budget \in 0 .. 3 * Batch
    /\ requeued \in 0 .. Batch /\ processed \in 0 .. 3 * Batch
    /\ emptyRounds \in 0 .. FailureLimit + EmptyLimit + 1
    /\ faults \in 0 .. MaxFaults

Init ==
    /\ fate \in Fates
    /\ status = [i \in Items |-> "unknown"]
    /\ due = [i \in Items |-> 0] /\ waiting = [i \in Items |-> 0]
    /\ pc = "top"
    /\ budget = 0 /\ requeued = 0 /\ processed = 0 /\ emptyRounds = 0
    /\ faults = 0
-----------------------------------------------------------------------------
FirstOf(S, n) == {i \in S : Cardinality({j \in S : j < i}) < n}
With(S) == {i \in Items : status[i] \in S}

Published == Cardinality(With({"settled"}))

Top ==
    /\ pc = "top"
    /\ pc' = IF Published >= Target THEN "target_reached" ELSE "requeue"
    /\ UNCHANGED <<queue, budget, requeued, processed, emptyRounds, faults>>

\* Mutant of Retriable: a single item is looked at.
FirstFailure == FirstOf(With({"failed", "gone"}), 1) \intersect With({"failed"})

\* requeue_failed: of the first Batch failed items, those not gone.
Retriable == FirstOf(With({"failed", "gone"}), Batch) \intersect With({"failed"})

RequeueFailed ==
    LET again == Retriable IN
    /\ pc = "requeue"
    /\ status' = [i \in Items |-> IF i \in again THEN "queued" ELSE status[i]]
    /\ due' = [i \in Items |-> IF i \in again /\ due[i] < MaxJobs THEN due[i] + 1 ELSE due[i]]
    /\ requeued' = Cardinality(again)
    /\ budget' = 3 * Batch /\ processed' = 0
    /\ pc' = "drain"
    /\ UNCHANGED <<waiting, emptyRounds, faults>>
-----------------------------------------------------------------------------
(***************************************************************************)
(* _drain and process_once.                                                *)
(***************************************************************************)
Draining == pc \in {"drain", "drain_new"}

Ran ==
    /\ budget' = budget - 1
    /\ processed' = IF pc = "drain" THEN processed + 1 ELSE processed
    /\ UNCHANGED <<pc, requeued, emptyRounds>>

\* An exception that is the item's fate, or one of MaxFaults others.
Fault(fated) ==
    /\ faults' = IF fated THEN faults ELSE faults + 1
    /\ faults' <= MaxFaults

\* The handler returns and the job is done.
Handled(i) ==
    /\ Draining /\ budget > 0 /\ due[i] > 0 /\ fate[i] \in {"ok", "gone", "fileless"}
    /\ due' = [due EXCEPT ![i] = @ - 1]
    /\ status' = [status EXCEPT ![i] =
            CASE fate[i] = "ok" -> "settled" [] fate[i] = "gone" -> "gone" [] OTHER -> "failed"]
    /\ Ran
    /\ UNCHANGED <<waiting, faults>>

\* The handler raises: the job waits for its retry or is dead.
Raised(i) ==
    /\ Draining /\ budget > 0 /\ due[i] > 0 /\ fate[i] # "poison"
    /\ Fault(fate[i] = "broken")
    /\ due' = [due EXCEPT ![i] = @ - 1]
    /\ \/ waiting' = waiting
       \/ waiting[i] < MaxJobs /\ waiting' = [waiting EXCEPT ![i] = @ + 1]
    /\ status' = [status EXCEPT ![i] = "failed"]
    /\ Ran

\* process_once raises (a lock timeout, a broken session) and is rolled back;
\* _drain counts it as a job done.
Crashed(i) ==
    /\ Draining /\ budget > 0 /\ due[i] > 0
    /\ Fault(fate[i] = "poison")
    /\ Ran
    /\ UNCHANGED queue

Elapse(i) ==
    /\ waiting[i] > 0 /\ due[i] < MaxJobs /\ pc \notin Ends
    /\ waiting' = [waiting EXCEPT ![i] = @ - 1]
    /\ due' = [due EXCEPT ![i] = @ + 1]
    /\ UNCHANGED <<status, pc, budget, requeued, processed, emptyRounds, faults>>

Quiet == requeued = 0 /\ processed = 0

\* The queue was found idle twice, or the budget is spent.
DrainEnds ==
    /\ Draining /\ (budget = 0 \/ \A i \in Items : due[i] = 0)
    /\ budget' = 0
    /\ pc' = IF pc = "drain" /\ Quiet THEN "discover" ELSE "top"
    /\ emptyRounds' = IF Quiet THEN emptyRounds ELSE 0
    /\ UNCHANGED <<queue, requeued, processed, faults>>
-----------------------------------------------------------------------------
(***************************************************************************)
(* Discovery.                                                              *)
(***************************************************************************)
\* Mutant of EmptyRound: the loop does not return.
EmptyRoundGoesOn(limit, end) ==
    /\ emptyRounds' = emptyRounds + 1
    /\ pc' = "top"

EmptyRound(limit, end) ==
    /\ emptyRounds' = emptyRounds + 1
    /\ pc' = IF emptyRounds + 1 > limit THEN end ELSE "top"

DiscoverNew ==
    LET found == FirstOf(With({"unknown"}), Batch) IN
    /\ pc = "discover" /\ found # {}
    /\ status' = [i \in Items |-> IF i \in found THEN "queued" ELSE status[i]]
    /\ due' = [i \in Items |-> IF i \in found THEN 1 ELSE due[i]]
    /\ emptyRounds' = 0 /\ budget' = 3 * Batch
    /\ pc' = "drain_new"
    /\ UNCHANGED <<waiting, requeued, processed, faults>>

DiscoverNothing ==
    /\ pc = "discover" /\ With({"unknown"}) = {}
    /\ EmptyRound(EmptyLimit, "no_more_eligible")
    /\ UNCHANGED <<queue, budget, requeued, processed, faults>>

\* Mutant of DiscoveryFails: the round is not counted.
FailsUncounted ==
    /\ pc = "discover"
    /\ pc' = "top"
    /\ UNCHANGED <<queue, budget, requeued, processed, emptyRounds, faults>>

\* run_discovery raises and is rolled back.
DiscoveryFails ==
    /\ pc = "discover"
    /\ EmptyRound(FailureLimit, "blocked")
    /\ UNCHANGED <<queue, budget, requeued, processed, faults>>

HarvestLoop ==
    \/ Top \/ RequeueFailed \/ DrainEnds
    \/ DiscoverNew \/ DiscoverNothing \/ DiscoveryFails
    \/ \E i \in Items : Handled(i) \/ Raised(i) \/ Crashed(i)

Next == (HarvestLoop \/ \E i \in Items : Elapse(i)) /\ UNCHANGED fate

\* The loop is one process that goes on running.
Spec == Init /\ [][Next]_vars /\ WF_vars(HarvestLoop /\ UNCHANGED fate)
-----------------------------------------------------------------------------
(***************************************************************************)
(* Properties.                                                             *)
(***************************************************************************)
\* The loop ends, at its target, blocked, or with no more to do, whatever is
\* raised on the way and gone for good: unless it tries an item that fails for
\* another reason again and again.
Stubborn == {i \in Items : fate[i] \in {"fileless", "broken", "poison"}}
HarvestEnds ==
    <>(pc \in Ends) \/ []<><<\E i \in Stubborn : Handled(i) \/ Raised(i) \/ Crashed(i)>>_vars

\* "no more eligible" means that: everything was discovered and worked off, and
\* nothing that failed could be tried again.  And the source is asked for more
\* only when everything it gave was worked off.
RoundsAreTrue ==
    /\ pc = "no_more_eligible" => With({"unknown", "queued", "failed"}) = {}
    /\ pc = "discover" => With({"queued"}) = {}
=============================================================================
