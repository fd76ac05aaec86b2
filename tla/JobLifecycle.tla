---------------------------- MODULE JobLifecycle ----------------------------
(***************************************************************************)
(* What the durable queue promises to the rest of the library, with no     *)
(* workers, sessions or locks in sight: a job is submitted once, is tried  *)
(* at most MaxAttempts times, and each try ends in a single step that      *)
(* both counts the try and decides what becomes of the job.  JobQueue is   *)
(* shown to implement this module.                                         *)
(***************************************************************************)
EXTENDS Naturals

CONSTANTS
    Jobs,           \* primary keys of the jobs table
    MaxAttempts,    \* Job.max_attempts of each job
    Cancellable     \* the jobs somebody may cancel

VARIABLES
    state,          \* where each job stands
    tries           \* how often its handler has been run to a verdict

lvars == <<state, tries>>

Init ==
    /\ state = [j \in Jobs |-> "absent"]
    /\ tries = [j \in Jobs |-> 0]

\* New jobs appear, waiting for their first try.
Submit(new) ==
    /\ new \subseteq {j \in Jobs : state[j] = "absent"}
    /\ state' = [j \in Jobs |-> IF j \in new THEN "waiting" ELSE state[j]]
    /\ UNCHANGED tries

\* One try of j: it is counted, it settles the job or leaves it waiting for
\* another try, and the jobs the handler submitted appear with it.
Try(j, verdict, new) ==
    /\ state[j] = "waiting"
    /\ verdict = "dead" => tries[j] + 1 >= MaxAttempts[j]
    /\ verdict = "waiting" => tries[j] + 1 < MaxAttempts[j]
    /\ new \subseteq {k \in Jobs : state[k] = "absent"}
    /\ state' = [k \in Jobs |-> IF k = j THEN verdict
                                ELSE IF k \in new THEN "waiting" ELSE state[k]]
    /\ tries' = [tries EXCEPT ![j] = @ + 1]

Cancel(j) ==
    /\ j \in Cancellable
    /\ state[j] # "absent"
    /\ state' = [state EXCEPT ![j] = "cancelled"]
    /\ UNCHANGED tries

Next ==
    \/ \E new \in SUBSET Jobs : Submit(new)
    \/ \E j \in Jobs, verdict \in {"finished", "waiting", "dead"}, new \in SUBSET Jobs :
            Try(j, verdict, new)
    \/ \E j \in Jobs : Cancel(j)

Spec == Init /\ [][Next]_lvars
=============================================================================
