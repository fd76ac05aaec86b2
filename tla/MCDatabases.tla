----------------------------- MODULE MCDatabases ----------------------------
(***************************************************************************)
(* JobQueue for TLC on either database: several workers on Postgres, where *)
(* jobs may be cancelled, and a single consumer of a SQLite file, where    *)
(* nobody cancels (SafeDeployment).  There, enqueue waits for the write    *)
(* lock; the other workers stay idle.                                      *)
(***************************************************************************)
EXTENDS MCJobQueue

VARIABLE database
mcvars == <<vars, database>>

ASSUME ServerAssumption == SkipLocked

Consumer == CHOOSE w \in Workers : TRUE
Serving == IF database = "sqlite" THEN {Consumer} ELSE Workers

Sqlite == INSTANCE JobQueue WITH SkipLocked <- FALSE, Workers <- {Consumer}, Cancellable <- {}

MCInit == Init /\ database \in {"postgres", "sqlite"}

MCNext ==
    \/ database = "postgres" /\ Next /\ UNCHANGED database
    \/ database = "sqlite" /\ Sqlite!Next /\ UNCHANGED database

\* Fairness, for the workers there are.  A consumer that is alone takes the same
\* steps on either database: no row is locked against it and the write lock is free.
MCFairness ==
    /\ \A j \in Jobs : WF_mcvars(Elapse(j) /\ UNCHANGED database)
    /\ \A w \in Workers :
        /\ WF_mcvars(w \in Serving /\ Select(w) /\ UNCHANGED database)
        /\ WF_mcvars(w \in Serving /\ Claim(w) /\ UNCHANGED database)
        /\ WF_mcvars(w \in Serving /\ (Finish(w) \/ Abort(w)) /\ UNCHANGED database)
        /\ WF_mcvars(w \in Serving /\ Restart(w) /\ UNCHANGED database)

MCSpec == MCInit /\ [][MCNext]_mcvars /\ MCFairness
=============================================================================
