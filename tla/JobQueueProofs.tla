--------------------------- MODULE JobQueueProofs ---------------------------
(***************************************************************************)
(* Theorems about JobQueue, for every set of jobs and workers, every       *)
(* priority and every attempt limit.  Type correctness needs no assumption *)
(* on the deployment; the rest holds in a SafeDeployment.                  *)
(***************************************************************************)
EXTENDS JobQueue, TLAPS

USE JobsAssumption, AttemptsAssumption, FaultAssumption

\* A commit keeps the types, whatever it decides about the job it ran.
LEMMA CommitTypes ==
  ASSUME TypeOK, NEW w \in Workers, NEW new \in SUBSET Absent,
         NEW verdict \in {"done", "dead", "retrying"},
         Commit(w, verdict, new), due' \in [Jobs -> BOOLEAN]
  PROVE  TypeOK'
<1> DEFINE j == held[w]
<1>1. j \in Jobs /\ seen[w] \in Nat /\ ran[j] \in Nat
  BY DEF TypeOK, Commit
<1>2. status' \in [Jobs -> Statuses]
  <2>1. Inserted(new) \in [Jobs -> Statuses]
    BY DEF TypeOK, Inserted, Statuses
  <2>2. QED
    BY <1>1, <2>1 DEF Commit, Statuses
<1>3. attempts' \in [Jobs -> Nat] /\ ran' \in [Jobs -> Nat]
  <2>1. seen[w] + 1 \in Nat /\ ran[j] + 1 \in Nat
    BY <1>1
  <2>2. /\ attempts' = [attempts EXCEPT ![j] = seen[w] + 1]
        /\ ran' = [ran EXCEPT ![j] = ran[j] + 1]
    BY DEF Commit
  <2>3. attempts \in [Jobs -> Nat] /\ ran \in [Jobs -> Nat]
    BY DEF TypeOK
  <2> HIDE DEF j
  <2>4. QED
    BY <1>1, <2>1, <2>2, <2>3
<1>4. /\ pc' \in [Workers -> {"idle", "selected", "running", "down"}]
      /\ held' \in [Workers -> Jobs \union {None}]
      /\ \A v \in Workers : pc'[v] \in {"selected", "running"} => held'[v] \in Jobs
  BY DEF TypeOK, Commit
<1>5. UNCHANGED <<seen, cancelling, faults>>
  BY DEF Commit
<1>6. QED
  BY <1>2, <1>3, <1>4, <1>5 DEF TypeOK

\* The fields of every row and session keep their types, on any deployment.
LEMMA TypeStep == TypeOK /\ [Next]_vars => TypeOK'
<1> SUFFICES ASSUME TypeOK, [Next]_vars
             PROVE  TypeOK'
  OBVIOUS
<1> USE DEF rows, sessions
<1>1. CASE UNCHANGED vars
  BY <1>1 DEF vars, TypeOK, Statuses
<1>2. ASSUME NEW j \in Jobs, NEW now \in BOOLEAN, Enqueue(j, now)
      PROVE  TypeOK'
  BY <1>2 DEF Enqueue, Inserted, TypeOK, Statuses
<1>3. ASSUME NEW j \in Jobs, Elapse(j)
      PROVE  TypeOK'
  BY <1>3 DEF Elapse, TypeOK, Statuses
<1>4. ASSUME NEW j \in Jobs, CancelRead(j)
      PROVE  TypeOK'
  BY <1>4 DEF CancelRead, TypeOK, Statuses
<1>5. CASE CancelWrite
  BY <1>5 DEF CancelWrite, TypeOK, Statuses
<1>6. ASSUME NEW w \in Workers, Select(w)
      PROVE  TypeOK'
  BY <1>6 DEF Select, Claimable, TypeOK, Statuses
<1>7. ASSUME NEW w \in Workers, Claim(w)
      PROVE  TypeOK'
  BY <1>7 DEF Claim, TypeOK, Statuses
<1>8. ASSUME NEW w \in Workers, NEW new \in SUBSET Absent, Complete(w, new)
      PROVE  TypeOK'
  <2>1. due' \in [Jobs -> BOOLEAN]
    BY <1>8, Zenon DEF Complete, TypeOK
  <2>2. Commit(w, "done", new)
    BY <1>8 DEF Complete
  <2>3. QED
    BY <2>1, <2>2, CommitTypes
<1>9. ASSUME NEW w \in Workers, NEW new \in SUBSET Absent, Fail(w, new)
      PROVE  TypeOK'
  <2>1. due' \in [Jobs -> BOOLEAN]
    BY <1>9, Zenon DEF Fail, Exhausted, TypeOK
  <2>2. \E verdict \in {"dead", "retrying"} : Commit(w, verdict, new)
    BY <1>9 DEF Fail
  <2>3. QED
    BY <2>1, <2>2, CommitTypes
<1>10. ASSUME NEW w \in Workers, Abort(w)
       PROVE  TypeOK'
  BY <1>10 DEF Abort, TypeOK, Statuses
<1>11. ASSUME NEW w \in Workers, Restart(w)
       PROVE  TypeOK'
  BY <1>11 DEF Restart, TypeOK, Statuses
<1>12. QED
  BY <1>1, <1>2, <1>3, <1>4, <1>5, <1>6, <1>7, <1>8, <1>9, <1>10, <1>11 DEF Next, Finish

\* TypeOK holds in every reachable state.
THEOREM TypeCorrect == Spec => []TypeOK
<1>1. Init => TypeOK
  BY DEF Init, TypeOK, Statuses
<1>2. QED
  BY <1>1, TypeStep, PTL DEF Spec
-----------------------------------------------------------------------------
(***************************************************************************)
(* The inductive invariant.  RetryBudget is not inductive by itself: a     *)
(* session could commit an outdated attempt count.  ClaimIsCurrent rules   *)
(* that out, and is kept because in a safe deployment nobody writes a row  *)
(* between another session's SELECT and its commit.                        *)
(***************************************************************************)
\* The steps that leave the held rows and their counts alone.
LEMMA QuietSteps ==
  ASSUME IInv, SafeDeployment,
         \/ UNCHANGED vars
         \/ \E j \in Jobs, now \in BOOLEAN : Enqueue(j, now)
         \/ \E j \in Jobs : Elapse(j) \/ CancelRead(j)
         \/ \E w \in Workers : Claim(w) \/ Abort(w) \/ Restart(w)
  PROVE  ClaimIsCurrent' /\ RetryBudget' /\ Provenance'
<1> USE DEF IInv, TypeOK, Statuses, ClaimIsCurrent, RetryBudget, Provenance, Waiting, rows, sessions
<1>1. CASE UNCHANGED vars
  BY <1>1 DEF vars
<1>2. ASSUME NEW j \in Jobs, NEW now \in BOOLEAN, Enqueue(j, now)
      PROVE  ClaimIsCurrent' /\ RetryBudget' /\ Provenance'
  <2>1. ran[j] = 0 /\ ran[j] < MaxAttempts[j]
    BY <1>2 DEF Enqueue
  <2>2. RetryBudget'
    BY <1>2, <2>1 DEF Enqueue, Inserted
  <2>3. ClaimIsCurrent'
    BY <1>2 DEF Enqueue, Inserted
  <2>4. Provenance'
    BY <1>2 DEF Enqueue, Inserted
  <2>5. QED
    BY <2>2, <2>3, <2>4
<1>3. ASSUME NEW j \in Jobs, Elapse(j)
      PROVE  ClaimIsCurrent' /\ RetryBudget' /\ Provenance'
  BY <1>3 DEF Elapse
<1>4. ASSUME NEW j \in Jobs, CancelRead(j)
      PROVE  ClaimIsCurrent' /\ RetryBudget' /\ Provenance'
  BY <1>4 DEF CancelRead
<1>5. ASSUME NEW w \in Workers, Claim(w)
      PROVE  ClaimIsCurrent' /\ RetryBudget' /\ Provenance'
  BY <1>5 DEF Claim
<1>6. ASSUME NEW w \in Workers, Abort(w)
      PROVE  ClaimIsCurrent' /\ RetryBudget' /\ Provenance'
  BY <1>6 DEF Abort
<1>7. ASSUME NEW w \in Workers, Restart(w)
      PROVE  ClaimIsCurrent' /\ RetryBudget' /\ Provenance'
  BY <1>7 DEF Restart
<1>8. QED
  BY <1>1, <1>2, <1>3, <1>4, <1>5, <1>6, <1>7

\* A claimed row is read as it is, and nobody else holds it.
LEMMA SelectStep ==
  ASSUME IInv, SafeDeployment, NEW w \in Workers, Select(w)
  PROVE  ClaimIsCurrent' /\ RetryBudget' /\ Provenance'
<1>1. PICK j \in Claimable : /\ held' = [held EXCEPT ![w] = j]
                             /\ seen' = [seen EXCEPT ![w] = attempts[j]]
  BY DEF Select
<1>2. j \in Jobs /\ Waiting(j) /\ ~RowLocked(j)
  BY <1>1 DEF Claimable
<1>3. pc' = [pc EXCEPT ![w] = "selected"] /\ UNCHANGED <<rows, cancelling>>
  BY DEF Select
<1>4. \A v \in Workers \ {w} : pc[v] \in {"selected", "running"} => held[v] # j
  BY <1>2 DEF SafeDeployment, RowLocked
<1>5. ClaimIsCurrent'
  BY <1>1, <1>2, <1>3, <1>4 DEF IInv, TypeOK, ClaimIsCurrent, Waiting, rows
<1>6. RetryBudget' /\ Provenance'
  BY <1>3 DEF IInv, RetryBudget, Provenance, Waiting, rows
<1>7. QED
  BY <1>5, <1>6

\* A commit counts the run of a row nobody else holds.
LEMMA CommitStep ==
  ASSUME IInv, SafeDeployment, NEW w \in Workers, NEW new \in SUBSET Absent,
         NEW verdict \in {"done", "dead", "retrying"},
         verdict = "dead" <=> verdict # "done" /\ Exhausted(w),
         Commit(w, verdict, new)
  PROVE  ClaimIsCurrent' /\ RetryBudget' /\ Provenance'
<1> DEFINE j == held[w]
<1>1. /\ j \in Jobs /\ Waiting(j) /\ seen[w] = attempts[j] /\ attempts[j] = ran[j]
      /\ ran[j] \in Nat /\ ran[j] < MaxAttempts[j] /\ MaxAttempts[j] \in Nat
      /\ j \notin new
  BY DEF IInv, TypeOK, ClaimIsCurrent, RetryBudget, Commit, Waiting, Absent
<1>2. \A v \in Workers \ {w} : pc[v] \in {"selected", "running"} => held[v] # j
  BY DEF IInv, ClaimIsCurrent, Commit
<1>3. /\ status' = [k \in Jobs |-> IF k = j THEN verdict
                                   ELSE IF k \in new THEN "queued" ELSE status[k]]
      /\ attempts' = [attempts EXCEPT ![j] = ran[j] + 1]
      /\ ran' = [ran EXCEPT ![j] = ran[j] + 1]
      /\ pc' = [pc EXCEPT ![w] = "idle"]
      /\ held' = [held EXCEPT ![w] = None]
      /\ UNCHANGED <<seen, cancelling>>
  BY <1>1 DEF Commit, Inserted
<1>4. verdict = "dead" => ran[j] + 1 = MaxAttempts[j]
  BY <1>1 DEF Exhausted
<1>5. verdict = "retrying" => ran[j] + 1 < MaxAttempts[j]
  BY <1>1 DEF Exhausted
<1>6. \A k \in new : k \in Jobs /\ status[k] = "absent" /\ ran[k] = 0
  BY DEF IInv, Provenance, Absent
<1> HIDE DEF j
<1>7. ClaimIsCurrent'
  BY <1>1, <1>2, <1>3, <1>6 DEF IInv, TypeOK, ClaimIsCurrent, Waiting
<1>8. RetryBudget'
  BY <1>1, <1>3, <1>4, <1>5, <1>6 DEF IInv, TypeOK, RetryBudget, Waiting
<1>9. Provenance'
  BY <1>1, <1>3, <1>6 DEF IInv, TypeOK, Provenance
<1>10. QED
  BY <1>7, <1>8, <1>9

\* A cancellation reaches the row only when no session holds it.
LEMMA CancelStep ==
  ASSUME IInv, SafeDeployment, CancelWrite
  PROVE  ClaimIsCurrent' /\ RetryBudget' /\ Provenance'
<1>1. /\ cancelling \in Jobs
      /\ status' = [status EXCEPT ![cancelling] = "cancelled"]
      /\ cancelling' = None
      /\ UNCHANGED <<attempts, ran, pc, held, seen>>
  BY DEF CancelWrite, IInv, TypeOK, sessions
<1>2. \A v \in Workers : pc[v] \in {"selected", "running"} => held[v] # cancelling
  BY DEF CancelWrite, SafeDeployment, RowLocked, IInv, Provenance
<1>3. ClaimIsCurrent'
  BY <1>1, <1>2 DEF IInv, TypeOK, ClaimIsCurrent, Waiting
<1>4. RetryBudget' /\ Provenance'
  BY <1>1 DEF IInv, TypeOK, RetryBudget, Provenance, Waiting
<1>5. QED
  BY <1>3, <1>4

\* The invariant is kept by every step.
LEMMA InvariantStep == SafeDeployment /\ IInv /\ [Next]_vars => IInv'
<1> SUFFICES ASSUME SafeDeployment, IInv, [Next]_vars
             PROVE  ClaimIsCurrent' /\ RetryBudget' /\ Provenance'
  BY TypeStep DEF IInv
<1>1. CASE \E w \in Workers : Select(w)
  BY <1>1, SelectStep
<1>2. CASE \E w \in Workers : Finish(w)
  <2>1. PICK w \in Workers, new \in SUBSET Absent : Complete(w, new) \/ Fail(w, new)
    BY <1>2 DEF Finish
  <2>2. CASE Complete(w, new)
    BY <2>2, CommitStep DEF Complete
  <2>3. CASE Fail(w, new)
    BY <2>3, CommitStep DEF Fail
  <2>4. QED
    BY <2>1, <2>2, <2>3
<1>3. CASE CancelWrite
  BY <1>3, CancelStep
<1>4. QED
  BY <1>1, <1>2, <1>3, QuietSteps DEF Next

\* In a safe deployment the strengthened invariant holds for ever.
THEOREM InvariantHolds == SafeDeployment => (Spec => []IInv)
<1>1. Init => IInv
  BY DEF Init, IInv, TypeOK, Statuses, ClaimIsCurrent, RetryBudget, Provenance, Waiting
<1>2. SUFFICES ASSUME SafeDeployment
               PROVE  Spec => []IInv
  OBVIOUS
<1>3. IInv /\ [Next]_vars => IInv'
  BY <1>2, InvariantStep
<1>4. QED
  BY <1>1, <1>3, PTL DEF Spec

\* No session works on a row another one has taken, finished or counted.
THEOREM ClaimsAreCurrent == SafeDeployment => (Spec => []ClaimIsCurrent)
<1>1. IInv => ClaimIsCurrent
  BY DEF IInv
<1>2. QED
  BY <1>1, InvariantHolds, PTL

\* Every committed run is counted and no job is run beyond its limit.
THEOREM BudgetIsKept == SafeDeployment => (Spec => []RetryBudget)
<1>1. IInv => RetryBudget
  BY DEF IInv
<1>2. QED
  BY <1>1, InvariantHolds, PTL
-----------------------------------------------------------------------------
(***************************************************************************)
(* Settled jobs stay settled, and the queue implements JobLifecycle.       *)
(***************************************************************************)
\* What a commit writes, spelled out once for the two theorems below.
LEMMA CommitEffect ==
  ASSUME IInv, NEW w \in Workers, NEW new \in SUBSET Absent, NEW verdict,
         Commit(w, verdict, new)
  PROVE  /\ held[w] \in Jobs
         /\ Waiting(held[w])
         /\ held[w] \notin new
         /\ seen[w] = ran[held[w]]
         /\ status' = [k \in Jobs |-> IF k = held[w] THEN verdict
                                      ELSE IF k \in new THEN "queued" ELSE status[k]]
         /\ ran' = [ran EXCEPT ![held[w]] = ran[held[w]] + 1]
<1>1. held[w] \in Jobs /\ Waiting(held[w]) /\ seen[w] = ran[held[w]]
  BY DEF IInv, TypeOK, ClaimIsCurrent, RetryBudget, Commit
<1>2. held[w] \notin new
  BY <1>1 DEF Waiting, Absent
<1>3. QED
  BY <1>1, <1>2 DEF Commit, Inserted

\* The steps that are not commits.
LEMMA OtherSteps ==
  ASSUME IInv, [Next]_vars
  PROVE  \/ \E w \in Workers, new \in SUBSET Absent : Complete(w, new) \/ Fail(w, new)
         \/ CancelWrite
         \/ \E j \in Jobs, now \in BOOLEAN : Enqueue(j, now)
         \/ UNCHANGED <<status, ran>>
BY DEF Next, vars, rows, Elapse, CancelRead, Select, Claim, Finish, Abort, Restart

\* Nothing but a cancellation touches a settled job.
THEOREM SettledIsFinal == SafeDeployment => (Spec => SettledStays)
<1>1. ASSUME IInv, [Next]_vars
      PROVE  SettledUntouched
  <2> SUFFICES ASSUME NEW j \in Jobs, Settled(j)
               PROVE  status'[j] \in {status[j], "cancelled"} /\ ran'[j] = ran[j]
    BY DEF SettledUntouched
  <2>1. ASSUME NEW w \in Workers, NEW new \in SUBSET Absent, NEW verdict,
               Commit(w, verdict, new)
        PROVE  status'[j] = status[j] /\ ran'[j] = ran[j]
    <3>1. j # held[w] /\ j \notin new
      BY <1>1, <2>1, CommitEffect DEF Settled, Waiting, Absent
    <3>2. QED
      BY <1>1, <2>1, <3>1, CommitEffect DEF IInv, TypeOK
  <2>2. CASE \E w \in Workers, new \in SUBSET Absent : Complete(w, new) \/ Fail(w, new)
    BY <2>1, <2>2 DEF Complete, Fail
  <2>3. CASE CancelWrite
    BY <1>1, <2>3 DEF CancelWrite, IInv, TypeOK
  <2>4. CASE \E k \in Jobs, now \in BOOLEAN : Enqueue(k, now)
    BY <2>4 DEF Enqueue, Inserted, Settled
  <2>5. CASE UNCHANGED <<status, ran>>
    BY <2>5
  <2>6. QED
    BY <1>1, <2>2, <2>3, <2>4, <2>5, OtherSteps
<1>2. IInv /\ [Next]_vars => [SettledUntouched]_vars
  BY <1>1
<1>3. QED
  BY <1>2, InvariantHolds, PTL DEF Spec, SettledStays

\* A commit of w is one try of the job it held.
LEMMA CommitIsTry ==
  ASSUME IInv, NEW w \in Workers, NEW new \in SUBSET Absent,
         Complete(w, new) \/ Fail(w, new)
  PROVE  Lifecycle!Next
<1> DEFINE j == held[w]
<1>1. PICK verdict \in {"done", "retrying", "dead"} :
        /\ Commit(w, verdict, new)
        /\ verdict = "dead" => Exhausted(w)
        /\ verdict = "retrying" => ~Exhausted(w)
  BY DEF Complete, Fail
<1>2. /\ j \in Jobs /\ Waiting(j) /\ j \notin new /\ seen[w] = ran[j]
      /\ status' = [k \in Jobs |-> IF k = j THEN verdict
                                   ELSE IF k \in new THEN "queued" ELSE status[k]]
      /\ ran' = [ran EXCEPT ![j] = ran[j] + 1]
  BY <1>1, CommitEffect
<1>3. ran[j] \in Nat /\ MaxAttempts[j] \in Nat
  BY <1>2 DEF IInv, TypeOK
<1> DEFINE outcome == IF verdict = "done" THEN "finished"
                      ELSE IF verdict = "retrying" THEN "waiting" ELSE "dead"
<1>4. /\ verdict = "dead" => ran[j] + 1 >= MaxAttempts[j]
      /\ verdict = "retrying" => ran[j] + 1 < MaxAttempts[j]
  BY <1>1, <1>2, <1>3 DEF Exhausted
<1>5. new \subseteq {k \in Jobs : standing[k] = "absent"}
  BY DEF Absent, standing, Waiting
<1> HIDE DEF j
<1>6. standing[j] = "waiting"
  BY <1>2 DEF standing
<1>7. standing' = [k \in Jobs |-> IF k = j THEN outcome
                                 ELSE IF k \in new THEN "waiting" ELSE standing[k]]
  BY <1>2 DEF standing, Waiting
<1>8. Lifecycle!Try(j, outcome, new)
  BY <1>2, <1>4, <1>5, <1>6, <1>7 DEF Lifecycle!Try
<1>9. new \in SUBSET Jobs /\ outcome \in {"finished", "waiting", "dead"}
  BY DEF Absent
<1>10. QED
  BY <1>2, <1>8, <1>9 DEF Lifecycle!Next

\* The queue implements its lifecycle.
THEOREM QueueImplementsLifecycle == SafeDeployment => (Spec => Implements)
<1>1. Init => Lifecycle!Init
  BY DEF Init, Lifecycle!Init, standing, Waiting
<1>2. ASSUME IInv, [Next]_vars
      PROVE  [Lifecycle!Next]_(Lifecycle!lvars)
  <2>1. CASE \E w \in Workers, new \in SUBSET Absent : Complete(w, new) \/ Fail(w, new)
    BY <1>2, <2>1, CommitIsTry
  <2>2. CASE CancelWrite
    <3>1. /\ cancelling \in Jobs /\ cancelling \in Cancellable
          /\ status[cancelling] # "absent"
          /\ status' = [status EXCEPT ![cancelling] = "cancelled"] /\ UNCHANGED ran
      BY <1>2, <2>2 DEF CancelWrite, IInv, TypeOK, Provenance
    <3>2. standing' = [standing EXCEPT ![cancelling] = "cancelled"]
      BY <1>2, <3>1 DEF standing, Waiting, IInv, TypeOK
    <3>3. Lifecycle!Cancel(cancelling)
      BY <3>1, <3>2 DEF Lifecycle!Cancel, standing, Waiting
    <3>4. QED
      BY <3>1, <3>3 DEF Lifecycle!Next
  <2>3. ASSUME NEW j \in Jobs, NEW now \in BOOLEAN, Enqueue(j, now)
        PROVE  Lifecycle!Next
    <3>1. standing[j] = "absent"
      BY <2>3 DEF Enqueue, standing, Waiting
    <3>2. standing' = [k \in Jobs |-> IF k \in {j} THEN "waiting" ELSE standing[k]]
      BY <2>3 DEF Enqueue, Inserted, standing, Waiting
    <3>3. Lifecycle!Submit({j})
      BY <2>3, <3>1, <3>2 DEF Lifecycle!Submit, Enqueue
    <3>4. QED
      BY <3>3 DEF Lifecycle!Next
  <2>4. CASE UNCHANGED <<status, ran>>
    BY <2>4 DEF Lifecycle!lvars, standing, Waiting
  <2>5. QED
    BY <1>2, <2>1, <2>2, <2>3, <2>4, OtherSteps
<1>3. QED
  BY <1>1, <1>2, InvariantHolds, PTL DEF Spec, Implements, Lifecycle!Spec
=============================================================================
