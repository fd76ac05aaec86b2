---------------------------- MODULE RestoreProofs ---------------------------
(***************************************************************************)
(* Theorems about Restore, for any number of releases, boots, kills and    *)
(* edits.                                                                  *)
(***************************************************************************)
EXTENDS Restore, TLAPS

-----------------------------------------------------------------------------
(***************************************************************************)
(* Type correctness.                                                       *)
(***************************************************************************)
Boots == [phase : Phases, call : 0 .. Calls, force : BOOLEAN, stale : BOOLEAN,
          replaced : BOOLEAN, storage : BOOLEAN]
Files == [state : {"absent", "short", "long", "whole", "mixed"},
          release : Releases \union {None}, edits : 0 .. MaxEdits]

LEMMA StoppedIsBoot == Stopped \in Boots
BY CountsAssumption DEF Stopped, Boots, Phases

\* Every variable has its type in every state (deploy/restore.py).
THEOREM TypeCorrect == Spec => []TypeOK
<1> USE DEF Boots, Files
<1>1. Init => TypeOK
  BY ReleasesAssumption, CountsAssumption, StoppedIsBoot DEF Init, TypeOK
<1>2. ASSUME TypeOK, [Next]_vars PROVE TypeOK'
  <2> USE <1>2 DEF TypeOK
  <2>1. CASE Start
    <3>1. PICK s \in StorageFlags :
            boot' = [Stopped EXCEPT !.phase = "checking", !.call = 1, !.storage = s]
      BY <2>1 DEF Start
    <3>2. boot' = [phase |-> "checking", call |-> 1, force |-> FALSE, stale |-> FALSE,
                   replaced |-> FALSE, storage |-> s]
      BY <3>1 DEF Stopped
    <3>3. s \in BOOLEAN /\ 1 \in 0 .. Calls
      BY FlagsAssumption, CountsAssumption
    <3>4. boot' \in Boots
      BY <3>2, <3>3 DEF Phases
    <3> QED  BY <2>1, <3>4 DEF Start, disk
  <2>2. CASE Check
    <3>1. SnapshotIsStale \in BOOLEAN /\ ForceOf(SnapshotIsStale) \in BOOLEAN
      BY FlagsAssumption DEF SnapshotIsStale, ForceOf, Named
    <3>2. boot' \in Boots
      BY <2>2, <3>1 DEF Check, Phases
    <3> QED  BY <2>2, <3>2 DEF Check, disk
  <2>3. CASE BeginCopy
    BY <2>3, CountsAssumption DEF BeginCopy, Phases
  <2>4. CASE CopyMore \/ FinishCopy
    BY <2>4 DEF CopyMore, FinishCopy, Phases
  <2>5. CASE Store
    BY <2>5 DEF Store, disk, Phases
  <2>6. CASE ExtractSome \/ ExtractRest
    <3>1. \A n \in Parts : <<deployed, n>> \in Releases \X Parts
      OBVIOUS
    <3>2. ObjectsOf(deployed) \subseteq Releases \X Parts /\ <<deployed, 1>> \in Releases \X Parts
      BY <3>1 DEF ObjectsOf, Parts
    <3>3. objects \subseteq Releases \X Parts
      OBVIOUS
    <3>4. objects' = objects \union {<<deployed, 1>>} \/ objects' = objects \union ObjectsOf(deployed)
      BY <2>6 DEF ExtractSome, ExtractRest
    <3>5. objects' \subseteq Releases \X Parts
      <4> HIDE <1>2
      <4> QED  BY <3>2, <3>3, <3>4
    <3>6. boot' \in Boots
      BY <2>6 DEF ExtractSome, ExtractRest, Phases
    <3> QED  BY <2>6, <3>5, <3>6 DEF ExtractSome, ExtractRest
  <2>7. CASE Mark
    <3>1. CASE boot.call < Calls
      <4>1. boot' = [boot EXCEPT !.phase = "checking", !.call = @ + 1] /\ UNCHANGED <<db, wal>>
        BY <2>7, <3>1 DEF Mark, Leave
      <4>2. boot.call + 1 \in 0 .. Calls
        BY <3>1, CountsAssumption
      <4>3. boot' \in Boots
        BY <4>1, <4>2 DEF Phases
      <4> QED  BY <2>7, <4>1, <4>3 DEF Mark
    <3>2. CASE ~(boot.call < Calls)
      <4>1. boot' = [boot EXCEPT !.phase = "serving"] /\ db' = Opened /\ wal' = "none"
        BY <2>7, <3>2 DEF Mark, Leave
      <4>2. boot' \in Boots
        BY <4>1 DEF Phases
      <4>3. db' \in Files
        BY <4>1 DEF Opened
      <4> QED  BY <2>7, <4>1, <4>2, <4>3 DEF Mark
    <3> QED  BY <3>1, <3>2
  <2>8. CASE KilledMarking \/ Kill
    BY <2>8, StoppedIsBoot, CountsAssumption DEF KilledMarking, Kill, disk
  <2>9. CASE Edit
    BY <2>9, CountsAssumption DEF Edit
  <2>10. CASE Stop \/ Deploy
    BY <2>10, StoppedIsBoot DEF Stop, Deploy, disk
  <2>11. CASE UNCHANGED vars
    BY <2>11 DEF vars, disk
  <2> QED
    BY <2>1, <2>2, <2>3, <2>4, <2>5, <2>6, <2>7, <2>8, <2>9, <2>10, <2>11 DEF Next, RestoreCatalog
<1> QED
  BY <1>1, <1>2, PTL DEF Spec
-----------------------------------------------------------------------------
(***************************************************************************)
(* What was done in a release is kept.  The database is only replaced from *)
(* "downloading", which is entered for two reasons that hold until then: a *)
(* production boot found another release's marker, or the file did not     *)
(* look populated.  Outside production the second is the only one, so no   *)
(* log can lie next to the file that is replaced.                          *)
(***************************************************************************)
Downloading ==
    boot.phase = "downloading" =>
        IF boot.force THEN production /\ marker # deployed ELSE ~DbLooksPopulated

Populated ==
    boot.phase \in {"storing", "extracting", "marking", "serving"} => DbLooksPopulated

NoForeignLog ==
    ~production => wal # "foreign" /\ (wal = "own" => DbLooksPopulated)

KInv == TypeOK /\ Downloading /\ Populated /\ NoForeignLog

LEMMA KInvAlways == Spec => []KInv
<1> USE DEF KInv, Downloading, Populated, NoForeignLog, DbLooksPopulated
<1>1. Init => Downloading /\ Populated /\ NoForeignLog
  BY DEF Init, Stopped
<1>2. ASSUME KInv, TypeOK', [Next]_vars PROVE Downloading' /\ Populated' /\ NoForeignLog'
  <2> USE <1>2 DEF TypeOK
  <2>1. CASE Start
    BY <2>1 DEF Start, disk, Stopped
  <2>2. CASE Check
    BY <2>2 DEF Check, disk, ForceOf, SnapshotIsStale
  <2>3. CASE BeginCopy
    BY <2>3 DEF BeginCopy
  <2>4. CASE CopyMore \/ FinishCopy
    BY <2>4 DEF CopyMore, FinishCopy
  <2>5. CASE Store
    BY <2>5 DEF Store, disk
  <2>6. CASE ExtractSome \/ ExtractRest
    BY <2>6 DEF ExtractSome, ExtractRest
  <2>7. CASE Mark
    BY <2>7 DEF Mark, Leave, Opened
  <2>8. CASE KilledMarking \/ Kill
    BY <2>8 DEF KilledMarking, Kill, disk, Stopped
  <2>9. CASE Edit
    BY <2>9 DEF Edit
  <2>10. CASE Stop \/ Deploy
    BY <2>10 DEF Stop, Deploy, disk, Stopped
  <2>11. CASE UNCHANGED vars
    BY <2>11 DEF vars, disk
  <2> QED
    BY <2>1, <2>2, <2>3, <2>4, <2>5, <2>6, <2>7, <2>8, <2>9, <2>10, <2>11 DEF Next, RestoreCatalog
<1> QED
  BY <1>1, <1>2, TypeCorrect, PTL DEF Spec

\* However boots are interrupted, a restart does not lose what was done in the
\* release the marker names, and outside production a whole catalog is never
\* replaced (restore_catalog's force and _db_looks_populated).
THEOREM EditsKept == Spec => EditsAreKept
<1> DEFINE Kept == /\ db.state = "whole" /\ db.release = deployed /\ marker = deployed => db'.edits >= db.edits
                   /\ ~production /\ db.state = "whole" =>
                        db'.state = "whole" /\ db'.release = db.release /\ db'.edits >= db.edits
<1>1. ASSUME KInv, [Next]_vars PROVE Kept \/ UNCHANGED vars
  <2> USE <1>1 DEF KInv, TypeOK, DbLooksPopulated
  <2>1. db.edits \in Nat
    BY CountsAssumption
  <2>2. CASE db' = db
    BY <2>1, <2>2
  <2>3. CASE BeginCopy
    BY <2>3 DEF BeginCopy, Downloading
  <2>4. CASE CopyMore \/ FinishCopy
    BY <2>4 DEF CopyMore, FinishCopy
  <2>5. CASE Mark
    BY <2>1, <2>5 DEF Mark, Leave, Opened, NoForeignLog
  <2>6. CASE Edit
    BY <2>1, <2>6 DEF Edit
  <2> QED
    BY <2>2, <2>3, <2>4, <2>5, <2>6
    DEF Next, RestoreCatalog, Start, Check, Store, ExtractSome, ExtractRest, KilledMarking, Stop, Kill, Deploy, disk
<1>2. KInv /\ [Next]_vars => [Kept]_vars
  BY <1>1
<1> QED
  BY <1>2, KInvAlways, PTL DEF Spec, EditsAreKept
-----------------------------------------------------------------------------
(***************************************************************************)
(* What production serves, when releases have names, follow one another    *)
(* and every boot restores the storage.  The marker is the hinge: it never *)
(* runs ahead of the release, and it is the release only when everything   *)
(* is there, so a boot either finds it current and touches nothing, or     *)
(* undertakes the whole restore before it writes it.                       *)
(***************************************************************************)
SteadyDeployment == Rollbacks = FALSE /\ StorageFlags = {TRUE} /\ Unnamed = {}

DbThere == Copied /\ db.release = deployed
AllThere == DbThere /\ ObjectsOf(deployed) \subseteq objects
Undertaken == boot.force /\ boot.stale /\ marker # deployed
Current == ~boot.force /\ ~boot.stale /\ marker = deployed

StorageRestored == boot.phase # "down" => boot.storage
MarkerNotAhead == marker # None => marker <= deployed
MarkerHolds == marker = deployed => AllThere
Progress ==
    /\ boot.phase = "downloading" => Undertaken
    /\ boot.phase = "copying" => Undertaken /\ db.release = deployed
    /\ boot.phase = "storing" => (Undertaken /\ boot.replaced /\ DbThere) \/ Current
    /\ boot.phase = "extracting" => Undertaken /\ boot.replaced /\ DbThere
    /\ boot.phase = "marking" => (Undertaken /\ boot.replaced /\ AllThere) \/ Current
    /\ boot.phase = "serving" => marker = deployed

SInv == production => StorageRestored /\ MarkerNotAhead /\ MarkerHolds /\ Progress

LEMMA SInvAlways == SteadyDeployment /\ Spec => []SInv
<1> USE DEF SInv, StorageRestored, MarkerNotAhead, MarkerHolds, Progress,
            Undertaken, Current, AllThere, DbThere, Copied
<1>1. Init => SInv
  BY ReleasesAssumption DEF Init, Stopped
<1>2. ASSUME SteadyDeployment, TypeOK, SInv, [Next]_vars PROVE SInv'
  <2> SUFFICES ASSUME production' PROVE SInv'
    OBVIOUS
  <2>0. /\ production
        /\ StorageRestored /\ MarkerNotAhead /\ MarkerHolds /\ Progress
        /\ deployed \in Nat /\ deployed # None /\ Named
    BY <1>2, ReleasesAssumption
    DEF TypeOK, Named, SteadyDeployment, Next, RestoreCatalog, Start, Check, BeginCopy, CopyMore, FinishCopy, Store,
        ExtractSome, ExtractRest, Mark, KilledMarking, Edit, Stop, Kill, Deploy, vars
  <2> USE <1>2, <2>0 DEF TypeOK
  <2>1. CASE Start
    BY <2>1 DEF Start, disk, Stopped, SteadyDeployment
  <2>2. CASE Check
    <3>1. SnapshotIsStale = (marker # deployed) /\ ForceOf(SnapshotIsStale) = (marker # deployed)
      BY DEF SnapshotIsStale, ForceOf
    <3>2. marker = deployed => DbLooksPopulated
      BY DEF DbLooksPopulated
    <3> QED  BY <2>2, <3>1, <3>2 DEF Check, disk
  <2>3. CASE BeginCopy
    BY <2>3 DEF BeginCopy
  <2>4. CASE CopyMore
    BY <2>4 DEF CopyMore
  <2>5. CASE FinishCopy
    BY <2>5 DEF FinishCopy
  <2>6. CASE Store
    <3>1. AllThere => StorageLooksPopulated
      BY DEF ObjectsOf, Parts, StorageLooksPopulated
    <3> QED  BY <2>6, <3>1 DEF Store, disk
  <2>7. CASE ExtractSome
    BY <2>7 DEF ExtractSome
  <2>8. CASE ExtractRest
    BY <2>8 DEF ExtractRest
  <2>9. CASE Mark
    <3>1. marker' = deployed /\ AllThere
      BY <2>9 DEF Mark, Marks
    <3>2. db'.state \in {"whole", "mixed"} /\ db'.release = deployed
      BY <2>9, <3>1 DEF Mark, Leave, Opened
    <3>3. boot'.phase \in {"checking", "serving"} /\ boot'.storage
      BY <2>9 DEF Mark, Leave
    <3> QED  BY <2>9, <3>1, <3>2, <3>3 DEF Mark
  <2>10. CASE KilledMarking
    BY <2>10 DEF KilledMarking, Stopped
  <2>11. CASE Edit
    BY <2>11 DEF Edit
  <2>12. CASE Stop \/ Kill
    BY <2>12 DEF Stop, Kill, disk, Stopped
  <2>13. CASE Deploy
    <3>1. deployed' = deployed + 1 /\ deployed' \in Releases
      BY <2>13 DEF Deploy, SteadyDeployment
    <3>2. marker # deployed' /\ (marker # None => marker <= deployed')
      BY <3>1, ReleasesAssumption
    <3> QED  BY <2>13, <3>1, <3>2 DEF Deploy, disk
  <2>14. CASE UNCHANGED vars
    BY <2>14 DEF vars, disk, ObjectsOf
  <2> QED
    BY <2>1, <2>2, <2>3, <2>4, <2>5, <2>6, <2>7, <2>8, <2>9, <2>10, <2>11, <2>12, <2>13, <2>14
    DEF Next, RestoreCatalog
<1>3. SteadyDeployment /\ TypeOK /\ SInv /\ [Next]_vars => SInv'
  BY <1>2
<1>4. CASE SteadyDeployment
  BY <1>1, <1>3, <1>4, TypeCorrect, PTL DEF Spec
<1> QED
  BY <1>4

\* In production nothing but a complete restore of the deployed release is
\* served, however often boots were interrupted (restore_catalog's order).
THEOREM SnapshotServed == SteadyDeployment /\ Spec => []ServesSnapshot
<1>1. SInv => ServesSnapshot
  BY DEF SInv, Progress, MarkerHolds, AllThere, DbThere, ServesSnapshot
<1> QED
  BY <1>1, SInvAlways, PTL

\* A marker that names the deployed release is written after everything it
\* promises (write_snapshot_marker is the last step).
THEOREM MarkerTrue == SteadyDeployment /\ Spec => []MarkerIsTrue
<1>1. SInv => MarkerIsTrue
  BY DEF SInv, MarkerHolds, AllThere, DbThere, MarkerIsTrue
<1> QED
  BY <1>1, SInvAlways, PTL
=============================================================================
