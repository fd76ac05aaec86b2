------------------------------- MODULE Restore ------------------------------
(***************************************************************************)
(* restore_catalog (deploy/restore.py): what a boot does to the data root  *)
(* before the library is served, over deployments, failed downloads and    *)
(* kills, with the SQLite write-ahead log that db/session.py turns on.     *)
(*                                                                         *)
(* A release is a deployment's snapshot: a database file and the objects   *)
(* its rows refer to, here two parts of an archive.  The database file is  *)
(* described by how much of it is there: "short" is under a megabyte,      *)
(* "long" is cut off after more than five, "mixed" holds pages of another  *)
(* database.  Its edits are what users and workers did since the restore.  *)
(***************************************************************************)
EXTENDS Naturals

CONSTANTS
    Releases,       \* deployments in order, numbered from 1
    Unnamed,        \* those with an empty catalog_snapshot_id
    None,           \* no release
    Modes,          \* values of production considered
    Calls,          \* restore_catalog calls of one boot: command, then _startup
    StorageFlags,   \* values of restore_storage among the boots
    Rollbacks,      \* whether an earlier release may be deployed again
    Kills,          \* phases in which the process may be killed
    MaxEdits,       \* bound on edits between two restores
    MaxFaults       \* bound on kills and failed downloads

ASSUME ReleasesAssumption == Releases \subseteq Nat \ {0} /\ 1 \in Releases /\ None \notin Releases
ASSUME FlagsAssumption == Rollbacks \in BOOLEAN /\ Modes \subseteq BOOLEAN /\ StorageFlags \subseteq BOOLEAN
ASSUME CountsAssumption == Calls \in Nat \ {0} /\ MaxEdits \in Nat /\ MaxFaults \in Nat

VARIABLES
    db,             \* library.db: state, release it came from, edits
    wal,            \* library.db-wal: "none", of this "own" file, or "foreign"
    objects,        \* parts of the storage archives on disk
    marker,         \* content of .catalog_snapshot_id
    production,     \* whether the settings say production or restore_on_boot
    deployed,       \* the release whose code and settings are installed
    boot,           \* the running process: phase and locals of restore_catalog
    faults          \* kills and failed downloads so far

disk == <<db, wal, objects, marker>>
vars == <<disk, production, deployed, boot, faults>>

Parts == {1, 2}
Phases == {"down", "checking", "downloading", "copying", "storing", "extracting", "marking", "serving"}

TypeOK ==
    /\ db \in [state : {"absent", "short", "long", "whole", "mixed"},
               release : Releases \union {None}, edits : 0 .. MaxEdits]
    /\ wal \in {"none", "own", "foreign"}
    /\ objects \subseteq Releases \X Parts
    /\ marker \in Releases \union {None}
    /\ production \in Modes /\ deployed \in Releases
    /\ boot \in [phase : Phases, call : 0 .. Calls, force : BOOLEAN, stale : BOOLEAN,
                 replaced : BOOLEAN, storage : BOOLEAN]
    /\ faults \in 0 .. MaxFaults

Stopped == [phase |-> "down", call |-> 0, force |-> FALSE, stale |-> FALSE,
            replaced |-> FALSE, storage |-> FALSE]

Init ==
    /\ db = [state |-> "absent", release |-> None, edits |-> 0]
    /\ wal = "none"
    /\ objects = {}
    /\ marker = None
    /\ production \in Modes /\ deployed = 1
    /\ boot = Stopped
    /\ faults = 0
-----------------------------------------------------------------------------
Named == deployed \notin Unnamed

\* Mutant of SnapshotIsStale: any marker will do.
AnyMarker == Named /\ marker = None

\* snapshot_is_stale
SnapshotIsStale == Named /\ marker # deployed

\* _db_looks_populated: a file that cannot be queried counts by its size.
DbLooksPopulated == db.state \in {"long", "whole", "mixed"}

\* _storage_looks_populated: enough files of any release.
StorageLooksPopulated == objects # {}

ObjectsOf(r) == {<<r, n>> : n \in Parts}

\* Opening the database replays whatever log lies next to it.
Opened == [db EXCEPT !.state = IF wal = "foreign" THEN "mixed" ELSE @]
-----------------------------------------------------------------------------
(***************************************************************************)
(* One call of restore_catalog.                                            *)
(***************************************************************************)
Start ==
    /\ boot.phase = "down"
    /\ \E s \in StorageFlags : boot' = [Stopped EXCEPT !.phase = "checking", !.call = 1, !.storage = s]
    /\ UNCHANGED <<disk, production, deployed, faults>>

\* Mutant of ForceOf: production always forces.
ForceInProduction(stale) == production

\* restore_catalog's force, without --force on the command line.
ForceOf(stale) == stale /\ production

Check ==
    /\ boot.phase = "checking"
    /\ LET force == ForceOf(SnapshotIsStale) IN
        boot' = [boot EXCEPT !.stale = SnapshotIsStale, !.force = force, !.replaced = FALSE,
                             !.phase = IF force \/ ~DbLooksPopulated THEN "downloading" ELSE "storing"]
    /\ UNCHANGED <<disk, production, deployed, faults>>

\* The download is done; opening the file for writing empties it, and the log
\* of the file that was there stays.
BeginCopy ==
    /\ boot.phase = "downloading"
    /\ boot' = [boot EXCEPT !.phase = "copying"]
    /\ db' = [state |-> "short", release |-> deployed, edits |-> 0]
    /\ wal' = IF wal = "none" THEN "none" ELSE "foreign"
    /\ UNCHANGED <<objects, marker, production, deployed, faults>>

CopyMore ==
    /\ boot.phase = "copying" /\ db.state = "short"
    /\ db' = [db EXCEPT !.state = "long"]
    /\ UNCHANGED <<wal, objects, marker, production, deployed, boot, faults>>

FinishCopy ==
    /\ boot.phase = "copying" /\ db.state = "long"
    /\ db' = [db EXCEPT !.state = "whole"]
    /\ boot' = [boot EXCEPT !.phase = "storing", !.replaced = TRUE]
    /\ UNCHANGED <<wal, objects, marker, production, deployed, faults>>

\* Storage is restored when enabled and forced or not populated.
Store ==
    /\ boot.phase = "storing"
    /\ boot' = [boot EXCEPT !.phase = IF boot.storage /\ (boot.force \/ ~StorageLooksPopulated)
                                      THEN "extracting" ELSE "marking"]
    /\ UNCHANGED <<disk, production, deployed, faults>>

\* Mutant of ExtractRest: extraction stops short.
ExtractHalf ==
    /\ boot.phase = "extracting" /\ <<deployed, 1>> \in objects
    /\ boot' = [boot EXCEPT !.phase = "marking", !.replaced = TRUE]
    /\ UNCHANGED <<disk, production, deployed, faults>>

\* extractall adds to the tree; other releases' objects stay.
ExtractSome ==
    /\ boot.phase = "extracting" /\ <<deployed, 1>> \notin objects
    /\ objects' = objects \union {<<deployed, 1>>}
    /\ UNCHANGED <<db, wal, marker, production, deployed, boot, faults>>

ExtractRest ==
    /\ boot.phase = "extracting" /\ <<deployed, 1>> \in objects
    /\ objects' = objects \union ObjectsOf(deployed)
    /\ boot' = [boot EXCEPT !.phase = "marking", !.replaced = TRUE]
    /\ UNCHANGED <<db, wal, marker, production, deployed, faults>>

Marks == Named /\ (boot.replaced \/ ~boot.stale)

\* Mutant of Leave: one call too many.
LeaveLate ==
    IF boot.call <= Calls
    THEN /\ boot' = [boot EXCEPT !.phase = "checking", !.call = @ + 1]
         /\ UNCHANGED <<db, wal>>
    ELSE /\ boot' = [boot EXCEPT !.phase = "serving"]
         /\ db' = Opened
         /\ wal' = "none"

\* The next call, or the service: init_db opens the database.
Leave ==
    IF boot.call < Calls
    THEN /\ boot' = [boot EXCEPT !.phase = "checking", !.call = @ + 1]
         /\ UNCHANGED <<db, wal>>
    ELSE /\ boot' = [boot EXCEPT !.phase = "serving"]
         /\ db' = Opened
         /\ wal' = "none"

\* write_text empties the marker file before it writes: killed in between, it
\* leaves no marker.
Mark ==
    /\ boot.phase = "marking"
    /\ marker' = IF Marks THEN deployed ELSE marker
    /\ Leave
    /\ UNCHANGED <<objects, production, deployed, faults>>

KilledMarking ==
    /\ boot.phase = "marking" /\ Marks /\ "marking" \in Kills /\ faults < MaxFaults
    /\ marker' = None
    /\ boot' = Stopped
    /\ faults' = faults + 1
    /\ UNCHANGED <<db, wal, objects, production, deployed>>
-----------------------------------------------------------------------------
(***************************************************************************)
(* The process around it.                                                  *)
(***************************************************************************)
\* A user or a worker changes the catalog; commits go to the log first.
Edit ==
    /\ boot.phase = "serving" /\ db.edits < MaxEdits
    /\ db' = [db EXCEPT !.edits = @ + 1]
    /\ wal' = "own"
    /\ UNCHANGED <<objects, marker, production, deployed, boot, faults>>

\* A clean exit closes the last connection, which removes the log.
Stop ==
    /\ boot.phase = "serving"
    /\ boot' = Stopped
    /\ wal' = "none"
    /\ UNCHANGED <<db, objects, marker, production, deployed, faults>>

\* Killed, or a download failed: restore-catalog exits, nothing is served.
Kill ==
    /\ boot.phase \in Kills /\ faults < MaxFaults
    /\ boot' = Stopped
    /\ faults' = faults + 1
    /\ UNCHANGED <<disk, production, deployed>>

Deploy ==
    /\ boot.phase = "down"
    /\ deployed' \in {r \in Releases : r = deployed + 1 \/ (Rollbacks /\ r < deployed)}
    /\ UNCHANGED <<disk, production, boot, faults>>

RestoreCatalog ==
    Check \/ BeginCopy \/ CopyMore \/ FinishCopy \/ Store \/ ExtractSome \/ ExtractRest \/ Mark

Next == Start \/ RestoreCatalog \/ KilledMarking \/ Edit \/ Stop \/ Kill \/ Deploy

Spec == Init /\ [][Next]_vars
-----------------------------------------------------------------------------
(***************************************************************************)
(* Properties.                                                             *)
(***************************************************************************)
\* The copy of the snapshot was completed.  (It is "mixed" when a service was
\* killed with commits in its log before an upgrade: see README.)
Copied == db.state \in {"whole", "mixed"}

\* In production what is served is a complete copy of the deployed release's
\* database with its edits, and every file its rows refer to, however often
\* boots were interrupted.
ServesSnapshot ==
    production /\ boot.phase = "serving" =>
        /\ Copied /\ db.release = deployed
        /\ ObjectsOf(deployed) \subseteq objects

\* A marker that calls the snapshot current promises no more than the disk holds.
MarkerIsTrue ==
    production /\ marker = deployed =>
        Copied /\ db.release = marker /\ ObjectsOf(marker) \subseteq objects

\* What was done in the installed release survives every restart, unless the
\* marker was lost.  Outside production a whole catalog is never replaced,
\* whatever is deployed.
EditsAreKept ==
    [][/\ db.state = "whole" /\ db.release = deployed /\ marker = deployed => db'.edits >= db.edits
       /\ ~production /\ db.state = "whole" =>
            db'.state = "whole" /\ db'.release = db.release /\ db'.edits >= db.edits]_vars
=============================================================================
