------------------------------- MODULE Rebuild ------------------------------
(***************************************************************************)
(* rebuild_capped_epubs (ingestion/rebuild_epub.py): the command goes over *)
(* the published works and replaces damaged or cut off EPUBs by fresh ones *)
(* built from the source, one session for all, a commit after every tenth. *)
(* Next to it run a worker, which adds files, and readers, who look up a   *)
(* file's key and then open its object.  Files are named by their digest.  *)
(*                                                                         *)
(* An object is stored before its row changes.  A flush that fails rolls   *)
(* the session back and expires what it has read, so the log line of the   *)
(* exception handler raises again, and the command ends.                   *)
(***************************************************************************)
EXTENDS Naturals, FiniteSets

CONSTANTS
    Works,          \* the published works with an EPUB, 1 .. n in their order
    Digests,        \* contents of EPUBs
    First,          \* by work, the digest of its file before the first run
    Capped,         \* contents that the old builder cut off
    Builds,         \* by work, what its source may give today
    Every,          \* works between commits (10)
    Readers,
    Worker, Command, None,
    MaxRuns         \* bound on runs of the command

VARIABLES
    row,            \* FileAsset by work: its sha256
    others,         \* digests of the worker's rows
    objects,        \* stored objects
    lost,           \* objects the disk lost
    lock,           \* who has the write lock
    pc, at, built,  \* the command's place, its work, what it built for it
    mine,           \* the rows as its session has them
    seen,           \* stats["seen"]
    adding,         \* the digest the worker is adding
    opening,        \* by reader, the digest of the object it will open
    runs            \* runs of the command so far

command == <<pc, at, built, mine, seen, runs>>
vars == <<row, others, objects, lost, lock, command, adding, opening>>

Places == {"idle", "next", "build", "check", "put", "flush", "count"}

TypeOK ==
    /\ {row, mine} \subseteq [Works -> Digests]
    /\ others \subseteq Digests /\ objects \subseteq Digests /\ lost \subseteq Digests
    /\ lock \in {Worker, Command, None}
    /\ pc \in Places /\ at \in 1 .. Cardinality(Works) + 1
    /\ built \in Digests \union {None} /\ adding \in Digests \union {None}
    /\ seen \in 0 .. Cardinality(Works)
    /\ opening \in [Readers -> Digests \union {None}]
    /\ runs \in 0 .. MaxRuns
    /\ mine # row => lock = Command

Init ==
    /\ row = First /\ others = {}
    /\ \E gone \in {{}} \union {{First[w]} : w \in Works} :
        lost = gone /\ objects = {First[w] : w \in Works} \ gone
    /\ lock = None /\ adding = None
    /\ pc = "idle" /\ at = 1 /\ built = None /\ mine = First /\ seen = 0
    /\ opening = [r \in Readers |-> None]
    /\ runs = 0

\* Digests of the committed rows.
Taken == {row[w] : w \in Works} \union others
-----------------------------------------------------------------------------
(***************************************************************************)
(* The command.                                                            *)
(***************************************************************************)
Start ==
    /\ pc = "idle" /\ runs < MaxRuns
    /\ runs' = runs + 1
    /\ pc' = "next" /\ at' = 1 /\ built' = None
    /\ mine' = row /\ seen' = 0
    /\ UNCHANGED <<row, others, objects, lost, lock, adding, opening>>

\* is_build_capped, or an error of inspect_epub: a missing object is one.
Affected(w) == mine[w] \notin objects \/ mine[w] \in Capped

Goto(place) == pc' = place /\ UNCHANGED <<row, others, objects, lost, lock, mine, adding, opening, runs>>

Inspect ==
    /\ pc = "next" /\ at \in Works
    /\ IF Affected(at) THEN Goto("build") /\ seen' = seen + 1 /\ UNCHANGED at
       ELSE Goto("next") /\ at' = at + 1 /\ UNCHANGED seen
    /\ UNCHANGED built

\* rebuild_openiti_epub downloads the text and builds the book.
Build ==
    /\ pc = "build" /\ Goto("check")
    /\ built' \in Builds[at]
    /\ UNCHANGED <<at, seen>>

\* An exception before anything is written, or one of the skips.
BuildFails == pc = "build" /\ Goto("count") /\ UNCHANGED <<at, built, seen>>

\* A row has the content already, as the session sees the table.
Collides == built \in {mine[w] : w \in Works} \union others

\* "unchanged" and "hash_collision" end the work.
Check ==
    /\ pc = "check"
    /\ Goto(IF Collides THEN "count" ELSE "put")
    /\ UNCHANGED <<at, built, seen>>

\* Mutant of Put: the object of the old row is deleted.
PutInPlace ==
    /\ pc = "put"
    /\ objects' = (objects \ {mine[at]}) \union {built}
    /\ pc' = "flush"
    /\ UNCHANGED <<row, others, lost, lock, at, built, mine, seen, adding, opening, runs>>

Put ==
    /\ pc = "put"
    /\ objects' = objects \union {built}
    /\ pc' = "flush"
    /\ UNCHANGED <<row, others, lost, lock, at, built, mine, seen, adding, opening, runs>>

\* The first flush since the last commit takes the write lock.
Flush ==
    /\ pc = "flush" /\ lock \in {None, Command} /\ ~Collides
    /\ lock' = Command
    /\ mine' = [mine EXCEPT ![at] = built]
    /\ pc' = "count"
    /\ UNCHANGED <<row, others, objects, lost, at, built, seen, adding, opening, runs>>

Committed == row' = mine /\ mine' = mine /\ lock' = IF lock = Command THEN None ELSE lock

\* After each work that was seen: a multiple of Every means a commit.
Count ==
    /\ pc = "count"
    /\ pc' = "next" /\ at' = at + 1
    /\ IF seen % Every = 0 THEN Committed ELSE UNCHANGED <<row, mine, lock>>
    /\ UNCHANGED <<others, objects, lost, built, seen, adding, opening, runs>>

Finish ==
    /\ pc = "next" /\ at \notin Works
    /\ Committed /\ pc' = "idle"
    /\ UNCHANGED <<others, objects, lost, at, built, seen, adding, opening, runs>>

\* The end of the command; what is not committed is rolled back.
Quit == /\ pc' = "idle" /\ mine' = row
        /\ lock' = IF lock = Command THEN None ELSE lock
        /\ UNCHANGED <<row, others, objects, lost, at, built, seen, adding, opening, runs>>

\* The worker holds the lock for too long, or has added the content since.
FlushFails == pc = "flush" /\ lock # Command /\ (lock = Worker \/ Collides) /\ Quit

Crash == pc # "idle" /\ Quit
-----------------------------------------------------------------------------
(***************************************************************************)
(* The worker and the readers.                                             *)
(***************************************************************************)
\* A job holds the lock from its claim on; it stores what no row has.
WorkerPuts ==
    /\ lock = None /\ adding = None
    /\ adding' \in Digests \ Taken
    /\ objects' = objects \union {adding'} /\ lock' = Worker
    /\ UNCHANGED <<row, others, lost, command, opening>>

\* The job is committed, or rolled back.
WorkerEnds ==
    /\ lock = Worker /\ lock' = None
    /\ others' \in {others, others \union {adding}}
    /\ adding' = None
    /\ UNCHANGED <<row, objects, lost, command, opening>>

\* stream_file reads the row,
LookUp(r) ==
    /\ opening[r] = None
    /\ \E w \in Works : opening' = [opening EXCEPT ![r] = row[w]]
    /\ UNCHANGED <<row, others, objects, lost, lock, command, adding>>

\* and opens the file.
Open(r) ==
    /\ opening[r] # None
    /\ opening' = [opening EXCEPT ![r] = None]
    /\ UNCHANGED <<row, others, objects, lost, lock, command, adding>>

Next ==
    \/ Start \/ Inspect \/ Build \/ BuildFails \/ Check \/ Put \/ Flush \/ FlushFails
    \/ Count \/ Finish \/ Crash
    \/ WorkerPuts \/ WorkerEnds
    \/ \E r \in Readers : LookUp(r) \/ Open(r)

Spec == Init /\ [][Next]_vars
-----------------------------------------------------------------------------
(***************************************************************************)
(* Properties.                                                             *)
(***************************************************************************)
\* No replacement, committed, rolled back or half done, takes a file from the
\* catalog or from under a reader: what a row names, or a reader read there, is
\* stored, unless the disk lost it.
FilesAreServed ==
    Taken \union ({opening[r] : r \in Readers} \ {None}) \subseteq objects \union lost
=============================================================================
