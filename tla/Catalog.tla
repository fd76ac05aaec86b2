------------------------------- MODULE Catalog ------------------------------
(***************************************************************************)
(* The categories of the whole catalog: ensure_classification and          *)
(* reclassify_catalog (classification/reclassify.py), as the web process   *)
(* runs them at its start (web/app.py) and the command reclassify does,    *)
(* next to an admin, who publishes and hides works, and a worker, which    *)
(* adds works.  All run the same version of the rules; what there was      *)
(* before was classified by an older one.                                  *)
(*                                                                         *)
(* A pass reads the published works without a lock, unless it had to make  *)
(* the category "unclassified" first, which a web process does on seeding; *)
(* then it deletes all their rows and adds new ones, in one transaction.   *)
(***************************************************************************)
EXTENDS Naturals, FiniteSets

CONSTANTS
    Works,
    Old, New,       \* by work, the rows that a pass by either version of the rules gives
    Ingested,       \* by work, those that run_ingest_item gives: it reads fewer texts
    Passes, Boots,  \* the passes, and those that are the start of a web process
    Forced,         \* the passes that run whatever the version is
    Current,        \* CLASSIFICATION_VERSION
    None,
    MaxEdits        \* bound on what admin and worker do

VARIABLES
    status,         \* Work.publication_status, None before the work exists
    rows,           \* WorkCategory rows by work
    unclassified,   \* whether the category "unclassified" exists
    version,        \* SystemSetting classification_version
    lock,           \* the pass that has the write lock
    pc,             \* by pass, its place
    listed, todo,   \* by pass, the works it read, and those still to classify
    mine,           \* the rows as the session with the lock leaves them
    missed,         \* history: works no complete pass has listed since they got rows
                    \* from older rules or from ingestion, or lost them
    completed,      \* history: a pass has classified all it listed
    swallowed,      \* history: a web process went on after a failed pass
    edits

catalog == <<status, rows, unclassified, version>>
pass == <<pc, listed, todo, mine>>
vars == <<catalog, lock, pass, missed, completed, swallowed, edits>>

Row == [slug : {"unclassified", "hadith", "fiqh", "novels"}, primary : BOOLEAN]

TypeOK ==
    /\ status \in [Works -> {"draft", "published", "hidden", None}]
    /\ rows \in [Works -> SUBSET Row]
    /\ unclassified \in BOOLEAN /\ version \in {None, Current}
    /\ lock \in Passes \union {None}
    /\ pc \in [Passes -> {"idle", "seed", "ensure", "make", "read", "delete", "assign", "ended"}]
    /\ \A p \in Passes : todo[p] \subseteq listed[p] /\ listed[p] \subseteq Works
    /\ mine \in [Works -> SUBSET Row]
    /\ missed \subseteq Works /\ {completed, swallowed} \subseteq BOOLEAN /\ edits \in 0 .. MaxEdits

NoRows == [w \in Works |-> {}]

\* Some works exist, classified by the older rules.
Init ==
    /\ status \in [Works -> {"draft", "published", "hidden", None}]
    /\ rows = [w \in Works |-> IF status[w] = None THEN {} ELSE Old[w]]
    /\ unclassified \in BOOLEAN /\ version = None
    /\ lock = None
    /\ pc = [p \in Passes |-> "idle"]
    /\ listed = [p \in Passes |-> {}] /\ todo = listed
    /\ mine = NoRows
    /\ missed = {w \in Works : status[w] # None}
    /\ completed = FALSE /\ swallowed = FALSE /\ edits = 0

Published == {w \in Works : status[w] = "published"}
MayWrite(p) == lock \in {None, p}
-----------------------------------------------------------------------------
(***************************************************************************)
(* A pass.                                                                 *)
(***************************************************************************)
Goto(p, place) ==
    /\ pc' = [pc EXCEPT ![p] = place]
    /\ UNCHANGED <<catalog, listed, todo, mine, missed, completed, swallowed, edits>>

Leave(p) ==
    /\ lock' = IF lock = p THEN None ELSE lock
    /\ mine' = IF lock = p THEN NoRows ELSE mine
    /\ pc' = [pc EXCEPT ![p] = "ended"]
    /\ listed' = [listed EXCEPT ![p] = {}] /\ todo' = [todo EXCEPT ![p] = {}]
    /\ UNCHANGED <<status, edits>>

\* A web process seeds before it looks at the version.
Begin(p) ==
    /\ pc[p] = "idle"
    /\ Goto(p, IF p \in Boots /\ ~unclassified THEN "seed" ELSE "ensure") /\ UNCHANGED lock

\* The category is inserted and flushed, which takes the lock.
MakeUnclassified(p) ==
    /\ MayWrite(p) /\ ~unclassified
    /\ \/ pc[p] = "seed" /\ Goto(p, "ensure")
       \/ pc[p] = "make" /\ Goto(p, "read")
    /\ lock' = p

\* ensure_classification: nothing to do if the version is current.
Skip(p) ==
    /\ pc[p] = "ensure" /\ version = Current /\ p \notin Forced
    /\ unclassified' = (unclassified \/ lock = p)
    /\ UNCHANGED <<rows, version, missed, completed, swallowed>>
    /\ Leave(p)

Ensure(p) ==
    /\ pc[p] = "ensure" /\ (version # Current \/ p \in Forced)
    /\ Goto(p, IF unclassified \/ lock = p THEN "read" ELSE "make") /\ UNCHANGED lock

ReadWorks(p) ==
    /\ pc[p] = "read"
    /\ listed' = [listed EXCEPT ![p] = Published]
    /\ pc' = [pc EXCEPT ![p] = "delete"]
    /\ UNCHANGED <<catalog, lock, todo, mine, missed, completed, swallowed, edits>>

\* Mutant of Deleted: the DELETE asks for the published works again.
DeletedPublished(p) == [w \in Works |-> IF w \in listed[p] \intersect Published THEN {} ELSE rows[w]]

\* The rows left by the DELETE, which sees what is committed by then.
Deleted(p) == [w \in Works |-> IF w \in listed[p] THEN {} ELSE rows[w]]

DeleteRows(p) ==
    /\ pc[p] = "delete" /\ MayWrite(p)
    /\ lock' = p
    /\ mine' = Deleted(p)
    /\ todo' = [todo EXCEPT ![p] = listed[p]]
    /\ pc' = [pc EXCEPT ![p] = "assign"]
    /\ UNCHANGED <<catalog, listed, missed, completed, swallowed, edits>>

Assign(p) ==
    /\ pc[p] = "assign"
    /\ \E w \in todo[p] :
        /\ mine' = [mine EXCEPT ![w] = @ \union New[w]]
        /\ todo' = [todo EXCEPT ![p] = @ \ {w}]
    /\ UNCHANGED <<catalog, lock, pc, listed, missed, completed, swallowed, edits>>

\* Every work is done: the version is written, and all is committed.
Finish(p) ==
    /\ pc[p] = "assign" /\ todo[p] = {}
    /\ rows' = mine /\ unclassified' = TRUE /\ version' = Current
    /\ missed' = missed \ listed[p] /\ completed' = TRUE
    /\ UNCHANGED swallowed
    /\ Leave(p)

\* Mutant of VersionAfterFailure: _set_version comes before the works.
VersionSetFirst == Current

\* _set_version is the last thing a pass does.
VersionAfterFailure == version

\* An exception while a work is classified.  The web process logs it and commits
\* what the session holds: rows deleted, and some of them added again.
Swallow(p) ==
    /\ pc[p] = "assign" /\ todo[p] # {} /\ p \in Boots
    /\ rows' = mine /\ unclassified' = TRUE /\ version' = VersionAfterFailure
    /\ swallowed' = TRUE
    /\ missed' = missed \union listed[p]
    /\ UNCHANGED completed
    /\ Leave(p)

\* The command fails and rolls back; so in effect does any pass whose insert or
\* DELETE waits too long for the lock, or finds that another one made the category;
\* and a process may be killed.
RollBack(p) ==
    /\ pc[p] \notin {"idle", "ended"}
    /\ UNCHANGED <<rows, unclassified, version, missed, completed, swallowed>>
    /\ Leave(p)
-----------------------------------------------------------------------------
(***************************************************************************)
(* The admin and the worker, each of whose transactions needs the lock.    *)
(***************************************************************************)
Edit == lock = None /\ edits < MaxEdits /\ edits' = edits + 1 /\ UNCHANGED <<version, lock, pass, completed, swallowed>>

AdminPublish(w) ==
    /\ status[w] \in {"draft", "hidden"} /\ Edit
    /\ status' = [status EXCEPT ![w] = "published"]
    /\ UNCHANGED <<rows, unclassified, missed>>

AdminHide(w) ==
    /\ status[w] \in {"draft", "published"} /\ Edit
    /\ status' = [status EXCEPT ![w] = "hidden"]
    /\ UNCHANGED <<rows, unclassified, missed>>

\* run_ingest_item makes a work, classified by the rules of today, but without
\* its authors and the source's title.
Ingest(w) ==
    /\ status[w] = None /\ Edit
    /\ \E s \in {"draft", "published"} : status' = [status EXCEPT ![w] = s]
    /\ rows' = [rows EXCEPT ![w] = Ingested[w]]
    /\ unclassified' = (unclassified \/ \E row \in Ingested[w] : row.slug = "unclassified")
    /\ missed' = missed \union {w}

Next ==
    \/ \E p \in Passes :
        \/ Begin(p) \/ MakeUnclassified(p) \/ Skip(p) \/ Ensure(p)
        \/ ReadWorks(p) \/ DeleteRows(p) \/ Assign(p)
        \/ Finish(p) \/ Swallow(p) \/ RollBack(p)
    \/ \E w \in Works : AdminPublish(w) \/ AdminHide(w) \/ Ingest(w)

Spec == Init /\ [][Next]_vars
-----------------------------------------------------------------------------
(***************************************************************************)
(* Properties.                                                             *)
(***************************************************************************)
\* However passes, admin and worker interleave, every work keeps one primary
\* category and at most one more; unless a web process started in spite of a
\* failed pass, which leaves works with none.
OnePrimary ==
    ~swallowed => \A w \in Works : status[w] # None =>
        /\ Cardinality({row \in rows[w] : row.primary}) = 1
        /\ Cardinality(rows[w]) <= 2

\* Once the version says that the catalog is classified by the rules of today,
\* and no pass will run again, it is: a pass went through all it listed, and every
\* work has just the rows they give, but for those that no such pass listed since
\* ingestion or older rules classified them, or a failed pass left them with none.
VersionIsTrue ==
    version = Current =>
        completed /\ \A w \in Works \ missed : status[w] # None => rows[w] = New[w]
=============================================================================
