------------------------------ MODULE Ingestion -----------------------------
(***************************************************************************)
(* The ingestion pipeline (ingestion/pipeline.py) with the catalog rows it *)
(* writes, the objects it stores, and the librarian's actions on works and *)
(* reviews (web/app.py).                                                   *)
(*                                                                         *)
(* A handler runs in the transaction that claimed its job (see JobQueue)   *)
(* and, on SQLite, the only database search_fts exists on, every writer is *)
(* serialized by the write lock; so a run of run_ingest_item is one step   *)
(* here, one action per way it can end:                                    *)
(*   - it returns: its rows and complete_job are committed;                *)
(*   - it raises and the session survives: process_once catches it and     *)
(*     commits what had been flushed or added, with the failed item and    *)
(*     the job's retry (or its death);                                     *)
(*   - the process dies or a flush fails: the rows are rolled back, the    *)
(*     objects already stored are not.                                     *)
(*                                                                         *)
(* A work stands for itself and its single edition; a digest stands for    *)
(* the content with that sha256, hence also for its storage key.           *)
(***************************************************************************)
EXTENDS Naturals, Sequences, FiniteSets

CONSTANTS
    Items,          \* source items, numbered by their primary key
    Works,          \* primary keys available for works
    Digests,        \* contents, by sha256
    None,           \* no work, no item, no content
    Offers,         \* per item: for each remote file, the contents it may serve
    SharedName,     \* items whose remote files all have one file name
    Format,         \* "pdf" or "epub", per content
    Title,          \* normalized title and author of each item
    Year,           \* publication year of each item, 0 when unknown
    Rights,         \* "auto", "uncertain" or "prohibited", per item
    Librarian,      \* which of "publish", "hide", "resolve" the admins use
    RequeueLimit,   \* limit of requeue_failed
    MaxJobs,        \* bound on the live jobs of one item
    MaxFaults       \* bound on exceptions and crashes

ASSUME KeysAssumption == Items \subseteq Nat /\ Works \subseteq Nat /\ None \notin Items \union Works \union Digests
ASSUME OffersAssumption == Offers \in [Items -> Seq(SUBSET Digests)]
ASSUME RightsAssumption == Rights \in [Items -> {"auto", "uncertain", "prohibited"}]
ASSUME BoundsAssumption == {RequeueLimit, MaxJobs, MaxFaults} \subseteq Nat

VARIABLES
    item,           \* SourceItem: status, work_id, kind of last_error
    jobs,           \* live (queued or retrying) ingest jobs per item
    work,           \* Work: publication_status and the item it was made from
    file,           \* FileAsset by sha256: the work it belongs to
    provider,       \* FileAsset.source_item_id
    store,          \* content of the object under each key
    index,          \* works with rows in search_fts
    reviews,        \* open ReviewItem rows
    approved,       \* history: works an admin has published
    faults          \* exceptions and crashes so far

catalog == <<work, file, provider, index, reviews, approved>>
vars == <<item, jobs, catalog, store, faults>>

ItemStatuses == {"unknown", "queued", "published", "requires_review", "quarantined",
                 "rejected", "duplicate", "failed"}
ReviewRows == [kind : {"rights", "duplicate", "classification"}, item : Items, work : Works]

TypeOK ==
    /\ item \in [Items -> [status : ItemStatuses, work : Works \union {None},
                           err : {"none", "transient", "permanent"}]]
    /\ jobs \in [Items -> 0 .. MaxJobs]
    /\ work \in [Works -> [status : {"absent", "draft", "published", "hidden"},
                           origin : Items \union {None}]]
    /\ file \in [Digests -> Works \union {None}]
    /\ provider \in [Digests -> Items \union {None}]
    /\ store \in [Digests -> Digests \union {None}]
    /\ index \subseteq Works
    /\ reviews \subseteq ReviewRows
    /\ approved \subseteq Works
    /\ faults \in 0 .. MaxFaults

Init ==
    /\ item = [i \in Items |-> [status |-> "unknown", work |-> None, err |-> "none"]]
    /\ jobs = [i \in Items |-> 0]
    /\ work = [w \in Works |-> [status |-> "absent", origin |-> None]]
    /\ file = [d \in Digests |-> None]
    /\ provider = [d \in Digests |-> None]
    /\ store = [d \in Digests |-> None]
    /\ index = {}
    /\ reviews = {}
    /\ approved = {}
    /\ faults = 0
-----------------------------------------------------------------------------
(***************************************************************************)
(* What a handler finds in the database and at the source.                 *)
(***************************************************************************)
Elements(s) == {s[n] : n \in DOMAIN s}

\* The contents a run may have saved: some of the remote files were downloaded
\* and valid, and they are kept in the order of the list.
Saves == [i \in Items |->
    {s \in UNION {[1 .. n -> Digests] : n \in 1 .. Len(Offers[i])} :
        \E from \in [DOMAIN s -> DOMAIN Offers[i]] :
            /\ \A m, n \in DOMAIN s : m < n => from[m] < from[n]
            /\ \A n \in DOMAIN s : s[n] \in Offers[i][from[n]]}]

\* The bytes in the temporary file a content was validated from: the files of
\* a SharedName item overwrite each other, and storing comes after the loop.
ContentOf(i, s, d) == IF i \in SharedName THEN s[Len(s)] ELSE d

Exists(w) == work[w].status # "absent"
FilesOf(w) == {d \in Digests : file[d] = w}
Fresh(s) == {d \in Elements(s) : file[d] = None}

\* find_work_by_title_author
Twins(i) == {w \in Works : Exists(w) /\ Title[work[w].origin] = Title[i]}

\* score_duplicate for an equal title and author: 0.9 when the years agree,
\* which is above the threshold for merging; 0.84 or less when they do not.
SameEdition(i, w) == Year[i] # 0 /\ Year[i] = Year[work[w].origin]

\* Mutant of Missing: the lookup by sha256 is left out.
MissingUnchecked(w, s) == {d \in Elements(s) : \A e \in FilesOf(w) : Format[d] # Format[e]}

\* The contents _attach_missing_formats adds to w: of each format w lacks, the
\* first one that no work has.
Missing(w, s) ==
    {s[n] : n \in {m \in DOMAIN s :
        /\ s[m] \in Fresh(s)
        /\ \A d \in FilesOf(w) : Format[d] # Format[s[m]]
        /\ \A k \in 1 .. m - 1 : s[k] \in Fresh(s) => Format[s[k]] # Format[s[m]]}}

\* The loop over saved looks up rows it has not flushed yet: a content that
\* occurs twice violates the UNIQUE constraint on sha256.
Repeats(s) == \E m, n \in DOMAIN s : m # n /\ s[m] = s[n] /\ s[m] \in Fresh(s)

\* A primary key that no work has.
NextWork == CHOOSE w \in Works : ~Exists(w)

(***************************************************************************)
(* What a handler writes.                                                  *)
(***************************************************************************)
\* Mutant of Stored: only the first file of an item is put.
StoredFirst(i, s, new) ==
    [d \in Digests |-> IF d \in new \intersect {s[1]} /\ store[d] = None
                       THEN ContentOf(i, s, d) ELSE store[d]]

\* storage.put of the contents of new, unless their keys exist.
Stored(i, s, new) ==
    [d \in Digests |-> IF d \in new /\ store[d] = None THEN ContentOf(i, s, d) ELSE store[d]]

AddFiles(i, w, s, new) ==
    /\ store' = Stored(i, s, new)
    /\ file' = [d \in Digests |-> IF d \in new THEN w ELSE file[d]]
    /\ provider' = [d \in Digests |-> IF d \in new THEN i ELSE provider[d]]

\* The handler returned: complete_job.
Return(i) ==
    /\ jobs' = [jobs EXCEPT ![i] = @ - 1]
    /\ UNCHANGED faults

\* The handler raised: fail_job keeps the job for a retry or makes it dead.
Raise(i) ==
    /\ faults < MaxFaults
    /\ faults' = faults + 1
    /\ jobs' \in {jobs, [jobs EXCEPT ![i] = @ - 1]}

\* Mutant of Failed: the item gets the status of its log event.
FailedAsLogged(i, err) == [item EXCEPT ![i].status = "error", ![i].err = err]

Failed(i, err) == [item EXCEPT ![i].status = "failed", ![i].err = err]
-----------------------------------------------------------------------------
(***************************************************************************)
(* run_ingest_item, by the way it ends.                                    *)
(***************************************************************************)
\* Mutant of Reject: the status is not set.
RejectSilently(i) ==
    /\ jobs[i] > 0 /\ Rights[i] = "prohibited"
    /\ Return(i)
    /\ UNCHANGED <<item, catalog, store>>

\* decide_eligibility says prohibited.
Reject(i) ==
    /\ jobs[i] > 0 /\ Rights[i] = "prohibited"
    /\ Return(i)
    /\ item' = [item EXCEPT ![i].status = "rejected"]
    /\ UNCHANGED <<catalog, store>>

\* No remote files, or none that could be downloaded and validated.
NothingSaved(i) ==
    /\ jobs[i] > 0 /\ Rights[i] # "prohibited"
    /\ Return(i)
    /\ \E err \in {"transient", "permanent"} : item' = Failed(i, err)
    /\ UNCHANGED <<catalog, store>>

\* fetch_metadata, discover_files or a retryable download raised.
FetchRaises(i) ==
    /\ jobs[i] > 0
    /\ Raise(i)
    /\ \E err \in {"transient", "permanent"} : item' = Failed(i, err)
    /\ UNCHANGED <<catalog, store>>

\* The works a saved sequence is a duplicate of: the owner of an identical
\* first file, else a twin of the same edition.
Originals(i, s) ==
    IF file[s[1]] # None THEN {file[s[1]]} ELSE {w \in Twins(i) : SameEdition(i, w)}

Attach(i, w, s) ==
    /\ AddFiles(i, w, s, Missing(w, s))
    /\ item' = [item EXCEPT ![i].status = "duplicate", ![i].work = w]
    /\ Return(i)

\* An identical file or the same edition: the item becomes a duplicate and
\* brings the work the formats it lacks.
Duplicate(i, s) ==
    /\ jobs[i] > 0 /\ Rights[i] # "prohibited"
    /\ \E w \in Originals(i, s) : Attach(i, w, s)
    /\ UNCHANGED <<work, index, reviews, approved>>

\* storage.put raised while formats were attached; the rows added before it
\* are committed.
DuplicateRaises(i, s) ==
    /\ jobs[i] > 0 /\ Rights[i] # "prohibited"
    /\ \E w \in Originals(i, s), n \in 0 .. Len(s) - 1 :
        /\ ~(Missing(w, s) \subseteq Elements(SubSeq(s, 1, n)))
        /\ AddFiles(i, w, s, Missing(w, s) \intersect Elements(SubSeq(s, 1, n)))
    /\ Raise(i)
    /\ item' = Failed(i, "transient")
    /\ UNCHANGED <<work, index, reviews, approved>>

\* A work of its own is created: its first file is new, and the work of equal
\* title and author that was found, if any, is of another edition.
IsNew(i, s, twin) ==
    /\ jobs[i] > 0 /\ Rights[i] # "prohibited"
    /\ file[s[1]] = None
    /\ IF Twins(i) = {} THEN twin = None ELSE twin \in Twins(i) /\ ~SameEdition(i, twin)
    /\ \E w \in Works : ~Exists(w)

\* The review rows a run adds: a possible duplicate, a low confidence.
Doubts(i, twin, unsure) ==
    {[kind |-> "duplicate", item |-> i, work |-> w] : w \in {twin} \ {None}}
        \union (IF unsure THEN {[kind |-> "classification", item |-> i, work |-> NextWork]} ELSE {})

\* Mutants of Publishable: the uncertain class is let through as well.
AnythingGoes(i) == TRUE

\* item.eligibility in Eligibility.AUTO_PUBLISH
Publishable(i) == Rights[i] = "auto"

\* Mutant of RightsReview: the quarantine branch forgets its review row.
NoReview(i) == {}

RightsReview(i) ==
    IF Publishable(i) THEN {} ELSE {[kind |-> "rights", item |-> i, work |-> NextWork]}

\* The new work with its files is published, when rights are clear, or kept
\* as a draft in quarantine.
Create(i, s, twin, unsure) ==
    /\ IsNew(i, s, twin) /\ ~Repeats(s)
    /\ AddFiles(i, NextWork, s, Fresh(s))
    /\ work' = [work EXCEPT ![NextWork] =
                    [status |-> IF Publishable(i) THEN "published" ELSE "draft", origin |-> i]]
    /\ item' = [item EXCEPT ![i].work = NextWork,
                            ![i].status = IF ~Publishable(i) THEN "quarantined"
                                          ELSE IF unsure THEN "requires_review" ELSE "published"]
    /\ index' = index \union {w \in {NextWork} : Publishable(i)}
    /\ reviews' = reviews \union Doubts(i, twin, unsure) \union RightsReview(i)
    /\ Return(i)
    /\ UNCHANGED approved

\* storage.put raised after n files, or, with all of them in place, the
\* classification or the cover did: the draft and its first files are committed
\* but the item does not point to them.
CreateRaises(i, s, twin, n, unsure) ==
    /\ IsNew(i, s, twin) /\ ~Repeats(SubSeq(s, 1, n))
    /\ unsure => n = Len(s)
    /\ AddFiles(i, NextWork, s, Fresh(s) \intersect Elements(SubSeq(s, 1, n)))
    /\ work' = [work EXCEPT ![NextWork] = [status |-> "draft", origin |-> i]]
    /\ item' = Failed(i, "transient")
    /\ reviews' = reviews \union Doubts(i, twin, unsure)
    /\ Raise(i)
    /\ UNCHANGED <<index, approved>>

\* A statement of index_work raised: the work is published and committed, but
\* not searchable, and the item that points to it is failed.
PublishRaises(i, s, twin, unsure) ==
    /\ IsNew(i, s, twin) /\ ~Repeats(s) /\ Publishable(i)
    /\ AddFiles(i, NextWork, s, Fresh(s))
    /\ work' = [work EXCEPT ![NextWork] = [status |-> "published", origin |-> i]]
    /\ item' = [Failed(i, "transient") EXCEPT ![i].work = NextWork]
    /\ reviews' = reviews \union Doubts(i, twin, unsure)
    /\ Raise(i)
    /\ UNCHANGED <<index, approved>>

\* The process dies, or the flush of a repeated content fails every time: the
\* rows are rolled back, some objects stay.
RollBack(i, s, new) ==
    /\ jobs[i] > 0 /\ Rights[i] # "prohibited"
    /\ new \subseteq Fresh(s)
    /\ \/ faults < MaxFaults /\ faults' = faults + 1
       \/ Repeats(s) /\ Originals(i, s) = {} /\ new = Fresh(s) /\ faults' = faults
    /\ store' = Stored(i, s, new)
    /\ UNCHANGED <<item, jobs, catalog>>

\* Every way to run the item's next job.
RunIngestItem(i) ==
    \/ Reject(i)
    \/ NothingSaved(i)
    \/ FetchRaises(i)
    \/ \E s \in Saves[i] :
        \/ Duplicate(i, s)
        \/ DuplicateRaises(i, s)
        \/ \E twin \in Works \union {None}, unsure \in BOOLEAN :
            \/ Create(i, s, twin, unsure)
            \/ PublishRaises(i, s, twin, unsure)
            \/ \E n \in 0 .. Len(s) : CreateRaises(i, s, twin, n, unsure)
        \/ \E new \in SUBSET Fresh(s) : RollBack(i, s, new)
-----------------------------------------------------------------------------
(***************************************************************************)
(* Discovery, requeueing and the librarian.                                *)
(***************************************************************************)
\* run_discovery's lookup of source and external_id finds no row.
Undiscovered(i) == item[i].status = "unknown"

\* run_discovery commits the new items it saw, each with its job.
RunDiscovery(found) ==
    /\ found # {} /\ \A i \in found : Undiscovered(i) /\ jobs[i] < MaxJobs
    /\ item' = [i \in Items |-> IF i \in found THEN [item[i] EXCEPT !.status = "queued"] ELSE item[i]]
    /\ jobs' = [i \in Items |-> IF i \in found THEN jobs[i] + 1 ELSE jobs[i]]
    /\ UNCHANGED <<catalog, store, faults>>

\* The failed items requeue_failed looks at: the first RequeueLimit by id.
Window ==
    LET failed == {i \in Items : item[i].status = "failed"}
    IN  {i \in failed : Cardinality({j \in failed : j < i}) < RequeueLimit}

Retriable == {i \in Window : item[i].err # "permanent"}

\* Mutant of RequeueFailed: the items are reset but nothing is enqueued.
RequeueWithoutJob ==
    /\ Retriable # {}
    /\ item' = [i \in Items |-> IF i \in Retriable
                                THEN [item[i] EXCEPT !.status = "queued", !.err = "none"] ELSE item[i]]
    /\ UNCHANGED <<jobs, catalog, store, faults>>

\* requeue_failed: those not failed for good get a new job, whether or not an
\* earlier job of theirs is still waiting for its retry.
RequeueFailed ==
    LET again == Retriable IN
    /\ again # {} /\ \A i \in again : jobs[i] < MaxJobs
    /\ item' = [i \in Items |-> IF i \in again
                                THEN [item[i] EXCEPT !.status = "queued", !.err = "none"] ELSE item[i]]
    /\ jobs' = [i \in Items |-> IF i \in again THEN jobs[i] + 1 ELSE jobs[i]]
    /\ UNCHANGED <<catalog, store, faults>>

AdminPublish(w) ==
    /\ "publish" \in Librarian /\ Exists(w)
    /\ work' = [work EXCEPT ![w].status = "published"]
    /\ index' = index \union {w}
    /\ approved' = approved \union {w}
    /\ UNCHANGED <<item, jobs, file, provider, reviews, store, faults>>

AdminHide(w) ==
    /\ "hide" \in Librarian /\ Exists(w)
    /\ work' = [work EXCEPT ![w].status = "hidden"]
    /\ UNCHANGED <<item, jobs, file, provider, index, reviews, approved, store, faults>>

\* admin_resolve_review closes the row and does nothing else.
AdminResolveReview(r) ==
    /\ "resolve" \in Librarian /\ r \in reviews
    /\ reviews' = reviews \ {r}
    /\ UNCHANGED <<item, jobs, work, file, provider, index, approved, store, faults>>

Next ==
    \/ \E i \in Items : RunIngestItem(i)
    \/ \E found \in SUBSET Items : RunDiscovery(found)
    \/ RequeueFailed
    \/ \E w \in Works : AdminPublish(w)
    \/ \E w \in Works : AdminHide(w)
    \/ \E r \in reviews : AdminResolveReview(r)

Spec == Init /\ [][Next]_vars

\* A worker keeps running the jobs of every item (JobQueue).
FairSpec == Spec /\ \A i \in Items : WF_vars(RunIngestItem(i))
-----------------------------------------------------------------------------
(***************************************************************************)
(* Properties.                                                             *)
(***************************************************************************)
\* A file in the catalog can be served, with the bytes its sha256 promises,
\* whatever was rolled back or retried on the way.
FilesAreIntact == \A d \in Digests : file[d] # None => store[d] = d

(***************************************************************************)
(* The audits of classification/quality.py.                                *)
(***************************************************************************)
WorksWithoutFiles == {w \in Works : work[w].status = "published" /\ FilesOf(w) = {}}
MissingStorageFiles == {d \in Digests : file[d] # None /\ store[d] = None}
OrphanSourceItems == {i \in Items : item[i].work # None /\ ~Exists(item[i].work)}
DuplicateTitleAuthor ==
    {p \in Works \X Works : /\ p[1] # p[2]
                           /\ work[p[1]].status = "published" /\ work[p[2]].status = "published"
                           /\ Title[work[p[1]].origin] = Title[work[p[2]].origin]}

\* The item the work was made from reports it as published.
Reported(w) ==
    LET i == work[w].origin
    IN  item[i].work = w /\ item[i].status \in {"published", "requires_review"}

\* What the public sees comes from an item with clear rights and has a file,
\* unless an admin published it, and is searchable, unless something raised and
\* the item does not say it is published; an audit finds no file lost and no
\* item pointing to a work that is not there.
PublishedIsSound ==
    /\ \A w \in Works : work[w].status = "published" =>
            /\ w \in index \/ (faults > 0 /\ ~Reported(w))
            /\ w \in approved \/ Rights[work[w].origin] = "auto"
    /\ WorksWithoutFiles \subseteq approved
    /\ MissingStorageFiles = {}
    /\ OrphanSourceItems = {}

\* An item waiting to be ingested has a job that will do it; an item reported
\* as published, in review or quarantined points to the work made from it, and
\* a duplicate to an existing work.
ItemsAreTrue ==
    \A i \in Items :
        /\ item[i].status = "queued" => jobs[i] > 0
        /\ item[i].status \in {"published", "requires_review", "quarantined"} =>
                item[i].work # None /\ work[item[i].work].origin = i
        /\ item[i].status = "duplicate" => item[i].work # None /\ Exists(item[i].work)

\* As long as nothing raised or crashed and no review was closed, nothing is
\* half-made: each draft is in quarantine with an open rights review, an item
\* is made into one work at most and never its own duplicate, and of two public
\* works with one title and author (duplicate_title_author) one was put up for
\* review.  (The retry after an exception finds the half-made work and calls
\* the item its duplicate, see README.)
NothingHalfMade ==
    faults = 0 /\ Librarian = {} =>
        /\ \A w \in Works : work[w].status = "draft" =>
                /\ item[work[w].origin].status = "quarantined"
                /\ [kind |-> "rights", item |-> work[w].origin, work |-> w] \in reviews
        /\ \A v, w \in Works : Exists(v) /\ work[v].origin = work[w].origin => v = w
        /\ \A i \in Items : item[i].status = "duplicate" => work[item[i].work].origin # i
        /\ \A p \in DuplicateTitleAuthor : \E r \in reviews :
                r.kind = "duplicate" /\ r.item \in {work[p[1]].origin, work[p[2]].origin}

\* Unless operators requeue for ever, every discovered item gets a verdict and
\* the queue of its jobs runs empty, whatever raised or crashed on the way.
ItemsSettle ==
    \/ []<><<RequeueFailed>>_vars
    \/ \A i \in Items : jobs[i] > 0 ~> jobs[i] = 0 /\ item[i].status # "queued"

(***************************************************************************)
(* The catalog as PublicCatalog has it: a work is its status, a file is    *)
(* its row together with the object its key names.                         *)
(***************************************************************************)
Status == [w \in Works |-> work[w].status]
Holds == [d \in Digests |-> IF file[d] = None THEN None
                            ELSE [work |-> file[d], item |-> provider[d], bytes |-> store[d]]]
Public == INSTANCE PublicCatalog WITH
    Cleared <- {i \in Items : Publishable(i)}, NoFile <- None, status <- Status, holds <- Holds

\* Runs, retries, crashes and librarians together do to works and files only
\* what PublicCatalog allows.
ImplementsPublicCatalog == Public!Spec

\* Stated by the documents, and not kept: no file of an item with uncertain
\* rights is public unless an admin decided so.
PublicFilesEligible ==
    \A d \in Digests : file[d] # None =>
        (work[file[d]].status = "published" => Rights[provider[d]] = "auto" \/ file[d] \in approved)
=============================================================================
