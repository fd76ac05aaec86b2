# Verification of the Abu Alia digital library

TLA+ models of the `abu_alia` application (`src/src/abu_alia/`): the durable job
queue, discovery and fetching, the ingestion pipeline with the catalog, search
index and storage it writes, rights gating and classification, the upkeep of
the catalog, the restore at boot and the small concurrent services of the web
process. Every module is written from the Python source; the documents under
`src/docs/architecture/` are used only to find out what the program is expected
to do, and where code and documents disagree section 8 says so.

## 1. Inventory of the system

One Python code base, run as several processes over one database file and one
storage directory:

* `serve` - FastAPI web process (threadpool of synchronous handlers);
* `worker` - polls the `jobs` table for ever (`worker.py main`);
* `ingest`, `retry-failed`, `harvest` - commands that enqueue and then call the
  same `process_once` as the worker;
* `restore-catalog` - run at boot before `serve` or `worker`.

| Component | State it keeps | Operations | Correct when |
|---|---|---|---|
| Job queue (`jobs/queue.py`, `worker.py`, `db/session.py`) | `jobs` rows; per process one session | enqueue, claim, complete, fail, cancel, one iteration of `process_once` | a job is run by one consumer at a time, tries are counted and bounded, settled jobs stay settled, every job ends |
| Ingestion pipeline (`ingestion/pipeline.py`) | `source_items`, `works`, `editions`, `files`, `review_queue`, `import_events`; storage objects | run_discovery, run_ingest_item, requeue_failed | one file row per sha256, only eligible items publish, a file row has its object, nothing is lost by a retry |
| Harvest (`ingestion/harvest.py`, `checkpoint.py`) | loop counters, checkpoint file | harvest_loop, _drain | every round makes progress or the loop ends |
| Rights (`rights/eligibility.py`) | none (pure) | classify_license, decide_eligibility | lending and in-copyright never auto-publish |
| Duplicates (`duplicates/score.py`) | none (pure) | score_duplicate | only a common file, or title and year in common, merge; equal title and author are not overlooked |
| Classification (`classification/`) | `work_categories`, version row | score_categories, select_assignments, reclassify_catalog | at most two unrelated categories, one primary |
| Catalog (`catalog/resolve.py`, `collections.py`) | authors, publishers, slugs, collections | unique_slug, resolve_author, refresh | slugs unique, members exist |
| Search (`search/backend.py`) | `search_fts` | index_work, delete_work_index, search_works | results are published works; index follows publication |
| Storage (`storage/`) | object tree | put, exists, delete, file_response_with_range, audit | content of a key matches its digest; ranges are exact |
| Network (`net/http.py`) and connectors (`connectors/`) | throttles | request_with_retry, get_with_fallback, discover, download | transient failures retried, gone URLs not |
| EPUB building (`ingestion/epub_build.py`, `rebuild_epub.py`) | storage, files | build_epub, audit_epubs, rebuild_* | no text lost between chapters |
| Restore (`deploy/restore.py`) | database file, storage tree, marker | restore_catalog | a boot ends with a usable catalog and destroys nothing newer |
| Web and admin (`web/app.py`, `deps.py`, `helpers.py`) | works, reviews, counters, favorites | admin_publish, admin_hide, admin_resolve_review, downloads, favorites | only published works are served |
| Visits, rate limit (`web/visits.py`, `rate_limit.py`) | counter file, in-memory buckets | increment, read_count, limit | no visit lost, limit respected |
| Auth (`auth/`, login and register in `web/app.py`) | users, signed cookies | login, register, csrf checks | one account per address; a reader's own form is accepted |
| Seed, CLI, configuration, templates, theme, audits (`quality.py`, `integrity.py`) | rows, reports | seed_all, audits | reports count what they say |

How the parts interact: requests and commands insert `jobs`; `process_once`
runs the handler in the transaction that claims the job; the handler writes
storage objects (outside any transaction) and rows (inside it); the web process
reads published works, toggles their status in requests of its own and serves
their objects; `restore-catalog` replaces database and storage while nothing
else of its container runs.

What is hard here:

* **One transaction around claim, handler and verdict.** Handler exceptions are
  caught inside `session_scope`, so everything flushed before the failure is
  committed with the retry, while a failed flush rolls back the claim as well.
* **SQLite or Postgres.** `FOR UPDATE SKIP LOCKED` is ignored by SQLite: a SELECT
  locks nothing; the first flush takes the single write lock.
* **Storage outside the transaction.** Objects appear before their rows and
  survive a rollback.
* **Retries of half-finished work**, requeueing of items whose earlier job is
  still alive, duplicate detection against works that are drafts or hidden.
* **Read-modify-write in threads** (view counters, visit file, rate buckets).
* **Pages made by several statements**, each of which sees another catalog.
* **One cookie and many tabs**, whose responses overtake one another.
* **Boot-time replacement** of database and storage, interrupted anywhere.

The hazards, line by line, are in `PROJECT.json`.

## 2. Modules and plan

| Order | Modules | Component | State |
|---|---|---|---|
| 1 | `JobLifecycle`, `JobQueue`, `MCJobQueue`, `MCDatabases`, `JobQueueProofs` | queue and worker | done, safety proved |
| 2 | `Ingestion`, `MCIngestion`, `IngestionProofs`, `PublicCatalog` | pipeline, catalog rows, storage, librarian; what the library promises of its catalog | done, safety and refinement proved |
| 3 | `Rights`, `MCRights`, `RightsProofs` | license and eligibility rules | done, proved |
| 4 | `Restore`, `MCRestore`, `RestoreProofs` | boot-time restore | done, proved |
| 5 | `Harvest`, `Discovery`, `Fetch`, composed by `MCSources`, `SourcesProofs` | the harvest loop, passes of discovery, requests with retries and fallbacks | done, safety proved |
| 6 | `WebRequests`, `RateLimit`, `Visits`, composed by `MCWeb`, `WebProofs` | what threads and processes of the web tier share | done, safety proved |
| 7 | `Classification`, composed with `Rights` by `MCRights`, proved in `RightsProofs` | scoring, selection, the audit of the outcome | done, proved |
| 8 | `Rebuild`, `Catalog`, composed by `MCUpkeep`, `UpkeepProofs` | replacement of EPUBs, reclassification of the catalog | done, proved |
| 9 | `Browse`, composed by `MCWeb`, proved in `WebProofs`; `Orders`, which `Discovery` uses too | listings, search, collections and sitemaps, page by page, while the catalog changes; ORDER BY and WHERE as operators on lists | done, proved |
| 10 | `Forms`, composed by `MCWeb`, proved in `WebProofs` | the token of forms, its cookie and several tabs | done, proved |
| 11 | `Duplicates`, composed by `MCRights`, proved in `RightsProofs` | the likeness of a book to a work, and the verdict | done, proved |
| 12 | `EpubBuild`, `Ranges`, composed by `MCUpkeep`, proved in `UpkeepProofs` | text to EPUB; serving parts of a file | done, proved |
| 13 | `DataLemmas` | finite sets, sequences, orders and filtered lists: what the proofs share | done |

`JobLifecycle` is the abstract specification of the queue: what a client of
`enqueue` may rely on, without sessions, locks or transactions. `JobQueue`
implements it (`Implements`, checked and proved). The other modules rest on the
queue in this way: `Ingestion` takes a run of a handler as one step because
`JobQueue` shows that one transaction holds claim, handler and verdict, and its
fairness because `JobsSettle` shows that jobs come to an end; `Harvest` reduces
a handler to the fate of its item, which `Ingestion` and `Fetch` show in
detail, and a pass of discovery to what it finds, for which `Discovery`
answers; `Ingestion` takes the likeness of two books of one title and author
(`SameEdition`) from `Duplicates`; `Browse` keeps of publication what it does to
the status, the index and the order of the works; `Catalog` takes from `Classification` only that a work has rows by
some version of the rules; `WebRequests` and `Rebuild` keep of the worker only
what it does to the write lock and the file rows.

## 3. How states and actions correspond to the code

**JobQueue.** A row of `jobs` is `status`, `attempts`, `due` (run_after has
passed); a session of a consumer is `pc`, `held` (the Job object of
`claim_job`) and `seen` (its `attempts` as read). `Select` is `claim_job` up to
its SELECT, `Claim` its flush, `Complete` and `Fail` are the handler's end,
`complete_job` or `fail_job`, and the commit, with the jobs the handler
enqueued; `Abort` is any end of `process_once` by an exception or the end of
the process. `SkipLocked` says whether `with_for_update(skip_locked=True)` does
anything, which it does on Postgres and not on SQLite. `MCDatabases` runs the
queue on either. Nothing in the program calls `cancel_job`; `Cancellable` keeps
what it would do apart.

**Ingestion.** `item` is the `SourceItem`, `work` the `Work` with its single
edition, `file`/`provider` the `FileAsset` by sha256, `store` the object tree,
`index` the works in `search_fts`, `reviews` the open review rows. A run of
`run_ingest_item` is one step, one action for each way it can end. `Saves` is
what the download loop may have saved; an action then decides as the code does:
`Originals` (lines 200-224), `Attach`, `Create`. `CreateRaises`,
`PublishRaises` (in `index_work`, with the work already public) and
`DuplicateRaises` commit what was flushed before the exception, as
`process_once` does; `RollBack` keeps only the stored objects. `Public` maps the
catalog to `PublicCatalog`: `Status` is the status of each work, `Holds` joins
each file row with the object its key names, so that a row without its object,
or with other bytes, or a file that changes its owner, would be a step that
`PublicCatalog` does not have. `WorksWithoutFiles` and its neighbours are the
audits of `quality.py`.

**Rights.** A request is what the metadata say; a license URL is the set of the
fragments the code looks for in it. `ClassifyLicense` and `DecideEligibility`
are the two functions branch by branch, in the order of the tests.

**Duplicates.** A title or a name is the sequence of its words, and scores are
whole numbers: with unions of at most four words everything `score_duplicate`
adds up is a multiple of 1/4800 (beyond that, quotients are rounded down to
one). `Found` is the lookup, `Judged` the call the
pipeline makes, `Fate` its two thresholds.

**Restore.** `db`, `wal`, `objects`, `marker` are the disk, `boot` is the
running process with the locals of `restore_catalog`. File sizes are the
classes that `_db_looks_populated` distinguishes.

**Harvest.** `pc` is the place in `harvest_loop`, `due` and `waiting` are the
jobs of each item that `claim_job` finds now or later.

**Discovery.** A place in the listing stands for a connector's page number,
offset or continuation, `page` for what its generator still holds, `mine` for
the rows that `run_discovery` has flushed. `Begin` to `Finish` is one call of
it; `PageFails` is the exception that a job turns into a recorded failure and a
command into a rollback.

**Fetch.** `RunIngestItem` to one of the ends is one try of the job;
`url`, `asked` and `transient` are the locals of `get_with_fallback` and
`request_with_retry`, `saved` and `permanent` those of the download loop. What
a server answers is free.

**Classification.** A word is what the tables of rules say of it; `Evident`,
`Vetoed` and `Score` are `score_categories`, `Selections` is
`select_assignments`, `Classify` is the pipeline's use of it and
`Contradictions` the audit's.

**Rebuild.** `row` are the committed `FileAsset`s, `mine` the same rows as the
session of the command has them, `objects` the stored files. A work goes
through `Inspect`, `Build`, `Check`, `Put`, `Flush` and `Count`.

**Catalog.** `rows` are the committed `work_categories`, `mine` those of the
transaction that has the write lock. A pass is a call of
`ensure_classification`, at the start of a web process or by the command;
`Swallow` is the `except` of the former.

**WebRequests.** A thread holds the request it has handled but not committed:
what it read decides what it will write. `Commit`, `Conflict` and `BusyTimeout`
are the three ends of `get_db`. **RateLimit** and **Visits** follow their
functions operation by operation on the deque and the file.

**Browse.** A request is several statements, and on SQLite each sees the latest
commit: `Count`, `Ids` and `Load` are `count_ids`, `page_ids` and
`load_works_ordered`, `Match` and `Allow` the statements of `search_works`.
`Contents` has the seven kinds of listing with their conditions and orders;
relevance, years and the filters of a search are constants. `Publish`, `Hide`,
`View`, `Gather` and `Refresh` happen between any two statements.

**Forms.** A tab is blank, loading, at a form, or posting it; `cookie` is the
browser's one cookie, `pending` what the response under way will set. `Send` is
the middleware, `CsrfProtect` the check, `Expire` the loss of the cookie.

**EpubBuild.** The text is read line by line, a line being its kind; `PartsOf`,
`Pack` and `Built` cut and merge the chapters as `mARkdown_to_chapters`,
`_pack_chapters` and `build_epub` do, the last for Wikisource too.

**Ranges.** One request for a file: `Answer` is `file_response_with_range`,
branch by branch, and the body is the set of the bytes read.

## 4. Runs

Small components that share no state are explored by one run, each with the
others at rest: `MCSources`, `MCRights`, `MCUpkeep` and `MCWeb` are such
modules, and a variable `part` says which component moves.

| Run | What it shows |
|---|---|
| `queue_databases` | two workers on Postgres with a cancellation, and the one consumer of a SQLite file, with a discovery job, two crashes and a job that can never commit, last in the order: `ClaimIsCurrent`, `RetryBudget`, `SettledStays`, the refinement of `JobLifecycle`, and `JobsSettle` for the other jobs |
| `queue_two_consumers` | two consumers of one SQLite file run one job twice (a violation, section 8) |
| `ingestion_full` | two offers of one book, repeated contents, one fault anywhere, an admin: files intact, publication justified, verdicts true, and the refinement of `PublicCatalog` |
| `ingestion_verdicts` | three items, one fault, no admin: each gets a verdict, and nothing is left half-made (the clause of `NothingHalfMade` on two public works has nothing to say here, since one item publishes by itself; `WorksAreWhole` proves it) |
| `ingestion_complement` | a file of uncertain rights reaches a public page (a violation) |
| `restore_boots` | boots in and outside production, an upgrade, kills in every phase |
| `sources` | the harvest loop with an item gone for good, one that fails otherwise or none, and three faults: it ends, with a true verdict, unless it tries the failing item for ever; two passes of discovery over a listing of every kind miss nothing when they say so; an item's files are given up only for what every URL answered |
| `web_process` | racing requests, rate-limit calls, counter increments: what was answered is kept, and every call ends; walks over seven listings that change under way skip nothing they should show and show nothing hidden; forms from three tabs are accepted |
| `web_blocked` | a page view is refused while a job runs (a violation) |
| `rights_decisions` | every combination of source, license, trust, death year, lending, authorization, flag; and every book of a few telling words: the audit agrees with the rules; and every pair of an item and a work: what is merged, what is not, and what is not catalogued anew without a review |
| `rights_duplicates` | the same pairs: a match that is not certain is merged, or catalogued anew, without a review (a violation) |
| `upkeep` | EPUBs replaced next to a worker and a reader; the catalog reclassified by a boot and a command next to an admin and a worker; every text of five lines becomes an EPUB with all of it; every range gets its bytes |

**Bounds.** `queue_databases`: three jobs give an order by priority and by id
and one job on its last try, a fourth never commits; two workers suffice for a race on a row, and the proofs
lift both. `ingestion_*`: two or three works, three contents (two formats, one
content that may change between tries), at most two live jobs per item, which
is what one requeue beside a retry makes. `restore_boots`: two releases (one
upgrade), two parts of an archive (some or all), two edits, two kills.
`sources`: four items, of which the first is gone and at most one other fails
in any of the ways there are, batches of two, so that two rounds of discovery are
needed; three faults against a failure limit of three, so that both limits can
be reached. A listing of four or five items in pages of two, so that it may end
on a full page and exceed `MaxPages`; categories that overlap; a limit of two
new rows, so that a pass may stop early; two passes, one a job. Two requests to
a URL and two tries of a job give each a last one and one before. `web_process`: two threads with four requests (two toggles that
race, then two more), two events per window with five calls over four ticks,
two processes with four increments and one kill; five
works of which four are public, two to a page, so that a listing has a full and
an empty last page, and two changes; three tabs with four requests and one lost
cookie. `rights_decisions`: the death
years on both sides of the limit and unknown; two telling words in a title, one
elsewhere and one tag, enough for the evidence of a category, the marker that
vetoes it and the exception; seven titles over three words, three names (two
alike), years equal, near and far, volumes alike and unknown, and second
authors where no volumes are compared. `upkeep`: two
books, a commit at every second, two runs of the command; three works, of which
the new rules move one, add to one and leave one, two passes and two edits;
parts of two paragraphs and at most two files, so that five lines are cut
and merged (the second packing has nothing left to do with so few; that it
drops nothing either is `NothingDropped`); files of zero, one and four
bytes with numbers up to one beyond the end.
`MaxJobs`, `MaxFaults`,
`MaxRequests`, `MaxTime`, `MaxCalls`, `MaxVisits`, `MaxKills`, `MaxEdits`,
`MaxRuns`, `MaxChanges`, `MaxSent`, `MaxExpired`, `MaxLines` are bounds of the model; every other constant is a setting of the program.

Most runs turn deadlock checking off because their systems do stop: bounded
inputs are used up, jobs are settled, loops return. `restore_boots` checks it.

**Fairness.** *JobQueue*: workers poll for ever (`worker.py main`), a handler
ends because every network call has a timeout, clocks advance, and a stopped
worker is restarted by the platform (`render.yaml`); on SQLite this is asked of
the one consumer there is. *Ingestion*: a worker keeps running each item's jobs, the claim that `JobsSettle` makes of the queue; the
liveness property excepts operators who requeue for ever. *Harvest*: the loop
is one process that goes on; nothing is assumed about the clock, so a job
waiting for its retry may stay there; what fails at each try may be tried for
ever, and `HarvestEnds` says that nothing else keeps the loop going.
*WebRequests*: a thread that has handled a request goes on to its commit or its
timeout; jobs may hold the lock for ever. *Visits*: a running process takes its next step when the lock is free.
*Discovery*, *Fetch*, *Classification*, *Duplicates*, *Rebuild*, *Catalog*,
*EpubBuild*, *Ranges*, *Browse*, *Forms* and *Restore* have safety properties
only and need none.
No strong fairness is assumed anywhere.

## 5. What is proved

`JobQueueProofs`, for every set of jobs and workers, every priority and every
limit:

* `TypeCorrect`, with no assumption on the deployment;
* `ClaimsAreCurrent`, `BudgetIsKept`, `SettledIsFinal`,
  `QueueImplementsLifecycle`, under `SafeDeployment`: row locks are honoured, or
  there is one consumer and nobody cancels. Without it the properties are false
  (`queue_two_consumers`).

The invariant is `IInv == TypeOK /\ ClaimIsCurrent /\ RetryBudget /\
Provenance`. `RetryBudget` alone is not inductive: a commit adds one to the
count the session *read*, so the count is right only if that is still the
row's, which is `ClaimIsCurrent`; and that holds because a row held by one
session is not selected by another (the lock) nor cancelled (the lock again, or
`Cancellable = {}`), which needs `Provenance` for a cancellation that began
before. The proof has one lemma for the steps that do not touch rows, and one
each for the SELECT, the commit and the cancellation; the refinement is proved
by showing that a commit is one try of the abstract job.

`RightsProofs`, for every set of license URLs, every death year and every limit:
`TypeCorrect`, `PublicationIsJustified`, `EvidenceIsAlwaysNeeded`. The invariant
says that the recorded decision is `DecideEligibility` of the recorded request;
the rest is about the function: which conditions every automatic publication
passed, and that weakening a request never raises the rank of its decision.
`TermsKept` is that the names `classify_license` looks for come in an order in
which the first that a Creative Commons URL has is its own.

In the same module, for any titles, names, years and files: `JudgedRight`. One
lemma per likeness (`SimIs`, `YearAlikeIs`, `VolumeAlikeIs`) says that it is
symmetric, bounded, and full for what is equal; `ScoreIs` and `JudgedIs` put the
weights, the caps and the two thresholds together. The proof found what the run
had not: two items by an author of whose name nothing is left once it is
normalized are not found alike, whatever their titles. The property now says
so, and the run has such a name.

Also there, for any words in the texts of a book and any tags: `AuditTrue`.
The sums are folds, which unfold to a function on the finite sets that solves an
equation; where no word gives a point the function that is zero everywhere
solves it, and by a least counterexample in the size of the set there is no
other. So a category that no word and no tag tells has no score (`Untold`); a
primary row has one, hence no veto lies on it and, where the audit asks for
evidence, there is some. The tables of the rules are the definitions of
`Classification`, not parameters.

`IngestionProofs`, for any items, offers, contents, rights, works, librarians
and numbers of faults:

* `TypeCorrect`; `CatalogImplemented` (the refinement of `PublicCatalog`);
  `PublicationIsSound`; `VerdictsAreTrue`;
* `IntactUnlessShared`: `FilesAreIntact` for connectors that give no two files
  of an item one name. With one that does (Gutenberg) it is false, section 8;
* `PublicationIsSound` needs the verdicts: a work missing from the index is one
  that a run raised while indexing; that run left its item failed, and no later
  one lets the item report this work as published, since a run that publishes
  points its item to a new work (`Searchable`);
* `WorksAreWhole`: `NothingHalfMade`. As long as nothing raises, crashes or is
  decided by hand, an item has one job exactly when it is queued, so that a run
  meets no work made from its item, and two works alike carry a review from the
  moment the second is made (`Whole`).

The invariant they share is `Grounded`: every file row has an object and a work
that exists, and so has every item that points to a work. It is what makes a step of a run, whatever was rolled back
before it, a step of the abstract catalog: new contents are those without a
row, so that `Receive` finds them not held. `Kinds` sorts the many ways a step
can end into four: files come to a work, a work is made, a librarian decides,
or the catalog stays; the refinement and the justification of publications are
proved once for each. The verdicts need the actions one by one.

`WebProofs`, for any number of threads, users, processes and tabs. A step of
`MCWeb` is a step of one part that leaves the others alone (`StepOfAPart`), so
each part has its own invariant:

* `AnswersKept`: what is promised is nearly inductive; that no handler has read
  more views than pages were served makes it so (`WebInv`).
* `LimitExact`. While no two calls met (`~raced`), the deque is the end of the
  list of admitted calls, and what was dropped from it is older than the window
  (`Remembered`, `CallKnows`); for racing calls a count suffices, of the entries
  and of the threads about to append one (`RoomLeft`).
* `CounterTrue`. Every increment under way will add one to what it has read or
  will read, so what the file or the holder of the lock has, plus those that
  have not read yet, never exceeds the page views (`NotAhead`); undisturbed, the
  file or the holder has exactly those that returned (`Accounted`).
* `FormsAccepted`. That the form of a tab agrees with the cookie lasts only
  because all responses under way bring the same token, and a page under way
  makes its form from it: that is `Agreed`, and `Made` says that a token yet to
  be made is under way nowhere.
* `HiddenKept`. Every list a statement answers with is of works, one made from
  the works themselves is of published ones (`ListingsAre`), and while a page is
  under way what is published is in `open` (`BrowseInv`).
* `NothingSkipped`. Each listing keeps the order of one list of works
  (`PickedLists`, `SortedLists`). The key is `Forward`: if all that was ahead of
  an entry still is, then, by counting, the entry is not among the first k now
  unless it was before. So publishing and views bring forward only what has
  moved, hiding what lies ahead brings forward nothing the visitor is done with,
  and the pages before the one asked for have passed him (`Covered`); that the
  last page takes in all there is lasts while its count is not overtaken. As long
  as nothing moves he has seen exactly the pages so far, in the order of the list
  (`Exact`). The proof showed that `TooLate` was too wide: publishing while the
  last page is loaded, or while a search is between its statements, loses nothing,
  so these are no gaps any more and the property says more.
* `TypesTrue`. The bounds in the types hold because each request and each
  increment under way is one that began and has not been counted yet
  (`RoomForOne`, `Busy`), and each token one that a request made.

`SourcesProofs`, for any listings, plans of files, fates and limits:

* `GivesUpLate`. A file passed over has an answer that speaks of it (`Spoken`),
  and while OpenITI's URLs are asked in turn those before the current one have
  refused, unless a server was busy (`RefusedUpto`).
* `RoundsTrue`, under `FewGone`: fewer items are gone for good than
  `requeue_failed` takes at a time. With more it is false: they fill the window
  and starve those behind (section 8). A drain that ran nothing ended with an
  empty queue, and nothing was requeued before it.
* `DiscoveryComplete`. Every place in the listing has what is behind it, and all
  that can be reached and is behind a pass is on the page in its hands, in rows,
  in its own transaction or being looked up (`Passed` within `Noticed`); a pass
  that ends below its limit has everything behind it.
* `TypesKept`. What a drain ran and has left never exceed three batches, rounds
  without anything never exceed their limit, and of n entries in order at most n
  have fewer than n before them.

`RestoreProofs`, for any releases, boots, kills and edits:

* `TypeCorrect` and `EditsKept`. The file is replaced only in "copying", which
  follows "downloading"; the reason a boot had to go there still holds then
  (`Downloading`): another release's marker in production, else a file that
  did not look populated. Outside production, so, no log is ever left next to a
  file it does not belong to (`NoForeignLog`).
* `SnapshotServed` and `MarkerTrue`, under `SteadyDeployment`: releases have
  names and follow one another, and every boot restores the storage. These are
  the values of the run. A boot either finds the marker current, which means
  that everything is there, and touches nothing, or undertakes the whole
  restore and writes the marker last (`Progress`); a later release never
  meets its own marker (`MarkerNotAhead`), which is what rollbacks would break.

`UpkeepProofs`, for any works, rules, readers, passes and sizes:

* `NoFileTaken`. The invariant follows a digest from where it is stored to
  where it may be read: what the command is about to flush, its uncommitted
  rows, what the worker is about to commit, and what a reader is about to open.
* `OnePrimaryKept`, `VersionTrue`. A pass that assigns holds the lock, and its
  own rows are none for the works it has yet to do, today's for those it has
  done, and the committed ones for all others (`Assigning`); that the rules
  themselves give one primary category is an assumption on the constants.
* `ExactRanges`. The invariant is that a response is the answer to its request;
  the lemmas are about the arithmetic of `Slice` and its three callers.
* `NothingDropped`. While a text is read, the chapters so far and the unfinished
  one hold each line of the book read so far once, in order, under the title of
  the last heading before it (`Reading`). Then each stage keeps this: cutting
  puts every entry at one place of one piece (`Places`), parts of chapters are
  `Fine` (each line is told once, under its heading), merging and merging again
  keep them so (`PackKeeps`), and laid end to end they are `Good` elements.
  `FlattenSeq` is recursive; it is taken as the solution of its equation, which
  exists for every length (`FlatExists`).

`DataLemmas` has what these proofs share. The library's theorems of induction
take an operator, which no prover here can instantiate; `LeastNatural` derives
from the well-founded order of finite sets that a set of naturals has a least
member, and `AllNaturals` is induction for a set instead of a predicate. From
these follow what a sorted list (`InOrderIs`, `AscendingIs`) and a filtered one
(`AmongIs`, `AmongOrder`) consist of, and where their entries stand (`Forward`).

Assumptions of the proofs are the `ASSUME`s of the modules, which the runs
evaluate on their instances, and the premises a theorem names
(`SafeDeployment`, `SteadyDeployment`, `FewGone`, `SharedName = {}`), which the instances satisfy
where the run expects the property to hold.

**Only model-checked**: all liveness (`JobsSettle`, `ItemsSettle`,
`HarvestEnds`, `CallsEnd`), which the prover cannot treat under fairness. Every
invariant and action property that a passing run checks is stated by a theorem,
`FilesAreIntact`, `RoundsAreTrue` and those of the queue and of the restore
under the premise given above.

## 6. What is not modelled

Slugs, authors and publishers (`catalog/resolve.py`): one author stands for
all; their look-up-then-insert is covered where it can lose something, in
`Discovery` and `Rebuild`, and is serialized on SQLite. Of search, the
normalization of the query, relevance as a number, and the orders other than by
relevance. Of classification, the matching of Arabic phrases, the order of
equal scores and most of the tables of rules; of reclassification, the cleaning
of titles; of fetching, throttles and delays. Covers, templates, theme,
sanitizing, PDF building (test data), configuration and seed data: no state
whose order matters. Passwords and signed sessions: calls of libraries. The
page of one book, the readers and the admin lists: single queries. Publishers,
licenses and import events are left out of `Ingestion`. Postgres is modelled
for the queue only: search needs SQLite's FTS5, so the rest of the program runs
on SQLite, where writers are serialized. The race of two `put`s of one content
is not modelled: `Ingestion` has one consumer, and `Rebuild` one put at a time.

## 7. Reading a property

Every property stands at the end of its module under a comment that says which
behaviour of the code it is about. History variables (`ran`, `approved`,
`raced`, `disturbed`, `viewed`, `steady`, `last`, `missed`, `swallowed`, ...) are marked as such; the code does not have
them. Operators whose comment begins with "Mutant" are wrong variants of the
definition that follows: with one in its place, a run must fail.

## 8. Where the code and its documents disagree

Shown by runs, quoted in `PROJECT.json`:

* Two consumers of a SQLite queue run one job twice (`queue_two_consumers`).
* A duplicate of uncertain rights adds its file to a public work
  (`ingestion_complement`).
* The worker holds SQLite's write lock while it downloads, and page views fail
  (`web_blocked`).
* Matches that are not certain are not reviewed (`rights_duplicates`). Where
  `03-ingestion-and-connectors.md:67` merges only files with the same hash or
  ISBN and calls the rest candidates, books of one title, author and year score
  0.9 and are merged. The lookup takes any author of a work but the score
  compares the first, and an equal title by another author scores at most 0.45,
  below the review the table promises: a book found by its second author is
  catalogued anew. The run shows the second kind; with one name in `MCAuthors`
  it shows the first. No `duplicate_candidates` row is ever made.

Read in the code while modelling it, without a run:

* `eligibility.py:30` lets BY-ND and BY-NC-ND be published automatically;
  `03-ingestion-and-connectors.md:46` lists BY, BY-SA, BY-NC, BY-NC-SA and CC0.
* `PermanentHTTPError` is "raised when every fallback URL is gone (404/410)"
  (`http.py:30`); the code raises it also when they all answered 403 or broke
  (the answers "refused" and "odd" of *Fetch*), and `requeue_failed` then skips
  the item for good.
* A primary category needs 0.52 and a second one 0.72 (`engine.py:166`);
  `03-ingestion-and-connectors.md` says 0.45 and 0.55.
* `search_fts` is "kept in sync in the same transaction as publish/hide"
  (`02-domain-and-database.md:67`); hiding leaves it alone, as do
  reclassification and the repair of titles.
* The archive's listing is read for forty pages of fifty, most downloaded first:
  what is beyond is never discovered (`Reachable` of *Discovery* says so).
* A rebuild of a lost object whose bytes come out as before is "unchanged" and
  leaves it lost (`Check` of *Rebuild*); a work with two source items fails in
  every run (`rebuild_epub.py:138`); a failed flush ends the command, since the
  log line of the handler reads an expired attribute.
* An admin can publish a work without files, against
  `02-domain-and-database.md:42`.
* An item whose second author is the first under another spelling breaks the
  unique constraint of `work_contributors` (`pipeline.py:258`) in every try.
* `delete_work_index` is never called and nothing sets `FileAsset.withdrawn`.
* `cover_file` serves the covers of works that are not public; the pages of the
  readers open without the file they are to show. The number of a search page is
  not clamped as that of a listing is.
* A category page counts a work once; the counts under an ancestor
  (`rolled_counts`) count it once for each of its categories there.
* A refresh that selects nothing keeps the old members of a collection.
* Two first pages of a visitor opened at once get two tokens, and the form that
  came first is refused until it is loaded again (`FormsAreAccepted` excepts it).
* Only the first of several ranges is served, without saying so.
* A text of more than 1.9 million paragraphs is packed in groups of more than
  `PARA_CAP`, looks cut off, and is rebuilt at each run of the command.

Found while modelling, excluded from the runs by a constant or by a premise of
the property, and shown by changing it:

* *JobQueue*, `Poison = {1}` in `JobQueue_databases.cfg`: a job whose handler
  always breaks the session is rolled back uncounted, stays first in the order
  and starves all others of a single consumer (`JobsSettle`).
* *Ingestion*: without `faults = 0` in `NothingHalfMade`: the retry after an
  exception finds the half-made draft of the first try and reports the item as
  its duplicate, leaving a draft that no review mentions.
* *Ingestion*: without `faults > 0` in `PublishedIsSound`: an exception in
  `index_work` comes when the work is already public, and is committed with it;
  the retry calls the item its duplicate, and the book is never indexed unless a
  librarian publishes it again.
* *Ingestion*, `SharedName = {1}` and `FilesAreIntact`: Gutenberg's fallback
  URLs share a temporary file, so an object's bytes need not match its key.
* *Ingestion*, an item with two jobs (a requeue while an earlier job waits) is
  processed twice; the second run finds its own work and relabels the item.
* *Ingestion*, repeated content within one item: the flush fails every time and
  the job never ends (the second disjunct of `RollBack`).
* *Restore*: a service killed with commits in its write-ahead log, then an
  upgrade: the old log is replayed into the new file. The database is then
  `"mixed"`, which `Copied` accepts so that the properties speak of the copy.
* *Restore*: outside production a copy cut off after five megabytes passes for
  a populated database; the marker is emptied and rewritten at each boot, and a
  kill in between makes the next production boot replace an edited catalog
  (the premise `marker = deployed` of `EditsAreKept`); with
  `Rollbacks = TRUE` the marker of an interrupted upgrade can vouch for the
  wrong database.
* *Harvest*: an item that fails in every try without a permanent error is
  requeued in every round, and the loop neither discovers nor ends; the second
  disjunct of `HarvestEnds` is for that. Enough items "gone" for good at the
  front fill the window of `requeue_failed` and starve those behind (`FewGone`).
* *Discovery*: without `steady` in `DiscoveryIsComplete`, an item that moves to
  the front of the listing pushes another over the boundary of two pages, and
  the pass misses it.
* *Classification*: `Unseen` is what `find_misplaced` reports although the rules
  chose it: it looks at the title alone, and not at the tag that allows a
  medical book.
* *Catalog*: without `~swallowed` in `OnePrimary`, a web process whose
  reclassification fails commits the deleted rows and serves works without a
  category, until a later pass repairs those it lists. Without `missed` in
  `VersionIsTrue`, works that were drafts or hidden during the pass keep the
  rows of the old rules though the version is current, and new works keep rows
  made without their authors' names.
* *RateLimit*: without `~raced` in `WindowKept`, two threads pass the test
  together and overrun the limit; they can also fail with IndexError.
* *Visits*: without `~disturbed`, two processes that create the file lose
  counts, and a kill between truncate and dump resets it.
* *Browse*: without `~gaps` in `NothingIsSkipped`, hiding a work on a page already
  seen pulls one over the boundary to the next page, which the visitor misses.
* *Rights*: a CC0 URL is recorded as public domain (line 53 is tested before
  56); the archive rule does not use death years as `01-decisions.md:39` has
  it; `explicitly_authorized` is never passed by the pipeline, and the
  Gutenberg connector always passes `copyright_flag = False`.
