------------------------------ MODULE Discovery -----------------------------
(***************************************************************************)
(* Passes of run_discovery (ingestion/pipeline.py) over one source: the    *)
(* connector fetches its listing page by page, and each new candidate      *)
(* becomes a row and a job in the pass's transaction.  A pass runs in a    *)
(* command, or as a job whose failure is recorded in the same transaction. *)
(* The sources differ in how they page:                                    *)
(*   "internet_archive"  numbered pages, up to MaxPages of them,           *)
(*   "oapen"             an offset, as long as pages are full,             *)
(*   "wikisource_ar"     categories, each continued after its last title,  *)
(*   "gutenberg", "openiti"  one file with everything.                     *)
(* The listing may change between two requests of a pass.                  *)
(***************************************************************************)
EXTENDS Naturals, SequencesExt, Orders

CONSTANTS
    Sources,        \* the sources to explore
    Items,          \* what a source may list
    Fitting,        \* the items that pass the connector's filters
    Categories,     \* the categories of wikisource: a sequence of sets of items
    Rows,           \* page size
    MaxPages,       \* 40 in the code
    Limit,          \* new rows per pass
    Passes, Jobs,   \* the passes, and those that are jobs
    MaxChanges,     \* bound on changes of the listing
    None

VARIABLES
    source,
    listing,        \* what the source lists, in its order
    rows,           \* committed source_items, each with its job
    lock,           \* the pass whose transaction has written, if any
    pc, at, page, created, mine,    \* by pass: its place, where it is in the
                    \* listing, what is left of the page, new rows, and those
                    \* not committed
    checked,        \* by pass: the candidate it has looked up
    steady,         \* history: the listing has not changed since the pass began
    changes         \* changes of the listing so far

pass == <<pc, at, page, created, mine, checked>>
vars == <<source, listing, rows, lock, pass, steady, changes>>

Ends == {"done", "failed"}

TypeOK ==
    /\ source \in Sources
    /\ IsInjective(listing) /\ ToSet(listing) \subseteq Items
    /\ rows \subseteq Items /\ lock \in Passes \union {None}
    /\ pc \in [Passes -> {"idle", "fetch", "scan", "insert"} \union Ends]
    /\ created \in [Passes -> 0 .. Limit]
    /\ \A p \in Passes :
        /\ ToSet(page[p]) \subseteq Items /\ mine[p] \subseteq Items
        /\ checked[p] \in Items \union {None}
        /\ mine[p] # {} => lock = p
    /\ steady \in [Passes -> BOOLEAN] /\ changes \in 0 .. MaxChanges

\* A place in the listing: the category (1 elsewhere) and how far it was read,
\* by number of rows or, in a category, by the last title.
Start == [category |-> 1, after |-> 0]

Init ==
    /\ source \in Sources
    /\ \E i \in Items \union {None} : listing = Ascending(Items \ {i})
    /\ rows = {} /\ lock = None
    /\ pc = [p \in Passes |-> "idle"]
    /\ at = [p \in Passes |-> Start]
    /\ page = [p \in Passes |-> <<>>]
    /\ created = [p \in Passes |-> 0]
    /\ mine = [p \in Passes |-> {}]
    /\ checked = [p \in Passes |-> None]
    /\ steady = [p \in Passes |-> TRUE]
    /\ changes = 0
-----------------------------------------------------------------------------
(***************************************************************************)
(* The listing and the connectors' way through it.                         *)
(***************************************************************************)
Whole == source \in {"gutenberg", "openiti"}
ByTitle == source = "wikisource_ar"

\* An item is added, at its title's place or at the end, or (unless titles give
\* the order) becomes the most downloaded.
ListingChanges ==
    /\ changes < MaxChanges /\ changes' = changes + 1
    /\ \E i \in Items :
        \/ i \notin ToSet(listing)
           /\ listing' = IF ByTitle THEN Ascending(ToSet(listing) \union {i}) ELSE Append(listing, i)
        \/ ~ByTitle /\ i \in ToSet(listing) /\ listing' = <<i>> \o Among(listing, Items \ {i})
    /\ steady' = [p \in Passes |-> FALSE]
    /\ UNCHANGED <<source, rows, lock, pass>>

\* What is left of the listing, or of the category, at a place.
Rest(place) ==
    IF ByTitle
    THEN Among(listing, {i \in Categories[place.category] : i > place.after})
    ELSE SubSeq(listing, place.after + 1, Len(listing))

\* What a request at a place is answered with.
PageAt(place) ==
    LET rest == Rest(place)
    IN  SubSeq(rest, 1, IF Whole \/ Len(rest) < Rows THEN Len(rest) ELSE Rows)

\* Mutant of IsLast: a full page is taken for the last one.
FullIsLast(place) ==
    IF ByTitle
    THEN Len(Rest(place)) <= Rows /\ place.category = Len(Categories)
    ELSE \/ Whole \/ Len(PageAt(place)) <= Rows
         \/ source = "internet_archive" /\ place.after + Rows >= Rows * MaxPages

\* No page is asked for after this one: no continuation in the last category, or
\* a page that is not full, or the last the connector asks for.
IsLast(place) ==
    IF ByTitle
    THEN Len(Rest(place)) <= Rows /\ place.category = Len(Categories)
    ELSE \/ Whole \/ Len(PageAt(place)) < Rows
         \/ source = "internet_archive" /\ place.after + Rows >= Rows * MaxPages

\* The next place; a category that is used up is followed by the next one.
PlaceAfter(place) ==
    CASE IsLast(place) -> None
      [] ~IsLast(place) /\ ByTitle /\ Len(Rest(place)) <= Rows ->
            [category |-> place.category + 1, after |-> 0]
      [] ~IsLast(place) /\ ByTitle /\ Len(Rest(place)) > Rows ->
            [place EXCEPT !.after = Last(PageAt(place))]
      [] OTHER -> [place EXCEPT !.after = @ + Rows]
-----------------------------------------------------------------------------
(***************************************************************************)
(* A pass.                                                                 *)
(***************************************************************************)
MayWrite(p) == lock \in {None, p}

\* A job's pass begins with the claim, which writes.
Begin(p) ==
    /\ pc[p] \in {"idle"} \union Ends
    /\ p \in Jobs => MayWrite(p)
    /\ lock' = IF p \in Jobs THEN p ELSE lock
    /\ pc' = [pc EXCEPT ![p] = "fetch"]
    /\ at' = [at EXCEPT ![p] = Start]
    /\ page' = [page EXCEPT ![p] = <<>>]
    /\ created' = [created EXCEPT ![p] = 0]
    /\ steady' = [steady EXCEPT ![p] = TRUE]
    /\ UNCHANGED <<source, listing, rows, mine, checked, changes>>

FetchPage(p) ==
    LET got == PageAt(at[p]) IN
    /\ pc[p] = "fetch"
    /\ page' = [page EXCEPT ![p] = Among(got, Fitting)]
    /\ at' = [at EXCEPT ![p] = PlaceAfter(@)]
    /\ pc' = [pc EXCEPT ![p] = "scan"]
    /\ UNCHANGED <<source, listing, rows, lock, created, mine, checked, steady, changes>>

\* The page is used up and there is another one.
Turn(p) ==
    /\ pc[p] = "scan" /\ page[p] = <<>> /\ at[p] # None
    /\ pc' = [pc EXCEPT ![p] = "fetch"]
    /\ UNCHANGED <<source, listing, rows, lock, at, page, created, mine, checked, steady, changes>>

\* The next candidate is looked up: skipped if it has a row.
LookUp(p) ==
    LET i == Head(page[p]) IN
    /\ pc[p] = "scan" /\ page[p] # <<>> /\ created[p] < Limit
    /\ page' = [page EXCEPT ![p] = Tail(@)]
    /\ IF i \in rows \union mine[p]
       THEN UNCHANGED <<pc, checked>>
       ELSE pc' = [pc EXCEPT ![p] = "insert"] /\ checked' = [checked EXCEPT ![p] = i]
    /\ UNCHANGED <<source, listing, rows, lock, at, created, mine, steady, changes>>

\* Row and job of the candidate are flushed; the first flush takes the lock.
Insert(p) ==
    /\ pc[p] = "insert" /\ MayWrite(p) /\ checked[p] \notin rows
    /\ lock' = p
    /\ mine' = [mine EXCEPT ![p] = @ \union {checked[p]}]
    /\ created' = [created EXCEPT ![p] = @ + 1]
    /\ pc' = [pc EXCEPT ![p] = "scan"]
    /\ checked' = [checked EXCEPT ![p] = None]
    /\ UNCHANGED <<source, listing, rows, at, page, steady, changes>>

\* The transaction of a pass is over.
Leave(p, end) ==
    /\ lock' = IF lock = p THEN None ELSE lock
    /\ mine' = [mine EXCEPT ![p] = {}]
    /\ pc' = [pc EXCEPT ![p] = end]
    /\ checked' = [checked EXCEPT ![p] = None]
    /\ UNCHANGED <<source, listing, at, page, created, steady, changes>>

\* The limit is reached, or the listing is at its end.
Finished(p) == IF page[p] = <<>> THEN at[p] = None ELSE created[p] >= Limit

\* last_success_at is written and the pass committed.
Finish(p) ==
    /\ pc[p] = "scan" /\ MayWrite(p) /\ Finished(p)
    /\ rows' = rows \union mine[p]
    /\ Leave(p, "done")

\* A page cannot be fetched: a job records its failure and commits what it has.
PageFails(p) ==
    /\ pc[p] = "fetch"
    /\ rows' = IF p \in Jobs THEN rows \union mine[p] ELSE rows
    /\ Leave(p, "failed")

\* A row another pass committed since the look-up, a wait for its lock that
\* takes too long, the end of the process: everything is rolled back.
RollBack(p) ==
    /\ \/ pc[p] = "insert" /\ checked[p] \in rows
       \/ pc[p] = "insert" /\ ~MayWrite(p)
       \/ pc[p] \in {"fetch", "scan"}
    /\ rows' = rows
    /\ Leave(p, "failed")

Next ==
    \/ ListingChanges
    \/ \E p \in Passes :
        \/ Begin(p) \/ FetchPage(p) \/ Turn(p) \/ LookUp(p) \/ Insert(p)
        \/ Finish(p) \/ PageFails(p) \/ RollBack(p)

Spec == Init /\ [][Next]_vars
-----------------------------------------------------------------------------
(***************************************************************************)
(* Properties.                                                             *)
(***************************************************************************)
\* What a pass can come to see of the listing as it is.
Reachable ==
    {listing[k] : k \in {j \in DOMAIN listing :
        /\ listing[j] \in Fitting
        /\ source = "internet_archive" => j <= Rows * MaxPages
        /\ ByTitle => \E c \in DOMAIN Categories : listing[j] \in Categories[c]}}

\* A pass that ends with less than its limit leaves nothing to discover, if the
\* listing stood still: no page, category, row of another pass or failure of
\* one hides an item.  harvest_loop takes "nothing new" for "no more".
DiscoveryIsComplete ==
    \A p \in Passes :
        pc[p] = "done" /\ steady[p] /\ created[p] < Limit => Reachable \subseteq rows
=============================================================================
