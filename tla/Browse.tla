-------------------------------- MODULE Browse ------------------------------
(***************************************************************************)
(* Reading the catalog page by page (web/app.py, web/helpers.py,           *)
(* search/backend.py) while librarians publish and hide works, readers     *)
(* raise view counts and the featured collections are refreshed.           *)
(*                                                                         *)
(* On SQLite a SELECT outside a writing transaction sees the latest        *)
(* commit, so the statements of one request may see different catalogs:    *)
(* each of them is a step here.  One visitor walks one listing, from its   *)
(* first page on by the link to the next; a crawler takes the numbers of   *)
(* the sitemaps from the index once.  Visitors do not affect each other    *)
(* but by the view counts.                                                 *)
(***************************************************************************)
EXTENDS Naturals, Sequences, SequencesExt, Orders

CONSTANTS
    Works,          \* primary keys
    Shelf,          \* the works published so far, the latest first
    Rank,           \* the works by relevance to the visitor's query (bm25)
    Fits,           \* the works that the filters of the search let through
    Shelved,        \* the works below the category
    Bibliography,   \* the author's works, ORDER BY year DESC, id DESC
    Listings,       \* the listings to walk
    Per,            \* works per page (24, 36, 48; 2000 in a sitemap)
    MaxChanges      \* bound on changes of the catalog

VARIABLES
    shelf,          \* works with a published_at, the latest first
    published,      \* works with publication_status "published"
    indexed,        \* works with a row in search_fts
    views,          \* view_count
    members,        \* of the collection of new works, in order
    gathered,       \* what a refresh has selected, <<>> when none is running
    changes,        \* changes of the catalog so far
    at, listing, page, pages, ids,      \* the visitor's request
    seen,           \* works shown to the visitor so far, in order
    start,          \* the listing when the walk began
    open,           \* works public at some moment since this page was asked for
    moved,          \* works published or viewed since the walk began
    gaps            \* something left the listing, or came to it too late to be counted

catalog == <<shelf, published, indexed, views, members, gathered, changes>>
walk == <<at, listing, page, pages, ids, seen, start>>
vars == <<catalog, walk, open, moved, gaps>>

Places == {"home", "count", "match", "allow", "ids", "load", "end"}

\* offset and limit
Slice(s, p) == SubSeq(s, (p - 1) * Per + 1, IF p * Per < Len(s) THEN p * Per ELSE Len(s))
TypeOK ==
    /\ shelf \in Seq(Works) /\ published \subseteq ToSet(shelf) /\ indexed = ToSet(shelf)
    /\ views \in [Works -> Nat]
    /\ members \in Seq(Works) /\ gathered \in Seq(Works)
    /\ changes \in 0 .. MaxChanges
    /\ at \in Places /\ listing \in Listings
    /\ page \in Nat \ {0} /\ pages \in Nat
    /\ {ids, seen, start} \subseteq Seq(Works)
    /\ open \subseteq Works /\ moved \subseteq Works /\ gaps \in BOOLEAN

Init ==
    /\ shelf = Shelf /\ published = ToSet(Shelf) /\ indexed = ToSet(Shelf)
    /\ views = [w \in Works |-> 0]
    /\ members = Slice(Shelf, 1) /\ gathered = <<>> /\ changes = 0
    /\ listing \in Listings
    /\ at = "home" /\ page = 1 /\ pages = 1 /\ ids = <<>> /\ seen = <<>> /\ start = <<>>
    /\ open = {} /\ moved = {} /\ gaps = FALSE
-----------------------------------------------------------------------------
(***************************************************************************)
(* The listings, each in its order: the ids its statement selects.         *)
(***************************************************************************)
Public(s) == Among(s, published)

Newest == Public(shelf)

Category == Among(Newest, Shelved)

\* ORDER BY view_count DESC, id DESC
MoreViewed(v, w) == views[v] > views[w] \/ (views[v] = views[w] /\ v > w)
MostViewed == InOrder(published, {p \in published \X published : MoreViewed(p[1], p[2])})

Sitemap == Ascending(published)

\* search_fts MATCH, by rank; hidden works keep their rows.
Matches == Among(Rank, indexed)

\* The filters by category, format and year.
Filtered(s) == Among(s, Fits)

Found == Filtered(Matches)

\* What a visitor is to see of a listing.
Contents(l) ==
    CASE l = "newest" -> Newest
      [] l = "views" -> MostViewed
      [] l = "category" -> Category
      [] l = "author" -> Public(Bibliography)
      [] l = "sitemap" -> Sitemap
      [] l = "search" -> Public(Found)
      [] l = "collection" -> Public(members)

\* The statement for the ids; that of a collection takes hidden members too.
Selected(l) == IF l = "collection" THEN members ELSE Contents(l)

\* Mutant of PageCount: the last, incomplete page is forgotten.
PageCountDown(total) == IF total < Per THEN 1 ELSE total \div Per

PageCount(total) == IF total = 0 THEN 1 ELSE (total + Per - 1) \div Per

-----------------------------------------------------------------------------
(***************************************************************************)
(* The visitor.                                                            *)
(***************************************************************************)
First(l) == CASE l = "search" -> "match" [] OTHER -> "count"

\* The first page is asked for, or the sitemap index.
Enter ==
    /\ at = "home"
    /\ at' = First(listing) /\ start' = Contents(listing)
    /\ pages' = IF listing = "sitemap" THEN PageCount(Len(Sitemap)) ELSE pages
    /\ open' = published /\ moved' = {}
    /\ UNCHANGED <<catalog, listing, page, ids, seen, gaps>>

\* count_ids and paginate: a page beyond the last becomes the last.
Count ==
    /\ at = "count" /\ listing # "sitemap"
    /\ pages' = PageCount(Len(Selected(listing)))
    /\ page' = IF page > pages' THEN pages' ELSE page
    /\ at' = "ids"
    /\ UNCHANGED <<catalog, listing, ids, seen, start, open, moved, gaps>>

\* sitemap_page: a page beyond the last is not found.
CountSitemap ==
    /\ at = "count" /\ listing = "sitemap"
    /\ at' = IF page > PageCount(Len(Sitemap)) THEN "end" ELSE "ids"
    /\ UNCHANGED <<catalog, listing, page, pages, ids, seen, start, open, moved, gaps>>

\* The ids of the page; a sitemap is made from this statement alone.
Ids ==
    /\ at = "ids" /\ listing # "sitemap"
    /\ ids' = Slice(Selected(listing), page)
    /\ at' = "load"
    /\ UNCHANGED <<catalog, listing, page, pages, seen, start, open, moved, gaps>>

\* search_works: the rows that match,
Match ==
    /\ at = "match"
    /\ ids' = Matches
    /\ at' = "allow"
    /\ UNCHANGED <<catalog, listing, page, pages, seen, start, open, moved, gaps>>

\* those of them that are published and pass the filters, and a page of these,
\* which may lie beyond the last.
Allow ==
    /\ at = "allow"
    /\ LET allowed == Filtered(Public(ids)) IN
        /\ pages' = PageCount(Len(allowed))
        /\ ids' = Slice(allowed, page)
    /\ at' = "load"
    /\ UNCHANGED <<catalog, listing, page, seen, start, open, moved, gaps>>

\* The page is there; the visitor follows the link to the next one, if any.
Shown(works) ==
    /\ seen' = seen \o works
    /\ IF page < pages THEN page' = page + 1 /\ at' = First(listing) /\ open' = published
                       ELSE at' = "end" /\ UNCHANGED <<page, open>>
    /\ UNCHANGED <<catalog, listing, pages, ids, start, moved, gaps>>

\* Mutant of Loaded: the ids are loaded as they are.
LoadedAll == ids

\* load_works_ordered: the works of the page that are still published.
Loaded == Public(ids)

Load == at = "load" /\ Shown(Loaded)

ShowSitemap == at = "ids" /\ listing = "sitemap" /\ Shown(Slice(Sitemap, page))
-----------------------------------------------------------------------------
(***************************************************************************)
(* The others.                                                             *)
(***************************************************************************)
Walking == at \notin {"home", "end"}
Change == changes < MaxChanges /\ changes' = changes + 1

\* A new entry is too late for a page count that has been taken for the last
\* page, or for the index of the sitemaps.
TooLate == Walking /\ (listing = "sitemap" \/ (at = "ids" /\ page = pages))

\* admin_publish, also of a work that is public already; a run of the pipeline.
Publish(w) ==
    /\ Change
    /\ shelf' = <<w>> \o Among(shelf, Works \ {w})
    /\ published' = published \union {w} /\ indexed' = indexed \union {w}
    /\ open' = open \union {w} /\ moved' = moved \union {w}
    /\ gaps' = (gaps \/ TooLate)
    /\ UNCHANGED <<views, members, gathered, walk>>

\* What has been behind the visitor: when it goes, the rest comes forward.
Behind == ToSet(seen) \union moved \union (IF at = "load" THEN ToSet(ids) ELSE {})

\* admin_hide leaves the index, the collections and the favorites as they are.
Hide(w) ==
    /\ Change /\ w \in published
    /\ published' = published \ {w}
    /\ gaps' = (gaps \/ (Walking /\ w \in Behind))
    /\ UNCHANGED <<shelf, indexed, views, members, gathered, walk, open, moved>>

\* book_detail
View(w) ==
    /\ Change /\ w \in published
    /\ views' = [views EXCEPT ![w] = @ + 1]
    /\ moved' = moved \union {w}
    /\ UNCHANGED <<shelf, published, indexed, members, gathered, walk, open, gaps>>

\* refresh_featured_collections selects the newest works
Gather ==
    /\ Change /\ gathered = <<>>
    /\ gathered' = Slice(Newest, 1)
    /\ UNCHANGED <<shelf, published, indexed, views, members, walk, open, moved, gaps>>

\* and replaces the members by them, if there are any.
Refresh ==
    /\ gathered # <<>>
    /\ members' = gathered /\ gathered' = <<>>
    /\ gaps' = (gaps \/ (Walking /\ listing = "collection"))
    /\ UNCHANGED <<shelf, published, indexed, views, changes, walk, open, moved>>

Next ==
    \/ Enter \/ Count \/ CountSitemap \/ Ids \/ Match \/ Allow \/ Load \/ ShowSitemap
    \/ \E w \in Works : Publish(w) \/ Hide(w) \/ View(w)
    \/ Gather \/ Refresh

Spec == Init /\ [][Next]_vars
-----------------------------------------------------------------------------
(***************************************************************************)
(* Properties.                                                             *)
(***************************************************************************)
\* A page shows what was public at some moment since it was asked for, though
\* the index and the collections keep works that were hidden before: only the
\* statements that read the works tell them apart.
HiddenStaysHidden ==
    [][seen' # seen => ToSet(SubSeq(seen', Len(seen) + 1, Len(seen'))) \subseteq open]_vars

\* A walk over the pages of a listing to its end shows every work that was
\* listed throughout, unless something was hidden under way or came after the
\* last page was counted: what is published or viewed moves toward the front,
\* and shows the visitor some works twice instead.  A walk in which nothing
\* moved shows the listing, in its order.
NothingIsSkipped ==
    at = "end" /\ ~gaps =>
        /\ (ToSet(start) \intersect published) \ moved \subseteq ToSet(seen)
        /\ moved = {} /\ ToSet(start) \subseteq published => seen = start
=============================================================================
