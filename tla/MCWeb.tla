-------------------------------- MODULE MCWeb -------------------------------
(***************************************************************************)
(* The parts of a web process for TLC.  Writing requests, the pages of the *)
(* catalog, the tokens of forms, the rate limit and the visitor counter    *)
(* share no state that matters to the others, so a run explores each of    *)
(* them with the others at rest: part says which.                          *)
(***************************************************************************)
EXTENDS Forms, Sequences, FiniteSets

CONSTANTS
    Parts,                                          \* the parts to explore
    Threads, Users, Emails, Jobs, MaxRequests,      \* WebRequests
    Works, Shelf, Rank, Fits, Shelved, Bibliography, Listings, Per, MaxChanges,     \* Browse
    MaxEvents, Window, MaxTime, MaxCalls,           \* RateLimit
    Processes, Empty, Firsts, MaxVisits, MaxKills   \* Visits

ASSUME PartsAssumption == Parts \subseteq {"requests", "browse", "forms", "limit", "visits"}
ASSUME ActorsAssumption == None \notin Threads \union Users \union Emails \union Processes
ASSUME ListingsAssumption ==
    Listings \subseteq {"newest", "views", "category", "author", "sitemap", "search", "collection"}
ASSUME ShelfAssumption ==
    /\ Works \subseteq Nat /\ {Fits, Shelved} \subseteq SUBSET Works /\ Per \in Nat \ {0}
    /\ Shelf \in Seq(Works) /\ Rank \in Seq(Works) /\ Bibliography \in Seq(Works)
    /\ \A s \in {Shelf, Rank, Bibliography} : \A i, j \in DOMAIN s : s[i] = s[j] => i = j
ASSUME LimitAssumption == MaxEvents \in Nat \ {0} /\ Window \in Nat
ASSUME ContentsAssumption ==
    None # Empty /\ {None, Empty} \intersect Nat = {} /\ Firsts \subseteq Nat \union {None, Empty}
ASSUME ThreadsAssumption == IsFiniteSet(Threads)
ASSUME PartsBoundsAssumption ==
    Jobs \in BOOLEAN /\ {MaxRequests, MaxChanges, MaxTime, MaxCalls, MaxVisits, MaxKills} \subseteq Nat

VARIABLES
    part,
    views, hidden, favorites, accounts, lock, thread, viewed, toggled, registered, refused, requests,
    shelf, published, indexed, popularity, members, gathered, changes,
    at, listing, page, pages, ids, seen, start, open, moved, gaps,
    clock, q, pc, now, admitted, refusals, raced, calls,
    file, flock, step, n, begun, counted, shown, first, disturbed, kills

web == <<views, hidden, favorites, accounts, lock, thread, viewed, toggled, registered, refused, requests>>
browse == <<shelf, published, indexed, popularity, members, gathered, changes,
            at, listing, page, pages, ids, seen, start, open, moved, gaps>>
bucket == <<clock, q, pc, now, admitted, refusals, raced, calls>>
counter == <<file, flock, step, n, begun, counted, shown, first, disturbed, kills>>

W == INSTANCE WebRequests
B == INSTANCE Browse WITH views <- popularity
R == INSTANCE RateLimit
V == INSTANCE Visits

\* Five works: four published so far, and one that is not; the query's, the
\* author's and the shelf's orders differ.
MCShelf == <<3, 1, 4, 2>>
MCRank == <<2, 5, 4, 1, 3>>
MCBibliography == <<4, 5, 2, 1>>

MCInit ==
    /\ part \in Parts
    /\ Init /\ W!Init /\ B!Init /\ R!Init /\ V!Init
    /\ part # "browse" => listing = CHOOSE l \in Listings : TRUE

MCNext ==
    \/ part = "requests" /\ W!Next /\ UNCHANGED <<part, vars, browse, bucket, counter>>
    \/ part = "browse" /\ B!Next /\ UNCHANGED <<part, vars, web, bucket, counter>>
    \/ part = "forms" /\ Next /\ UNCHANGED <<part, web, browse, bucket, counter>>
    \/ part = "limit" /\ R!Next /\ UNCHANGED <<part, vars, web, browse, counter>>
    \/ part = "visits" /\ V!Next /\ UNCHANGED <<part, vars, web, browse, bucket>>

MCSpec == MCInit /\ [][MCNext]_<<part, vars, web, browse, bucket, counter>> /\ W!Fairness /\ V!Fairness
-----------------------------------------------------------------------------
(***************************************************************************)
(* Properties: those of the parts.                                         *)
(***************************************************************************)
\* Rows, cookies, deque and file keep their types.
TypesOK == TypeOK /\ W!TypeOK /\ B!TypeOK /\ R!TypeOK /\ V!TypeOK

\* What concurrent requests were answered is what the tables hold: favorites,
\* accounts and views.
AnswersAreKept == W!AnswersAreKept

\* A page shows what was public at some moment since it was asked for.
HiddenStaysHidden == B!HiddenStaysHidden

\* A walk over the pages of a listing to its end shows every work that was
\* listed throughout, unless one was hidden behind it or came too late.
NothingIsSkipped == B!NothingIsSkipped

\* The worker does not block the app (not kept on SQLite).
AppNotBlocked == W!AppNotBlocked

\* Called one at a time, limit admits at most max_events calls in any window and
\* refuses none without need; racing threads overrun it by one each at most.
LimitKept == R!LimitKept

\* The counter file counts every increment that returned, unless a process was
\* killed or two met while the file was created, and never shows more than were.
CounterIsTrue == V!CounterIsTrue

\* A request is answered or refused, whatever the worker does, and every
\* increment comes to an end.
CallsEnd == W!RequestsEnd /\ V!IncrementsEnd
=============================================================================
