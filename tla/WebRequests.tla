----------------------------- MODULE WebRequests ----------------------------
(***************************************************************************)
(* The web process's writing requests (web/app.py, web/deps.py) on SQLite, *)
(* next to a worker.  A handler runs in a thread of its own with a session *)
(* of its own: it reads rows, which takes no lock, and its changes are     *)
(* written when get_db commits, under the one write lock of the database.  *)
(* process_once has that lock from the flush in claim_job to its commit,   *)
(* downloads included; who waits longer than busy_timeout gets an error.   *)
(*                                                                         *)
(* One work is enough: views and downloads are counted alike, favorites    *)
(* differ by user.                                                         *)
(***************************************************************************)
EXTENDS Naturals, FiniteSets

CONSTANTS
    Threads,        \* threads of the pool
    Users,          \* logged in users
    Emails,         \* addresses people register with
    None,           \* nobody
    Jobs,           \* whether a worker runs jobs on this database
    MaxRequests     \* bound on requests

VARIABLES
    views,          \* Work.view_count
    hidden,         \* Work.publication_status is "hidden"
    favorites,      \* Favorite rows, by user
    accounts,       \* User rows, by email
    lock,           \* whether the worker has the write lock
    thread,         \* the request each thread is handling
    viewed,         \* history: pages of the work served
    toggled,        \* history: favorite requests answered, per user
    registered,     \* history: registrations answered, per email
    refused,        \* history: requests that met the busy timeout
    requests        \* requests so far

tables == <<views, hidden, favorites, accounts>>
history == <<viewed, toggled, registered, refused>>
vars == <<tables, lock, thread, history, requests>>

Idle == [kind |-> "idle", who |-> None, seen |-> 0]

TypeOK ==
    /\ views \in 0 .. MaxRequests
    /\ hidden \in BOOLEAN
    /\ favorites \subseteq Users
    /\ accounts \subseteq Emails
    /\ lock \in BOOLEAN
    /\ thread \in [Threads -> [kind : {"idle", "view", "add", "remove", "register", "hide", "publish"},
                               who : Users \union Emails \union {None}, seen : 0 .. MaxRequests]]
    /\ viewed \in 0 .. MaxRequests
    /\ toggled \in [Users -> 0 .. MaxRequests]
    /\ registered \in [Emails -> 0 .. MaxRequests]
    /\ refused \in 0 .. MaxRequests
    /\ requests \in 0 .. MaxRequests

Init ==
    /\ views = 0 /\ hidden = FALSE /\ favorites = {} /\ accounts = {}
    /\ lock = FALSE
    /\ thread = [t \in Threads |-> Idle]
    /\ viewed = 0 /\ refused = 0 /\ requests = 0
    /\ toggled = [u \in Users |-> 0]
    /\ registered = [e \in Emails |-> 0]
-----------------------------------------------------------------------------
(***************************************************************************)
(* Handlers: what they read decides what they will write.                  *)
(***************************************************************************)
Handle(t, request) ==
    /\ thread[t] = Idle /\ requests < MaxRequests
    /\ thread' = [thread EXCEPT ![t] = request]
    /\ requests' = requests + 1
    /\ UNCHANGED <<tables, lock, history>>

\* book_detail, and stream_file with dl: only a published work is found.
BookDetail(t) == ~hidden /\ Handle(t, [kind |-> "view", who |-> None, seen |-> views])

ToggleFavorite(t, u) ==
    Handle(t, [kind |-> IF u \in favorites THEN "remove" ELSE "add", who |-> u, seen |-> 0])

\* A known address is turned away with a page that writes nothing.
Register(t, e) == e \notin accounts /\ Handle(t, [kind |-> "register", who |-> e, seen |-> 0])

\* The unit of work writes a status only if it differs from the one it read.
AdminHide(t) == ~hidden /\ Handle(t, [kind |-> "hide", who |-> None, seen |-> 0])
AdminPublish(t) == hidden /\ Handle(t, [kind |-> "publish", who |-> None, seen |-> 0])
-----------------------------------------------------------------------------
(***************************************************************************)
(* get_db's commit, or its rollback.                                       *)
(***************************************************************************)
\* Mutant of Violates: the row counts are not looked at.
NoRowCount(r) ==
    \/ r.kind = "add" /\ r.who \in favorites
    \/ r.kind = "register" /\ r.who \in accounts

\* The flush is refused: UNIQUE(user_id, work_id), UNIQUE(email), or a DELETE
\* that matches no row.
Violates(r) ==
    \/ r.kind = "add" /\ r.who \in favorites
    \/ r.kind = "remove" /\ r.who \notin favorites
    \/ r.kind = "register" /\ r.who \in accounts

\* Mutant of ViewsAfter: the count is added by the handler and at the commit.
ViewsTwice(r) == IF r.kind = "view" THEN views + 1 + views - r.seen ELSE views

ViewsAfter(r) == IF r.kind = "view" THEN r.seen + 1 ELSE views

Commit(t) ==
    LET r == thread[t] IN
    /\ r # Idle /\ ~lock /\ ~Violates(r)
    /\ views' = ViewsAfter(r)
    /\ hidden' = CASE r.kind = "hide" -> TRUE [] r.kind = "publish" -> FALSE [] OTHER -> hidden
    /\ favorites' = CASE r.kind = "add" -> favorites \union {r.who}
                      [] r.kind = "remove" -> favorites \ {r.who}
                      [] OTHER -> favorites
    /\ accounts' = IF r.kind = "register" THEN accounts \union {r.who} ELSE accounts
    /\ viewed' = IF r.kind = "view" THEN viewed + 1 ELSE viewed
    /\ toggled' = IF r.kind \in {"add", "remove"} THEN [toggled EXCEPT ![r.who] = @ + 1] ELSE toggled
    /\ registered' = IF r.kind = "register" THEN [registered EXCEPT ![r.who] = @ + 1] ELSE registered
    /\ thread' = [thread EXCEPT ![t] = Idle]
    /\ UNCHANGED <<lock, refused, requests>>

\* An IntegrityError or a StaleDataError: the request fails and leaves nothing.
Conflict(t) ==
    /\ thread[t] # Idle /\ ~lock /\ Violates(thread[t])
    /\ thread' = [thread EXCEPT ![t] = Idle]
    /\ UNCHANGED <<tables, lock, history, requests>>

\* Mutant of BusyTimeout: waiting has no end.
NoTimeout(t) == FALSE /\ UNCHANGED vars

BusyTimeout(t) ==
    /\ thread[t] # Idle /\ lock
    /\ refused' = refused + 1
    /\ thread' = [thread EXCEPT ![t] = Idle]
    /\ UNCHANGED <<tables, lock, viewed, toggled, registered, requests>>
-----------------------------------------------------------------------------
(***************************************************************************)
(* The worker: claim_job flushes, the commit comes after the handler.      *)
(***************************************************************************)
WorkerClaims ==
    /\ Jobs /\ ~lock
    /\ lock' = TRUE
    /\ UNCHANGED <<tables, thread, history, requests>>

WorkerCommits ==
    /\ lock
    /\ lock' = FALSE
    /\ UNCHANGED <<tables, thread, history, requests>>

Next ==
    \/ \E t \in Threads :
        \/ BookDetail(t)
        \/ \E u \in Users : ToggleFavorite(t, u)
        \/ \E e \in Emails : Register(t, e)
        \/ AdminHide(t)
        \/ AdminPublish(t)
        \/ Commit(t)
        \/ Conflict(t)
        \/ BusyTimeout(t)
    \/ WorkerClaims
    \/ WorkerCommits

\* A thread goes on running; jobs may take for ever.
Fairness == \A t \in Threads : WF_vars(Commit(t) \/ Conflict(t) \/ BusyTimeout(t))
-----------------------------------------------------------------------------
(***************************************************************************)
(* Properties.                                                             *)
(***************************************************************************)
\* Toggles of one favorite act as if one came after the other: the row is there
\* exactly when an odd number of them was answered.
FavoriteParity == \A u \in Users : u \in favorites <=> toggled[u] % 2 = 1

\* However registrations of an address interleave, one of them is answered.
OneAccountPerEmail == \A e \in Emails : registered[e] = (IF e \in accounts THEN 1 ELSE 0)

\* The count of a work never exceeds the pages served, and the first is counted.
ViewsBounded == views <= viewed /\ (viewed > 0 => views > 0)

\* What concurrent requests were answered is what the tables hold.
AnswersAreKept == FavoriteParity /\ OneAccountPerEmail /\ ViewsBounded

\* A request is answered or refused, whatever the worker does.
RequestsEnd == \A t \in Threads : thread[t] # Idle ~> thread[t] = Idle

\* Expected by the documents, and not kept: the worker does not block the app.
AppNotBlocked == refused = 0
=============================================================================
