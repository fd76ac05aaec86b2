SPECIFICATION MCSpec
CONSTANTS
    Parts = {"requests", "browse", "forms", "limit", "visits"}
    Threads = {t1, t2}
    Users = {u1}
    Emails = {e1}
    Jobs = TRUE
    MaxRequests = 4
    Works = {1, 2, 3, 4, 5}
    Shelf <- MCShelf
    Rank <- MCRank
    Fits = {1, 2, 4, 5}
    Shelved = {1, 3, 4, 5}
    Bibliography <- MCBibliography
    Listings = {"newest", "views", "category", "author", "sitemap", "search", "collection"}
    Per = 2
    MaxChanges = 2
    MaxEvents = 2
    Window = 1
    MaxTime = 4
    MaxCalls = 5
    Processes = {p1, p2}
    Empty = Empty
    Firsts = {None, 3}
    MaxVisits = 4
    MaxKills = 1
    Tabs = {x1, x2, x3}
    MaxSent = 4
    MaxExpired = 1
    None = None
INVARIANTS
    TypesOK
    AnswersAreKept
    NothingIsSkipped
    FormsAreAccepted
    LimitKept
    CounterIsTrue
PROPERTIES
    HiddenStaysHidden
    CallsEnd
CHECK_DEADLOCK FALSE
