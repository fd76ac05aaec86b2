SPECIFICATION MCSpec
CONSTANTS
    Parts = {"requests"}
    Threads = {t1, t2}
    Users = {u1}
    Emails = {e1}
    Jobs = TRUE
    MaxRequests = 3
    Works = {1, 2, 3, 4, 5}
    Shelf <- MCShelf
    Rank <- MCRank
    Fits = {}
    Shelved = {}
    Bibliography <- MCBibliography
    Listings = {"newest"}
    Per = 2
    MaxChanges = 0
    MaxEvents = 2
    Window = 1
    MaxTime = 2
    MaxCalls = 1
    Processes = {p1}
    Empty = Empty
    Firsts = {3}
    MaxVisits = 1
    MaxKills = 0
    Tabs = {x1}
    MaxSent = 0
    MaxExpired = 0
    None = None
INVARIANT
    AppNotBlocked
CHECK_DEADLOCK FALSE
