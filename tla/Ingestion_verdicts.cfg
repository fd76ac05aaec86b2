SPECIFICATION FairSpec
CONSTANTS
    a = a
    b = b
    c = c
    Items = {1, 2, 3}
    Works = {1, 2, 3}
    Digests = {a, b, c}
    None = None
    Offers <- MCOffers
    SharedName = {}
    Format <- MCFormat
    Title <- MCTitle
    Year <- MCYear
    Rights <- MCRights
    Librarian = {}
    RequeueLimit = 2
    MaxJobs = 2
    MaxFaults = 1
INVARIANTS
    NothingHalfMade
PROPERTY
    ItemsSettle
CHECK_DEADLOCK FALSE
