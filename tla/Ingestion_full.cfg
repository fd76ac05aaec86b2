SPECIFICATION Spec
CONSTANTS
    a = a
    b = b
    c = c
    Items = {1, 2}
    Works = {1, 2}
    Digests = {a, b, c}
    None = None
    Offers <- MCRepeated
    SharedName = {}
    Format <- MCFormat
    Title <- MCTitle
    Year <- MCYear
    Rights <- MCRights
    Librarian = {"publish", "hide", "resolve"}
    RequeueLimit = 2
    MaxJobs = 2
    MaxFaults = 1
INVARIANTS
    TypeOK
    FilesAreIntact
    PublishedIsSound
    ItemsAreTrue
PROPERTY
    ImplementsPublicCatalog
CHECK_DEADLOCK FALSE
