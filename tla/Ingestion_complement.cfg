SPECIFICATION Spec
CONSTANTS
    a = a
    b = b
    c = c
    Items = {1, 2}
    Works = {1, 2}
    Digests = {a, b, c}
    None = None
    Offers <- MCComplement
    SharedName = {}
    Format <- MCFormat
    Title <- MCTitle
    Year <- MCSameYear
    Rights <- MCRights
    Librarian = {}
    RequeueLimit = 2
    MaxJobs = 1
    MaxFaults = 0
INVARIANT
    PublicFilesEligible
CHECK_DEADLOCK FALSE
