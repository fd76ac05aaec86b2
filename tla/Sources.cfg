SPECIFICATION Spec
CONSTANTS
    Parts = {"harvest", "discovery", "fetch"}
    Items = {1, 2, 3, 4}
    Fates <- MCFates
    Target = 4
    Batch = 2
    EmptyLimit = 2
    FailureLimit = 3
    MaxJobs = 2
    MaxFaults = 3
    Sources = {"internet_archive", "oapen", "wikisource_ar", "gutenberg"}
    Listed = {1, 2, 3, 4, 5}
    Fitting = {1, 2, 4, 5}
    Categories <- MCCategories
    Rows = 2
    MaxPages = 2
    Limit = 2
    Passes = {p, q}
    Jobs = {q}
    MaxChanges = 1
    None = None
    Plans <- MCPlans
    Attempts = 2
    MaxTries = 2
INVARIANTS
    TypeOK
    RoundsAreTrue
    DiscoveryIsComplete
    GivenUpLate
PROPERTY
    HarvestEnds
CHECK_DEADLOCK FALSE
