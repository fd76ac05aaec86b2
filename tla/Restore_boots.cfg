SPECIFICATION Spec
CONSTANTS
    Releases = {1, 2}
    Unnamed = {}
    None = None
    Modes = {TRUE, FALSE}
    Calls = 2
    StorageFlags = {TRUE}
    Rollbacks = FALSE
    Kills <- MCAnywhere
    MaxEdits = 2
    MaxFaults = 2
INVARIANTS
    TypeOK
    ServesSnapshot
    MarkerIsTrue
PROPERTIES
    EditsAreKept
