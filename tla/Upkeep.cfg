SPECIFICATION MCSpec
CONSTANTS
    Parts = {"rebuild", "catalog", "epub", "ranges"}
    Books = {1, 2}
    Digests = {"a", "b", "c", "d"}
    First <- MCFirst
    Capped = {"a", "b"}
    Builds <- MCBuilds
    Every = 2
    Readers = {reader}
    Worker = Worker
    Command = Command
    MaxRuns = 2
    Works = {1, 2, 3}
    Old <- MCOld
    New <- MCNew
    Ingested <- MCIngested
    Passes = {boot, cli}
    Boots = {boot}
    Forced = {cli}
    Current = 3
    MaxEdits = 2
    Parasize = 2
    MaxFiles = 2
    MaxLines = 5
    Sizes = {0, 1, 4}
    Numbers = {0, 1, 3, 4, 5}
    Garbage = Garbage
    None = None
INVARIANTS
    FilesAreServed
    OnePrimary
    VersionIsTrue
    NothingIsDropped
    RangesAreExact
CHECK_DEADLOCK FALSE
