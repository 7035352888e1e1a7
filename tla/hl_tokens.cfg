\* Any two of an edit, a Put and a restart, and the end of the file.
SPECIFICATION Spec
CONSTANTS
    Appliers = {a1, a2}
    FormatOnPut = TRUE
    Closes = TRUE
    Indexed = TRUE
    Attempts = 1
    MaxTexts = 1
    MaxPuts = 1
    MaxRestarts = 1
    MaxInAll = 2
SYMMETRY Symmetry
INVARIANTS
    CacheIsTheServers
    QuietShowsTheBody
\* Once nothing is under way only the user or the server starts anything.
CHECK_DEADLOCK FALSE
