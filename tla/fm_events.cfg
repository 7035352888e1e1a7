\* Two windows of one file, formatting on Put and a client of the proxy; no
\* highlighting, no crash.
SPECIFICATION FairSpec
CONSTANTS
    Wins = {w1, w2}
    NoWin = NoWin
    Names = {a}
    Served = {a}
    Notifiers = {}
    Highlighting = FALSE
    FormatOnPut = TRUE
    Doubles = FALSE
    StartupGap = FALSE
    MaxTexts = 2
    MaxPuts = 1
    MaxRenames = 0
    MaxRemotes = 1
    MaxCrashes = 0
INVARIANTS
    OpenIsTracked
    CleanTextInSync
PROPERTIES
    MirrorSpec
    GoneIsClosed
\* The program waits for the user once it has handled every event.
CHECK_DEADLOCK FALSE
