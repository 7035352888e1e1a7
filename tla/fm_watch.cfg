\* Highlighting: watchers, two notifications at a time, shared and edited names.
SPECIFICATION Spec
CONSTANTS
    Wins = {w1, w2}
    NoWin = NoWin
    Names = {a, b}
    Served = {a}
    Notifiers = {i1, i2}
    Highlighting = TRUE
    FormatOnPut = FALSE
    Doubles = TRUE
    StartupGap = FALSE
    MaxTexts = 1
    MaxPuts = 0
    MaxRenames = 1
    MaxRemotes = 0
    MaxCrashes = 0
SYMMETRY Symmetry
INVARIANTS
    TypeOK
    StopChannelsClosedOnce
    VersionsGivenOnce
    TrackedIsWatched
    OpenedOnce
\* The program waits for the user once it has handled every event.
CHECK_DEADLOCK FALSE
