\* The server exits once; ResyncFiles races with the event loop.
SPECIFICATION FairSpec
CONSTANTS
    Wins = {w1, w2}
    NoWin = NoWin
    Names = {a, b}
    Served = {a, b}
    Notifiers = {}
    Highlighting = FALSE
    FormatOnPut = FALSE
    Doubles = FALSE
    StartupGap = FALSE
    MaxTexts = 0
    MaxPuts = 1
    MaxRenames = 0
    MaxRemotes = 0
    MaxCrashes = 1
INVARIANTS
    OpenFilesTracked
    TrackedIsOpen
PROPERTIES
    TrackedOpensInTheEnd
\* The program waits for the user once it has handled every event.
CHECK_DEADLOCK FALSE
