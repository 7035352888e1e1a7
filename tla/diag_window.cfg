\* Two files' diagnostics, and a user who deletes the window, reloads it and
\* restarts the program.
SPECIFICATION FairSpec
CONSTANTS
    Files = {f, g}
    MaxDiags = 1
    Capacity = 1
    MaxWins = 3
    MaxPublish = 3
    MaxCommands = 2
INVARIANTS
    OneWindow
    ShownIsCollected
PROPERTIES
    LatestIsShown
    EventsAreHandled
\* The program waits for the servers and the user.
CHECK_DEADLOCK FALSE
