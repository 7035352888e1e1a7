\* Assist follows a user in two windows, one of which is served, while
\* another L runs and edits.
SPECIFICATION FairSpec
CONSTANTS
    Wins = {w1, w2}
    Served = {w1}
    NoWin = NoWin
    Starts = {2}
    MaxInputs = 2
    MaxCommands = 1
    MaxEdits = 1
INVARIANTS
    HelpIsOfThePlaceTold
    OnlyOthersMislead
PROPERTIES
    PositionIsTold
\* The user may stop.
CHECK_DEADLOCK FALSE
