\* A refresh while a file is formatted on Put.
SPECIFICATION FairSpec
CONSTANTS
    Appliers = {a1, a2}
    FormatOnPut = TRUE
    Closes = FALSE
    Indexed = FALSE
    Attempts = 1
    MaxTexts = 0
    MaxPuts = 1
    MaxRestarts = 0
    MaxInAll = 1
PROPERTIES
    RefreshIsHandled
\* Once nothing is under way only the user or the server starts anything.
CHECK_DEADLOCK FALSE
