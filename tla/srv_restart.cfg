\* Two users of one server, and a second server that changes of the folders
\* start; processes exit at any step.
SPECIFICATION FairSpec
CONSTANTS
    Users = {u1, u2}
    LastServer = 2
    Folders = {f1}
    Asked = {1}
    MaxProcs = 5
    MaxExits = 2
    MaxRefusals = 1
    MaxFailures = 1
    MaxChanges = 1
    MaxTroubles = 2
    u1 = u1
    u2 = u2
    f1 = f1
INVARIANTS
    HandshakeFirst
    NoMoreThanItsStarters
    FoldersAgree
    NoPanic
PROPERTIES
    Restarts
    RequestsEnd
CHECK_DEADLOCK FALSE
