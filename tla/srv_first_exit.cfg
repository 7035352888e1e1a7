SPECIFICATION FairSpec
CONSTANTS
    Users = {u1}
    LastServer = 1
    Folders = {f1}
    Asked = {1}
    MaxProcs = 3
    MaxExits = 1
    MaxRefusals = 0
    MaxFailures = 0
    MaxChanges = 0
    MaxTroubles = 1
    u1 = u1
    f1 = f1
INVARIANT SurvivesEveryExit
CHECK_DEADLOCK FALSE
