SPECIFICATION FairSpec
CONSTANTS
    MaxObjects = 4
    MaxSize = 2
    Cap = 1
    Clients = {"patient", "pipelined"}
    PatientKinds = {"request", "invalid"}
INVARIANTS
    AwaitingIsInFlight
    ReadsTheAnswer
    NoPanic
    QueuedInOrder
PROPERTIES
    ReadsReturn
    WritesReturn
    SessionEnds
CHECK_DEADLOCK FALSE
