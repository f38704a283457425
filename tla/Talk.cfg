SPECIFICATION FairSpec
CONSTANTS
    MsgSz = 3
    BufSz = 5
    Room = 7
    Peers = {"test", "stranger"}
    Pressure = TRUE
    Stops = TRUE
INVARIANTS TypeOK NeverFills
PROPERTIES WholeReplies DialogueSpec RecvReturns ReadsOn Notices
CHECK_DEADLOCK FALSE
