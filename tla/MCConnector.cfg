SPECIFICATION FairSpec
CONSTANTS
    c1 = c1
    c2 = c2
    Conns <- TwoConns
    NoConn = NoConn
    MaxWrites <- Writes
    MaxMsgs <- Msgs
INVARIANTS TypeOK WireInOrder NothingHeldBack OneAttempt KeepsTrying MainCatchesUp NotCutOff
PROPERTIES ClearFlushes ShutdownEnds Reopens
CHECK_DEADLOCK FALSE
