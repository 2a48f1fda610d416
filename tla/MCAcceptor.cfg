SPECIFICATION FairSpec
CONSTANTS
    c1 = c1
    c2 = c2
    Conns <- TwoConns
    NoConn = NoConn
    MaxWrites <- OneWrite
    MaxMsgs <- OneMsgEach
INVARIANTS TypeOK EventsInOrder NoGhost NoneForgotten
PROPERTIES DropEnds GhostEnds ShutdownEnds
CHECK_DEADLOCK FALSE
