SPECIFICATION Spec
CONSTANTS
    c1 = c1
    c2 = c2
    Conns <- TwoConns
    NoConn = NoConn
    MaxWrites <- Writes
    MaxMsgs <- Msgs
PROPERTIES StoppedStaysDown
CHECK_DEADLOCK FALSE
