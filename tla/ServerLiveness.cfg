\* One connection and the accept loop contend for two threads.
SPECIFICATION FairSpec
CONSTANTS
    Conns = {c1}
    NoConn = NoConn
    NThreads = 2
    ReadTimeout = TRUE
    WriteTimeout = TRUE
PROPERTIES
    EveryConnectionEnds
    ShutdownEnds
CHECK_DEADLOCK FALSE
