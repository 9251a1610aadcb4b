\* Two connections, two threads, both timeouts, a signal and a stop anywhere.
SPECIFICATION Spec
CONSTANTS
    Conns = {c1, c2}
    NoConn = NoConn
    NThreads = 2
    ReadTimeout = TRUE
    WriteTimeout = TRUE
SYMMETRY ConnSymmetry
INVARIANTS
    TypeOK
    OneOperation
    HandledOnce
    NoSocketLost
    NoneStuck
    OneOutlives
CHECK_DEADLOCK FALSE
