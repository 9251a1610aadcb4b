\* As HttpServer runs it, with no timeouts: a signal while a client connects.
SPECIFICATION Spec
CONSTANTS
    Conns = {c1}
    NoConn = NoConn
    NThreads = 2
    ReadTimeout = FALSE
    WriteTimeout = FALSE
INVARIANT
    ShutdownClosesAll
CHECK_DEADLOCK FALSE
