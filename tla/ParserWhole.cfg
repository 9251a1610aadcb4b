\* Chunks cut anywhere but in a header field; a client that waits when it asks to.
SPECIFICATION Spec
CONSTANTS
    MaxBody = 2
    Requests <- MCRequests
    MaxRequestBytes = 30
    MaxInt = 2
    SizeT = 8
    CleanCuts = TRUE
    ClientWaits = TRUE
INVARIANTS
    TypeOK
    AnyCut
    AllDecided
    SizeKept
PROPERTY
    AskedOnce
CHECK_DEADLOCK FALSE
