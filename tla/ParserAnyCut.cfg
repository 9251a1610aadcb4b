\* Chunks cut anywhere, a header field too.
SPECIFICATION Spec
CONSTANTS
    MaxBody = 2
    Requests <- MCRequests
    MaxRequestBytes = 30
    MaxInt = 2
    SizeT = 8
    CleanCuts = FALSE
    ClientWaits = TRUE
INVARIANTS
    AnyCut
CHECK_DEADLOCK FALSE
