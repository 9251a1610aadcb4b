SPECIFICATION Spec
CONSTANTS
    RequestLines <- MCRequestLines
    Requests <- MCRequests
    OwnRoutes <- MCOwnRoutes
    Stacks <- MCStacks
    OwnTexts <- MCOwnTexts
    OwnTypes <- MCOwnTypes
    Atoms <- MCAtoms
    NoText = NoText
    MaxCalls = 3
    MaxLong = 1023
INVARIANTS
    TypeOK
    AcceptedIsLegal
    LegalIsAccepted
    ComponentsAsWritten
    QueryReadsBack
    DocumentsReadBack
    DumpReadsBack
    StaysInside
    EchoReadsBack
    MemoryReadsBack
    StatusOfRequest
    AsDocumented
    TypeOfContinue
    OneFinal
CHECK_DEADLOCK FALSE
