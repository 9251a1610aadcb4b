\* Up to four calls of set-up, then every request; wrappers call next at most once.
SPECIFICATION Spec
CONSTANTS
    a = a
    b = b
    n = n
    Words <- MCWords
    Empty = Empty
    Names <- MCNames
    NoName = NoName
    Methods = {"GET", "POST"}
    MaxCalls = 4
    MaxNext = 1
    Handlers <- MCHandlers
    NoHandler = NoHandler
    Base <- MCBase
    Tables <- MCTables
    WrapperLists <- MCWrapperLists
    Requests <- MCRequests
    Chunks <- MCChunks
    RoutePaths <- MCRoutePaths
INVARIANTS
    TypeOK
    FirstMatch
    OwnParams
    InsideWrappers
    TableAsRegistered
CHECK_DEADLOCK FALSE
