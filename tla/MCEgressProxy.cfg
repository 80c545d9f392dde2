CONSTANTS
    Conn = {c1, c2}
    Caller = {main, pump}
    Host <- MCHost
    NoHost <- MCNoHost
    Unencodable <- MCUnencodable
    Sanctioned <- MCSanctioned
SPECIFICATION Spec
INVARIANTS
    TypeOK
    NothingFlowsUnlogged
    AttemptsLoggedOnce
    FinishedHandlersLeakNothing
    StopStopsServing
PROPERTIES
    StopReturns
    HandlersProgress
CHECK_DEADLOCK FALSE
