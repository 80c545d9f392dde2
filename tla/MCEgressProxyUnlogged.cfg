CONSTANTS
    Conn = {c1, c2}
    Caller = {main, pump}
    Host <- MCHost
    NoHost <- MCNoHost
    Unencodable <- MCUnencodable
    Sanctioned <- MCSanctioned
SPECIFICATION Spec
INVARIANT EveryAttemptLogged
CHECK_DEADLOCK FALSE
