CONSTANTS
    Conn = {c1, c2}
    Caller = {main, pump}
    Host <- MCHost
    NoHost <- MCNoHost
    Unencodable <- MCUnencodable
    Sanctioned <- MCOpen
SPECIFICATION Spec
INVARIANT StopCutsEveryTunnel
CHECK_DEADLOCK FALSE
