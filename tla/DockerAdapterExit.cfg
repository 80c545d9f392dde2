CONSTANTS
    Endpoint = {hop, decoy, remote}
    OnProxyPort = {hop, decoy}
    Hop = hop
    Pid = {p1}
    DaemonFails = FALSE
    EmitBound = 1
    BlockBound = 1
SPECIFICATION Spec
INVARIANT ServerExitEndsTheStream
CHECK_DEADLOCK FALSE
