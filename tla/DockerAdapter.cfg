CONSTANTS
    Endpoint = {hop, decoy, remote}
    OnProxyPort = {hop, decoy}
    Hop = hop
    Pid = {p1}
    DaemonFails = TRUE
    EmitBound = 2
    BlockBound = 1
SPECIFICATION Spec
INVARIANTS
    StreamEndMeansExit
    EndpointsAccountedFor
    ProxyEventsDelivered
    NoProxyLeftRunning
    EnforcementIsNotSilent
PROPERTY ExitFinishesStream
CHECK_DEADLOCK FALSE
