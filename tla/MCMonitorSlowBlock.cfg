CONSTANTS
    Unlimited = Unlimited
    SarifMax = 2
    Server <- MCServer
    Fleets <- MCFleets
    KindOf <- MCKindOf
    TargetOf <- MCTargetOf
    NoTool = NoTool
    t1 = t1
    t2 = t2
    Behaviour <- MCBehaviour
    Verdict <- MCVerdict
    Tool <- MCTool
    Event <- MCEvent
    MaxEvents = {0, 2, Unlimited}
    StreamBound = 2
SPECIFICATION SpecSlowBlock
PROPERTY TimedRunReturns
CHECK_DEADLOCK FALSE
