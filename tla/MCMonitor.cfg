CONSTANTS
    Unlimited = Unlimited
    SarifMax = 2
    Server <- MCServer
    Fleets <- MCFleets
    KindOf <- MCKindOf
    TargetOf <- MCTargetOf
    NoTool = NoTool
    t1 = t1
    t2 = t2
    Behaviour <- MCBehaviour
    Verdict <- MCVerdict
    Tool <- MCTool
    Event <- MCEvent
    MaxEvents = {0, 2, Unlimited}
    StreamBound = 3
SPECIFICATION Spec
INVARIANTS
    TypeOK
    EnforcementMatchesReport
    NothingDroppedSilently
    ReauditAgrees
    LoopIsPositional
    SarifIsFaithful
    FeedsAgree
PROPERTIES
    ImplementsAudit
    TimedRunReturns
CHECK_DEADLOCK FALSE
