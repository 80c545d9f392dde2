CONSTANTS
    Case <- MCCase
    NewSignal <- MCNewSignal
    NewTool <- MCNewTool
    GrowthBound = 2
    HostEnv <- MCHostEnv
    ALabel = "b"
    Label <- MCLabel
    Lower <- MCLower
    Cidr <- MCCidr
    Starred <- MCStarred
    FileExtension <- MCFileExtension
    KnownTld <- MCKnownTld
    NetWord <- MCNetWord
    FsWord <- MCFsWord
    ReadVerb <- MCReadVerb
    WriteVerb <- MCWriteVerb
    MoveishVerb <- MCMoveishVerb
    ExecWord <- MCExecWord
    SecretWord <- MCSecretWord
SPECIFICATION Spec
INVARIANTS
    ProxyAgreesWithMonitor
    GrantsAreImplied
    GrantsAreLiteral
    RoutesAreNoPaths
    PathMatchIsContainment
    BaseIsFaithful
    EditsAreHonoured
    SandboxMatchesPolicy
PROPERTY GrowthNeverCreatesViolations
CHECK_DEADLOCK FALSE
