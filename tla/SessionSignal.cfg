CONSTANT MaxServers = 1
SPECIFICATION Spec
INVARIANT BrokenPipelineIsNoSignal
CHECK_DEADLOCK FALSE
