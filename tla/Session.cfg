CONSTANT MaxServers = 2
SPECIFICATION Spec
INVARIANTS
  TypeOK
  ExitCodeIsTheVerdict
  OneServerNeverAbortsTheBatch
  NoServerOutlivesTheCommand
CHECK_DEADLOCK FALSE
