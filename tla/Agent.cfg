\* One handled operation and one of an unknown type, one restart, one eviction,
\* one report at a time that is late.
CONSTANTS
  Ops = {o, u}
  NoOp = NoOp
  Handled = {o}
  Poller = poller
  Timeout = 0
  Window = 0
  Lag = 0
  MaxTime = 1
  Lossy = TRUE
  MaxRestarts = 1
  MaxLate = 1
SPECIFICATION FairSpec
INVARIANTS TypeOK ReportsEarned OneRunPerProcess
PROPERTIES EveryOperationCompletes ShutdownCompletes HeartbeatsContinue
