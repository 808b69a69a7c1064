\* A failed operation whose report is lost is handed out again.
CONSTANTS
  Ops = {o}
  NoOp = NoOp
  Handled = {o}
  Poller = poller
  Timeout = 0
  Window = 0
  Lag = 0
  MaxTime = 0
  Lossy = TRUE
  MaxRestarts = 0
  MaxLate = 1
SPECIFICATION Spec
INVARIANT SuccessReportsAreEarned
