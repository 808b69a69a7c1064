\* No call to the controller fails; the process is told to stop.
CONSTANTS
  Ops = {o}
  NoOp = NoOp
  Handled = {o}
  Poller = poller
  Timeout = 0
  Window = 0
  Lag = 0
  MaxTime = 0
  Lossy = FALSE
  MaxRestarts = 1
  MaxLate = 1
SPECIFICATION Spec
PROPERTY CompletionReported
