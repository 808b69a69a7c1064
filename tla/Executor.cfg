\* Two goroutines race on the same operation IDs; one operation has no handler, and
\* evictLoop keeps ticking.
CONSTANTS
  Ops = {o1, o2, u}
  NoOp = NoOp
  Handled = {o1, o2}
  Callers = {c1, c2}
  Timeout = 1
  Window = 3
  Lag = 1
  MaxTime = 6
SPECIFICATION FairSpec
INVARIANTS TypeOK NoConcurrentReplay
PROPERTIES IdempotencyWindow StaleEntriesEvicted
