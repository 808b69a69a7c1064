\* A connection that is refused at once.
CONSTANTS
  MaxRetries = 2
  BaseDelay = 1
  RequestTimeout = 2
  Deadline = 5
  Decodes = TRUE
SPECIFICATION Spec
INVARIANT ConnectionErrorsRetried
CHECK_DEADLOCK FALSE
