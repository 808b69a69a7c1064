\* A deadline that leaves room for every attempt.
CONSTANTS
  MaxRetries = 3
  BaseDelay = 1
  RequestTimeout = 3
  Deadline = 10
  Decodes = TRUE
SPECIFICATION Spec
INVARIANTS TypeOK ContextRespected RetriesAreUsed BackoffDoubles
PROPERTIES ImplementsRemoteCall
CHECK_DEADLOCK FALSE
