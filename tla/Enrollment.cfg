\* Three enrollments, any of which may fail; the agent is started at any moment.
CONSTANTS
  Enrollments = {1, 2, 3}
  None = None
SPECIFICATION Spec
INVARIANTS TypeOK CompletedMeansUsable NeverOutdated
CHECK_DEADLOCK FALSE
