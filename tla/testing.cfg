SPECIFICATION Spec
CONSTANTS
  Threads = {main, worker}
  Users = {main, worker}
  Main = main
  MaxTests = 2
  MaxFailures = 1
  MaxDefers = 2
INVARIANTS
  FailuresFail
  DefersRunOnce
PROPERTIES
  ExitCompletes
CHECK_DEADLOCK FALSE
