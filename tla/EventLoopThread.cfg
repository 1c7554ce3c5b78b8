\* Main and another user; users may quit the loop.
CONSTANTS
  Main = m
  Threads = {m, t1}
  Functors = {f1, f2}
  UsersQuit = TRUE
SPECIFICATION TFairSpec
INVARIANTS StartedLoopIsAlive
PROPERTIES StartLoopTerminates DestructorReturns
CHECK_DEADLOCK FALSE
