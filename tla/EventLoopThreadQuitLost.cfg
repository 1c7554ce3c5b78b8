\* The destructor soon after startLoop.
CONSTANTS
  Main = m
  Threads = {m}
  Functors = {f1}
  UsersQuit = FALSE
SPECIFICATION TFairSpec
PROPERTIES QuitTakesEffect
CHECK_DEADLOCK FALSE
