\* connect() is called once; two connections, so one reconnection.
CONSTANTS
  Threads = {t1, t2}
  MaxConnects = 1
  MaxConnections = 2
SPECIFICATION FairSpec
INVARIANTS AssertsHold OneAttempt NeverForgotten ConnectionsKept
PROPERTIES KeepsTrying
CHECK_DEADLOCK FALSE
