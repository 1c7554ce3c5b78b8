\* A thread and the callbacks of the loop send and shut down.
CONSTANTS
  Threads = {t1}
  Messages = {m1, m2}
  Nobody = nobody
SPECIFICATION FairSpec
INVARIANTS StreamInOrder WritingIffPending LifecycleAsserts DestroyedInOrder SentBeforeFin
PROPERTIES ClosedIsDestroyed
CHECK_DEADLOCK FALSE
