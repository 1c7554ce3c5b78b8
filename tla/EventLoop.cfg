\* Two threads besides the owner, three functors.
CONSTANTS
  Threads = {t1, t2}
  Functors = {f1, f2, f3}
SPECIFICATION FairSpec
INVARIANTS NoLostWakeup NoLostQuit
PROPERTIES ImplementsTaskQueue FunctorsRun QuitEndsLoop
