\* Pools of no, one and two loops; three connections, so the turn comes round.
CONSTANTS
  MaxThreads = 2
  MaxConnections = 3
SPECIFICATION FairSpec
INVARIANTS FreedLast AssertsHold Balanced
PROPERTIES ServedAndFreed
