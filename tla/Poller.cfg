CONSTANTS
  c1 = c1
  c2 = c2
  c3 = c3
  c4 = c4
  Channels <- MCChannels
  fd_ <- MCFd
SPECIFICATION Spec
CONSTRAINT OneReport
INVARIANTS AssertsHold IndexConsistent
PROPERTIES ReportsReachOwner
