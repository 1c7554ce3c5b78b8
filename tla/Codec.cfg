CONSTANTS
  kInitialSize = 16
  ExtraBuf = 16
  kMaxMessageLen = 28
  MaxBytes = 33
  Messages <- MCMessages
  Foreign <- MCForeign
  Registered <- MCRegistered
  Chunks <- MCChunks
SPECIFICATION Spec
INVARIANTS
  BuffersSound
  StreamIntact
  NothingLeftBehind
PROPERTY
  ImplementsMessageStream
