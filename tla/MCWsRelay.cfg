SPECIFICATION FairSpec
CONSTANTS
  c1 = c1
  c2 = c2
  Calls <- MCOne
  Buffer = 2
  MaxChunks = 3
INVARIANTS
  ToldWhenSessionDies
  TruncatedOnlyByOverflow
  AuthGoneWithSession
PROPERTIES
  CloseEndsCalls
CHECK_DEADLOCK FALSE
