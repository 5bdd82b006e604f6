\* A client that comes into a lobby, one game of one turn, and two inputs: four messages
\* down, up to four up, the joins of the lobbies before and after the game among them.
\* The name of the client is one byte long and a char says no more; a Hello has a string of
\* two, and a Turn is longer than the buffer. Deadlock: the conversation and the inputs come to an end.
SPECIFICATION Spec
CONSTANTS
  Ends <- MCEnds
  Texts <- MCTexts
  NameLength = 1
  CharMax = 1
  Wrap = 10
  BuffSize = 5
  Conversations <- MCConversations
  InputBound = 2
CONSTRAINT Bounds
INVARIANTS
  ReadAsSent
  HeardAsSent
CHECK_DEADLOCK FALSE
