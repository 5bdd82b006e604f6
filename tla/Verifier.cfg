\* Any number of peers in turn, up to two messages on a connection. A byte has
\* six values: 0 to 4 are the variants of a server's message, 5 is none of any
\* type and occurs in no text.
SPECIFICATION FairVerifier
CONSTANTS
  Base = 6
  ShowAddress <- Shown
  ParseAddress <- Parse
  Samples <- MCSamples
  Messages <- MCMessages
  MessagesBound = 2
  WrongBytes = {0, 1, 5}
  InputBound = 4
INVARIANTS
  PrintedAsSent
  NoFalseAlarm
  DamageReported
  ReadsBack
PROPERTY AcceptsAgain
