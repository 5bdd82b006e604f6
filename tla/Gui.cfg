\* A channel of two messages and a socket of one datagram, three receipts: the
\* channel fills, with one message in the thread's hand.
\* Two keys of different meaning, in two events, as presses or as releases.
\* Deadlock is not an error: the thread ends when the window is closed.
SPECIFICATION FairGui
CONSTANTS
  Displays <- MCDisplays
  Keys = {"W", "X"}
  Capacity = 2
  SocketRoom = 1
  ReceiptsBound = 3
  KeysBound = 2
INVARIANTS
  GuiTypeOK
  NothingLost
  OneMessageShown
  InputsInOrder
PROPERTIES
  NeverGoesBack
  ColorsKept
  NewsAreShown
CHECK_DEADLOCK FALSE
