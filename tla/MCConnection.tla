---------------------------- MODULE MCConnection ----------------------------
(* Two messages that are drawn, one that is not, and a piece of two bytes;  *)
(* a Hello with a server_name that is longer than a char can say, and a     *)
(* first Turn with so many blocks that it goes beyond the buffer.           *)
EXTENDS Connection

MCEnds ==
  [Hello |-> <<1, 2>>, LongHello |-> <<1, 2, 4>>, AcceptedPlayer |-> <<1, 2>>,
   GameStarted |-> <<1, 2>>, Turn |-> <<1, 3>>, LongTurn |-> <<1, 6>>, GameEnded |-> <<1, 2>>]

MCTexts ==
  [Hello |-> {}, LongHello |-> {3}, AcceptedPlayer |-> {},
   GameStarted |-> {}, Turn |-> {}, LongTurn |-> {}, GameEnded |-> {}]

MCConversations ==
  {<<"Hello", "GameStarted", "Turn", "GameEnded">>,
   <<"LongHello", "GameStarted">>,
   <<"Hello", "GameStarted", "LongTurn">>}
=============================================================================
