---------------------------- MODULE MCSocketIO -------------------------------
(* SocketIO with short messages.  The bytes 2, 3 and 4 are letters, so that *)
(* a byte tells where it comes from.  The length of six bytes is negative   *)
(* as an int, that of nine does not fit the prefix.                         *)
EXTENDS SocketIO

MCScripts == {<< <<2, 3>>, <<4>> >>, << <<>>, <<4, 2>> >>, << <<3, 4, 2>>, <<>> >>,
              << <<2, 3, 4, 2, 3, 4>>, <<2>> >>, << <<2, 3, 4, 2, 3, 4, 2, 3, 4>> >>,
              << <<2>>, <<3>>, <<4>> >>, << <<1, 0>>, <<2>> >>}
=============================================================================
