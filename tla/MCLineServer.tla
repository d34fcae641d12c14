---------------------------- MODULE MCLineServer ----------------------------
(* LineServer on a small instance. *)
EXTENDS LineServer

(* A SocketClient, lines with and without a last line end, and talk after  *)
(* the "bye".                                                              *)
SomeTexts == {<<"rest">>, <<"line", "line", "rest">>, <<"line", "byeRest">>,
              <<"line", "bye", "line">>}
=============================================================================
