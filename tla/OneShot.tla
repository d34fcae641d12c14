------------------------------- MODULE OneShot -------------------------------
(***************************************************************************)
(* What the one-reply socket servers of this repository promise a client,  *)
(* whatever their threading: a connection first asks (the client sent      *)
(* something the server can take for a request), then it may be answered,  *)
(* and it is answered at most once.  ReactorSingleEchoServer and           *)
(* NIOSimpleEchoServer are each checked to implement it; the instances say *)
(* what counts as asking in each.                                          *)
(***************************************************************************)

EXTENDS Naturals

CONSTANT Clients      \* one element per TCP connection

VARIABLES asked,      \* connections that have made a request
          answered    \* how often the reply was written to a connection

vars == <<asked, answered>>

Init == asked = {} /\ answered = [c \in Clients |-> 0]

Ask(c) ==
  /\ c \notin asked
  /\ asked' = asked \cup {c}
  /\ UNCHANGED answered

Answer(c) ==
  /\ c \in asked
  /\ answered[c] = 0
  /\ answered' = [answered EXCEPT ![c] = 1]
  /\ UNCHANGED asked

Next == \E c \in Clients : Ask(c) \/ Answer(c)

Spec == Init /\ [][Next]_vars
=============================================================================
