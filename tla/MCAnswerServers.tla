-------------------------- MODULE MCAnswerServers --------------------------
(* AnswerServers on a small instance. *)
EXTENDS AnswerServers
=============================================================================
