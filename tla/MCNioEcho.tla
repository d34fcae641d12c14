------------------------------ MODULE MCNioEcho ------------------------------
(* NioEcho on a small instance.                                            *)
EXTENDS NioEcho
=============================================================================
