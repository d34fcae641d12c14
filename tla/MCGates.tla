------------------------------ MODULE MCGates -------------------------------
(* Gates on a small instance.                                              *)
EXTENDS Gates
=============================================================================
