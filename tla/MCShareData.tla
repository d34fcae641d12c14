---------------------------- MODULE MCShareData ----------------------------
(* ShareData on a small instance. *)
EXTENDS ShareData, TLC

Symmetry == Permutations(Threads)
=============================================================================
