------------------------------ MODULE MCNotify ------------------------------
(* Notify on a small instance. *)
EXTENDS Notify
=============================================================================
