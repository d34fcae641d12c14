------------------------------ MODULE MCSvnSync ------------------------------
(* SvnSync on small instances. *)
EXTENDS SvnSync
=============================================================================
