----------------------------- MODULE MCRecovery -----------------------------
(* Persistence on small instances. *)
EXTENDS Recovery
=============================================================================
