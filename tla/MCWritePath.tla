---------------------------- MODULE MCWritePath ----------------------------
(* The write path on small instances. *)
EXTENDS WritePath
=============================================================================
