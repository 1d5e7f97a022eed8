------------------------------ MODULE MCEpoch ------------------------------
(* Instances of Epoch for TLC. *)
EXTENDS Epoch, TLC

EpochSymmetry == Permutations(Guards) \cup Permutations(Resources)
=============================================================================
