------------------------------- MODULE MCTxn -------------------------------
(* Instances of Txn for TLC. *)
EXTENDS Txn, TLC

\* Transactions and keys are interchangeable in every safety property.
TxnSymmetry == Permutations(Txns) \cup Permutations(Keys)
=============================================================================
