------------------------------ MODULE MCTxPath ------------------------------
(* Instances of TxPath for TLC. *)
EXTENDS TxPath

CONSTANT t1
=============================================================================
