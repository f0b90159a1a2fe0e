---------------------------- MODULE MCBalanceGate ----------------------------
(* TLC instance of BalanceGate.                                              *)
EXTENDS BalanceGate
=============================================================================
