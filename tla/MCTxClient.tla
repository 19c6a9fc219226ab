------------------------------ MODULE MCTxClient ------------------------------
(* A small instance of TxClient for TLC.                                     *)
EXTENDS TxClient

CONSTANTS status, sessions
=============================================================================
