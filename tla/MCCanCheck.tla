----------------------------- MODULE MCCanCheck -----------------------------
(* Small instances of the CAN check for TLC. *)
EXTENDS CanCheck
=============================================================================
