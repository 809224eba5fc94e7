---------------------------- MODULE MCSecbootLog ----------------------------
(* Small instances of the NOR error log for TLC. *)
EXTENDS SecbootLog
=============================================================================
