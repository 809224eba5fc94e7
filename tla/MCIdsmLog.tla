----------------------------- MODULE MCIdsmLog -----------------------------
(* Small instances of the logger for TLC. *)
EXTENDS IdsmLog

AllFaults == Services

=============================================================================
