-------------------------- MODULE MCBl2LoadImages --------------------------
(* A small instance of BL2 and its logger for TLC. *)
EXTENDS Bl2LoadImages

LoadEvents == {"BOOT_START", "BOOT_OK", "BL31_FAIL"}

=============================================================================
