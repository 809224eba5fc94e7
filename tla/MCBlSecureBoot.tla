---------------------------- MODULE MCBlSecureBoot ----------------------------
(* A small instance of the secure boot configuration for TLC: four fragments, two of *)
(* them with an SMR. *)
EXTENDS BlSecureBoot

MCFragments == <<0, 2, 0, 3>>
=============================================================================
