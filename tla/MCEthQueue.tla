----------------------------- MODULE MCEthQueue -----------------------------
(* Small instances of the Ethernet queue for TLC. *)
EXTENDS EthQueue
=============================================================================
