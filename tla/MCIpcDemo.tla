----------------------------- MODULE MCIpcDemo -----------------------------
(* Small instances of the IPC demo for TLC. *)
EXTENDS IpcDemo
=============================================================================
