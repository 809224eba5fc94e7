------------------------------- MODULE MCMemDal -------------------------------
(* Small instances of the storage layer for TLC: a block on the SD card, written on *)
(* request, and one in flash, written when the ECU goes to sleep. *)
EXTENDS MemDal

MCMemory == <<"SDCARD", "FLASH">>
MCWrite == <<"ONREQUEST", "ONCLOSING">>
=============================================================================
