----------------------------- MODULE SecbootLog -----------------------------
(***************************************************************************)
(* The secure boot error log in NOR flash (src/hse-error-log/secboot_log.c)*)
(* and the BL2 that fills it (src/hse-error-log/bl2_image_load_seclog.c),  *)
(* over many boots, with power lost between any two flash operations.      *)
(*                                                                         *)
(* Abstractions:                                                           *)
(*  - Sizes and offsets count words of four bytes.  An entry is one value  *)
(*    at the offset of its first word.                                     *)
(*  - nor_flash_write stores what it is given, as the in-place update of   *)
(*    the header needs it to; one sector holds the whole log.              *)
(*  - A header is its write offset, or Invalid if its magic is wrong.  Its *)
(*    offset word is written as a whole; an entry can be torn.             *)
(*  - Any call of the flash driver can fail, and BL2 looks at no result.   *)
(*    A read that fails delivers nothing, or something without magic; an   *)
(*    erase that fails erases nothing; a write that fails may be undone,   *)
(*    or for an entry torn.                                                *)
(***************************************************************************)
EXTENDS Naturals, Sequences

CONSTANTS
  PLAT_SECBOOT_LOG_SIZE,  \* words of the log, header included
  NumImages,              \* images of BL2's list
  SkipLoading,            \* images with IMAGE_ATTRIB_SKIP_LOADING
  MaxBoots                \* bound: power-ups of the board

HeaderSize == 4           \* sizeof(secboot_log_header_t), in words
EntrySize  == 3           \* sizeof(secboot_log_entry_t), in words

Images == 1 .. NumImages

ASSUME SecbootAssumption ==
  /\ PLAT_SECBOOT_LOG_SIZE \in Nat /\ PLAT_SECBOOT_LOG_SIZE > HeaderSize
  /\ NumImages \in Nat \ {0}
  /\ SkipLoading \subseteq Images
  /\ MaxBoots \in Nat

\* How many entries start inside the log.  "Wrap log if full" (secboot_log.c:86) is not
\* what the code does: it starts over only when the header read back is outside, so that
\* the last of them may end past the log.
Capacity == (PLAT_SECBOOT_LOG_SIZE - HeaderSize + EntrySize - 1) \div EntrySize
Offset(i) == HeaderSize + EntrySize * i
Offsets == {Offset(i) : i \in 0 .. Capacity - 1}

Entry == [boot : 1 .. MaxBoots, image : Images, error : {"pre", "load", "post"}]
Blank == [cell |-> "blank"]
Torn  == [cell |-> "torn"]
Invalid == 0

VARIABLES
  nor,      \* the entries in flash, by offset
  nor_hdr,  \* the write offset in the header in flash, or Invalid
  log_hdr,  \* static log_hdr.write_offset
  pc,       \* where BL2 is
  ret,      \* who called secboot_log_init()
  node,     \* bl2_node_info, as a position in the list
  error,    \* the entry being logged
  boots,    \* history: number of power-ups
  fault     \* history: a call of the flash driver has failed in this boot

vars == <<nor, nor_hdr, log_hdr, pc, ret, node, error, boots, fault>>

Init ==
  /\ nor = [o \in Offsets |-> Blank]
  /\ nor_hdr = Invalid
  /\ log_hdr = Invalid
  /\ pc = "off"
  /\ ret = "none"
  /\ node = 1
  /\ error = Blank
  /\ boots = 0
  /\ fault = FALSE

PowerOn ==
  /\ pc = "off" /\ boots < MaxBoots
  /\ boots' = boots + 1
  /\ log_hdr' = Invalid
  /\ node' = 1
  /\ ret' = "pre"
  /\ pc' = "init"
  /\ fault' = FALSE
  /\ UNCHANGED <<nor, nor_hdr, error>>

-----------------------------------------------------------------------------
(* secboot_log_init() *)

Valid(hdr) == hdr # Invalid /\ hdr >= HeaderSize /\ hdr < PLAT_SECBOOT_LOG_SIZE

\* nor_flash_read() of the header into log_hdr
nor_flash_read ==
  \/ log_hdr' = nor_hdr /\ UNCHANGED fault
  \/ log_hdr' \in {log_hdr, Invalid} /\ fault' = TRUE

\* nor_flash_write() of the header
WriteHeader(hdr) ==
  \/ nor_hdr' = hdr /\ fault' \in {fault, TRUE}
  \/ UNCHANGED nor_hdr /\ fault' = TRUE

\* Mutant: a log that is full is not recognised.
ReadHeader_IgnoresSize ==
  /\ pc = "init"
  /\ nor_flash_read
  /\ pc' = IF log_hdr' # Invalid THEN ret ELSE "erase"
  /\ UNCHANGED <<nor, nor_hdr, ret, node, error, boots>>

\* Mutant: the header in flash is never taken over.
ReadHeader_AlwaysErases ==
  /\ pc = "init"
  /\ nor_flash_read
  /\ pc' = "erase"
  /\ UNCHANGED <<nor, nor_hdr, ret, node, error, boots>>

ReadHeader ==
  /\ pc = "init"
  /\ nor_flash_read
  /\ pc' = IF Valid(log_hdr') THEN ret ELSE "erase"
  /\ UNCHANGED <<nor, nor_hdr, ret, node, error, boots>>

EraseSector ==
  /\ pc = "erase"
  /\ \/ nor' = [o \in Offsets |-> Blank] /\ nor_hdr' = Invalid /\ UNCHANGED fault
     \/ UNCHANGED <<nor, nor_hdr>> /\ fault' = TRUE
  /\ pc' = "init_header"
  /\ UNCHANGED <<log_hdr, ret, node, error, boots>>

WriteNewHeader ==
  /\ pc = "init_header"
  /\ log_hdr' = HeaderSize
  /\ WriteHeader(HeaderSize)
  /\ pc' = ret
  /\ UNCHANGED <<nor, ret, node, error, boots>>

-----------------------------------------------------------------------------
(* secboot_log_error() *)

\* Full or not: a log with no room left is initialised first.
LogError ==
  /\ pc = "log_error"
  /\ IF log_hdr + EntrySize > PLAT_SECBOOT_LOG_SIZE
     THEN pc' = "init" /\ ret' = "write_entry"
     ELSE pc' = "write_entry" /\ UNCHANGED ret
  /\ UNCHANGED <<nor, nor_hdr, log_hdr, node, error, boots, fault>>

WriteEntry ==
  /\ pc = "write_entry"
  /\ \/ nor' = [nor EXCEPT ![log_hdr] = error] /\ fault' \in {fault, TRUE}
     \/ nor' \in {nor, [nor EXCEPT ![log_hdr] = Torn]} /\ fault' = TRUE
  /\ pc' = "update_header"
  /\ UNCHANGED <<nor_hdr, log_hdr, ret, node, error, boots>>

\* Mutant: the error is logged and the boot goes on with the next image.
UpdateHeader_GoesOn ==
  /\ pc = "update_header"
  /\ log_hdr' = log_hdr + EntrySize
  /\ WriteHeader(log_hdr + EntrySize)
  /\ node' = node + 1
  /\ pc' = "pre"
  /\ UNCHANGED <<nor, ret, error, boots>>

UpdateHeader ==
  /\ pc = "update_header"
  /\ log_hdr' = log_hdr + EntrySize
  /\ WriteHeader(log_hdr + EntrySize)
  /\ pc' = "panic"
  /\ UNCHANGED <<nor, ret, node, error, boots>>

-----------------------------------------------------------------------------
(* bl2_load_images(): after an error is logged, plat_error_handler() stops  *)
(* the boot.                                                                *)

Fail(check) ==
  /\ error' = [boot |-> boots, image |-> node, error |-> check]
  /\ pc' = "log_error"
  /\ UNCHANGED <<nor, nor_hdr, log_hdr, ret, node, boots, fault>>

Pass(next, image) ==
  /\ node' = image
  /\ pc' = next
  /\ UNCHANGED <<nor, nor_hdr, log_hdr, ret, error, boots, fault>>

PreImageLoad ==
  /\ pc = "pre" /\ node \in Images
  /\ Fail("pre") \/ Pass(IF node \in SkipLoading THEN "post" ELSE "load", node)

LoadAuthImage ==
  /\ pc = "load"
  /\ Fail("load") \/ Pass("post", node)

\* Mutant: a failed post-load handler is logged and forgotten.
PostImageLoad_NoLog ==
  /\ pc = "post"
  /\ Pass("panic", node) \/ Pass("pre", node + 1)

\* Mutant: the walk starts over after each image.
PostImageLoad_SameImage ==
  /\ pc = "post"
  /\ Fail("post") \/ Pass("pre", 1)

PostImageLoad ==
  /\ pc = "post"
  /\ Fail("post") \/ Pass("pre", node + 1)

HandOver ==
  /\ pc = "pre" /\ node \notin Images
  /\ Pass("returned", node)

PowerLoss ==
  /\ pc # "off"
  /\ \/ UNCHANGED nor
     \/ pc = "write_entry" /\ nor' = [nor EXCEPT ![log_hdr] = Torn]
  /\ pc' = "off"
  /\ UNCHANGED <<nor_hdr, log_hdr, ret, node, error, boots, fault>>

Bl2Step ==
  \/ ReadHeader
  \/ EraseSector
  \/ WriteNewHeader
  \/ LogError
  \/ WriteEntry
  \/ UpdateHeader
  \/ PreImageLoad
  \/ LoadAuthImage
  \/ PostImageLoad
  \/ HandOver

Next == PowerOn \/ PowerLoss \/ Bl2Step

Spec == Init /\ [][Next]_vars

\* The core keeps running while it has power.
FairSpec == Spec /\ WF_vars(Bl2Step)

-----------------------------------------------------------------------------
(* Properties *)

TypeOK ==
  /\ nor \in [Offsets -> Entry \cup {Blank, Torn}]
  /\ nor_hdr \in {Invalid, Offset(Capacity)} \cup Offsets
  /\ log_hdr \in {Invalid, Offset(Capacity)} \cup Offsets
  /\ pc \in {"off", "init", "erase", "init_header", "pre", "load", "post", "log_error",
             "write_entry", "update_header", "panic", "returned"}
  /\ ret \in {"none", "pre", "write_entry"}
  /\ node \in 1 .. NumImages + 1
  /\ error \in Entry \cup {Blank}
  /\ boots \in 0 .. MaxBoots
  /\ fault \in BOOLEAN

\* How many entries a header announces, and what a reader finds there
Count(hdr) == IF hdr = Invalid THEN 0 ELSE (hdr - HeaderSize) \div EntrySize
Readable == [i \in 1 .. Count(nor_hdr) |-> nor[Offset(i - 1)]]

(* The log in flash behaves as an append-only log that is emptied only when *)
(* it is full, whenever the power goes: the header is written after the     *)
(* entry it announces (secboot_log_error).  A boot with a failing driver    *)
(* can throw away all of the log or spoil its first entry, and announce a   *)
(* cell that holds no entry; it changes no other entry.                     *)
Log == INSTANCE AppendLog
         WITH Entries <- Entry, Junk <- Entry \cup {Blank, Torn},
              entries <- Readable, failing <- fault
AppendSpec == Log!AppendSpec

(* A boot that was stopped left its reason as the last entry of the log, if *)
(* the driver did its work; a boot that goes on or handed over has left no  *)
(* entry.                                                                   *)
FailureOnRecord ==
  /\ pc = "panic" /\ ~fault =>
       LET last == Readable[Len(Readable)]
       IN  Readable # <<>> /\ last = error /\ last.boot = boots /\ last.image = node
  /\ pc \in {"pre", "load", "post", "returned"} =>
       \A i \in DOMAIN Readable : Readable[i] \in Entry => Readable[i].boot # boots

(* Every boot is decided: it hands over or stops in plat_error_handler(),  *)
(* unless power is lost first, and whatever the flash driver does.          *)
BootDecided == (pc = "init") ~> (pc \in {"returned", "panic", "off"})

=============================================================================
