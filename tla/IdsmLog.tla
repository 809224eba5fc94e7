------------------------------ MODULE IdsmLog ------------------------------
(***************************************************************************)
(* The IdsM secure event logger of BL2                                     *)
(* (src/emmc/cld_code/bl2_image_load_idsm.c): HSE bring-up, key            *)
(* provisioning and idsm_log_event() writing event records to eMMC,        *)
(* for any caller of idsm_log_event() and with power failures.             *)
(*                                                                         *)
(* Abstractions:                                                           *)
(*  - A sector holds one frame; its bytes are a record of what the frame   *)
(*    is and which call wrote it.  Sectors are numbered from               *)
(*    IDSM_LOG_START_SECTOR.                                               *)
(*  - An HSE request is one step that succeeds or fails; running out of    *)
(*    HSE memory is one of its failures (every path frees what it got).    *)
(*  - s_log_index is a natural number: 2^32 calls in one boot of BL2 are   *)
(*    out of reach, and 64 divides 2^32.                                   *)
(*  - A sector is written as a whole.  After a failed write it holds its   *)
(*    old or its new contents.                                             *)
(***************************************************************************)
EXTENDS Integers

CONSTANTS
  IDSM_LOG_MAX_ENTRIES,  \* slots of each region of the log (64)
  Events,                \* event identifiers a caller may log
  Faults,                \* services that may fail
  MaxBoots,              \* bound: power-ups of the board
  MaxCalls               \* bound: idsm_log_event() calls per boot

Services == {"hse_driver_init", "import_aes", "import_rsa", "aead", "sign", "mmc"}

ASSUME LogAssumption ==
  /\ IDSM_LOG_MAX_ENTRIES \in Nat \ {0}
  /\ Faults \subseteq Services
  /\ MaxBoots \in Nat
  /\ MaxCalls \in Nat

VARIABLES
  emmc,          \* the sectors of the log, the only state that survives a power loss
  s_log_index,   \* static: index of the next record
  s_hse_ready,   \* static: hse_driver_init() succeeded
  s_keys_ready,  \* static: both keys are in the HSE
  pc,            \* where the logger is
  rec,           \* the record being written
  boots,         \* history: number of power-ups
  calls,         \* history: idsm_log_event() calls of this boot
  stored,        \* history: calls of this boot reported as written
  lost           \* history: calls of this boot that a failing service kept from it

logVars == <<emmc, s_log_index, s_hse_ready, s_keys_ready, pc, rec, boots, calls, stored, lost>>

-----------------------------------------------------------------------------
(* The sectors of the log: one per secure record, then two per plain one.  *)

IDSM_SECTORS_SECURE == 1
IDSM_SECTORS_PLAIN  == 2

Slots   == 0 .. IDSM_LOG_MAX_ENTRIES - 1
Sectors == 0 .. IDSM_LOG_MAX_ENTRIES * (IDSM_SECTORS_SECURE + IDSM_SECTORS_PLAIN) - 1

Slot(index) == index % IDSM_LOG_MAX_ENTRIES

\* base_sector of the secure and of the plain record of an index
SecureSector(index) == Slot(index) * IDSM_SECTORS_SECURE
PlainSector(index) ==
  IDSM_LOG_MAX_ENTRIES * IDSM_SECTORS_SECURE + Slot(index) * IDSM_SECTORS_PLAIN

(* A call of idsm_log_event(): call n of its boot, and its event.  A frame  *)
(* is what one sector holds of a call: the sealed record, or the event or   *)
(* the timestamp half of a plaintext one.  Only the sealed record carries a *)
(* number, the IV; a timestamp carries neither header nor event.  The field *)
(* "of" stands for the bytes that differ from call to call; that it tells   *)
(* the boot and n is history, no reader finds them in a plaintext frame.    *)
Record == [boot : 1 .. MaxBoots, n : Nat, event : Events]
Blank  == [kind |-> "blank"]
SealedRecord   == [kind : {"record"}, hdr : {"TS_AND_SIG"}, iv : Nat, of : Record]
EventFrame     == [kind : {"event"}, hdr : {"TS_ONLY", "TS_AND_SIG"}, of : Record]
TimestampFrame == [kind : {"ts"}, of : Record]
Frame          == SealedRecord \cup EventFrame \cup TimestampFrame

Written(sector) == emmc[sector].kind # "blank"

\* The sector holds a frame with a header and an event.
TellsEvent(sector) == emmc[sector].kind \in {"record", "event"}

\* The HSE path is used once the driver and both keys are ready.
SecureMode == s_hse_ready /\ s_keys_ready

-----------------------------------------------------------------------------
(* External services *)

Outcome(service) == {TRUE} \cup (IF service \in Faults THEN {FALSE} ELSE {})

\* mmc_write_blocks: a write that reports failure may or may not have taken place.
mmc_write_blocks(sector, frame, ok) ==
  LET new == [emmc EXCEPT ![sector] = frame]
  IN  IF ok THEN emmc' = new ELSE emmc' \in {emmc, new}

-----------------------------------------------------------------------------
(* Power-up and key provisioning, at the head of bl2_load_images() *)

\* Mutant: the index lives in memory that a reset does not clear.
PowerOn_KeepsIndex ==
  /\ pc = "off"
  /\ boots < MaxBoots
  /\ boots' = boots + 1
  /\ s_hse_ready' = FALSE
  /\ s_keys_ready' = FALSE
  /\ calls' = 0
  /\ stored' = {}
  /\ lost' = {}
  /\ pc' = "hse_init"
  /\ UNCHANGED <<emmc, s_log_index, rec>>

PowerOn ==
  /\ pc = "off"
  /\ boots < MaxBoots
  /\ boots' = boots + 1
  /\ s_log_index' = 0
  /\ s_hse_ready' = FALSE
  /\ s_keys_ready' = FALSE
  /\ calls' = 0
  /\ stored' = {}
  /\ lost' = {}
  /\ pc' = "hse_init"
  /\ UNCHANGED <<emmc, rec>>

idsm_hse_init ==
  /\ pc = "hse_init"
  /\ \E ok \in Outcome("hse_driver_init") :
       /\ s_hse_ready' = ok
       /\ pc' = IF ok THEN "import_aes" ELSE "ready"
  /\ UNCHANGED <<emmc, s_log_index, s_keys_ready, rec, boots, calls, stored, lost>>

idsm_import_aes256_key ==
  /\ pc = "import_aes"
  /\ \E ok \in Outcome("import_aes") : pc' = IF ok THEN "import_rsa" ELSE "ready"
  /\ UNCHANGED <<emmc, s_log_index, s_hse_ready, s_keys_ready, rec, boots, calls, stored, lost>>

idsm_import_rsa_pair_key ==
  /\ pc = "import_rsa"
  /\ \E ok \in Outcome("import_rsa") : s_keys_ready' = ok
  /\ pc' = "ready"
  /\ UNCHANGED <<emmc, s_log_index, s_hse_ready, rec, boots, calls, stored, lost>>

-----------------------------------------------------------------------------
(* idsm_log_event() *)

\* A call takes the path of the mode it finds.
idsm_log_event(event) ==
  /\ pc = "ready"
  /\ calls < MaxCalls
  /\ rec' = [boot |-> boots, n |-> calls, event |-> event]
  /\ calls' = calls + 1
  /\ pc' = IF SecureMode THEN "gcm" ELSE "plain_event"
  /\ UNCHANGED <<emmc, s_log_index, s_hse_ready, s_keys_ready, boots, stored, lost>>

\* The frames of a call: build_event_frame, build_gcm_iv, build_timestamp_frame
Sealed(index) == [kind |-> "record", hdr |-> "TS_AND_SIG", iv |-> index, of |-> rec]
Event(hdr)    == [kind |-> "event", hdr |-> hdr, of |-> rec]
Timestamp     == [kind |-> "ts", of |-> rec]

\* What is known of the call when a step of it ended well, or did not
Keep(done) == stored' = (IF done THEN stored \cup {rec.n} ELSE stored)
Lose(done) == lost' = (IF done THEN lost ELSE lost \cup {rec.n})

\* Every path of idsm_log_event() ends here, whatever was written.
Return ==
  /\ s_log_index' = s_log_index + 1
  /\ pc' = "ready"

\* idsm_write_secure: encrypt the timestamp; on failure fall back to plaintext
idsm_aes_gcm_encrypt ==
  /\ pc = "gcm"
  /\ \E ok \in Outcome("aead") :
       /\ pc' = IF ok THEN "sign" ELSE "fallback_event"
       /\ Lose(ok)
  /\ UNCHANGED <<emmc, s_log_index, s_hse_ready, s_keys_ready, rec, boots, calls, stored>>

\* the fallback ignores the result of both writes
WriteFallbackEvent ==
  /\ pc = "fallback_event"
  /\ \E ok \in Outcome("mmc") :
       mmc_write_blocks(SecureSector(s_log_index), Event("TS_AND_SIG"), ok)
  /\ pc' = "fallback_ts"
  /\ UNCHANGED <<s_log_index, s_hse_ready, s_keys_ready, rec, boots, calls, stored, lost>>

WriteFallbackTimestamp ==
  /\ pc = "fallback_ts"
  /\ \E ok \in Outcome("mmc") :
       mmc_write_blocks(SecureSector(s_log_index) + 1, Timestamp, ok)
  /\ Return
  /\ UNCHANGED <<s_hse_ready, s_keys_ready, rec, boots, calls, stored, lost>>

\* Mutant: only written records are counted.
idsm_rsa_pkcs1_sign_KeepsIndex ==
  /\ pc = "sign"
  /\ \E ok \in Outcome("sign") :
       /\ pc' = IF ok THEN "write_record" ELSE "ready"
       /\ Lose(ok)
  /\ UNCHANGED <<emmc, s_log_index, s_hse_ready, s_keys_ready, rec, boots, calls, stored>>

\* a record that cannot be signed is dropped
idsm_rsa_pkcs1_sign ==
  /\ pc = "sign"
  /\ \E ok \in Outcome("sign") :
       /\ IF ok THEN pc' = "write_record" /\ UNCHANGED s_log_index ELSE Return
       /\ Lose(ok)
  /\ UNCHANGED <<emmc, s_hse_ready, s_keys_ready, rec, boots, calls, stored>>

\* Mutants: secure slots are two sectors apart; the IV is that of the record before.
WriteSecureRecord_PlainStride ==
  /\ pc = "write_record"
  /\ \E ok \in Outcome("mmc") :
       /\ mmc_write_blocks(Slot(s_log_index) * IDSM_SECTORS_PLAIN, Sealed(s_log_index), ok)
       /\ Keep(ok) /\ Lose(ok)
  /\ Return
  /\ UNCHANGED <<s_hse_ready, s_keys_ready, rec, boots, calls>>

WriteSecureRecord_StaleIndex ==
  /\ pc = "write_record"
  /\ \E ok \in Outcome("mmc") :
       /\ mmc_write_blocks(SecureSector(s_log_index), Sealed(s_log_index - 1), ok)
       /\ Keep(ok) /\ Lose(ok)
  /\ Return
  /\ UNCHANGED <<s_hse_ready, s_keys_ready, rec, boots, calls>>

WriteSecureRecord ==
  /\ pc = "write_record"
  /\ \E ok \in Outcome("mmc") :
       /\ mmc_write_blocks(SecureSector(s_log_index), Sealed(s_log_index), ok)
       /\ Keep(ok) /\ Lose(ok)
  /\ Return
  /\ UNCHANGED <<s_hse_ready, s_keys_ready, rec, boots, calls>>

\* Mutant: the timestamp is written whatever became of the event frame.
WritePlainEvent_NoEarlyReturn ==
  /\ pc = "plain_event"
  /\ \E ok \in Outcome("mmc") :
       /\ mmc_write_blocks(PlainSector(s_log_index), Event("TS_ONLY"), ok)
       /\ Lose(ok)
  /\ pc' = "plain_ts"
  /\ UNCHANGED <<s_log_index, s_hse_ready, s_keys_ready, rec, boots, calls, stored>>

\* idsm_write_plain: the timestamp is written only after the event frame was
WritePlainEvent ==
  /\ pc = "plain_event"
  /\ \E ok \in Outcome("mmc") :
       /\ mmc_write_blocks(PlainSector(s_log_index), Event("TS_ONLY"), ok)
       /\ IF ok THEN pc' = "plain_ts" /\ UNCHANGED s_log_index ELSE Return
       /\ Lose(ok)
  /\ UNCHANGED <<s_hse_ready, s_keys_ready, rec, boots, calls, stored>>

\* Mutant: the timestamp goes over its event frame.
WritePlainTimestamp_SameSector ==
  /\ pc = "plain_ts"
  /\ \E ok \in Outcome("mmc") :
       /\ mmc_write_blocks(PlainSector(s_log_index), Timestamp, ok)
       /\ Keep(ok) /\ Lose(ok)
  /\ Return
  /\ UNCHANGED <<s_hse_ready, s_keys_ready, rec, boots, calls>>

WritePlainTimestamp ==
  /\ pc = "plain_ts"
  /\ \E ok \in Outcome("mmc") :
       /\ mmc_write_blocks(PlainSector(s_log_index) + 1, Timestamp, ok)
       /\ Keep(ok) /\ Lose(ok)
  /\ Return
  /\ UNCHANGED <<s_hse_ready, s_keys_ready, rec, boots, calls>>

-----------------------------------------------------------------------------
\* Power may fail between any two steps; the statics are set anew by PowerOn.
PowerLoss ==
  /\ pc # "off"
  /\ pc' = "off"
  /\ UNCHANGED <<emmc, s_log_index, s_hse_ready, s_keys_ready, rec, boots, calls, stored, lost>>

LogInit ==
  /\ emmc = [s \in Sectors |-> Blank]
  /\ s_log_index = 0
  /\ s_hse_ready = FALSE
  /\ s_keys_ready = FALSE
  /\ pc = "off"
  /\ rec = Blank
  /\ boots = 0
  /\ calls = 0
  /\ stored = {}
  /\ lost = {}

\* The steps the logger takes by itself, inside BL2's calls
LogStep ==
  \/ idsm_hse_init
  \/ idsm_import_aes256_key
  \/ idsm_import_rsa_pair_key
  \/ idsm_aes_gcm_encrypt
  \/ WriteFallbackEvent
  \/ WriteFallbackTimestamp
  \/ idsm_rsa_pkcs1_sign
  \/ WriteSecureRecord
  \/ WritePlainEvent
  \/ WritePlainTimestamp

LogNext ==
  \/ PowerOn
  \/ PowerLoss
  \/ LogStep
  \/ \E event \in Events : idsm_log_event(event)

LogSpec == LogInit /\ [][LogNext]_logVars

-----------------------------------------------------------------------------
(* Properties *)

TypeOK ==
  /\ emmc \in [Sectors -> Frame \cup {Blank}]
  /\ s_log_index \in Nat
  /\ s_hse_ready \in BOOLEAN
  /\ s_keys_ready \in BOOLEAN
  /\ pc \in {"off", "hse_init", "import_aes", "import_rsa", "ready", "gcm",
             "fallback_event", "fallback_ts", "sign", "write_record",
             "plain_event", "plain_ts"}
  /\ rec \in Record \cup {Blank}
  /\ boots \in 0 .. MaxBoots
  /\ calls \in Nat
  /\ stored \subseteq 0 .. calls - 1
  /\ lost \subseteq 0 .. calls - 1

\* Call a began before call b.
Older(a, b) == a.boot < b.boot \/ (a.boot = b.boot /\ a.n < b.n)

\* The sector holds a frame of that kind written by call n of this boot.
Holds(sector, kind, n) ==
  /\ emmc[sector].kind = kind
  /\ emmc[sector].of.boot = boots
  /\ emmc[sector].of.n = n

Retrievable(n) ==
  IF SecureMode
  THEN Holds(SecureSector(n), "record", n)
  ELSE Holds(PlainSector(n), "event", n) /\ Holds(PlainSector(n) + 1, "ts", n)

(* How many calls, itself included, a stored record outlives: a plaintext   *)
(* fallback uses two of the secure sectors, so it reaches the oldest entry. *)
Window ==
  IF SecureMode /\ "aead" \in Faults THEN IDSM_LOG_MAX_ENTRIES - 1 ELSE IDSM_LOG_MAX_ENTRIES

(* A record reported as written can be read back until the ring has gone    *)
(* round, whatever else fails: dropped records, fallbacks and failed writes *)
(* of other calls cost it at most one slot of its life (idsm_log_event).    *)
Retained == \A n \in stored : calls - n <= Window => Retrievable(n)

(* The number in a sealed record, its IV, counts every earlier call of its  *)
(* boot, the dropped ones included: between two sealed records a reader     *)
(* sees how many are missing, and no two share an IV.  A plaintext frame,   *)
(* of the fallback or of the plaintext region, carries no number at all.    *)
SequenceCountsEveryCall ==
  \A s \in Sectors : emmc[s].kind = "record" => emmc[s].iv = emmc[s].of.n

(* A boot writes all its records the same way: the choice between the two   *)
(* regions (s_hse_ready && s_keys_ready) never changes between two events.  *)
OneFormPerBoot ==
  \A s, t \in Sectors :
    TellsEvent(s) /\ TellsEvent(t) /\ emmc[s].of.boot = emmc[t].of.boot => emmc[s].hdr = emmc[t].hdr

(* In the plain region a timestamp is never newer than the event beside it: *)
(* a reader never dates an old event with a new time (the early return of   *)
(* idsm_write_plain), not even after a power loss between the two writes.   *)
TimestampNeverAhead ==
  \A slot \in Slots :
    LET event == PlainSector(slot)
        ts    == PlainSector(slot) + 1
    IN  Written(ts) => Written(event) /\ ~Older(emmc[event].of, emmc[ts].of)

\* The sectors in reach of the calls made so far, in the form of this boot
WithinReach ==
  LET spill == IF "aead" \in Faults THEN 1 ELSE 0
      plain == IDSM_LOG_MAX_ENTRIES * IDSM_SECTORS_SECURE
  IN  IF SecureMode
      THEN {s \in Sectors : s < calls + spill /\ s < plain + spill}
      ELSE {s \in Sectors : s >= plain /\ s - plain < IDSM_SECTORS_PLAIN * calls}

(* A boot overwrites what earlier boots left only from the front, as far as *)
(* it has logged itself, and only in the region of its own form: the other  *)
(* one is spared.  One exception: the timestamp of a fallback takes a       *)
(* sector more, and behind the last slot of the sealed region that is the   *)
(* first sector of the plaintext one (idsm_write_secure).                   *)
EarlierBootsKept == [][\A s \in Sectors : emmc'[s] # emmc[s] => s \in WithinReach]_logVars

(* The secure region implements the ring that IdsmRing promises.            *)
Ring ==
  INSTANCE IdsmRing WITH
    Size    <- IDSM_LOG_MAX_ENTRIES,
    Entries <- SealedRecord,
    Empty   <- Blank,
    slots   <- [i \in Slots |-> IF emmc[i].kind = "record" THEN emmc[i] ELSE Blank],
    head    <- Slot(s_log_index)

RingSpec == Ring!RingSpec

=============================================================================
