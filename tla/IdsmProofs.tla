----------------------------- MODULE IdsmProofs -----------------------------
(***************************************************************************)
(* Proofs about the IdsM logger, for every size of the ring, set of events, *)
(* set of failing services and number of boots and calls; then about BL2   *)
(* and its logger together, for every list of images.                      *)
(***************************************************************************)
EXTENDS Bl2LoadImages, TLAPS

N == IDSM_LOG_MAX_ENTRIES

-----------------------------------------------------------------------------
(* Slots *)

LEMMA SlotInRing == ASSUME NEW a \in Nat PROVE Slot(a) \in 0 .. N - 1
BY LogAssumption DEF Slot, N

(* Two indexes less than one round apart have different slots.              *)
LEMMA SlotsDiffer ==
  ASSUME NEW a \in Nat, NEW b \in Nat, a < b, b - a < N
  PROVE  Slot(a) # Slot(b)
<1> DEFINE qa == a \div N
           qb == b \div N
<1>1. N \in Nat /\ N > 0
  BY LogAssumption DEF N
<1>2. qa \in Int /\ qb \in Int /\ a = (N * qa) + (a % N) /\ b = (N * qb) + (b % N)
  BY <1>1
<1>3. SUFFICES ASSUME a % N = b % N PROVE FALSE
  BY DEF Slot, N
<1>4. b - a = N * (qb - qa)
  BY <1>1, <1>2, <1>3
<1>5. QED
  <2> DEFINE d == qb - qa
  <2>1. d \in Int
    BY <1>2
  <2>2. CASE d >= 1
    BY <1>1, <1>4, <2>1, <2>2
  <2>3. CASE d <= 0
    BY <1>1, <1>4, <2>1, <2>3
  <2>4. QED
    BY <2>1, <2>2, <2>3


(* With a slot to spare, the younger one's successor is free as well.       *)
LEMMA SuccessorDiffers ==
  ASSUME NEW a \in Nat, NEW b \in Nat, a < b, b - a < N - 1
  PROVE  Slot(a) # Slot(b) + 1
<1> DEFINE qa == a \div N
           qb == b \div N
<1>1. N \in Nat /\ N > 0
  BY LogAssumption DEF N
<1>2. /\ qa \in Int /\ qb \in Int
      /\ a = (N * qa) + (a % N) /\ b = (N * qb) + (b % N)
  BY <1>1
<1>3. SUFFICES ASSUME a % N = (b % N) + 1 PROVE FALSE
  BY DEF Slot, N
<1>4. b + 1 - a = N * (qb - qa)
  BY <1>1, <1>2, <1>3
<1>5. QED
  <2> DEFINE d == qb - qa
  <2>1. d \in Int
    BY <1>2
  <2>2. CASE d >= 1
    BY <1>1, <1>4, <2>1, <2>2
  <2>3. CASE d <= 0
    BY <1>1, <1>4, <2>1, <2>3
  <2>4. QED
    BY <2>1, <2>2, <2>3

(* The sectors of a record lie in the log, each region in its own part.     *)
LEMMA SectorsOfIndex ==
  ASSUME NEW a \in Nat
  PROVE  /\ SecureSector(a) = Slot(a)
         /\ PlainSector(a) = N + 2 * Slot(a)
         /\ Slot(a) \in 0 .. N - 1
         /\ {SecureSector(a), SecureSector(a) + 1, PlainSector(a), PlainSector(a) + 1}
              \subseteq Sectors
BY LogAssumption, SlotInRing
DEF SecureSector, PlainSector, Sectors, IDSM_SECTORS_SECURE, IDSM_SECTORS_PLAIN, N

-----------------------------------------------------------------------------
(* The inductive invariant *)

BringUpPc == {"hse_init", "import_aes", "import_rsa"}
SecurePc  == {"gcm", "fallback_event", "fallback_ts", "sign", "write_record"}
PlainPc   == {"plain_event", "plain_ts"}

\* Inside a call the record is the one the index stands for, and is not stored yet.
CallInv ==
  pc \in SecurePc \cup PlainPc =>
    /\ rec \in Record
    /\ rec.boot = boots
    /\ rec.n = s_log_index
    /\ calls = s_log_index + 1
    /\ s_log_index \notin stored

\* Between calls the index counts them.
IdleInv ==
  /\ pc = "ready" => calls = s_log_index
  /\ pc \in BringUpPc => calls = 0 /\ s_log_index = 0 /\ ~s_keys_ready
  /\ pc # "off" => boots >= 1

ModeInv ==
  /\ pc \in SecurePc => SecureMode
  /\ pc \in PlainPc => ~SecureMode
  /\ pc \in {"fallback_event", "fallback_ts"} => "aead" \in Faults

\* Every call that has returned was reported as written, or a service failed in it.
DoneInv ==
  /\ 0 .. s_log_index - 1 \subseteq stored \cup lost
  /\ pc \in {"fallback_event", "fallback_ts"} => s_log_index \in lost

\* A frame of this boot is from a call already made, in the form of the boot's mode.
FrameInv ==
  \A s \in Sectors : Written(s) =>
    /\ emmc[s].of.boot <= boots
    /\ emmc[s].of.boot = boots =>
         /\ emmc[s].of.n < calls
         /\ TellsEvent(s) => (emmc[s].hdr = "TS_AND_SIG" <=> SecureMode)

\* The timestamp of a plaintext record is written beside its event.
PairInv == pc = "plain_ts" => Holds(PlainSector(s_log_index), "event", s_log_index)

LogInv ==
  /\ TypeOK
  /\ CallInv
  /\ IdleInv
  /\ ModeInv
  /\ DoneInv
  /\ FrameInv
  /\ PairInv
  /\ Retained
  /\ SequenceCountsEveryCall
  /\ OneFormPerBoot
  /\ TimestampNeverAhead

-----------------------------------------------------------------------------
(* What one write to eMMC does *)

\* The frames a call may write, and the write of a frame that may have failed
CallFrames ==
  IF SecureMode
  THEN {Sealed(s_log_index), Event("TS_AND_SIG"), Timestamp}
  ELSE {Event("TS_ONLY"), Timestamp}

Wrote(sector, frame) ==
  /\ emmc' \in [Sectors -> Frame \cup {Blank}]
  /\ emmc'[sector] \in {emmc[sector], frame}
  /\ \A s \in Sectors \ {sector} : emmc'[s] = emmc[s]

LEMMA FrameOfCall ==
  ASSUME TypeOK, rec \in Record, NEW frame \in CallFrames
  PROVE  /\ frame \in Frame
         /\ frame.of = rec
         /\ frame.kind \in {"record", "event", "ts"}
         /\ frame.kind # "ts" => (frame.hdr = "TS_AND_SIG" <=> SecureMode)
         /\ frame.kind = "record" => frame.iv = s_log_index
BY DEF TypeOK, CallFrames, Sealed, Event, Timestamp, Frame, SealedRecord, EventFrame,
       TimestampFrame

LEMMA WriteIsLocal ==
  ASSUME TypeOK, rec \in Record,
         NEW sector \in Sectors,
         NEW frame \in CallFrames,
         NEW ok \in BOOLEAN,
         mmc_write_blocks(sector, frame, ok)
  PROVE  /\ Wrote(sector, frame)
         /\ ok => emmc'[sector] = frame
<1>1. emmc \in [Sectors -> Frame \cup {Blank}]
  BY DEF TypeOK
<1>2. frame \in Frame
  BY FrameOfCall
<1>3. emmc' \in {emmc, [emmc EXCEPT ![sector] = frame]}
  BY DEF mmc_write_blocks
<1>4. ok => emmc' = [emmc EXCEPT ![sector] = frame]
  BY DEF mmc_write_blocks
<1>5. QED
  BY <1>1, <1>2, <1>3, <1>4 DEF Wrote

\* A write of the current call in the form of the mode of this boot
InCallWrite(sector, frame) ==
  /\ LogInv
  /\ pc \in SecurePc \cup PlainPc
  /\ sector \in Sectors
  /\ frame \in CallFrames
  /\ Wrote(sector, frame)
  /\ UNCHANGED <<s_hse_ready, s_keys_ready, rec, boots, calls>>

LEMMA FrameRecord ==
  ASSUME NEW f \in Frame
  PROVE  /\ f.of \in Record /\ f # Blank /\ f.kind # "blank"
         /\ f.kind \in {"record", "event"} => f.hdr \in {"TS_ONLY", "TS_AND_SIG"}
BY DEF Frame, SealedRecord, EventFrame, TimestampFrame, Blank

LEMMA WriteKeepsFrames ==
  ASSUME NEW sector, NEW frame, InCallWrite(sector, frame)
  PROVE  FrameInv' /\ SequenceCountsEveryCall' /\ OneFormPerBoot'
<1> USE DEF InCallWrite
<1>1. /\ rec \in Record /\ rec.boot = boots /\ rec.n = s_log_index
      /\ calls = s_log_index + 1
  BY DEF LogInv, CallInv
<1>2. s_log_index \in Nat
  BY DEF LogInv, TypeOK
<1>3. /\ frame.of = rec
      /\ frame.kind # "ts" => (frame.hdr = "TS_AND_SIG" <=> SecureMode)
      /\ frame.kind = "record" => frame.iv = s_log_index
  BY <1>1, FrameOfCall DEF LogInv
<1>4. \A s \in Sectors : emmc'[s] = emmc[s] \/ emmc'[s] = frame
  BY DEF Wrote
<1>5. SecureMode' = SecureMode
  BY DEF SecureMode
<1>6. FrameInv'
  <2> SUFFICES ASSUME NEW s \in Sectors, Written(s)'
               PROVE  /\ emmc'[s].of.boot <= boots
                      /\ emmc'[s].of.boot = boots =>
                           /\ emmc'[s].of.n < calls
                           /\ TellsEvent(s)' => (emmc'[s].hdr = "TS_AND_SIG" <=> SecureMode)
    BY <1>5 DEF FrameInv
  <2>1. CASE emmc'[s] = emmc[s]
    BY <2>1 DEF LogInv, FrameInv, Written, TellsEvent
  <2>2. CASE emmc'[s] = frame
    <3>1. boots <= boots /\ s_log_index < calls
      BY <1>1, <1>2 DEF LogInv, TypeOK
    <3>2. TellsEvent(s)' => (frame.hdr = "TS_AND_SIG" <=> SecureMode)
      BY <1>3, <2>2 DEF TellsEvent
    <3>3. QED
      BY <1>1, <1>3, <2>2, <3>1, <3>2
  <2>3. QED
    BY <1>4, <2>1, <2>2
<1>7. SequenceCountsEveryCall'
  BY <1>1, <1>3, <1>4 DEF LogInv, SequenceCountsEveryCall
<1>8. OneFormPerBoot'
  <2> SUFFICES ASSUME NEW s \in Sectors, NEW t \in Sectors,
                      TellsEvent(s)', TellsEvent(t)', emmc'[s].of.boot = emmc'[t].of.boot
               PROVE  emmc'[s].hdr = emmc'[t].hdr
    BY DEF OneFormPerBoot
  <2>1. \A u \in Sectors : TellsEvent(u)' /\ emmc'[u].of.boot = boots =>
          (emmc'[u].hdr = "TS_AND_SIG" <=> SecureMode)
    BY <1>5, <1>6 DEF FrameInv, Written, TellsEvent
  <2>2. \A u \in Sectors : TellsEvent(u)' => emmc'[u].hdr \in {"TS_ONLY", "TS_AND_SIG"}
    <3> SUFFICES ASSUME NEW u \in Sectors, TellsEvent(u)'
                 PROVE  emmc'[u].hdr \in {"TS_ONLY", "TS_AND_SIG"}
      OBVIOUS
    <3>1. emmc'[u] \in Frame
      BY DEF Wrote, TellsEvent, Blank
    <3>2. QED
      BY <3>1, FrameRecord DEF TellsEvent
  <2>3. CASE emmc'[s].of.boot = boots
    BY <2>1, <2>2, <2>3
  <2>4. CASE emmc'[s].of.boot # boots
    <3>1. emmc'[s] = emmc[s] /\ emmc'[t] = emmc[t]
      BY <1>1, <1>3, <1>4, <2>4
    <3>2. QED
      BY <3>1 DEF LogInv, OneFormPerBoot, TellsEvent
  <2>5. QED
    BY <2>3, <2>4
<1>9. QED
  BY <1>6, <1>7, <1>8


LEMMA SlotOfSlot == ASSUME NEW a \in Slots PROVE Slot(a) = a
BY LogAssumption DEF Slots, Slot

(* The new frame is not older than any other, so only a timestamp written   *)
(* without its event could break the pairing.                               *)
LEMMA WriteKeepsTimestamps ==
  ASSUME NEW sector, NEW frame, InCallWrite(sector, frame),
         \/ \A a \in Slots : sector # PlainSector(a) + 1
         \/ pc = "plain_ts" /\ sector = PlainSector(s_log_index) + 1
  PROVE  TimestampNeverAhead'
<1> USE DEF InCallWrite
<1>1. /\ rec \in Record /\ rec.boot = boots /\ rec.n = s_log_index
      /\ calls = s_log_index + 1
  BY DEF LogInv, CallInv
<1>2. s_log_index \in Nat /\ boots \in Nat
  BY DEF LogInv, TypeOK
<1>3. frame.of = rec /\ frame.kind # "blank"
  BY <1>1, FrameOfCall DEF LogInv
<1>4. \A s \in Sectors : emmc'[s] = emmc[s] \/ (s = sector /\ emmc'[s] = frame)
  BY DEF Wrote
<1> SUFFICES ASSUME NEW slot \in Slots, Written(PlainSector(slot) + 1)'
             PROVE  /\ Written(PlainSector(slot))'
                    /\ ~Older(emmc'[PlainSector(slot)].of, emmc'[PlainSector(slot) + 1].of)
  BY DEF TimestampNeverAhead
<1> DEFINE event == PlainSector(slot)
           ts    == PlainSector(slot) + 1
<1>5. event \in Sectors /\ ts \in Sectors /\ event # ts
  <2>1. slot \in Nat
    BY LogAssumption DEF Slots
  <2>2. QED
    BY <2>1, SectorsOfIndex, LogAssumption DEF N
<1>6. Written(event)' /\ Written(ts)' /\ emmc'[ts] = emmc[ts] /\ emmc'[event] = emmc[event] =>
        ~Older(emmc'[event].of, emmc'[ts].of)
  BY DEF LogInv, TimestampNeverAhead, Written
<1>7. CASE emmc'[ts] = emmc[ts] /\ emmc'[event] = emmc[event]
  BY <1>6, <1>7 DEF LogInv, TimestampNeverAhead, Written
<1>8. CASE sector = event /\ emmc'[event] = frame /\ emmc'[ts] = emmc[ts]
  <2>1. Written(ts) /\ emmc[ts].of.boot <= boots /\
          (emmc[ts].of.boot = boots => emmc[ts].of.n < calls)
    BY <1>5, <1>8 DEF Written, LogInv, FrameInv
  <2>2. emmc[ts].of \in Record
    BY <1>5, <2>1, FrameRecord DEF Written, Blank, LogInv, TypeOK
  <2>3. ~Older(rec, emmc[ts].of)
    BY <1>1, <1>2, <2>1, <2>2 DEF Older, Record
  <2>4. QED
    BY <1>3, <1>8, <2>3 DEF Written
<1>9. CASE sector = ts /\ emmc'[ts] = frame /\ emmc'[event] = emmc[event]
  <2>1. pc = "plain_ts" /\ ts = PlainSector(s_log_index) + 1
    BY <1>9
  <2>2. event = PlainSector(s_log_index)
    <3>1. slot \in Nat
      BY LogAssumption DEF Slots
    <3>2. PlainSector(slot) \in Sectors /\ PlainSector(s_log_index) \in Sectors
      BY <1>2, <3>1, SectorsOfIndex
    <3>3. Sectors \subseteq Int
      BY LogAssumption DEF Sectors, IDSM_SECTORS_SECURE, IDSM_SECTORS_PLAIN
    <3>4. PlainSector(slot) \in Int /\ PlainSector(s_log_index) \in Int
      BY <3>2, <3>3
    <3>5. QED
      BY <2>1, <3>4
  <2>3. Holds(event, "event", s_log_index)
    BY <2>1, <2>2 DEF LogInv, PairInv
  <2>4. ~Older(emmc[event].of, rec)
    BY <1>1, <1>2, <2>3 DEF Holds, Older
  <2>5. QED
    BY <1>3, <1>9, <2>3, <2>4 DEF Holds, Written
<1>10. QED
  BY <1>4, <1>5, <1>7, <1>8, <1>9

(* A write of call c spares every record still inside its window.           *)
LEMMA WriteKeepsStored ==
  ASSUME NEW sector, NEW frame, InCallWrite(sector, frame),
         \/ SecureMode /\ sector = SecureSector(s_log_index)
         \/ SecureMode /\ "aead" \in Faults /\ sector = SecureSector(s_log_index) + 1
         \/ ~SecureMode /\ sector \in {PlainSector(s_log_index), PlainSector(s_log_index) + 1},
         NEW n \in stored, calls - n <= Window
  PROVE  Retrievable(n)'
<1> USE DEF InCallWrite
<1>1. n \in Nat /\ n < s_log_index /\ s_log_index \in Nat /\ calls = s_log_index + 1
  <2>1. calls = s_log_index + 1 /\ s_log_index \notin stored
    BY DEF LogInv, CallInv
  <2>2. stored \subseteq 0 .. calls - 1 /\ s_log_index \in Nat
    BY DEF LogInv, TypeOK
  <2>3. QED
    BY <2>1, <2>2
<1>2. Retrievable(n)
  BY DEF LogInv, Retained
<1>3. \A s \in Sectors : s # sector => emmc'[s] = emmc[s]
  BY DEF Wrote
<1>4. N \in Nat /\ N >= 1
  BY LogAssumption DEF N
<1>5. /\ SecureSector(n) = Slot(n) /\ PlainSector(n) = N + 2 * Slot(n)
      /\ SecureSector(s_log_index) = Slot(s_log_index)
      /\ PlainSector(s_log_index) = N + 2 * Slot(s_log_index)
      /\ Slot(n) \in 0 .. N - 1 /\ Slot(s_log_index) \in 0 .. N - 1
      /\ {SecureSector(n), PlainSector(n), PlainSector(n) + 1} \subseteq Sectors
  BY <1>1, SectorsOfIndex
<1>6. s_log_index - n < N
  BY <1>1, <1>4 DEF Window, N
<1>7. Slot(n) # Slot(s_log_index)
  BY <1>1, <1>6, SlotsDiffer
<1>8. CASE SecureMode
  <2>1. sector # SecureSector(n)
    <3>1. CASE sector = SecureSector(s_log_index)
      BY <1>5, <1>7, <3>1
    <3>2. CASE "aead" \in Faults /\ sector = SecureSector(s_log_index) + 1
      <4>1. s_log_index - n < N - 1
        BY <1>1, <1>4, <1>8, <3>2 DEF Window, N
      <4>2. QED
        BY <1>1, <1>5, <3>2, <4>1, SuccessorDiffers
    <3>3. QED
      BY <1>8, <3>1, <3>2
  <2>2. emmc'[SecureSector(n)] = emmc[SecureSector(n)]
    BY <1>3, <1>5, <2>1
  <2>3. QED
    BY <1>2, <1>8, <2>2 DEF Retrievable, SecureMode, Holds
<1>9. CASE ~SecureMode
  <2>1. sector # PlainSector(n) /\ sector # PlainSector(n) + 1
    BY <1>4, <1>5, <1>7, <1>9
  <2>2. /\ emmc'[PlainSector(n)] = emmc[PlainSector(n)]
        /\ emmc'[PlainSector(n) + 1] = emmc[PlainSector(n) + 1]
    BY <1>3, <1>5, <2>1
  <2>3. QED
    BY <1>2, <1>9, <2>2 DEF Retrievable, SecureMode, Holds
<1>10. QED
  BY <1>8, <1>9

-----------------------------------------------------------------------------
(* Every step preserves the invariant *)

\* What a step leaves alone when it writes no sector and starts no call
LEMMA QuietStep ==
  ASSUME LogInv, TypeOK', CallInv', IdleInv', ModeInv', DoneInv',
         pc' = "plain_ts" => pc = "plain_ts" /\ s_log_index' = s_log_index,
         UNCHANGED <<emmc, s_hse_ready, s_keys_ready, boots, calls, stored>>
  PROVE  LogInv'
<1>1. FrameInv'
  BY DEF LogInv, FrameInv, Written, TellsEvent, SecureMode
<1>2. PairInv'
  BY DEF LogInv, PairInv, Holds
<1>3. Retained'
  BY DEF LogInv, Retained, Retrievable, Holds, SecureMode, Window
<1>4. SequenceCountsEveryCall' /\ OneFormPerBoot' /\ TimestampNeverAhead'
  BY DEF LogInv, SequenceCountsEveryCall, OneFormPerBoot, TimestampNeverAhead, Written,
         TellsEvent
<1>5. QED
  BY <1>1, <1>2, <1>3, <1>4 DEF LogInv


\* A write inside a call, to a sector that belongs to it
LEMMA WriteStep ==
  ASSUME NEW sector, NEW frame, InCallWrite(sector, frame),
         \/ SecureMode /\ sector = SecureSector(s_log_index)
         \/ SecureMode /\ "aead" \in Faults /\ sector = SecureSector(s_log_index) + 1
         \/ ~SecureMode /\ sector = PlainSector(s_log_index)
         \/ pc = "plain_ts" /\ sector = PlainSector(s_log_index) + 1,
         TypeOK', CallInv', IdleInv', ModeInv', DoneInv', PairInv',
         NEW c, c = s_log_index,
         \/ stored' = stored
         \/ stored' = stored \cup {c} /\ Retrievable(c)'
  PROVE  LogInv'
<1> USE DEF InCallWrite
<1>1. FrameInv' /\ SequenceCountsEveryCall' /\ OneFormPerBoot'
  BY WriteKeepsFrames
<1>2. s_log_index \in Nat
  BY DEF LogInv, TypeOK
<1>3. TimestampNeverAhead'
  <2>1. CASE pc = "plain_ts" /\ sector = PlainSector(s_log_index) + 1
    BY <2>1, WriteKeepsTimestamps
  <2>2. CASE SecureMode /\ sector \in {SecureSector(s_log_index), SecureSector(s_log_index) + 1}
    <3>1. \A a \in Slots : sector # PlainSector(a) + 1
      <4> SUFFICES ASSUME NEW a \in Slots PROVE sector # PlainSector(a) + 1
        OBVIOUS
      <4>1. a \in Nat
        BY LogAssumption DEF Slots
      <4>2. /\ PlainSector(a) = N + 2 * Slot(a) /\ Slot(a) \in 0 .. N - 1
            /\ SecureSector(s_log_index) = Slot(s_log_index) /\ Slot(s_log_index) \in 0 .. N - 1
        BY <1>2, <4>1, SectorsOfIndex
      <4>3. QED
        BY <2>2, <4>2, LogAssumption DEF N
    <3>2. QED
      BY <3>1, WriteKeepsTimestamps
  <2>3. CASE sector = PlainSector(s_log_index)
    <3>1. \A a \in Slots : sector # PlainSector(a) + 1
      <4> SUFFICES ASSUME NEW a \in Slots PROVE sector # PlainSector(a) + 1
        OBVIOUS
      <4>1. a \in Nat
        BY LogAssumption DEF Slots
      <4>2. /\ PlainSector(a) = N + 2 * Slot(a) /\ Slot(a) \in 0 .. N - 1
            /\ PlainSector(s_log_index) = N + 2 * Slot(s_log_index)
            /\ Slot(s_log_index) \in 0 .. N - 1
        BY <1>2, <4>1, SectorsOfIndex
      <4>3. QED
        BY <2>3, <4>2, LogAssumption DEF N
    <3>2. QED
      BY <3>1, WriteKeepsTimestamps
  <2>4. QED
    BY <2>1, <2>2, <2>3
<1>4. Retained'
  <2>1. Window' = Window
    BY DEF Window, SecureMode
  <2>2. pc = "plain_ts" => ~SecureMode
    BY DEF LogInv, ModeInv, PlainPc
  <2>3. SUFFICES ASSUME NEW n \in stored', calls - n <= Window PROVE Retrievable(n)'
    BY <2>1 DEF Retained
  <2>4. CASE n \in stored
    <3>1. \/ SecureMode /\ sector = SecureSector(s_log_index)
          \/ SecureMode /\ "aead" \in Faults /\ sector = SecureSector(s_log_index) + 1
          \/ ~SecureMode /\ sector \in {PlainSector(s_log_index), PlainSector(s_log_index) + 1}
      BY <2>2
    <3>2. calls - n <= Window /\ InCallWrite(sector, frame)
      BY <2>3
    <3>3. QED
      BY <2>4, <3>1, <3>2, WriteKeepsStored
  <2>5. CASE n \notin stored
    <3>1. n = c /\ Retrievable(c)'
      BY <2>5
    <3>2. QED
      BY <3>1 DEF Retrievable, Holds, SecureMode
  <2>6. QED
    BY <2>4, <2>5
<1>5. QED
  BY <1>1, <1>3, <1>4 DEF LogInv


LEMMA LogInitInv == LogInit => LogInv
<1> SUFFICES ASSUME LogInit PROVE LogInv
  OBVIOUS
<1>1. TypeOK
  <2>1. emmc \in [Sectors -> Frame \cup {Blank}]
    BY DEF LogInit
  <2>2. s_log_index \in Nat /\ boots \in 0 .. MaxBoots /\ calls \in Nat
    BY LogAssumption DEF LogInit
  <2>3. QED
    BY <2>1, <2>2 DEF LogInit, TypeOK
<1>2. \A s \in Sectors : ~Written(s)
  BY DEF LogInit, Written, Blank
<1>3. FrameInv /\ SequenceCountsEveryCall /\ OneFormPerBoot
  BY <1>2 DEF FrameInv, SequenceCountsEveryCall, OneFormPerBoot, Written, TellsEvent
<1>4. TimestampNeverAhead
  <2> SUFFICES ASSUME NEW slot \in Slots PROVE ~Written(PlainSector(slot) + 1)
    BY DEF TimestampNeverAhead
  <2>1. slot \in Nat
    BY LogAssumption DEF Slots
  <2>2. QED
    BY <1>2, <2>1, SectorsOfIndex
<1>5. CallInv /\ IdleInv /\ ModeInv /\ DoneInv /\ PairInv /\ Retained
  BY DEF LogInit, CallInv, IdleInv, ModeInv, DoneInv, PairInv, Retained, SecurePc, PlainPc, BringUpPc
<1>6. QED
  BY <1>1, <1>3, <1>4, <1>5 DEF LogInv

LEMMA PowerOnInv == LogInv /\ PowerOn => LogInv'
<1> SUFFICES ASSUME LogInv, PowerOn PROVE LogInv'
  OBVIOUS
<1>1. TypeOK'
  <2>1. boots' \in 0 .. MaxBoots
    BY LogAssumption DEF LogInv, PowerOn, TypeOK
  <2>2. QED
    BY <2>1 DEF LogInv, PowerOn, TypeOK
<1>2. CallInv' /\ IdleInv' /\ ModeInv' /\ DoneInv' /\ PairInv' /\ Retained'
  BY DEF LogInv, TypeOK, PowerOn, CallInv, IdleInv, ModeInv, DoneInv, PairInv, Retained,
         SecurePc, PlainPc, BringUpPc
<1>3. FrameInv'
  <2> SUFFICES ASSUME NEW s \in Sectors, Written(s)
               PROVE emmc[s].of.boot <= boots + 1 /\ emmc[s].of.boot # boots + 1
    BY DEF PowerOn, FrameInv, Written, TellsEvent
  <2>1. emmc[s].of.boot <= boots
    BY DEF LogInv, FrameInv
  <2>2. emmc[s] \in Frame
    BY DEF LogInv, TypeOK, Written, Blank
  <2>3. emmc[s].of.boot \in Nat /\ boots \in Nat
    BY <2>2, FrameRecord, LogAssumption DEF Record, LogInv, TypeOK
  <2>4. QED
    BY <2>1, <2>3
<1>4. SequenceCountsEveryCall' /\ OneFormPerBoot' /\ TimestampNeverAhead'
  BY DEF PowerOn, LogInv, SequenceCountsEveryCall, OneFormPerBoot, TimestampNeverAhead, Written,
         TellsEvent
<1>5. QED
  BY <1>1, <1>2, <1>3, <1>4 DEF LogInv


\* The bring-up of a boot that has not logged anything yet
LEMMA BringUpInv ==
  ASSUME LogInv, idsm_hse_init \/ idsm_import_aes256_key \/ idsm_import_rsa_pair_key
  PROVE  LogInv'
<1>1. /\ pc \in BringUpPc /\ calls = 0 /\ s_log_index = 0
      /\ pc' \in {"import_aes", "import_rsa", "ready"}
      /\ UNCHANGED <<emmc, s_log_index, rec, boots, calls, stored, lost>>
  BY DEF LogInv, IdleInv, BringUpPc, idsm_hse_init, idsm_import_aes256_key,
         idsm_import_rsa_pair_key
<1>2. pc' # "ready" => ~s_keys_ready'
  BY DEF LogInv, IdleInv, BringUpPc, idsm_hse_init, idsm_import_aes256_key,
         idsm_import_rsa_pair_key
<1>3. s_hse_ready' \in BOOLEAN /\ s_keys_ready' \in BOOLEAN
  BY DEF LogInv, TypeOK, Outcome, idsm_hse_init, idsm_import_aes256_key,
         idsm_import_rsa_pair_key
<1>4. TypeOK'
  BY <1>1, <1>3 DEF LogInv, TypeOK
<1>5. CallInv' /\ IdleInv' /\ ModeInv' /\ DoneInv' /\ PairInv'
  BY <1>1, <1>2 DEF LogInv, CallInv, IdleInv, ModeInv, DoneInv, PairInv, BringUpPc, SecurePc, PlainPc
<1>6. FrameInv'
  <2> SUFFICES ASSUME NEW s \in Sectors, Written(s)
               PROVE emmc[s].of.boot <= boots /\ emmc[s].of.boot # boots
    BY <1>1 DEF FrameInv, Written, TellsEvent
  <2>1. emmc[s].of.n \in Nat
    BY FrameRecord DEF LogInv, TypeOK, Written, Blank, Record
  <2>2. QED
    BY <1>1, <2>1 DEF LogInv, FrameInv
<1>7. Retained'
  BY <1>1, <1>4 DEF TypeOK, Retained
<1>8. SequenceCountsEveryCall' /\ OneFormPerBoot' /\ TimestampNeverAhead'
  BY <1>1 DEF LogInv, SequenceCountsEveryCall, OneFormPerBoot, TimestampNeverAhead, Written,
         TellsEvent
<1>9. QED
  BY <1>4, <1>5, <1>6, <1>7, <1>8 DEF LogInv

\* A call begins
LEMMA CallStepInv ==
  ASSUME LogInv, NEW event \in Events, idsm_log_event(event)
  PROVE  LogInv'
<1> USE DEF idsm_log_event
<1>1. s_log_index \in Nat /\ calls \in Nat /\ boots \in 1 .. MaxBoots /\ calls = s_log_index
  BY LogAssumption DEF LogInv, TypeOK, IdleInv
<1>2. TypeOK'
  <2>1. rec' \in Record
    BY <1>1 DEF Record
  <2>2. stored' \subseteq 0 .. calls' - 1 /\ lost' \subseteq 0 .. calls' - 1
    BY <1>1 DEF LogInv, TypeOK
  <2>3. QED
    BY <1>1, <2>1, <2>2 DEF LogInv, TypeOK
<1>3. CallInv'
  <2>1. s_log_index \notin stored
    BY <1>1 DEF LogInv, TypeOK
  <2>2. QED
    BY <1>1, <2>1 DEF CallInv, Record
<1>4. IdleInv' /\ ModeInv' /\ DoneInv' /\ PairInv'
  BY <1>1 DEF LogInv, IdleInv, ModeInv, DoneInv, PairInv, BringUpPc, SecurePc, PlainPc, SecureMode
<1>5. FrameInv'
  <2> SUFFICES ASSUME NEW s \in Sectors, Written(s)
               PROVE  /\ emmc[s].of.boot <= boots
                      /\ emmc[s].of.boot = boots =>
                           /\ emmc[s].of.n < calls + 1
                           /\ TellsEvent(s) => (emmc[s].hdr = "TS_AND_SIG" <=> SecureMode)
    BY DEF FrameInv, Written, TellsEvent, SecureMode
  <2>1. emmc[s].of.n \in Nat
    BY FrameRecord DEF LogInv, TypeOK, Written, Blank, Record
  <2>2. QED
    BY <1>1, <2>1 DEF LogInv, FrameInv
<1>6. Retained'
  <2>1. /\ Window' = Window /\ SecureMode' = SecureMode
        /\ emmc' = emmc /\ boots' = boots /\ stored' = stored /\ calls' = calls + 1
    BY DEF Window, SecureMode
  <2> SUFFICES ASSUME NEW n \in stored, calls' - n <= Window PROVE Retrievable(n)'
    BY <2>1 DEF Retained
  <2>2. n \in Int /\ Window \in Int
    BY LogAssumption DEF LogInv, TypeOK, Window
  <2>3. Retrievable(n)
    BY <1>1, <2>1, <2>2 DEF LogInv, Retained
  <2>4. QED
    BY <2>1, <2>3 DEF Retrievable, Holds
<1>7. SequenceCountsEveryCall' /\ OneFormPerBoot' /\ TimestampNeverAhead'
  BY DEF LogInv, SequenceCountsEveryCall, OneFormPerBoot, TimestampNeverAhead, Written,
         TellsEvent
<1>8. QED
  BY <1>2, <1>3, <1>4, <1>5, <1>6, <1>7 DEF LogInv

\* A call that is known to be stored or lost may return.
LEMMA DoneGrows ==
  ASSUME NEW i \in Nat, NEW known, NEW more, 0 .. i - 1 \subseteq known, known \subseteq more
  PROVE  /\ 0 .. i - 1 \subseteq more
         /\ i \in more => 0 .. (i + 1) - 1 \subseteq more
OBVIOUS

\* A step inside a call that writes nothing
LEMMA InnerStepInv ==
  ASSUME LogInv, idsm_aes_gcm_encrypt \/ idsm_rsa_pkcs1_sign
  PROVE  LogInv'
<1>1. /\ pc \in {"gcm", "sign"}
      /\ pc' \in {"sign", "fallback_event", "write_record", "ready"}
      /\ pc' = "fallback_event" => "aead" \in Faults
      /\ s_log_index' = IF pc' = "ready" THEN s_log_index + 1 ELSE s_log_index
      /\ lost' = (IF pc' \in {"fallback_event", "ready"} THEN lost \cup {rec.n} ELSE lost)
      /\ UNCHANGED <<emmc, s_hse_ready, s_keys_ready, rec, boots, calls, stored>>
  BY DEF idsm_aes_gcm_encrypt, idsm_rsa_pkcs1_sign, Return, Outcome, Lose
<1>2. rec.n = s_log_index /\ calls = s_log_index + 1 /\ s_log_index \in Nat
  BY <1>1 DEF LogInv, TypeOK, CallInv, SecurePc
<1>3. TypeOK'
  <2>1. lost' \subseteq 0 .. calls' - 1 /\ s_log_index' \in Nat
    BY <1>1, <1>2 DEF LogInv, TypeOK
  <2>2. QED
    BY <1>1, <2>1 DEF LogInv, TypeOK
<1>4. CallInv' /\ IdleInv' /\ ModeInv'
  BY <1>1 DEF LogInv, CallInv, IdleInv, ModeInv, SecureMode, SecurePc, PlainPc, BringUpPc
<1>5. DoneInv'
  BY <1>1, <1>2, DoneGrows DEF LogInv, DoneInv
<1>6. QED
  BY <1>1, <1>3, <1>4, <1>5, QuietStep

\* The state between two steps of a boot, and after the power went
LEMMA PowerLossInv == LogInv /\ (PowerLoss \/ UNCHANGED logVars) => LogInv'
<1> SUFFICES ASSUME LogInv, PowerLoss \/ UNCHANGED logVars PROVE LogInv'
  OBVIOUS
<1>1. /\ pc' \in {pc, "off"}
      /\ UNCHANGED <<emmc, s_log_index, s_hse_ready, s_keys_ready, rec, boots, calls, stored, lost>>
  BY DEF PowerLoss, logVars
<1>2. TypeOK'
  BY <1>1 DEF LogInv, TypeOK
<1>3. CallInv' /\ IdleInv' /\ ModeInv' /\ DoneInv'
  BY <1>1 DEF LogInv, CallInv, IdleInv, ModeInv, DoneInv, SecureMode, SecurePc, PlainPc, BringUpPc
<1>4. QED
  BY <1>1, <1>2, <1>3, QuietStep

\* Control after a write: still inside the call, or back at its end
LEMMA AfterWrite ==
  ASSUME LogInv, pc \in SecurePc \cup PlainPc,
         \/ pc' = "fallback_ts" /\ pc = "fallback_event" /\ UNCHANGED s_log_index
         \/ pc' = "plain_ts" /\ pc = "plain_event" /\ UNCHANGED s_log_index
         \/ Return,
         stored' \in {stored, stored \cup {s_log_index}},
         lost' \in {lost, lost \cup {s_log_index}},
         pc' # "ready" => UNCHANGED <<stored, lost>>,
         pc' = "ready" => s_log_index \in stored' \cup lost',
         UNCHANGED <<s_hse_ready, s_keys_ready, rec, boots, calls>>,
         emmc' \in [Sectors -> Frame \cup {Blank}]
  PROVE  TypeOK' /\ CallInv' /\ IdleInv' /\ ModeInv' /\ DoneInv'
<1> USE DEF Return
<1>1. s_log_index \in Nat /\ calls = s_log_index + 1
  BY DEF LogInv, TypeOK, CallInv
<1>2. TypeOK'
  <2>1. stored' \subseteq 0 .. calls' - 1 /\ lost' \subseteq 0 .. calls' - 1
    BY <1>1 DEF LogInv, TypeOK
  <2>2. s_log_index' \in Nat
    BY <1>1
  <2>3. QED
    BY <2>1, <2>2 DEF LogInv, TypeOK
<1>3. CallInv' /\ IdleInv' /\ ModeInv'
  BY <1>1 DEF LogInv, CallInv, IdleInv, ModeInv, SecureMode, SecurePc, PlainPc, BringUpPc
<1>4. DoneInv'
  <2>1. 0 .. s_log_index - 1 \subseteq stored \cup lost /\ stored \cup lost \subseteq stored' \cup lost'
    BY DEF LogInv, DoneInv
  <2>2. QED
    BY <1>1, <2>1, DoneGrows DEF LogInv, DoneInv
<1>5. QED
  BY <1>2, <1>3, <1>4

\* The two writes of the plaintext fallback in the secure region
LEMMA FallbackInv ==
  ASSUME LogInv, WriteFallbackEvent \/ WriteFallbackTimestamp
  PROVE  LogInv'
<1>1. /\ pc \in SecurePc /\ SecureMode /\ "aead" \in Faults
      /\ rec \in Record /\ s_log_index \in Nat /\ s_log_index \in lost
      /\ UNCHANGED <<s_hse_ready, s_keys_ready, rec, boots, calls, stored, lost>>
  BY DEF LogInv, TypeOK, CallInv, ModeInv, DoneInv, SecurePc, WriteFallbackEvent,
         WriteFallbackTimestamp
<1>2. PICK sector \in {SecureSector(s_log_index), SecureSector(s_log_index) + 1},
           frame \in {Event("TS_AND_SIG"), Timestamp}, ok \in BOOLEAN :
        mmc_write_blocks(sector, frame, ok)
  BY DEF WriteFallbackEvent, WriteFallbackTimestamp, Outcome
<1>3. sector \in Sectors /\ frame \in CallFrames
  BY <1>1, <1>2, SectorsOfIndex DEF CallFrames
<1>4. Wrote(sector, frame)
  BY <1>1, <1>2, <1>3, WriteIsLocal DEF LogInv
<1>5. InCallWrite(sector, frame)
  BY <1>1, <1>3, <1>4 DEF InCallWrite
<1>6. TypeOK' /\ CallInv' /\ IdleInv' /\ ModeInv' /\ DoneInv'
  <2>1. \/ pc' = "fallback_ts" /\ pc = "fallback_event" /\ UNCHANGED s_log_index
        \/ Return
    BY DEF WriteFallbackEvent, WriteFallbackTimestamp
  <2>2. QED
    BY <1>1, <1>4, <2>1, AfterWrite DEF Wrote
<1>7. PairInv'
  BY DEF PairInv, WriteFallbackEvent, WriteFallbackTimestamp, Return
<1>8. QED
  BY <1>1, <1>2, <1>5, <1>6, <1>7, WriteStep

\* What is kept and lost after the last write of a call
LEMMA Accounted ==
  ASSUME LogInv, pc \in SecurePc \cup PlainPc, NEW ok \in BOOLEAN, Keep(ok), Lose(ok)
  PROVE  /\ stored' = IF ok THEN stored \cup {s_log_index} ELSE stored
         /\ lost' \in {lost, lost \cup {s_log_index}}
         /\ s_log_index \in stored' \cup lost'
BY DEF LogInv, CallInv, Keep, Lose

\* The sealed record
LEMMA SecureRecordInv == ASSUME LogInv, WriteSecureRecord PROVE LogInv'
<1>1. /\ pc \in SecurePc /\ SecureMode
      /\ rec \in Record /\ rec.boot = boots /\ rec.n = s_log_index /\ s_log_index \in Nat
      /\ UNCHANGED <<s_hse_ready, s_keys_ready, rec, boots, calls>>
  BY DEF LogInv, TypeOK, CallInv, ModeInv, SecurePc, WriteSecureRecord
<1> DEFINE frame == Sealed(s_log_index)
<1>2. PICK ok \in BOOLEAN :
        mmc_write_blocks(SecureSector(s_log_index), frame, ok) /\ Keep(ok) /\ Lose(ok)
  BY DEF WriteSecureRecord, Outcome
<1> DEFINE sector == SecureSector(s_log_index)
<1>3. sector \in Sectors /\ frame \in CallFrames
  BY <1>1, SectorsOfIndex DEF CallFrames
<1>4. Wrote(sector, frame) /\ (ok => emmc'[sector] = frame)
  BY <1>1, <1>2, <1>3, WriteIsLocal DEF LogInv
<1>5. InCallWrite(sector, frame)
  BY <1>1, <1>3, <1>4 DEF InCallWrite
<1>6. /\ stored' = IF ok THEN stored \cup {s_log_index} ELSE stored
      /\ lost' \in {lost, lost \cup {s_log_index}}
      /\ s_log_index \in stored' \cup lost'
  BY <1>1, <1>2, Accounted
<1>7. TypeOK' /\ CallInv' /\ IdleInv' /\ ModeInv' /\ DoneInv'
  <2>1. Return
    BY DEF WriteSecureRecord
  <2>2. QED
    BY <1>1, <1>4, <1>6, <2>1, AfterWrite DEF Wrote, Return
<1>8. PairInv'
  BY DEF PairInv, WriteSecureRecord, Return
<1>9. PICK c : c = s_log_index
  OBVIOUS
<1>10. stored' = stored \/ (stored' = stored \cup {c} /\ Retrievable(c)')
  <2>1. CASE ok
    <3>1. SecureMode' /\ emmc'[SecureSector(c)] = frame
      BY <1>1, <1>4, <1>9, <2>1 DEF SecureMode
    <3>2. Retrievable(c)'
      BY <1>1, <1>9, <3>1 DEF Retrievable, Holds, Sealed
    <3>3. QED
      BY <1>6, <1>9, <2>1, <3>2
  <2>2. QED
    BY <1>6, <2>1
<1>11. QED
  BY <1>1, <1>5, <1>7, <1>8, <1>9, <1>10, WriteStep

\* The event half of a plaintext record
LEMMA PlainEventInv == ASSUME LogInv, WritePlainEvent PROVE LogInv'
<1>1. /\ pc \in PlainPc /\ pc = "plain_event" /\ ~SecureMode
      /\ rec \in Record /\ rec.boot = boots /\ rec.n = s_log_index /\ s_log_index \in Nat
      /\ UNCHANGED <<s_hse_ready, s_keys_ready, rec, boots, calls, stored>>
  BY DEF LogInv, TypeOK, CallInv, ModeInv, PlainPc, WritePlainEvent
<1> DEFINE frame == Event("TS_ONLY")
<1>2. PICK ok \in BOOLEAN :
        /\ mmc_write_blocks(PlainSector(s_log_index), frame, ok)
        /\ IF ok THEN pc' = "plain_ts" /\ UNCHANGED s_log_index ELSE Return
        /\ lost' = IF ok THEN lost ELSE lost \cup {s_log_index}
  BY <1>1 DEF WritePlainEvent, Outcome, Lose
<1> DEFINE sector == PlainSector(s_log_index)
<1>3. sector \in Sectors /\ frame \in CallFrames
  BY <1>1, SectorsOfIndex DEF CallFrames
<1>4. Wrote(sector, frame) /\ (ok => emmc'[sector] = frame)
  BY <1>1, <1>2, <1>3, WriteIsLocal DEF LogInv
<1>5. InCallWrite(sector, frame)
  BY <1>1, <1>3, <1>4 DEF InCallWrite
<1>6. TypeOK' /\ CallInv' /\ IdleInv' /\ ModeInv' /\ DoneInv'
  <2>1. /\ pc' # "ready" => UNCHANGED <<stored, lost>>
        /\ pc' = "ready" => s_log_index \in stored' \cup lost'
    BY <1>1, <1>2 DEF Return
  <2>2. QED
    BY <1>1, <1>2, <1>4, <2>1, AfterWrite DEF Wrote
<1>7. PairInv'
  <2> SUFFICES ASSUME pc' = "plain_ts"
               PROVE  Holds(PlainSector(s_log_index), "event", s_log_index)'
    BY DEF PairInv
  <2>1. ok /\ s_log_index' = s_log_index
    BY <1>2 DEF Return
  <2>2. emmc'[PlainSector(s_log_index)'] = frame
    BY <1>4, <2>1 DEF PlainSector, Slot
  <2>3. QED
    BY <1>1, <2>1, <2>2 DEF Holds, Event
<1>8. QED
  BY <1>1, <1>5, <1>6, <1>7, WriteStep

\* The timestamp half, which completes the record
LEMMA PlainTimestampInv == ASSUME LogInv, WritePlainTimestamp PROVE LogInv'
<1>1. /\ pc \in PlainPc /\ pc = "plain_ts" /\ ~SecureMode
      /\ rec \in Record /\ rec.boot = boots /\ rec.n = s_log_index /\ s_log_index \in Nat
      /\ UNCHANGED <<s_hse_ready, s_keys_ready, rec, boots, calls>>
  BY DEF LogInv, TypeOK, CallInv, ModeInv, PlainPc, WritePlainTimestamp
<1> DEFINE frame == Timestamp
<1>2. PICK ok \in BOOLEAN :
        mmc_write_blocks(PlainSector(s_log_index) + 1, frame, ok) /\ Keep(ok) /\ Lose(ok)
  BY DEF WritePlainTimestamp, Outcome
<1> DEFINE sector == PlainSector(s_log_index) + 1
<1>3. /\ sector \in Sectors /\ PlainSector(s_log_index) \in Sectors
      /\ PlainSector(s_log_index) # sector /\ frame \in CallFrames
  <2>1. PlainSector(s_log_index) \in Int
    BY <1>1, SectorsOfIndex, LogAssumption DEF N
  <2>2. QED
    BY <1>1, <2>1, SectorsOfIndex DEF CallFrames
<1>4. Wrote(sector, frame) /\ (ok => emmc'[sector] = frame)
  BY <1>1, <1>2, <1>3, WriteIsLocal DEF LogInv
<1>5. InCallWrite(sector, frame)
  BY <1>1, <1>3, <1>4 DEF InCallWrite
<1>6. /\ stored' = IF ok THEN stored \cup {s_log_index} ELSE stored
      /\ lost' \in {lost, lost \cup {s_log_index}}
      /\ s_log_index \in stored' \cup lost'
  BY <1>1, <1>2, Accounted
<1>7. TypeOK' /\ CallInv' /\ IdleInv' /\ ModeInv' /\ DoneInv'
  <2>1. Return
    BY DEF WritePlainTimestamp
  <2>2. QED
    BY <1>1, <1>4, <1>6, <2>1, AfterWrite DEF Wrote, Return
<1>8. PairInv'
  BY DEF PairInv, WritePlainTimestamp, Return
<1>9. PICK c : c = s_log_index
  OBVIOUS
<1>10. stored' = stored \/ (stored' = stored \cup {c} /\ Retrievable(c)')
  <2>1. CASE ok
    <3>1. ~SecureMode' /\ emmc'[PlainSector(c) + 1] = frame
      BY <1>1, <1>4, <1>9, <2>1 DEF SecureMode
    <3>2. /\ emmc'[PlainSector(c)].kind = "event" /\ emmc'[PlainSector(c)].of.boot = boots
          /\ emmc'[PlainSector(c)].of.n = c
      BY <1>1, <1>3, <1>4, <1>9 DEF Wrote, LogInv, PairInv, Holds
    <3>3. Retrievable(c)'
      BY <1>1, <1>9, <3>1, <3>2 DEF Retrievable, Holds, Timestamp
    <3>4. QED
      BY <1>6, <1>9, <2>1, <3>3
  <2>2. QED
    BY <1>6, <2>1
<1>11. QED
  BY <1>1, <1>5, <1>7, <1>8, <1>9, <1>10, WriteStep

LEMMA LogNextInv == LogInv /\ [LogNext]_logVars => LogInv'
<1> SUFFICES ASSUME LogInv, [LogNext]_logVars PROVE LogInv'
  OBVIOUS
<1>1. CASE PowerOn
  BY <1>1, PowerOnInv
<1>2. CASE PowerLoss \/ UNCHANGED logVars
  BY <1>2, PowerLossInv
<1>3. CASE \E event \in Events : idsm_log_event(event)
  BY <1>3, CallStepInv
<1>4. CASE LogStep
  BY <1>4, BringUpInv, InnerStepInv, FallbackInv, SecureRecordInv, PlainEventInv,
     PlainTimestampInv DEF LogStep
<1>5. QED
  BY <1>1, <1>2, <1>3, <1>4 DEF LogNext

-----------------------------------------------------------------------------
(* Theorems *)

(* The strengthening of the safety properties is an invariant of the logger *)
(* under every caller of idsm_log_event() and every power loss.             *)
THEOREM LogInvariant == LogSpec => []LogInv
<1>1. LogInit => LogInv
  BY LogInitInv
<1>2. LogInv /\ [LogNext]_logVars => LogInv'
  BY LogNextInv
<1>3. QED
  BY <1>1, <1>2, PTL DEF LogSpec

(* The variables keep their types.                                          *)
THEOREM LogTypes == LogSpec => []TypeOK
<1>1. LogInv => TypeOK
  BY DEF LogInv
<1>2. QED
  BY <1>1, LogInvariant, PTL

(* A record that idsm_log_event() reports as written stays readable for a   *)
(* whole round of the ring, whatever its size and whatever else fails.      *)
THEOREM RecordsRetained == LogSpec => []Retained
<1>1. LogInv => Retained
  BY DEF LogInv
<1>2. QED
  BY <1>1, LogInvariant, PTL

(* Every sealed record carries the number of calls made before it.  The     *)
(* plaintext frames have no number; this says nothing of them.              *)
THEOREM GapsShowLosses == LogSpec => []SequenceCountsEveryCall
<1>1. LogInv => SequenceCountsEveryCall
  BY DEF LogInv
<1>2. QED
  BY <1>1, LogInvariant, PTL

(* No boot mixes plaintext-only and secure headers.                         *)
THEOREM BootHasOneForm == LogSpec => []OneFormPerBoot
<1>1. LogInv => OneFormPerBoot
  BY DEF LogInv
<1>2. QED
  BY <1>1, LogInvariant, PTL

(* In the plaintext region no event stands beside a newer timestamp.        *)
THEOREM TimestampsPaired == LogSpec => []TimestampNeverAhead
<1>1. LogInv => TimestampNeverAhead
  BY DEF LogInv
<1>2. QED
  BY <1>1, LogInvariant, PTL

-----------------------------------------------------------------------------
(* The logger implements IdsmRing, and spares what earlier boots logged.    *)

\* The secure region as the ring sees it
RingView == [i \in Slots |-> IF emmc[i].kind = "record" THEN emmc[i] ELSE Blank]
RingHead == Slot(s_log_index)

LEMMA ModUnique ==
  ASSUME NEW m \in Int, NEW q \in Int, NEW r \in 0 .. N - 1, m = (N * q) + r
  PROVE  m % N = r
<1>1. N \in Nat /\ N > 0
  BY LogAssumption DEF N
<1> DEFINE d == (m \div N) - q
<1>2. d \in Int /\ m = (N * (m \div N)) + (m % N) /\ m % N \in 0 .. N - 1
  BY <1>1
<1>3. r - (m % N) = N * d
  BY <1>1, <1>2
<1>4. CASE d >= 1
  BY <1>1, <1>2, <1>3, <1>4
<1>5. CASE d <= -1
  BY <1>1, <1>2, <1>3, <1>5
<1>6. CASE d = 0
  BY <1>1, <1>2, <1>3, <1>6
<1>7. QED
  BY <1>2, <1>4, <1>5, <1>6

LEMMA SlotSuccessor == ASSUME NEW a \in Nat PROVE Slot(a + 1) = (Slot(a) + 1) % N
<1>1. N \in Nat /\ N > 0
  BY LogAssumption DEF N
<1> DEFINE m == a + 1
           q == a \div N
           r == (a % N) + 1
<1>2. q \in Int /\ m = (N * q) + r /\ r \in 1 .. N /\ m \in Int
  BY <1>1
<1>3. (r < N => r % N = r) /\ N % N = 0
  BY <1>1, <1>2
<1>4. m % N = r % N
  <2> HIDE DEF m, q, r
  <2>1. CASE r < N
    <3>1. r \in 0 .. N - 1
      BY <1>1, <1>2, <2>1
    <3>2. QED
      BY <1>2, <1>3, <2>1, <3>1, ModUnique
  <2>2. CASE r = N
    <3> DEFINE p == q + 1
    <3>1. m = (N * p) + 0 /\ p \in Int /\ 0 \in 0 .. N - 1
      BY <1>1, <1>2, <2>2
    <3> HIDE DEF p
    <3>2. m % N = 0
      BY <1>2, <3>1, ModUnique
    <3>3. QED
      BY <1>3, <2>2, <3>2
  <2>3. QED
    BY <1>1, <1>2, <2>1, <2>2
<1>5. QED
  BY <1>4 DEF Slot, N

\* Outside the plaintext region, a write changes the ring at its sector only.
LEMMA WriteInView ==
  ASSUME NEW sector, NEW frame, InCallWrite(sector, frame)
  PROVE  /\ sector \notin Slots => RingView' = RingView
         /\ sector \in Slots /\ frame.kind # "record" =>
              RingView' \in {RingView, [RingView EXCEPT ![sector] = Blank]}
         /\ sector \in Slots /\ frame.kind = "record" =>
              RingView' \in {RingView, [RingView EXCEPT ![sector] = frame]}
<1> USE DEF InCallWrite
<1>0. Slots \subseteq Sectors
  BY LogAssumption DEF Slots, Sectors, IDSM_SECTORS_SECURE, IDSM_SECTORS_PLAIN
<1>1. \A i \in Slots : i # sector => emmc'[i] = emmc[i]
  BY <1>0 DEF Wrote
<1>2. emmc'[sector] = emmc[sector] \/ emmc'[sector] = frame
  BY DEF Wrote
<1>3. CASE sector \notin Slots
  BY <1>1, <1>3 DEF RingView
<1>4. CASE sector \in Slots /\ emmc'[sector] = emmc[sector]
  BY <1>1, <1>4 DEF RingView
<1>5. CASE sector \in Slots /\ emmc'[sector] = frame
  <2>1. CASE frame.kind = "record"
    <3>1. RingView' = [RingView EXCEPT ![sector] = frame]
      BY <1>1, <1>5, <2>1 DEF RingView
    <3>2. QED
      BY <1>5, <2>1, <3>1
  <2>2. CASE frame.kind # "record"
    <3>1. RingView' = [RingView EXCEPT ![sector] = Blank]
      BY <1>1, <1>5, <2>2 DEF RingView
    <3>2. QED
      BY <1>5, <2>2, <3>1
  <2>3. QED
    BY <2>1, <2>2
<1>6. QED
  BY <1>2, <1>3, <1>4, <1>5

\* Which write a step performs, if any
LEMMA StepWrites ==
  ASSUME LogInv, [LogNext]_logVars
  PROVE  \/ UNCHANGED emmc
         \/ /\ WriteSecureRecord /\ SecureMode
            /\ InCallWrite(SecureSector(s_log_index), Sealed(s_log_index))
         \/ /\ WriteFallbackEvent /\ SecureMode
            /\ InCallWrite(SecureSector(s_log_index), Event("TS_AND_SIG"))
         \/ /\ WriteFallbackTimestamp /\ SecureMode /\ "aead" \in Faults
            /\ InCallWrite(SecureSector(s_log_index) + 1, Timestamp)
         \/ /\ WritePlainEvent /\ ~SecureMode
            /\ InCallWrite(PlainSector(s_log_index), Event("TS_ONLY"))
         \/ /\ WritePlainTimestamp /\ ~SecureMode
            /\ InCallWrite(PlainSector(s_log_index) + 1, Timestamp)
<1>1. pc \in SecurePc \cup PlainPc =>
        /\ rec \in Record /\ TypeOK
        /\ SecureSector(s_log_index) \in Sectors /\ SecureSector(s_log_index) + 1 \in Sectors
        /\ PlainSector(s_log_index) \in Sectors /\ PlainSector(s_log_index) + 1 \in Sectors
  BY SectorsOfIndex DEF LogInv, TypeOK, CallInv
<1>2. /\ pc \in SecurePc => SecureMode
      /\ pc \in PlainPc => ~SecureMode
      /\ pc = "fallback_ts" => "aead" \in Faults
  BY DEF LogInv, ModeInv
<1>3. /\ SecureMode => {Sealed(s_log_index), Event("TS_AND_SIG"), Timestamp} \subseteq CallFrames
      /\ ~SecureMode => {Event("TS_ONLY"), Timestamp} \subseteq CallFrames
  BY DEF CallFrames
<1>4. CASE WriteSecureRecord
  <2>1. PICK ok \in BOOLEAN :
          mmc_write_blocks(SecureSector(s_log_index), Sealed(s_log_index), ok)
    BY <1>4 DEF WriteSecureRecord, Outcome
  <2>2. pc \in SecurePc /\ UNCHANGED <<s_hse_ready, s_keys_ready, rec, boots, calls>>
    BY <1>4 DEF WriteSecureRecord, SecurePc
  <2>3. QED
    BY <1>1, <1>2, <1>3, <1>4, <2>1, <2>2, WriteIsLocal DEF InCallWrite
<1>5. CASE WriteFallbackEvent
  <2>1. PICK ok \in BOOLEAN :
          mmc_write_blocks(SecureSector(s_log_index), Event("TS_AND_SIG"), ok)
    BY <1>5 DEF WriteFallbackEvent, Outcome
  <2>2. pc \in SecurePc /\ UNCHANGED <<s_hse_ready, s_keys_ready, rec, boots, calls>>
    BY <1>5 DEF WriteFallbackEvent, SecurePc
  <2>3. QED
    BY <1>1, <1>2, <1>3, <1>5, <2>1, <2>2, WriteIsLocal DEF InCallWrite
<1>6. CASE WriteFallbackTimestamp
  <2>1. PICK ok \in BOOLEAN :
          mmc_write_blocks(SecureSector(s_log_index) + 1, Timestamp, ok)
    BY <1>6 DEF WriteFallbackTimestamp, Outcome
  <2>2. pc \in SecurePc /\ pc = "fallback_ts"
        /\ UNCHANGED <<s_hse_ready, s_keys_ready, rec, boots, calls>>
    BY <1>6 DEF WriteFallbackTimestamp, SecurePc
  <2>3. QED
    BY <1>1, <1>2, <1>3, <1>6, <2>1, <2>2, WriteIsLocal DEF InCallWrite
<1>7. CASE WritePlainEvent
  <2>1. PICK ok \in BOOLEAN :
          mmc_write_blocks(PlainSector(s_log_index), Event("TS_ONLY"), ok)
    BY <1>7 DEF WritePlainEvent, Outcome
  <2>2. pc \in PlainPc /\ UNCHANGED <<s_hse_ready, s_keys_ready, rec, boots, calls>>
    BY <1>7 DEF WritePlainEvent, PlainPc
  <2>3. QED
    BY <1>1, <1>2, <1>3, <1>7, <2>1, <2>2, WriteIsLocal DEF InCallWrite
<1>8. CASE WritePlainTimestamp
  <2>1. PICK ok \in BOOLEAN :
          mmc_write_blocks(PlainSector(s_log_index) + 1, Timestamp, ok)
    BY <1>8 DEF WritePlainTimestamp, Outcome
  <2>2. pc \in PlainPc /\ UNCHANGED <<s_hse_ready, s_keys_ready, rec, boots, calls>>
    BY <1>8 DEF WritePlainTimestamp, PlainPc
  <2>3. QED
    BY <1>1, <1>2, <1>3, <1>8, <2>1, <2>2, WriteIsLocal DEF InCallWrite
<1>9. QED
  BY <1>4, <1>5, <1>6, <1>7, <1>8
  DEF LogNext, LogStep, PowerOn, PowerLoss, idsm_hse_init, idsm_import_aes256_key,
      idsm_import_rsa_pair_key, idsm_aes_gcm_encrypt, idsm_rsa_pkcs1_sign,
      idsm_log_event, logVars

\* How a step moves the head of the ring
LEMMA StepMovesHead ==
  ASSUME LogInv, [LogNext]_logVars
  PROVE  \/ UNCHANGED s_log_index
         \/ s_log_index' = s_log_index + 1
         \/ s_log_index' = 0 /\ UNCHANGED emmc
BY DEF LogNext, LogStep, PowerOn, PowerLoss, idsm_hse_init, idsm_import_aes256_key,
       idsm_import_rsa_pair_key, idsm_aes_gcm_encrypt, idsm_rsa_pkcs1_sign,
       idsm_log_event, Return, logVars, WriteSecureRecord, WriteFallbackEvent,
       WriteFallbackTimestamp, WritePlainEvent, WritePlainTimestamp

-----------------------------------------------------------------------------
(* Refinement *)

LEMMA RingStep ==
  ASSUME LogInv, [LogNext]_logVars
  PROVE  [Ring!RingNext]_(Ring!ringVars)
<1>1. s_log_index \in Nat /\ N \in Nat /\ N > 0
  BY LogAssumption DEF LogInv, TypeOK, N
<1>2. RingHead \in Slots /\ SecureSector(s_log_index) = RingHead
  BY <1>1, SectorsOfIndex DEF RingHead, Slots, N
<1>3. \/ UNCHANGED RingHead
      \/ RingHead' = (RingHead + 1) % N
      \/ RingHead' = 0 /\ UNCHANGED emmc
  <2>1. Slot(0) = 0
    BY <1>1 DEF Slot, N
  <2>2. QED
    BY <1>1, <2>1, StepMovesHead, SlotSuccessor DEF RingHead, Slot, N
<1>4. CASE UNCHANGED RingView
  <2>1. RingHead' = 0 => Ring!Restart
    BY <1>4 DEF Ring!Restart, RingHead, RingView
  <2>2. RingHead' = (RingHead + 1) % N => Ring!Miss
    BY <1>4 DEF Ring!Miss, Ring!Advance, Ring!Succ, RingHead, RingView, N
  <2>3. UNCHANGED RingHead => UNCHANGED Ring!ringVars
    BY <1>4 DEF Ring!ringVars, RingHead, RingView
  <2>4. QED
    BY <1>3, <2>1, <2>2, <2>3 DEF Ring!RingNext
<1>5. CASE /\ WriteSecureRecord
           /\ RingView' = [RingView EXCEPT ![RingHead] = Sealed(s_log_index)]
  <2>1. RingHead' = (RingHead + 1) % N
    BY <1>1, <1>5, SlotSuccessor DEF WriteSecureRecord, Return, RingHead, Slot, N
  <2>2. Sealed(s_log_index) \in SealedRecord
    BY <1>1, <1>5 DEF LogInv, CallInv, SecurePc, WriteSecureRecord, Sealed, SealedRecord
  <2>3. RingView'[RingHead] = Sealed(s_log_index)
    BY <1>2, <1>5 DEF RingView
  <2>4. Ring!Append
    BY <1>5, <2>1, <2>2, <2>3
    DEF Ring!Append, Ring!Advance, Ring!Succ, RingHead, RingView, N
  <2>5. QED
    BY <2>4 DEF Ring!RingNext
<1>6. CASE /\ WriteFallbackEvent \/ WriteFallbackTimestamp
           /\ \E i \in {RingHead, RingHead + 1} \cap Slots :
                RingView' = [RingView EXCEPT ![i] = Blank]
  <2>1. RingHead' = (RingHead + 1) % N \/ UNCHANGED RingHead
    BY <1>1, <1>6, SlotSuccessor
    DEF WriteFallbackEvent, WriteFallbackTimestamp, Return, RingHead, Slot, N
  <2>2. Ring!Spoil
    BY <1>6, <2>1
    DEF Ring!Spoil, Ring!Index, Ring!Advance, Ring!Succ, RingHead, RingView, Slots, N
  <2>3. QED
    BY <2>2 DEF Ring!RingNext
<1>7. \/ UNCHANGED RingView
      \/ /\ WriteSecureRecord
         /\ RingView' = [RingView EXCEPT ![RingHead] = Sealed(s_log_index)]
      \/ /\ WriteFallbackEvent \/ WriteFallbackTimestamp
         /\ \E i \in {RingHead, RingHead + 1} \cap Slots :
              RingView' = [RingView EXCEPT ![i] = Blank]
  <2>1. UNCHANGED emmc => UNCHANGED RingView
    BY DEF RingView
  <2>2. PlainSector(s_log_index) \notin Slots /\ PlainSector(s_log_index) + 1 \notin Slots
    BY <1>1, SectorsOfIndex DEF Slots, N
  <2>3. Sealed(s_log_index).kind = "record" /\ Event("TS_AND_SIG").kind # "record" /\ Timestamp.kind # "record"
    BY DEF Sealed, Event, Timestamp
  <2>4. QED
    BY <1>2, <2>1, <2>2, <2>3, StepWrites, WriteInView
<1>8. QED
  BY <1>4, <1>5, <1>6, <1>7

(* The secure region of the log is the ring of IdsmRing: no step loses an   *)
(* entry but the one at the head or after it, for every size of the ring.   *)
THEOREM LogImplementsRing == LogSpec => RingSpec
<1>1. LogInit => Ring!RingInit
  <2>1. LogInit => RingView = [i \in Slots |-> Blank] /\ RingHead = 0
    <3>1. Slots \subseteq Sectors
      BY LogAssumption DEF Slots, Sectors, IDSM_SECTORS_SECURE, IDSM_SECTORS_PLAIN
    <3>2. Slot(0) = 0
      BY LogAssumption DEF Slot
    <3>3. QED
      BY <3>1, <3>2 DEF LogInit, RingView, RingHead, Blank
  <2>2. QED
    BY <2>1 DEF Ring!RingInit, Ring!Index, RingView, RingHead, Slots
<1>2. LogInv /\ [LogNext]_logVars => [Ring!RingNext]_(Ring!ringVars)
  BY RingStep
<1>3. QED
  BY <1>1, <1>2, LogInvariant, PTL DEF LogSpec, RingSpec, Ring!RingSpec

(* A boot overwrites what earlier boots left only from the front of the     *)
(* region of its own form and as far as it has logged, in both regions and  *)
(* for every size of them; a fallback takes one sector more.                *)
THEOREM EarlierEvidenceKept == LogSpec => EarlierBootsKept
<1>1. LogInv /\ [LogNext]_logVars =>
        [\A s \in Sectors : emmc'[s] # emmc[s] => s \in WithinReach]_logVars
  <2> SUFFICES ASSUME LogInv, [LogNext]_logVars, NEW s \in Sectors, emmc'[s] # emmc[s]
               PROVE  s \in WithinReach
    OBVIOUS
  <2>1. /\ pc \in SecurePc \cup PlainPc
        /\ \/ SecureMode /\ s = SecureSector(s_log_index)
           \/ SecureMode /\ "aead" \in Faults /\ s = SecureSector(s_log_index) + 1
           \/ ~SecureMode /\ s \in {PlainSector(s_log_index), PlainSector(s_log_index) + 1}
    BY StepWrites DEF InCallWrite, Wrote
  <2>2. s_log_index \in Nat /\ calls = s_log_index + 1
    BY <2>1 DEF LogInv, TypeOK, CallInv
  <2>3. /\ Slot(s_log_index) <= s_log_index /\ Slot(s_log_index) \in 0 .. N - 1
        /\ SecureSector(s_log_index) = Slot(s_log_index)
        /\ PlainSector(s_log_index) = N + 2 * Slot(s_log_index)
    <3>1. Slot(s_log_index) <= s_log_index /\ Slot(s_log_index) \in 0 .. N - 1
      BY <2>2, LogAssumption DEF Slot, N
    <3>2. QED
      BY <2>2, <3>1, SectorsOfIndex DEF N
  <2>4. N \in Nat /\ IDSM_LOG_MAX_ENTRIES * IDSM_SECTORS_SECURE = N
    BY LogAssumption DEF N, IDSM_SECTORS_SECURE
  <2>5. CASE SecureMode
    BY <2>1, <2>2, <2>3, <2>4, <2>5 DEF WithinReach
  <2>6. CASE ~SecureMode
    <3>1. s - N < 2 * calls /\ s >= N
      BY <2>1, <2>2, <2>3, <2>4, <2>6
    <3>2. QED
      BY <2>4, <2>6, <3>1 DEF WithinReach, IDSM_SECTORS_PLAIN
  <2>7. QED
    BY <2>5, <2>6
<1>2. QED
  BY <1>1, LogInvariant, PTL DEF LogSpec, EarlierBootsKept

-----------------------------------------------------------------------------
(* BL2 is one of the callers the logger was proved for *)

\* Every step of BL2 is a step or a stutter of the logger.
LEMMA Bl2StepLogs == [Next]_vars => [LogNext]_logVars
BY ImageAssumption
DEF Next, vars, BootBl2, Bl2Step, LogBootStart, Restart, PreImageLoad, LoadAuthImage,
    SkipImage, PostImageLoad, LogFailure, SwitchToSecondaryFip, Retry, PlatErrorHandler,
    LogBootOk, HandOver, LogNext

(* The load loop uses the logger as IdsmLog allows, so all that is proved   *)
(* of the logger holds for it inside BL2.                                   *)
THEOREM Bl2UsesLogger == Spec => LogSpec
<1>1. Init => LogInit
  BY DEF Init
<1>2. [Next]_vars => [LogNext]_logVars
  BY Bl2StepLogs
<1>3. QED
  BY <1>1, <1>2, PTL DEF Spec, LogSpec

-----------------------------------------------------------------------------
(* The inductive invariant of the load loop *)

\* The images behind the walk were loaded from the FIP in use.
LoadedUpTo(last) == \A i \in Images \ SkipLoading : i <= last => loaded[i] = fip

WalkInv ==
  /\ stage = "image" => LoadedUpTo(node - 1)
  /\ stage = "load" => LoadedUpTo(node - 1) /\ node \in Images
  /\ stage = "post" => LoadedUpTo(node) /\ node \in Images
  /\ stage \in {"handover", "returned"} => AllLoaded

\* Platform setup was done for every image passed, and for which FIP.
SetupInv ==
  /\ ~retried => fip = "primary" /\ setup_for \in {"none", "primary"}
  /\ plat_setup_done => setup_for # "none"
  /\ plat_setup_done /\ stage \in {"restart", "image", "load", "post"} =>
       setup_for = fip \/ (setup_for = "primary" /\ failed_in = "post")
  /\ stage = "image" /\ (\E i \in PlatSetup : i < node) => plat_setup_done
  /\ stage \in {"load", "post"} /\ (\E i \in PlatSetup : i <= node) => plat_setup_done
  /\ stage = "start" => ~plat_setup_done /\ ~retried

LoopTypeOK ==
  /\ stage \in {"start", "restart", "image", "load", "post", "failed", "decide",
                "panic", "handover", "returned"}
  /\ node \in 1 .. NumImages + 1
  /\ plat_setup_done \in BOOLEAN
  /\ retried \in BOOLEAN
  /\ failed_in \in {"none", "pre", "load", "post"}
  /\ fip \in Fips
  /\ loaded \in [Images -> Fips \cup {"none"}]
  /\ setup_for \in Fips \cup {"none"}

LoopInv == LoopTypeOK /\ WalkInv /\ SetupInv

LEMMA LoopInitInv == Init => LoopInv
<1> SUFFICES ASSUME Init PROVE LoopInv
  OBVIOUS
<1>1. LoopTypeOK
  <2>1. 1 \in 1 .. NumImages + 1
    BY ImageAssumption
  <2>2. [i \in Images |-> "none"] \in [Images -> Fips \cup {"none"}]
    OBVIOUS
  <2>3. QED
    BY <2>1, <2>2 DEF Init, LoopTypeOK, Fips
<1>2. WalkInv /\ SetupInv
  BY DEF Init, WalkInv, SetupInv
<1>3. QED
  BY <1>1, <1>2 DEF LoopInv

LEMMA LoopNextInv == LoopInv /\ [Next]_vars => LoopInv'
<1> SUFFICES ASSUME LoopInv, [Next]_vars PROVE LoopInv'
  OBVIOUS
<1> USE ImageAssumption DEF LoopInv, Fips
<1>1. CASE BootBl2
  <2>1. 1 \in 1 .. NumImages + 1
    OBVIOUS
  <2>2. [i \in Images |-> "none"] \in [Images -> Fips \cup {"none"}]
    OBVIOUS
  <2>3. LoopTypeOK'
    BY <1>1, <2>1, <2>2 DEF BootBl2, LoopTypeOK
  <2>4. WalkInv' /\ SetupInv'
    BY <1>1 DEF BootBl2, WalkInv, SetupInv
  <2>5. QED
    BY <2>3, <2>4
<1>2. CASE UNCHANGED bl2Vars
  BY <1>2 DEF bl2Vars, LoopTypeOK, WalkInv, SetupInv, LoadedUpTo, AllLoaded
<1>3. CASE LogBootStart
  BY <1>3 DEF LogBootStart, LoopTypeOK, WalkInv, SetupInv
<1>4. CASE Restart
  <2>1. LoopTypeOK' /\ SetupInv'
    BY <1>4 DEF Restart, LoopTypeOK, SetupInv, Images
  <2>2. WalkInv'
    BY <1>4 DEF Restart, WalkInv, LoadedUpTo, Images
  <2>3. QED
    BY <2>1, <2>2
<1>5. CASE PreImageLoad
  <2>1. LoopTypeOK'
    BY <1>5 DEF PreImageLoad, Check, LoopTypeOK
  <2>2. WalkInv'
    BY <1>5 DEF PreImageLoad, Check, WalkInv, LoadedUpTo
  <2>3. SetupInv'
    BY <1>5 DEF PreImageLoad, Check, LoopTypeOK, SetupInv, Images
  <2>4. QED
    BY <2>1, <2>2, <2>3
<1>6. CASE LoadAuthImage
  <2>1. LoopTypeOK'
    BY <1>6 DEF LoadAuthImage, Check, LoopTypeOK
  <2>2. WalkInv'
    BY <1>6 DEF LoadAuthImage, Check, WalkInv, LoadedUpTo, LoopTypeOK, Images
  <2>3. SetupInv'
    BY <1>6 DEF LoadAuthImage, Check, LoopTypeOK, SetupInv
  <2>4. QED
    BY <2>1, <2>2, <2>3
<1>7. CASE SkipImage
  <2>1. LoopTypeOK' /\ SetupInv'
    BY <1>7 DEF SkipImage, LoopTypeOK, SetupInv
  <2>2. WalkInv'
    BY <1>7 DEF SkipImage, WalkInv, LoadedUpTo, LoopTypeOK, Images
  <2>3. QED
    BY <2>1, <2>2
<1>8. CASE PostImageLoad
  <2>1. LoopTypeOK'
    BY <1>8 DEF PostImageLoad, Check, LoopTypeOK, WalkInv, Images
  <2>2. WalkInv'
    BY <1>8 DEF PostImageLoad, Check, WalkInv, LoadedUpTo, LoopTypeOK, Images
  <2>3. SetupInv'
    BY <1>8 DEF PostImageLoad, Check, LoopTypeOK, SetupInv, WalkInv, Images
  <2>4. QED
    BY <2>1, <2>2, <2>3
<1>9. CASE LogFailure
  BY <1>9 DEF LogFailure, LoopTypeOK, WalkInv, SetupInv
<1>10. CASE SwitchToSecondaryFip
  BY <1>10 DEF SwitchToSecondaryFip, Retry, SetupKept, LoopTypeOK, WalkInv, SetupInv
<1>11. CASE PlatErrorHandler
  BY <1>11 DEF PlatErrorHandler, LoopTypeOK, WalkInv, SetupInv
<1>12. CASE LogBootOk
  <2>1. LoopTypeOK' /\ SetupInv'
    BY <1>12 DEF LogBootOk, LoopTypeOK, SetupInv
  <2>2. WalkInv'
    BY <1>12 DEF LogBootOk, WalkInv, LoadedUpTo, AllLoaded, LoopTypeOK, Images
  <2>3. QED
    BY <2>1, <2>2
<1>13. CASE HandOver
  BY <1>13 DEF HandOver, LoopTypeOK, WalkInv, SetupInv, AllLoaded
<1>14. QED
  BY <1>1, <1>2, <1>3, <1>4, <1>5, <1>6, <1>7, <1>8, <1>9, <1>10, <1>11, <1>12, <1>13
  DEF Next, Bl2Step, vars

LEMMA LoopInvariant == Spec => []LoopInv
<1>1. Init => LoopInv
  BY LoopInitInv
<1>2. LoopInv /\ [Next]_vars => LoopInv'
  BY LoopNextInv
<1>3. QED
  BY <1>1, <1>2, PTL DEF Spec

-----------------------------------------------------------------------------
(* The inductive invariant of the story the log tells *)

InCall == pc \in SecurePc \cup PlainPc

\* How many events BL2 has logged when it gets to a stage; it acts on a failure
\* only when the logger is done with it
CountInv ==
  /\ \/ stage \in {"image", "load", "post", "failed", "panic"}
     \/ stage = "restart" /\ retried
     => pc \in {"ready", "off"}
  /\ stage = "start" => calls = 0
  /\ stage \in {"restart", "image", "load", "post", "failed"} =>
       calls = IF retried THEN 2 ELSE 1
  /\ stage \in {"decide", "handover", "returned"} => calls = IF retried THEN 3 ELSE 2
  /\ stage = "panic" => calls = 3

\* What a record of the current boot stands for
Story(r) ==
  /\ r.event \in {"BOOT_START", "BL31_FAIL", "BOOT_OK"}
  /\ r.event = "BOOT_START" <=> r.n = 0
  /\ r.event = "BL31_FAIL" => r.n \in 1 .. Failures
  /\ r.event = "BOOT_OK" => r.n = calls - 1 /\ stage \in {"handover", "returned"}

Told == \A s \in Sectors : Written(s) /\ emmc[s].of.boot = boots => Story(emmc[s].of)

StoryInv ==
  /\ CountInv
  /\ Told
  /\ InCall => Story(rec)
  /\ BootStory

\* Records of earlier boots do not change; those of this boot are Told.
LEMMA BootStoryStep ==
  ASSUME BootStory, CountInv', Told', LogInv', LoopTypeOK',
         \A s \in Sectors : Written(s)' /\ emmc'[s].of.boot # boots' => emmc'[s] = emmc[s]
  PROVE  BootStory'
<1>1. calls' \in 0 .. 3
  BY DEF CountInv, LoopTypeOK
<1>2. \A s \in Sectors : Written(s)' /\ emmc'[s].of.boot = boots' =>
        emmc'[s].of.n \in Nat /\ emmc'[s].of.n < calls' /\ Story(emmc[s].of)'
  <2> SUFFICES ASSUME NEW s \in Sectors, Written(s)', emmc'[s].of.boot = boots'
               PROVE  emmc'[s].of.n \in Nat /\ emmc'[s].of.n < calls' /\ Story(emmc[s].of)'
    OBVIOUS
  <2>1. emmc'[s] \in Frame
    BY DEF LogInv, TypeOK, Written, Blank
  <2>2. emmc'[s].of.n \in Nat
    BY <2>1, FrameRecord DEF Record
  <2>3. QED
    BY <2>2 DEF LogInv, FrameInv, Told
<1> SUFFICES ASSUME NEW s \in Sectors, TellsEvent(s)'
             PROVE  /\ (emmc'[s].of.event = "BOOT_START") <=> (emmc'[s].of.n = 0)
                    /\ \A t \in Sectors :
                         TellsEvent(t)' /\ emmc'[t].of.boot = emmc'[s].of.boot
                                        /\ emmc'[t].of.n > emmc'[s].of.n =>
                           /\ emmc'[s].of.event # "BOOT_OK"
                           /\ emmc'[s].of.event = "BL31_FAIL" => emmc'[s].of.n = 1
  BY DEF BootStory
<1>0. \A u \in Sectors : TellsEvent(u)' => Written(u)'
  BY DEF TellsEvent, Written
<1>00. Failures' \in 0 .. 2
  BY DEF Failures, LoopTypeOK
<1>3. CASE emmc'[s].of.boot = boots'
  <2>1. /\ (emmc'[s].of.event = "BOOT_START") <=> (emmc'[s].of.n = 0)
        /\ emmc'[s].of.event = "BL31_FAIL" => emmc'[s].of.n \in 1 .. 2
        /\ emmc'[s].of.event = "BOOT_OK" => emmc'[s].of.n = calls' - 1
    BY <1>0, <1>00, <1>2, <1>3 DEF Story
  <2>2. QED
    BY <1>0, <1>1, <1>2, <1>3, <2>1
<1>4. CASE emmc'[s].of.boot # boots'
  <2>1. emmc'[s] = emmc[s] /\ TellsEvent(s)
    BY <1>0, <1>4 DEF TellsEvent
  <2>2. \A t \in Sectors : TellsEvent(t)' /\ emmc'[t].of.boot = emmc'[s].of.boot =>
          emmc'[t] = emmc[t] /\ TellsEvent(t)
    BY <1>0, <1>4 DEF TellsEvent
  <2>3. QED
    BY <2>1, <2>2 DEF BootStory
<1>5. QED
  BY <1>3, <1>4

LEMMA StoryInitInv == Init => StoryInv
<1> SUFFICES ASSUME Init PROVE StoryInv
  OBVIOUS
<1>1. \A s \in Sectors : ~Written(s)
  BY DEF Init, LogInit, Written, Blank
<1>2. QED
  BY <1>1 DEF StoryInv, CountInv, Told, BootStory, TellsEvent, Written, InCall, SecurePc,
         PlainPc, Init, LogInit

\* A step of the logger inside a call writes the record of that call, or nothing.
LEMMA LogStepStory ==
  ASSUME StoryInv, LogInv, LogInv', LoopTypeOK', UNCHANGED bl2Vars,
         LogStep \/ PowerLoss \/ UNCHANGED logVars
  PROVE  StoryInv'
<1>1. UNCHANGED <<rec, boots, calls>> /\ (InCall' => InCall)
  BY DEF LogStep, PowerLoss, logVars, InCall, SecurePc, PlainPc, idsm_hse_init,
         idsm_import_aes256_key, idsm_import_rsa_pair_key, idsm_aes_gcm_encrypt,
         idsm_rsa_pkcs1_sign, Return, WriteSecureRecord, WriteFallbackEvent,
         WriteFallbackTimestamp, WritePlainEvent, WritePlainTimestamp
<1>2. \A s \in Sectors : emmc'[s] = emmc[s] \/ (InCall /\ emmc'[s].of = rec)
  <2>1. [LogNext]_logVars
    BY DEF LogNext
  <2>2. QED
    BY <2>1, StepWrites, FrameOfCall DEF InCallWrite, Wrote, InCall, LogInv, CallInv
<1>3. CountInv'
  <2>1. pc \in {"ready", "off"} => pc' \in {"ready", "off"}
    BY DEF LogStep, PowerLoss, logVars, idsm_hse_init, idsm_import_aes256_key,
           idsm_import_rsa_pair_key, idsm_aes_gcm_encrypt, idsm_rsa_pkcs1_sign,
           WriteSecureRecord, WriteFallbackEvent, WriteFallbackTimestamp,
           WritePlainEvent, WritePlainTimestamp
  <2>2. QED
    BY <1>1, <2>1 DEF StoryInv, CountInv, bl2Vars
<1>5. Told'
  <2> SUFFICES ASSUME NEW s \in Sectors, Written(s)', emmc'[s].of.boot = boots'
               PROVE  Story(emmc[s].of)'
    BY DEF Told
  <2>1. CASE emmc'[s] = emmc[s]
    <3>1. Story(emmc[s].of)
      BY <1>1, <2>1 DEF StoryInv, Told, Written
    <3>2. QED
      BY <1>1, <2>1, <3>1 DEF Story, Failures, bl2Vars
  <2>2. CASE InCall /\ emmc'[s].of = rec
    <3>1. Story(rec)
      BY <2>2 DEF StoryInv
    <3>2. QED
      BY <1>1, <2>2, <3>1 DEF Story, Failures, bl2Vars
  <2>3. QED
    BY <1>2, <2>1, <2>2
<1>6. InCall' => Story(rec)'
  <2>1. InCall' => Story(rec) /\ rec' = rec
    BY <1>1 DEF StoryInv
  <2>2. QED
    BY <1>1, <2>1 DEF Story, Failures, bl2Vars
<1>7. \A s \in Sectors : Written(s)' /\ emmc'[s].of.boot # boots' => emmc'[s] = emmc[s]
  BY <1>1, <1>2 DEF LogInv, CallInv, InCall
<1>8. QED
  BY <1>3, <1>5, <1>6, <1>7, BootStoryStep DEF StoryInv

\* BL2 logs an event: the record is the one its stage stands for.
LEMMA LogCallStory ==
  ASSUME StoryInv, LogInv, LogInv', LoopTypeOK, LoopTypeOK', SetupInv,
         LogBootStart \/ LogFailure \/ LogBootOk
  PROVE  StoryInv'
<1>1. /\ pc = "ready" /\ UNCHANGED <<emmc, boots, failed_in, retried>>
      /\ calls' = calls + 1 /\ rec'.n = calls
      /\ \/ stage = "start" /\ rec'.event = "BOOT_START" /\ stage' = "restart"
         \/ stage = "failed" /\ rec'.event = "BL31_FAIL" /\ stage' = "decide"
         \/ stage = "image" /\ rec'.event = "BOOT_OK" /\ stage' = "handover"
  BY DEF LogBootStart, LogFailure, LogBootOk, idsm_log_event
<1>2. stage = "start" => ~retried
  BY DEF StoryInv, CountInv, SetupInv
<1>3. CountInv'
  BY <1>1, <1>2 DEF StoryInv, CountInv
<1>3a. Failures' = Failures
  BY <1>1 DEF Failures
<1>4. Told'
  <2> SUFFICES ASSUME NEW s \in Sectors, Written(s), emmc[s].of.boot = boots
               PROVE  Story(emmc[s].of)'
    BY <1>1 DEF Told, Written
  <2>1. Story(emmc[s].of)
    BY DEF StoryInv, Told
  <2>2. QED
    BY <1>1, <1>3a, <2>1 DEF Story
<1>5. Story(rec)'
  <2>1. stage = "failed" => calls = Failures /\ Failures \in 1 .. 2
    BY DEF StoryInv, CountInv, Failures, LoopTypeOK
  <2>2. QED
    BY <1>1, <1>2, <1>3a, <2>1 DEF StoryInv, CountInv, Story
<1>6. QED
  BY <1>1, <1>3, <1>4, <1>5, BootStoryStep DEF StoryInv

\* BL2 takes a step that logs nothing.
LEMMA QuietLoopStory ==
  ASSUME StoryInv, LogInv', LoopTypeOK, LoopTypeOK', SetupInv,
         Restart \/ PreImageLoad \/ LoadAuthImage \/ SkipImage \/ PostImageLoad
           \/ SwitchToSecondaryFip \/ PlatErrorHandler \/ HandOver
  PROVE  StoryInv'
<1>1. UNCHANGED <<emmc, boots, calls, rec, pc>> /\ ~InCall
  BY DEF Restart, PreImageLoad, LoadAuthImage, SkipImage, PostImageLoad,
         SwitchToSecondaryFip, Retry, PlatErrorHandler, HandOver, logVars,
         InCall, SecurePc, PlainPc
<1>2. /\ stage \in {"handover", "returned"} => stage' \in {"handover", "returned"}
      /\ Failures \in 0 .. 2 /\ Failures' \in 0 .. 2 /\ Failures <= Failures'
  BY DEF Failures, LoopTypeOK, Restart, PreImageLoad, LoadAuthImage, SkipImage, PostImageLoad, Check,
         SwitchToSecondaryFip, Retry, PlatErrorHandler, HandOver
<1>3. CountInv'
  BY DEF Restart, PreImageLoad, LoadAuthImage, SkipImage, PostImageLoad, Check,
         SwitchToSecondaryFip, Retry, PlatErrorHandler, HandOver, logVars, StoryInv, CountInv
<1>4. Told'
  <2> SUFFICES ASSUME NEW s \in Sectors, Written(s), emmc[s].of.boot = boots
               PROVE  Story(emmc[s].of)'
    BY <1>1 DEF Told, Written
  <2>1. Story(emmc[s].of)
    BY DEF StoryInv, Told
  <2>2. QED
    BY <1>1, <1>2, <2>1 DEF Story
<1>5. ~InCall'
  BY <1>1 DEF InCall
<1>6. QED
  BY <1>1, <1>3, <1>4, <1>5, BootStoryStep DEF StoryInv

\* A new boot finds only records of earlier ones.
LEMMA BootStoryInv ==
  ASSUME StoryInv, LogInv, LogInv', LoopTypeOK', BootBl2
  PROVE  StoryInv'
<1>1. /\ emmc' = emmc /\ boots' = boots + 1 /\ calls' = 0 /\ pc' = "hse_init"
      /\ stage' = "start"
  BY DEF BootBl2, PowerOn
<1>2. Told'
  <2> SUFFICES ASSUME NEW s \in Sectors, Written(s) PROVE emmc[s].of.boot # boots + 1
    BY <1>1 DEF Told, Written
  <2>1. emmc[s] \in Frame /\ emmc[s].of.boot <= boots /\ boots \in Nat
    BY LogAssumption DEF LogInv, FrameInv, TypeOK, Written, Blank
  <2>2. emmc[s].of.boot \in Nat
    BY <2>1, LogAssumption 
    DEF Frame, SealedRecord, EventFrame, TimestampFrame, Record
  <2>3. QED
    BY <2>1, <2>2
<1>3. CountInv' /\ ~InCall'
  BY <1>1 DEF CountInv, InCall, SecurePc, PlainPc
<1>4. QED
  BY <1>1, <1>2, <1>3, BootStoryStep DEF StoryInv

LEMMA StoryInvariant == Spec => []StoryInv
<1>1. Init => StoryInv
  BY StoryInitInv
<1>2. LogInv /\ LogInv' /\ LoopInv /\ LoopInv' /\ StoryInv /\ [Next]_vars => StoryInv'
  BY LogStepStory, LogCallStory, QuietLoopStory, BootStoryInv
  DEF LoopInv, Next, Bl2Step, vars
<1>3. QED
  BY <1>1, <1>2, Bl2UsesLogger, LogInvariant, LoopInvariant, PTL DEF Spec

-----------------------------------------------------------------------------
(* Theorems *)

(* The variables of BL2 and of its logger keep their types.                 *)
THEOREM Bl2Types == Spec => []Bl2TypeOK
<1>1. TypeOK /\ LoopInv => Bl2TypeOK
  BY DEF LoopInv, LoopTypeOK, Bl2TypeOK
<1>2. QED
  BY <1>1, Bl2UsesLogger, LogTypes, LoopInvariant, PTL

(* No hand-over mixes images of the two FIPs, whatever list the platform    *)
(* gives and whatever check failed in the first pass.                       *)
THEOREM OneFipHandedOver == Spec => []HandoverFromOneFip
<1>1. LoopInv => HandoverFromOneFip
  BY DEF LoopInv, WalkInv, HandoverFromOneFip
<1>2. QED
  BY <1>1, LoopInvariant, PTL

(* No image is loaded before the platform setup it needs.                   *)
THEOREM SetupComesFirst == Spec => []SetupBeforeLoad
<1>1. LoopInv => SetupBeforeLoad
  BY DEF LoopInv, SetupInv, SetupBeforeLoad
<1>2. QED
  BY <1>1, LoopInvariant, PTL

(* BOOT_OK is on eMMC only after every image was loaded, and as many        *)
(* failures only as passes have failed, whenever the power went.  Of the    *)
(* image that failed the log tells nothing, and neither does this theorem.  *)
THEOREM OutcomesAreTrue == Spec => []OutcomeIsTrue
<1>1. StoryInv /\ LoopInv => OutcomeIsTrue
  BY DEF StoryInv, Told, Story, LoopInv, WalkInv, OutcomeIsTrue, EventNow, TellsEvent, Written
<1>2. QED
  BY <1>1, StoryInvariant, LoopInvariant, PTL

(* The events of each boot, this one or an earlier one, read in the order   *)
(* they were logged, are a beginning, its failures and an end.              *)
THEOREM StoryOfEachBoot == Spec => []BootStory
<1>1. StoryInv => BootStory
  BY DEF StoryInv
<1>2. QED
  BY <1>1, StoryInvariant, PTL

(* With three slots or more: when BL2 acts on a failure, the failure has    *)
(* been logged, and it is on eMMC for as long as this boot runs, unless a   *)
(* service of the logger failed in that call.                               *)
THEOREM FailureIsLogged ==
  ASSUME IDSM_LOG_MAX_ENTRIES >= 3
  PROVE  Spec => []FailureLoggedBeforeAction
<1>1. LogInv /\ LoopInv /\ StoryInv => FailureLoggedBeforeAction
  <2> SUFFICES ASSUME LogInv, LoopInv, StoryInv, pc # "off", NEW n \in 1 .. FailedPasses,
                      n \notin lost
               PROVE  /\ n \in stored
                      /\ Retrievable(n)
                      /\ \E s \in Sectors : EventNow(s, "BL31_FAIL") /\ emmc[s].of.n = n
    BY DEF FailureLoggedBeforeAction
  <2>1. /\ FailedPasses \in 0 .. 2
        /\ stage = "panic" => FailedPasses = 2
        /\ stage # "panic" => FailedPasses = IF retried THEN 1 ELSE 0
    BY DEF FailedPasses, LoopInv, LoopTypeOK
  <2>2. n \in 1 .. 2 /\ calls <= 3 /\ (n = 2 => stage = "panic") /\ (n = 1 => stage = "panic" \/ retried)
    <3>1. calls \in 0 .. 3
      BY DEF StoryInv, CountInv, LoopInv, LoopTypeOK
    <3>2. QED
      BY <2>1, <3>1
  <2>3. calls \in Int /\ calls - n <= Window
    BY <2>2, LogAssumption DEF Window, LogInv, TypeOK
  <2>4. n \in stored
    <3>1. s_log_index \in Nat /\ (pc = "ready" => calls = s_log_index)
      BY DEF LogInv, TypeOK, IdleInv
    <3>2. pc # "ready" => calls = s_log_index + 1 \/ calls = 0
      BY DEF LogInv, TypeOK, IdleInv, CallInv, BringUpPc, SecurePc, PlainPc
    <3>3. /\ stage = "panic" => calls = 3 /\ pc = "ready"
          /\ stage # "panic" /\ retried => calls = 3 \/ (calls = 2 /\ pc = "ready")
      BY DEF StoryInv, CountInv, LoopInv, LoopTypeOK, SetupInv
    <3>4. n \in 0 .. s_log_index - 1
      BY <2>2, <3>1, <3>2, <3>3
    <3>5. QED
      BY <3>4 DEF LogInv, DoneInv
  <2>5. Retrievable(n)
    BY <2>3, <2>4 DEF LogInv, Retained
  <2>6. PICK s \in Sectors : TellsEvent(s) /\ emmc[s].of.boot = boots /\ emmc[s].of.n = n
    <3>1. n \in Nat
      BY <2>2
    <3>2. /\ SecureSector(n) \in Sectors /\ PlainSector(n) \in Sectors
      BY <3>1, SectorsOfIndex
    <3>3. QED
      BY <2>5, <3>2 DEF Retrievable, Holds, TellsEvent
  <2>7. Story(emmc[s].of)
    BY <2>6 DEF StoryInv, Told, TellsEvent, Written
  <2>8. emmc[s].of.event = "BL31_FAIL"
    BY <2>2, <2>6, <2>7 DEF Story, StoryInv, CountInv
  <2>9. QED
    BY <2>4, <2>5, <2>6, <2>8 DEF EventNow
<1>2. QED
  BY <1>1, Bl2UsesLogger, LogInvariant, LoopInvariant, StoryInvariant, PTL

-----------------------------------------------------------------------------
(* A boot comes to an end *)

(* How many steps BL2 has left: those of the call under way, then at most   *)
(* four for each of what is left of the pass (the walk, the failure path),  *)
(* and another pass while there has been no retry.                          *)
CallLeft ==
  CASE pc \in {"hse_init", "gcm"} -> 3
    [] pc \in {"import_aes", "fallback_event", "sign", "plain_event"} -> 2
    [] pc \in {"import_rsa", "fallback_ts", "write_record", "plain_ts"} -> 1
    [] OTHER -> 0

WalkLeft == 3 * (NumImages + 1 - node)

StageLeft ==
  CASE stage = "start"    -> 3 * NumImages + 7
    [] stage = "restart"  -> 3 * NumImages + 6
    [] stage = "image"    -> WalkLeft + 5
    [] stage = "load"     -> WalkLeft + 4
    [] stage = "post"     -> WalkLeft + 3
    [] stage = "failed"   -> 4
    [] stage = "decide"   -> 3
    [] stage = "handover" -> 1
    [] OTHER              -> 0

PassLeft == IF retried THEN 0 ELSE 12 * NumImages + 16

StepsLeft == CallLeft + 4 * StageLeft + PassLeft

(* Each step of BL2 leaves it fewer to go, so a boot takes at most          *)
(* 24 * NumImages + 47 of them and there is no endless retry.               *)
BootAdvances == [][Bl2Step => StepsLeft' < StepsLeft]_vars

LEMMA LeftTypes ==
  ASSUME LoopTypeOK
  PROVE  /\ CallLeft \in 0 .. 3 /\ NumImages \in Nat
         /\ StageLeft \in Int /\ PassLeft \in Int
         /\ PassLeft = IF retried THEN 0 ELSE 12 * NumImages + 16
<1>1. NumImages \in Nat /\ node \in 1 .. NumImages + 1
  BY ImageAssumption DEF LoopTypeOK
<1>2. CallLeft \in 0 .. 3
  BY DEF CallLeft
<1>3. WalkLeft \in Nat
  BY <1>1 DEF WalkLeft
<1>4. StageLeft \in Int
  BY <1>1, <1>3 DEF StageLeft
<1>5. PassLeft \in Int
  BY <1>1 DEF PassLeft
<1>6. QED
  BY <1>1, <1>2, <1>4, <1>5 DEF PassLeft

\* The logger gets on with its call.
LEMMA CallAdvances ==
  ASSUME LogStep
  PROVE  CallLeft' \in 0 .. 3 /\ CallLeft \in 0 .. 3 /\ CallLeft' < CallLeft
<1>1. \/ pc = "hse_init" /\ pc' \in {"import_aes", "ready"}
      \/ pc = "import_aes" /\ pc' \in {"import_rsa", "ready"}
      \/ pc = "import_rsa" /\ pc' = "ready"
      \/ pc = "gcm" /\ pc' \in {"sign", "fallback_event"}
      \/ pc = "sign" /\ pc' \in {"write_record", "ready"}
      \/ pc = "fallback_event" /\ pc' = "fallback_ts"
      \/ pc = "plain_event" /\ pc' \in {"plain_ts", "ready"}
      \/ pc \in {"fallback_ts", "write_record", "plain_ts"} /\ pc' = "ready"
  BY DEF LogStep, idsm_hse_init, idsm_import_aes256_key, idsm_import_rsa_pair_key,
         idsm_aes_gcm_encrypt, WriteFallbackEvent, WriteFallbackTimestamp, idsm_rsa_pkcs1_sign,
         WriteSecureRecord, WritePlainEvent, WritePlainTimestamp, Return
<1>2. QED
  BY <1>1 DEF CallLeft

\* The load loop gets on with its pass, or starts the second one.
LEMMA LoopAdvances ==
  ASSUME LoopInv, LoopTypeOK', Bl2Step, ~LogStep
  PROVE  /\ CallLeft = 0
         /\ \/ retried' = retried /\ StageLeft' < StageLeft
            \/ ~retried /\ retried' /\ StageLeft' <= StageLeft + 3 * NumImages + 3
<1>1. NumImages \in Nat /\ node \in 1 .. NumImages + 1 /\ node' \in 1 .. NumImages + 1
  BY ImageAssumption DEF LoopInv, LoopTypeOK
<1>2. CallLeft = 0
  BY DEF Bl2Step, LogBootStart, Restart, PreImageLoad, LoadAuthImage, SkipImage, PostImageLoad,
         LogFailure, SwitchToSecondaryFip, Retry, PlatErrorHandler, LogBootOk, HandOver,
         idsm_log_event, CallLeft
<1>3. CASE LogBootStart \/ Restart \/ LogFailure \/ PlatErrorHandler \/ HandOver
  BY <1>1, <1>2, <1>3
  DEF LogBootStart, Restart, LogFailure, PlatErrorHandler, HandOver, StageLeft, WalkLeft
<1>4. CASE PreImageLoad
  <2>1. stage = "image" /\ node \in 1 .. NumImages /\ node' = node /\ retried' = retried
        /\ stage' \in {"load", "failed"}
    BY <1>4 DEF PreImageLoad, Check, Images
  <2>2. QED
    BY <1>1, <1>2, <2>1 DEF StageLeft, WalkLeft
<1>5. CASE LoadAuthImage \/ SkipImage
  <2>1. stage = "load" /\ node' = node /\ retried' = retried /\ stage' \in {"post", "failed"}
    BY <1>5 DEF LoadAuthImage, SkipImage, Check
  <2>2. node \in 1 .. NumImages
    BY <2>1 DEF LoopInv, WalkInv, Images
  <2>3. QED
    BY <1>1, <1>2, <2>1, <2>2 DEF StageLeft, WalkLeft
<1>6. CASE PostImageLoad
  <2>1. stage = "post" /\ retried' = retried
        /\ \/ stage' = "image" /\ node' = node + 1
           \/ stage' = "failed" /\ node' = node
    BY <1>6 DEF PostImageLoad, Check
  <2>2. node \in 1 .. NumImages
    BY <2>1 DEF LoopInv, WalkInv, Images
  <2>3. QED
    BY <1>1, <1>2, <2>1, <2>2 DEF StageLeft, WalkLeft
<1>7. CASE SwitchToSecondaryFip
  <2>1. stage = "decide" /\ stage' = "restart" /\ ~retried /\ retried'
    BY <1>7 DEF SwitchToSecondaryFip, Retry
  <2>2. StageLeft = 3 /\ StageLeft' = 3 * NumImages + 6
    BY <2>1 DEF StageLeft
  <2>3. StageLeft' <= StageLeft + 3 * NumImages + 3
    BY <1>1, <2>2
  <2>4. QED
    BY <1>2, <2>1, <2>3
<1>8. CASE LogBootOk
  <2>1. stage = "image" /\ node = NumImages + 1 /\ retried' = retried /\ stage' = "handover"
    BY <1>1, <1>8 DEF LogBootOk, Images
  <2>2. QED
    BY <1>1, <1>2, <2>1 DEF StageLeft, WalkLeft
<1>9. QED
  BY <1>3, <1>4, <1>5, <1>6, <1>7, <1>8 DEF Bl2Step

\* A logger under way takes the step: the load loop waits for it.
LEMMA LogStepIsLoggers ==
  ASSUME Bl2Step, LogStep
  PROVE  UNCHANGED bl2Vars
<1>1. pc # "ready"
  BY DEF LogStep, idsm_hse_init, idsm_import_aes256_key, idsm_import_rsa_pair_key,
         idsm_aes_gcm_encrypt, WriteFallbackEvent, WriteFallbackTimestamp, idsm_rsa_pkcs1_sign,
         WriteSecureRecord, WritePlainEvent, WritePlainTimestamp
<1>2. QED
  BY <1>1 DEF Bl2Step, LogBootStart, Restart, PreImageLoad, LoadAuthImage, SkipImage, PostImageLoad,
         LogFailure, SwitchToSecondaryFip, Retry, PlatErrorHandler, LogBootOk, HandOver,
         idsm_log_event

LEMMA StepsLeftBounded ==
  ASSUME LoopTypeOK
  PROVE  StepsLeft \in 0 .. 24 * NumImages + 47
<1>1. NumImages \in Nat /\ node \in 1 .. NumImages + 1
  BY ImageAssumption DEF LoopTypeOK
<1>2. WalkLeft \in 0 .. 3 * NumImages
  BY <1>1 DEF WalkLeft
<1>3. StageLeft \in 0 .. 3 * NumImages + 7
  BY <1>1, <1>2 DEF StageLeft
<1>4. PassLeft \in 0 .. 12 * NumImages + 16
  BY <1>1 DEF PassLeft
<1>5. CallLeft \in 0 .. 3
  BY LeftTypes
<1>6. QED
  BY <1>1, <1>3, <1>4, <1>5 DEF StepsLeft

\* What the two kinds of step come to, in plain numbers.
LEMMA FewerLeft ==
  ASSUME NEW n \in Nat, NEW c1 \in Int, NEW c2 \in 0 .. 3,
         NEW s1 \in Int, NEW s2 \in Int, NEW p1 \in Int, NEW p2 \in Int,
         \/ c2 < c1 /\ s2 = s1 /\ p2 = p1
         \/ c1 = 0 /\ s2 < s1 /\ p2 = p1
         \/ c1 = 0 /\ s2 <= s1 + 3 * n + 3 /\ p1 = 12 * n + 16 /\ p2 = 0
  PROVE  c2 + 4 * s2 + p2 < c1 + 4 * s1 + p1
OBVIOUS

THEOREM BootIsBounded == Spec => [](StepsLeft \in 0 .. 24 * NumImages + 47) /\ BootAdvances
<1>1. LoopTypeOK => CallLeft \in 0 .. 3 /\ StageLeft \in Int /\ PassLeft \in Int
  BY LeftTypes
<1>2. (LoopTypeOK => CallLeft \in 0 .. 3 /\ StageLeft \in Int /\ PassLeft \in Int)'
  BY <1>1, PTL
<1>3. ASSUME LoopInv, LoopInv', Bl2Step PROVE StepsLeft' < StepsLeft
  <2>1. /\ NumImages \in Nat /\ CallLeft \in 0 .. 3 /\ StageLeft \in Int /\ PassLeft \in Int
        /\ PassLeft = IF retried THEN 0 ELSE 12 * NumImages + 16
    BY <1>3, LeftTypes DEF LoopInv
  <2>2. LoopTypeOK'
    BY <1>3 DEF LoopInv
  <2>3. /\ StageLeft' \in Int /\ PassLeft' \in Int /\ CallLeft' \in 0 .. 3
    BY <1>2, <2>2
  <2>4. \/ CallLeft' < CallLeft /\ StageLeft' = StageLeft /\ PassLeft' = PassLeft
        \/ CallLeft = 0 /\ StageLeft' < StageLeft /\ PassLeft' = PassLeft
        \/ /\ CallLeft = 0 /\ StageLeft' <= StageLeft + 3 * NumImages + 3
           /\ PassLeft = 12 * NumImages + 16 /\ PassLeft' = 0
    <3>1. CASE LogStep
      <4>1. UNCHANGED bl2Vars
        BY <1>3, <3>1, LogStepIsLoggers
      <4>2. QED
        BY <3>1, <4>1, CallAdvances DEF bl2Vars, StageLeft, WalkLeft, PassLeft
    <3>2. CASE ~LogStep
      <4>1. /\ CallLeft = 0
            /\ \/ retried' = retried /\ StageLeft' < StageLeft
               \/ ~retried /\ retried' /\ StageLeft' <= StageLeft + 3 * NumImages + 3
        BY <1>3, <2>2, <3>2, LoopAdvances
      <4>2. retried' = retried => PassLeft' = PassLeft
        BY DEF PassLeft
      <4>3. ~retried /\ retried' => PassLeft = 12 * NumImages + 16 /\ PassLeft' = 0
        BY DEF PassLeft
      <4>4. QED
        BY <4>1, <4>2, <4>3
    <3>3. QED
      BY <3>1, <3>2
  <2>5. CallLeft' + 4 * StageLeft' + PassLeft' < CallLeft + 4 * StageLeft + PassLeft
    <3>1. CallLeft \in Int
      BY <2>1
    <3>2. QED
      BY <2>1, <2>3, <2>4, <3>1, FewerLeft
  <2>6. QED
    BY <2>5 DEF StepsLeft
<1>4. LoopInv /\ LoopInv' /\ [Next]_vars => [Bl2Step => StepsLeft' < StepsLeft]_vars
  BY <1>3
<1>5. LoopInv => StepsLeft \in 0 .. 24 * NumImages + 47
  BY StepsLeftBounded DEF LoopInv
<1>6. QED
  BY <1>4, <1>5, LoopInvariant, PTL DEF Spec, BootAdvances

(* The ring has 64 slots and a boot logs three events at most, so within a  *)
(* boot nothing is overwritten: whatever was reported as written is there.  *)
THEOREM BootKeepsItsRecords ==
  ASSUME IDSM_LOG_MAX_ENTRIES >= 4
  PROVE  Spec => [](\A n \in stored : Retrievable(n))
<1>1. LogInv /\ LoopInv /\ StoryInv => \A n \in stored : Retrievable(n)
  <2> SUFFICES ASSUME LogInv, LoopInv, StoryInv, NEW n \in stored PROVE Retrievable(n)
    OBVIOUS
  <2>1. calls \in 0 .. 3 /\ n \in 0 .. calls - 1
    BY DEF StoryInv, CountInv, LoopInv, LoopTypeOK, LogInv, TypeOK
  <2>2. calls - n <= Window
    BY <2>1, LogAssumption DEF Window
  <2>3. QED
    BY <2>2 DEF LogInv, Retained
<1>2. QED
  BY <1>1, Bl2UsesLogger, LogInvariant, LoopInvariant, StoryInvariant, PTL
=============================================================================
