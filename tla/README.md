# Verification of seclog

TLA+ modules, TLC configurations and TLAPS proofs for the secure boot logger in
this repository and for the multi-core demo it lives in.  Paths are relative to
the root of the repository.

## 1. Inventory

| Part | Source | State | Operations | Hard behaviour | Module |
|---|---|---|---|---|---|
| IdsM secure event logger | `src/emmc/cld_code/bl2_image_load_idsm.c`, `idsm_event.h` | two rings of sectors on eMMC; `s_log_index`, `s_hse_ready`, `s_keys_ready` | HSE bring-up, import of two keys, `idsm_log_event` with a sealed, a fallback and a plaintext form | services that fail at any point, power loss between two sector writes, index lost at every boot, fallback that writes outside its slot | `IdsmLog` |
| BL2 image loading | same file, `bl2_load_images` | position in the image list, `plat_setup_done`, `retried`, FIP in use | walk with three checks, one retry from the secondary FIP, panic, hand-over | retry from the head with state of the first pass, order of logging and acting | `Bl2LoadImages` |
| NOR error log and its BL2 | `src/hse-error-log/secboot_log.c`, `bl2_image_load_seclog.c` | header and entries in flash, `log_hdr` in RAM | `secboot_log_init`, `secboot_log_error`, load loop | power loss between erase, entry and header; full log | `SecbootLog` |
| IPC echo demo | `M7_0_Source/src/ipc_shm_m7_0.c`, `IPCF_Integration/src/Ipcf_Rtos_Task.c` | counters, last channel and semaphore of each core, buffer pools, messages under way | send task, echo loop, two receive callbacks on each core | callbacks interrupt non-atomic updates; two channels without order; counters that wrap | `IpcDemo` |
| CAN transmission check | `LLCE_Integration/src/Llce_Rtos_Task.c`, `CanIf_Cbk.c`, `main.c` | queue, payload, four counters | two tasks, two callbacks, `Check_Status` with its timeout | late and lost frames, unsigned differences, priorities | `CanCheck` |
| Ethernet reply queue | `M7_1_Source/src/queue.c`, `main.c`, `EthIf_Cbk.c` | ring of replies, two indices, a flag | interrupt pushes, main loop pops | interrupt inside `queue_pop`, full against empty ring | `EthQueue` |
| Bootloader of the M7 cores | `bootloader/framework/swc/bootloader/generic/src/Bootloader.c`, `platforms/S32G3XX/src/Bootloader_Specific.c` | boot table, verdict on each application, DMA channel, CRC register, partitions | fetch, authenticate, decrypt, start, now or all at the end | transfer and hash in a pipeline, waits with and without timeout, late answers that write to memory, critical and other applications | `Bootloader` |
| Secure boot activation | `Bootloader.c` (1780-2087), `bsw/dal/cryptodal/generic/src/CryptoDal.c` | what the HSE holds, its image and the IVT in flash | keys, secure memory regions (SMR), core reset entry (CR), publication, four flash jobs | power loss and failing requests anywhere in a sequence that continues in later boots | `BlSecureBoot` |
| Storage layer | `bsw/dal/memdal/generic/src/MemDal.c`, `MemDal_Fee.c`, `MemDal_Sdhc.c` | ring of jobs, status of each block, state of the FEE driver | read, write and erase requests, `MemDal_Main` | asynchronous flash jobs, failing launches, ring without a check for room, writes added at the change to sleep | `MemDal` |
| Communication and system layers | `bsw/dal/comdal`, `bsw/dal/sysdal` | channels, ECU mode | channel calls, initialisation | none of their own | answers in `Bootloader`, the ECU mode in `MemDal` |
| Earlier IdsM loggers, time log | `src/emmc/bl2_image_load_*.c`, `log_time*.c` | index, sectors | older forms of `idsm_log_event` | as above | not modelled |
| Monotonic version counters | `src/hse-error-log/hse-mono 13.c` | HSE counters | read, compare, increment | the branch with persisted state is compiled out | not modelled |
| PFE ping task of the A53 | `PFE_Integration/src/Pfe_Rtos_Task.c` | a copy of the reply ring | one task polls | none: nothing interrupts it | not modelled |
| FSPI driver, test programs, GIC driver, LLCE start-up | see PROJECT.json | registers | register sequences | none of the program's own | not modelled |
| FreeRTOS, lwIP, firmware images, generated configurations | `Demo_S32G3/Source`, ... | - | - | third-party or generated | not modelled |
| Secure logger daemon, cloud upload | `src/sec-log_flow` (text only) | - | - | no source in the repository | not modelled |

How the parts interact.  BL2 calls the logger; the logger calls the HSE (key
import, AES-GCM, RSA signature) and the eMMC driver, both outside the
repository.  The NOR variant of BL2 calls `secboot_log_error` before
`plat_error_handler`.  In the demo the A53 runs three FreeRTOS tasks: the IPC
task puts a value in `xQueue` for the CAN task and then sends a message through
shared memory to the M7_0, which echoes it; received messages arrive in
interrupt context on both cores.  The bootloader runs before all of these: it
asks the storage layer for SD card images through jobs, the communication layer
for images of a session, the HSE for hashes, verification and decryption, and
the DMA engine for copies; only DMA and HSE requests report back while it waits.

What makes each part correct.  Logger: a record reported as written can be read
back for a whole round of the ring; the numbers in the sealed records show losses;
a boot has one form; no old event beside a newer time; a boot overwrites what
earlier ones left only as far as it has logged itself.  BL2: it hands over images of one FIP
only, a failure is logged before it is acted upon, every boot is decided.
NOR log: append-only, whatever happens to the power and as far as its driver
works.  IPC: every message is
echoed once on its channel, no buffer is lost.  CAN: every frame sent is found
again; neither task is ever blocked for good.  Ethernet: a reply in the ring is
sent, in its turn and once.  Bootloader: a released core runs what was checked,
a critical failure stops the boot, the boot comes to an end unless the DMA engine
never answers.  Secure boot: the
secure boot bit never meets an HSE image that lacks something it needs.  Storage:
jobs are done in order and once, and a block is busy only while a job waits for it.

## 2. Modules

    IdsmRing  <--refined by--  IdsmLog  <--extended by--  Bl2LoadImages
    AppendLog <--refined by--  SecbootLog
    BoundedFifo <--refined by-- EthQueue, MemDal
    EchoTurns <--refined by--  IpcDemo
    Bootloader                 BlSecureBoot               CanCheck

`MC*.tla` extend these with the values their `.cfg` files need; `*Proofs.tla`
hold the theorems.  Operators named `X_Something` before an operator `X`
("Mutant: ...") are faulty variants of `X`: no specification uses them; each
shows that a property fails if the code had that fault.

**IdsmLog.**  `emmc` is the function from sectors to frames: one sector for a
slot of the sealed region, then two for a slot of the plaintext region
(`Sectors`, lines 103-107).  A frame is a sealed record, which carries the index
in its IV (line 684), or the event or timestamp half of a plaintext one; these
carry no number in the code (`count` is 1 in every call), and none that a reader
could see in the model: their field `of` tells the call that wrote them, for the
properties only.  `pc` is the position in the code, `rec` the record in the
making.  Each HSE request and each sector write is one action, because power may
fail between them (`PowerLoss`); a failed write leaves the old or the new
contents.  `Faults` chooses which services may fail.  `stored` (calls reported as
written), `lost` (calls in which a service failed), `calls` and `boots` are
history.  `idsm_aes_gcm_encrypt` failing leads to
`WriteFallbackEvent` and `WriteFallbackTimestamp`, which write the sector of the
slot and the one behind it, as lines 687-699 do.

**IdsmRing** is what the sealed region promises: an event either enters its
entry at the head, or misses, or spoils at most the entry at the head or the one
behind.  A reader can rely on nothing better: a ring without `Spoil` is not
implemented by this code.

**Bl2LoadImages** adds BL2's variables and interleaves nothing: the logger's
actions run while `pc` is not `"ready"`, BL2's own when it is, since the calls
are synchronous.  `failed_in` records which check failed, as that decides
whether `plat_setup_done` is reset (lines 834-841, 852-857, 870-874).

**SecbootLog** models the flash operations of `secboot_log_init` and
`secboot_log_error` one by one and the BL2 loop around them.  Sizes count words
of four bytes.  The flash driver is not in the repository; `nor_flash_write` is
taken to store what it is given when it succeeds.  Every call of the driver may
fail, and as the code looks at no result (lines 58, 64, 71, 92, 95) the boot goes
on with what is there: a read may deliver no header, an erase and a write may
leave the old contents, a write of an entry may leave it torn.  `fault` is
history: a call has failed in this boot.  A power loss during the entry's write
can tear the entry too.  `Capacity` counts the entries that start inside the log,
for that is how many the code writes before it starts over (section 6).
**AppendLog** is the append-only log it implements, `Damage` what a failing
driver may do to it: empty it early, announce a cell that holds no entry, spoil
the first entry.

**IpcDemo** has both cores.  `data_chan_rx_cb` and `ctrl_chan_rx_cb` are the
same text in both files, hence one action each, with the core as parameter.
They run between any two steps of the main code of their core; `tx_count++` and
`(*psema)--` are a load and a store.  `handle_error` called in a callback stops
the core's main code and its interrupts (`"isr_error"`), called in the main code
only the latter (`"error"`).  `Pace` says what is known of the time between
events: `"period"` that the traffic of one message is handled within the 200 ms
before the next, `"prompt"` that the A53 task finishes its round before the
answer interrupts it.

**EchoTurns** is what the demo promises under both: one message at a time is on
its way, on the other channel than the one before, and its echo comes back on
the same channel.  The mapping reads the channel of the last message from the
parity of `tx_count` (`SentA`), because a reset of the counters must not show.

**CanCheck** has the two tasks that share `xQueue` and the two CAN callbacks.
The higher priority of the CAN task is the guard `LowPriorityRuns`.  A frame is
the rotation of its payload.  `Faults` says whether frames can be late or lost.

**EthQueue** lets the receive interrupt fall between any two memory accesses of
`queue_is_empty` and `queue_pop`.  The two stores of the wrap (lines 113, 114)
are to independent variables, none of them volatile, so both orders are
modelled; so are both orders of the reads of `how_many()`.  `FillsInWindow`
says whether a frame may take the last slot during that wrap.  Without it the
ring implements **BoundedFifo**, whose `Take` is the copy of line 109; with it
the flag set by the interrupt is lost (run `eth_how_many`).

**Bootloader.**  One configuration is a build (`synchronized`, `secure`,
`trigger`, accepted reset reasons) and a boot table; `config` never changes.
`pc` is the position in `main()`, `Bl_BootApplications` and the load function of
the application `app`, fragment `img`.  Memory is what the properties tell
apart: each chunk of a destination is `"good"` (the signed content), `"bad"`
(other content) or `"old"` (left by the boot before; a warm reset may leave the
good content).  `DmaTransfer` completes, or stops half way, between any two
steps of the processor.  `ShaWait` and `ShaHash` are the two halves of the
pipeline in `Bl_LoadWithSHAAuth` (lines 621-667), which starts the next transfer
before it hashes the last one and ignores the status of the wait.  `jobs` are SD
card reads that outlive the wait of `Bl_LoadFromSdhc`, `open` are COM sessions
that outlive theirs; both write to memory later.  `crc` is the DMA_CRC register
with the image it was computed over.  `Waited` is the value of the polling
counter when a partition is seen down n times, with its wrap.  The model takes
the two waits of a core start that have no timeout
(`Bootloader_Specific.c:221-223`, `412-414`) to end: they wait for the reset
controller of the chip, not for another program.  The wait for the DMA engine
(`Bl_WaitApplicationFetch`) has none either, and may last for ever.

**BlSecureBoot.**  The HSE is the set of items it holds; `sysimg` and `ivt` are
the two flash areas.  Each request to the HSE and each flash job is one action
that may fail (`Stopped`, `Fls`), and power may go between any two.  `PowerOn`
is boot ROM and HSE firmware: without an IVT nothing boots, a valid image is
loaded, a secure IVT needs the CR and its SMRs.  The item that makes it hard:
NVM keys are installed only by the boot that formats the catalog, so whether a
key is present depends on how far an earlier boot came.

**MemDal.**  `MemDal_Main` is a step that notes the ECU mode, one step for each
block that `MemDal_WriteAllBlocks` looks at, and one step of
`MemDal_JobProcessor`.  A job on the SD card is launched and done in one step;
one in flash is `"ONGOING"` until `FeeWorks` has ended it.  `MemDal_AddJob` does
not check for room: the requests carry the condition `RoomFor`, which a client
must meet, as an explicit assumption (see section 6).

## 3. Runs

| Run | Shows | Bounds and why they are enough |
|---|---|---|
| `idsm_log` | what is kept, numbering and dating of records, protection of earlier boots, refinement of `IdsmRing` | 3 slots, 4 calls, 2 boots, every service may fail: the ring goes round once, and every frame can meet one of the boot before; the proofs cover the rest |
| `bl2_boot` | hand-over, platform setup, truth and form of the log over two boots, failures logged before they are acted on, each boot decided | 3 images (one skipped, two asking for setup), 3 slots; the key import, the encryption and the signature may fail, so the sealed, the fallback and the plaintext path are all taken (failing eMMC writes are covered by `idsm_log`) |
| `secboot_log` | append-only log but for the damage of a failing driver, reason of the stop on record, each boot decided | 12 words: a header, two entries and one that does not fit, so the branch for a full log is taken; any call of the flash driver may fail; 4 boots fill the log, and the fourth finds it full and clears it |
| `ipc_paced` | every message echoed, no buffer lost, neither core stops in `handle_error()`, the channels take turns (refinement of `EchoTurns`), liveness | 4 messages, counters modulo 6: the run is infinite and the counters wrap through the reset and through the second answer; for the buffers without pacing see `NoBufferLost` |
| `can_check` | late and lost frames: accounting of the counters, no task blocked; before the first such fault every frame found | counters modulo 4, payload of 3 rotations: coprime, so they meet in all positions; 2 mailboxes |
| `eth_queue` | indices in range, `how_many()` counts, FIFO order, nothing lost or left behind | 4 slots, two kinds of reply: every fill level at every position of the ring; no bound on time |
| `bootloader` | only checked content runs, critical failures stop the boot, own core last, every boot ends or waits for the DMA engine for ever | seven boot tables in `MCBootloader`, each for a kind of interference: every source with every check, own core first or later, two SD and two COM images so that a late answer meets the next wait, a CRC image from SD after one from QSPI; 3 transfers for a large image give the pipeline a first, a middle and a last round; timeouts of 2 and 3 rounds expire and do not |
| `secure_boot` | secure boot bit only over a complete image, keys present, activation in the end | 3 keys (NVM, RAM, NVM), four fragments of which two have an SMR, both builds; 2 failing requests and 4 power losses at any step: a boot is cut off before, inside and after the publication, and the one that resumes is cut off again |
| `memdal` | bounded FIFO that is served unless launches fail again and again, busy blocks have jobs, FEE and head agree | 3 slots, one block of each medium and each way of writing, any number of failing launches; the ECU mode may change for ever, so every fill level meets every position and the flush at sleep |

A small `IDSM_LOG_MAX_ENTRIES`, `QUEUE_CAPACITY`, `UINT16`, `UINT8` or `UINT32`
stands for 64, 1000, 2^16, 2^8 or 2^32.

Runs that show a disagreement between the code and what the repository says of
it (each checks one property, which is violated):

| Run | Statement | Behaviour |
|---|---|---|
| `ipc_in_sync` | `Ipcf_Rtos_Task.c:159`: chan_id in sync with no_msg | the reset of `tx_count` between transmission and increment stops the A53 |
| `eth_how_many` | `queue.c:47`: number of elements in queue | a frame that fills the ring during the wrap of `queue_pop` makes it count 0 |
| `bl_partition_timeout` | `Bootloader_Specific.c:179`: if it takes too much time, consider the partition disabled | `while (... && timeout--)` leaves 0xFFFF after it expires, which passes the test against 0: the partition counts as enabled |

Deadlock is not checked where the system may stop: BL2 after hand-over, panic or
the last power loss; the IPC demo in `handle_error()`; the bootloader when it has
jumped, idles or halted.

## 4. Fairness

`WF(Bl2Step)`: the core runs while it has power; nothing is assumed of power
itself, so `BootDecided` allows for its loss.  In `IpcDemo` both main loops run,
interrupts are taken and the period passes.  In `CanCheck` the scheduler runs a
ready task, the period passes, and a frame that is not lost comes back; a wait
that cannot succeed ends by `TP_TIMEOUT`.  In `EthQueue` the main loop goes on
whenever the interrupt has returned; frames need not come.  In `Bootloader` the
processor runs (`Boot`), and nothing else is assumed: the waits for the SD card
and the sender end by their timeouts, and since the wait for the DMA engine has
none, `BootEnds` allows for a boot that stays in it (`WaitsForDma`).  In `MemDal`
the main function is called again and again and the FEE driver ends its jobs
(`FeeWorks`); clients need not come, and nothing is assumed of launches:
`QueueSpec` promises that jobs are done unless launches fail again and again.  In
`BlSecureBoot` power returns (`PowerOn`) and the processor runs while it is
there; losses and failing requests are bounded by constants, since without a
bound nothing would ever be activated.  No strong fairness is assumed anywhere.

## 5. Proofs

All theorems hold for every value of the constants that satisfies the named
assumptions (`LogAssumption`, `ImageAssumption`, `SecbootAssumption`,
`IpcAssumption`, `CanAssumption`, `BootAssumption`, `SecureBootAssumption`,
`MemAssumption`, `QueueAssumption`),
which say that sizes are positive naturals, that sets are drawn from their
ranges, that a core runs one application at most, and that in the IPC demo the
width of the counters and the number of messages are even (2^16 and 100 in the
code).  Every safety property of
a passing run is a theorem.  The types of `Bl2LoadImages` and `IpcDemo` are
proved and no longer part of a run.

* `IdsmProofs`, the logger: `LogInv` is the inductive strengthening of its
  properties.  `Retained` alone is not inductive: that a record survives until
  the ring has gone round needs to know where every younger record lies, so
  `LogInv` says for each sector which calls may have written it, relative to
  `calls` and `s_log_index`, and what a half-written record looks like at each
  `pc`.  The proof has one step for each action.  `Retained`,
  `SequenceCountsEveryCall`, `OneFormPerBoot`, `TimestampNeverAhead` and
  `TypeOK` follow.
  Every step of `LogSpec` is a step of `IdsmRing` or a stutter
  (`LogImplementsRing`); `EarlierBootsKept` follows from the same invariant, for
  both regions and with the one sector a fallback reaches beyond
  (`WithinReach`).  `GapsShowLosses` is about the numbers of sealed records, the
  only ones there are.
* `IdsmProofs`, BL2: composed with the logger it implements `LogSpec`
  (`Bl2UsesLogger`), so the logger's theorems hold inside BL2; then the
  invariants of BL2, for every list of images.  `FailureIsLogged` says that the
  call of the logger was made and has returned for every failure acted upon, and
  that its event can be read back unless a service failed in that call.  It needs
  three slots: with fewer the second failure may overwrite the first.  With four
  nothing a boot reported as written is overwritten within it
  (`BootKeepsItsRecords`); the code has 64.  `BootIsBounded` counts the steps
  that BL2 has left (`StepsLeft`: the call of the logger under way, what is left
  of the pass, one more pass before the retry) and shows that each step lowers
  the count, so a boot takes at most `24 * NumImages + 47` of them.  This is the
  variant behind `BootDecided`; what it leaves to TLC is that a step is enabled
  until the boot is decided.
* `IpcProofs`: `BuffersConserved` on every schedule, with no assumption on the
  timing (`Pace` is any subset): conservation is inductive once it is known at
  which points of its main code a core has a buffer in hand (`InHand`), and that
  the M7 echoes only after its callback has named a channel (`ChannelKnown`).
  The bound of the pools in `TypeOK` follows from conservation.
  The rest is under the timing the demo counts on (`Timely`: `Pace` holds both
  `"period"` and `"prompt"`).  `AllEchoed` and `NeverStops` depend on each other:
  that no check of a channel fails needs the counters of both cores to agree, and
  they agree only as long as no core has stopped.  `PacedInv` therefore says
  where the one message under way is (`OneMessage`), what is known before the
  first control message has arrived (`Start`), that the counters differ by the
  message under way only (`Counting`), and that message, counters and expected
  channel have the same parity (`Parity`).  The counters wrap modulo an even
  number, so that the parity survives the wrap (`Numbers`), and the answer that
  resets them is sent on an even number only.  From it follow
  `EachMessageEchoedOnce`, `DemoNeverStops`, the refinement of `EchoTurns`
  (`ChannelsTakeTurns`), and `InSyncWhenPrompt`: the statement that the run
  `ipc_in_sync` refutes holds with `"prompt"`, which is therefore what it lacks.
* `CanProofs`: `FramesAccounted` is an equation modulo the width of the counters
  over what is on the bus, lost and counted, so the lemmas reduce remainders
  (`Remainder`, `ReduceFirst`).  `CheckedOk` follows from `CalmInv`: as long as
  the bus has done no wrong it is empty between two calls of `Check_Status`, and
  holds the frame of the call, or that frame's callbacks have run, during one.
* `SecbootProofs`: types, `FailureOnRecord`, and the refinement of `AppendLog`,
  whose mapping reads the entries the header in flash announces.  All of them
  hold with a flash driver that fails at will; as long as it has not (`~fault`)
  the header in RAM and the one in flash agree wherever an entry is written,
  which is what the reason on record rests on.
  `NorBootIsBounded` bounds a boot by `3 * NumImages + 9` steps: a log with no
  room for a whole entry is initialised a second time, and that
  `secboot_log_init` cannot send the boot round again.
* `BootloaderProofs`: `RunsAuthentic` is far from inductive: that a core runs
  what was checked depends on nobody writing the image afterwards.  `Inv`
  therefore says that a loaded image is authentic and is not the target of the
  transfer under way, of a queued job or of an open session (`LoadedInv`); that
  a transfer under way is for the image being loaded (`DmaInv`); that the CRC
  register belongs to this image or an earlier one; what has been hashed so far
  at each `pc` of the pipeline; and that a started application was loaded and
  found good (`StartInv`).  It holds for every boot table, number of transfers
  and timeout.  `CriticalStops` and `OwnCoreLast` follow from the order of the
  table and the labels.
* `BlSecureBootProofs`: the invariant says what the HSE holds at each step:
  exactly what has been installed up to `pc` and `index` (`BootInv`, `AppInv`),
  that NVM keys are there if the catalog was not formatted in this boot
  (`KeyInv`), and that an image in flash is complete whenever it is valid
  (`FlashInv`).  A resumed boot therefore starts with every NVM key, or formats
  the catalog, which is why skipping keys is right.
* `MemDalProofs`: `RingInv` ties head, tail, counter and the status of slots and
  blocks together; `RoomInv` is the arithmetic of the room left for blocks that
  are still to be flushed (a cardinality, so that the lemma on it uses
  `FiniteSetTheorems`).  `RingIsQueue` is the safety part of the refinement of
  `BoundedFifo`, however many launches fail.
* `EthQueueProofs`: `EthTypes` (the indices stay inside) holds whatever the
  interrupt does.  `HowManyRight` and `RingIsFifo` have the hypothesis
  `~FillsInWindow`, as the runs do.  `HowManyCounts` says nothing while main() is
  in `queue_pop`, so the invariant says it at every `pc`: the waiting frames fill
  the slots from `Base` to `queue_push_ptr` and no others (`FillInv`), where a
  wrap of which one variable is stored already counts as done; and what main()
  has read of `how_many()` tells an empty ring as long as it is empty (`MainInv`).
  `RingIsFifo` is the safety part of `FifoSpec`, for every capacity.

Only model-checked: liveness (`BootDecided`, `EveryMessageAnswered`,
`KeepsChecking`, `BootEnds`, `ActivatedAtLast`, the fairness in `FifoSpec` and
`QueueSpec`), since the prover treats neither fairness nor `ENABLED`.  The runs of
section 3 that end in a violation show a disagreement and are no theorems.

## 6. Further disagreements and assumptions

These are visible in the text of an action or were seen in a run that is not
kept.

* `idsm_event.h:279` gives one sector to an event with the HSE active; a failed
  encryption writes two, the second into the next slot (`WriteFallbackEvent`,
  `WriteFallbackTimestamp`).  `Retained` and `IdsmRing` allow for that.
* `idsm_event.h:274` calls the log a circular buffer; each boot starts over at
  slot 0, since the index is not kept (`PowerOn` of `IdsmLog`).
* `WriteFallbackEvent` keeps the header of the signed form in a sector without a
  signature, where `idsm_event.h:15` says "Bit[2] = 1 → Signature Frame present".
* Power lost between the two sectors of a plaintext record leaves a new event
  beside the timestamp of an older record.  `TimestampNeverAhead` excludes the
  opposite only, an old event beside a newer time.
* After a failed post-load handler `plat_setup_done` keeps its value
  (`bl2_image_load_idsm.c:870-874`), so the platform setup done for the primary
  FIP serves the secondary one.  `SetupBeforeLoad` exempts this case and no other.
* `bl2_load_images()` logs `BL31_FAIL` whatever image failed (lines 833, 851,
  869), where `idsm_event.h:114-117` defines an event for each image
  (`LogFailure`).  `OutcomeIsTrue` therefore reads the event as "a pass over the
  list failed" and says nothing of which image it was.
* `secboot_log.c:86` says "Wrap log if full".  When the next entry does not fit,
  `secboot_log_init` finds the header in flash still valid, erases nothing, and
  the entry is written across the end of the log (`LogError`, `Capacity`).  TLC
  reaches this in a log of 12 words once the third entry is written.  It needs a
  size that leaves no whole number of entries behind the header;
  PLAT_SECBOOT_LOG_SIZE is not in the repository, and with 64 KiB, for one, the
  last entry ends with the log.
* `Bootloader.c:475` says that the wait for a DMA transfer ends with the transfer
  "or until the timeout elapses"; the loop of lines 485-494 counts nothing, and a
  transfer that never ends holds up the boot for ever.  `BootEnds` names this
  wait as its only exception.
* `CanIf_Cbk.c:198` says "Wait for transmission and reception".  After one timeout
  the counters of `Check_Status` are ahead of the callbacks', the unsigned
  differences are huge, and the next call ends its wait at once with its frame
  neither confirmed nor received.  `FramesAccounted` gives the difference.
* `MemDal_JobProcessor` tries a job that cannot be launched again for ever
  (`MemDal.c:442-449`): with no card in the slot the head of the ring and all jobs
  behind it wait, and the block stays busy (`LaunchFails`).
* `MemDal_Fee_GetJobResult` can answer BUSY for a job that is pending; it is asked
  only when the FEE driver is idle, so that answer is left out.
* `CryptoDal.c` (lines 411, 689 and 700) compares the result of
  `Crypto_KeyElementSet` with `E_NOT_OK` only.  The repository knows no other
  error code of it; with one, a key that was not set would count as set, and the
  results on `BlSecureBoot` would not hold.
* `MemDal_AddJob` has no check for room: one job too many overwrites the job at
  the head.  `MemDal` is checked and proved for clients that leave room for
  their own request and for the blocks written at the change to sleep.
* `Bl_Configure_Bootloader_SecureBoot` ends without `return` when the boot table
  is not dynamic (`Bootloader.c:1939`); its result is any value, so a boot may
  halt with the configuration half done (`ActivatedAtLast` names this case).
* Between the erase and the write of the IVT the board has none: power lost or a
  job failing there leaves nothing to boot from.  `SecureIsComplete` shows that
  it is the only such window.

## 7. Not modelled, and what is left

Most of the repository's lines are the FreeRTOS kernel, memory images, PFE and
LLCE firmware and generated configuration, none of which is logic of this
program; a map of the larger part of them would say nothing about it.  Of the
program's own code the parts left out are named in section 1, with the reasons in
PROJECT.json: earlier versions of modelled files, tests and experiments, code
that is compiled out, register sequences.

Left for later, in this order: the content of the static reply buffers of
`rx_process` and the frames received before `queue_init()`; the rest of
`CryptoDal` (asynchronous jobs with callbacks); a bound on the steps of a boot in
`Bootloader` between two transfers, and on the activation in `BlSecureBoot`.

## 8. Limits

Frame layouts, key material and cryptography are abstract: a sealed record is
one value, a hash matches when the content is the signed one, and a request to
the HSE succeeds or fails.  The formatting of messages and console output is
left out.  The start-up handshake of the IPCF driver is left out.  Code that is
not in the repository (HSE firmware, boot ROM, eMMC and NOR drivers, FEE and
flash drivers, ComManager, IPCF and CAN drivers) is modelled by what its callers
expect of it.
