-------------------------------- MODULE MemDal --------------------------------
(***************************************************************************)
(* The storage layer of the bootloader framework (MemDal.c, MemDal_Fee.c,  *)
(* MemDal_Sdhc.c): clients ask for reads, writes and erases of blocks,     *)
(* which wait in a ring of jobs; each call of MemDal_Main carries the job  *)
(* at the head a step further.  Flash jobs run in the FEE driver, jobs on  *)
(* the SD card are done when the driver returns.                           *)
(*                                                                         *)
(* Abstractions:                                                           *)
(*  - A block is its index; its data is left out.  Every call is made      *)
(*    with a valid block after MemDal_Init.                                *)
(*  - MemDal_Main is a step for each round of its loop over the blocks and *)
(*    one for the job; nothing else runs in between but the FEE driver and *)
(*    changes of the ECU mode.                                             *)
(*  - done is a history variable: the job completed last.                  *)
(***************************************************************************)
EXTENDS Naturals, Sequences, FiniteSets

CONSTANTS
  MEMDAL_BLOCKS_NUMBER,   \* blocks configured
  MEMDAL_JOB_QUEUE_SIZE,  \* slots of the ring
  eMemory, eWrite         \* of every block: where it is, when it is written

Blocks == 1 .. MEMDAL_BLOCKS_NUMBER

ASSUME MemAssumption ==
  /\ MEMDAL_BLOCKS_NUMBER \in Nat
  /\ MEMDAL_JOB_QUEUE_SIZE \in Nat \ {0}
  /\ eMemory \in [Blocks -> {"FLASH", "SDCARD"}]
  /\ eWrite \in [Blocks -> {"ONREQUEST", "ONCLOSING"}]

Slots == 0 .. MEMDAL_JOB_QUEUE_SIZE - 1
Jobs == [block : Blocks, op : {"READ", "WRITE", "ERASE"}]
NoJob == [block |-> 0, op |-> "NONE"]

VARIABLES
  pJobs, u16Head, u16Tail, u16Counter,  \* MemDal_Queue
  eJobStatus,                           \* of every slot
  eBlockStatus, bIsUpdated,             \* of every block
  eLastEcuMode,                         \* MemDal_eLastEcuMode
  EcuMode,                              \* SysDal_EcuMode
  fee,                                  \* state of the FEE driver: idle, busy
  done,
  u16Idx,                               \* loop of MemDal_WriteAllBlocks
  pc                                    \* client, flush, process

queue == <<pJobs, u16Head, u16Tail, u16Counter, eJobStatus>>
vars == <<queue, eBlockStatus, bIsUpdated, eLastEcuMode, EcuMode, fee, done, u16Idx, pc>>

\* MemDal_Init and the configured blocks
Init ==
  /\ pJobs = [s \in Slots |-> NoJob] /\ eJobStatus = [s \in Slots |-> "COMPLETED"]
  /\ u16Head = 0 /\ u16Tail = 0 /\ u16Counter = 0
  /\ eBlockStatus = [b \in Blocks |-> "UNINIT"]
  /\ bIsUpdated = [b \in Blocks |-> FALSE]
  /\ eLastEcuMode = "RUN" /\ EcuMode = "RUN"
  /\ fee = "idle" /\ done = NoJob /\ u16Idx = 1 /\ pc = "client"

-----------------------------------------------------------------------------
(* Requests *)

\* Mutant: the tail does not wrap.
MemDal_AddJob_NoWrap(b, op) ==
  /\ pJobs' = [pJobs EXCEPT ![u16Tail] = [block |-> b, op |-> op]]
  /\ eJobStatus' = [eJobStatus EXCEPT ![u16Tail] = "PENDING"]
  /\ u16Tail' = u16Tail + 1
  /\ u16Counter' = u16Counter + 1 /\ UNCHANGED u16Head
  /\ eBlockStatus' = [eBlockStatus EXCEPT ![b] = "BUSY"]

\* Mutant: the newest job goes first.
MemDal_AddJob_AtHead(b, op) ==
  /\ pJobs' = [pJobs EXCEPT ![u16Head] = [block |-> b, op |-> op],
                            ![u16Tail] = IF u16Counter = 0 THEN [block |-> b, op |-> op] ELSE pJobs[u16Head]]
  /\ eJobStatus' = [eJobStatus EXCEPT ![u16Tail] = "PENDING"]
  /\ u16Tail' = (u16Tail + 1) % MEMDAL_JOB_QUEUE_SIZE
  /\ u16Counter' = u16Counter + 1 /\ UNCHANGED u16Head
  /\ eBlockStatus' = [eBlockStatus EXCEPT ![b] = "BUSY"]

\* The ring is not checked for room.
MemDal_AddJob(b, op) ==
  /\ pJobs' = [pJobs EXCEPT ![u16Tail] = [block |-> b, op |-> op]]
  /\ eJobStatus' = [eJobStatus EXCEPT ![u16Tail] = "PENDING"]
  /\ u16Tail' = (u16Tail + 1) % MEMDAL_JOB_QUEUE_SIZE
  /\ u16Counter' = u16Counter + 1 /\ UNCHANGED u16Head
  /\ eBlockStatus' = [eBlockStatus EXCEPT ![b] = "BUSY"]

\* The ring relies on its clients to leave room, also for what is written when the ECU
\* goes to sleep: without that MemDal_AddJob overwrites the job at the head.
Closing == Cardinality({b \in Blocks : eWrite[b] = "ONCLOSING"})
RoomFor(n) == u16Counter + n + Closing <= MEMDAL_JOB_QUEUE_SIZE
Others == UNCHANGED <<bIsUpdated, eLastEcuMode, EcuMode, fee, done, u16Idx, pc>>

MemDal_ReadBlock(b) ==
  /\ pc = "client" /\ RoomFor(1)
  /\ eBlockStatus[b] # "BUSY"
  /\ MemDal_AddJob(b, "READ")
  /\ Others

MemDal_WriteBlock(b) ==
  /\ pc = "client" /\ RoomFor(1)
  /\ eBlockStatus[b] # "BUSY"
  /\ IF eWrite[b] = "ONREQUEST"
     THEN MemDal_AddJob(b, "WRITE") /\ UNCHANGED bIsUpdated
     ELSE bIsUpdated' = [bIsUpdated EXCEPT ![b] = TRUE] /\ UNCHANGED <<queue, eBlockStatus>>
  /\ UNCHANGED <<eLastEcuMode, EcuMode, fee, done, u16Idx, pc>>

\* Also while the block is busy.
MemDal_EraseBlock(b) ==
  /\ pc = "client" /\ RoomFor(1)
  /\ MemDal_AddJob(b, "ERASE")
  /\ Others

-----------------------------------------------------------------------------
(* MemDal_Main *)

MemDal_Main ==
  /\ pc = "client"
  /\ pc' = IF eLastEcuMode = "RUN" /\ EcuMode = "SLEEP" THEN "flush" ELSE "process"
  /\ eLastEcuMode' = EcuMode
  /\ u16Idx' = 1
  /\ UNCHANGED <<queue, eBlockStatus, bIsUpdated, EcuMode, fee, done>>

\* bIsUpdated is never cleared: an updated block is written at every transition.
MemDal_WriteAllBlocks ==
  /\ pc = "flush"
  /\ IF u16Idx \in Blocks
     THEN /\ IF bIsUpdated[u16Idx]
             THEN MemDal_AddJob(u16Idx, "WRITE")
             ELSE UNCHANGED <<queue, eBlockStatus>>
          /\ u16Idx' = u16Idx + 1 /\ UNCHANGED pc
     ELSE pc' = "process" /\ UNCHANGED <<queue, eBlockStatus, u16Idx>>
  /\ UNCHANGED <<bIsUpdated, eLastEcuMode, EcuMode, fee, done>>

Job == pJobs[u16Head]
Memory == eMemory[Job.block]

\* The job leaves the ring with the driver's verdict on its block.
Complete(result) ==
  /\ eBlockStatus' = [eBlockStatus EXCEPT ![Job.block] = result]
  /\ eJobStatus' = [eJobStatus EXCEPT ![u16Head] = "COMPLETED"]
  /\ u16Counter' = u16Counter - 1
  /\ u16Head' = (u16Head + 1) % MEMDAL_JOB_QUEUE_SIZE
  /\ done' = Job
  /\ UNCHANGED <<pJobs, u16Tail, fee>>

\* Mutant: a job that cannot be launched is given up.
LaunchFails_GivesUp ==
  /\ eJobStatus[u16Head] = "PENDING"
  /\ u16Counter' = u16Counter - 1
  /\ u16Head' = (u16Head + 1) % MEMDAL_JOB_QUEUE_SIZE
  /\ UNCHANGED <<pJobs, u16Tail, eJobStatus, eBlockStatus, fee, done>>

\* MemDal_ExecuteJob fails: the job stays pending and is tried again, however often.
LaunchFails ==
  /\ eJobStatus[u16Head] = "PENDING"
  /\ UNCHANGED <<queue, eBlockStatus, fee, done>>

\* Mutant: the FEE job is not waited for.
ExecuteOnFee_NoWait ==
  /\ Memory = "FLASH" /\ eJobStatus[u16Head] = "PENDING" /\ fee = "idle"
  /\ fee' = "busy"
  /\ eBlockStatus' = [eBlockStatus EXCEPT ![Job.block] = "READY"]
  /\ eJobStatus' = [eJobStatus EXCEPT ![u16Head] = "COMPLETED"]
  /\ u16Counter' = u16Counter - 1
  /\ u16Head' = (u16Head + 1) % MEMDAL_JOB_QUEUE_SIZE
  /\ done' = Job
  /\ UNCHANGED <<pJobs, u16Tail>>

\* MemDal_Fee_Read, _Write, _Erase
ExecuteOnFee ==
  /\ Memory = "FLASH" /\ eJobStatus[u16Head] = "PENDING" /\ fee = "idle"
  /\ fee' = "busy"
  /\ eBlockStatus' = [eBlockStatus EXCEPT ![Job.block] = "BUSY"]
  /\ eJobStatus' = [eJobStatus EXCEPT ![u16Head] = "ONGOING"]
  /\ UNCHANGED <<pJobs, u16Head, u16Tail, u16Counter, done>>

\* The verdicts of the FEE driver, as states of a block.  MEMIF_JOB_PENDING, which
\* MemDal_Fee_GetJobResult would make BUSY, is none: the driver is idle when it is asked.
Fee_GetJobResult == {"READY", "ERROR"}

\* MemDal_Fee_IsJobDone, MemDal_Fee_GetJobResult
FeeJobDone ==
  /\ Memory = "FLASH" /\ eJobStatus[u16Head] = "ONGOING" /\ fee = "idle"
  /\ \E result \in Fee_GetJobResult : Complete(result)

FeeJobRuns ==
  /\ Memory = "FLASH" /\ eJobStatus[u16Head] = "ONGOING" /\ fee = "busy"
  /\ UNCHANGED <<queue, eBlockStatus, fee, done>>

\* MemDal_Sdhc_Read, _Write, _Erase: launched and done in one call
ExecuteOnSdhc ==
  /\ Memory = "SDCARD" /\ eJobStatus[u16Head] = "PENDING"
  /\ \E result \in {"READY", "ERROR"} : Complete(result)

MemDal_JobProcessor ==
  /\ pc = "process" /\ pc' = "client"
  /\ IF u16Counter > 0
     THEN LaunchFails \/ ExecuteOnFee \/ FeeJobDone \/ FeeJobRuns \/ ExecuteOnSdhc
     ELSE UNCHANGED <<queue, eBlockStatus, fee, done>>
  /\ UNCHANGED <<bIsUpdated, eLastEcuMode, EcuMode, u16Idx>>

-----------------------------------------------------------------------------
(* Around MemDal *)

FeeWorks ==
  /\ fee = "busy" /\ fee' = "idle"
  /\ UNCHANGED <<queue, eBlockStatus, bIsUpdated, eLastEcuMode, EcuMode, done, u16Idx, pc>>

SysDal_Main ==
  /\ pc = "client"
  /\ EcuMode' = IF EcuMode = "RUN" THEN "SLEEP" ELSE "RUN"
  /\ EcuMode = "RUN" => RoomFor(0)
  /\ UNCHANGED <<queue, eBlockStatus, bIsUpdated, eLastEcuMode, fee, done, u16Idx, pc>>

Main == MemDal_Main \/ MemDal_WriteAllBlocks \/ MemDal_JobProcessor

Next ==
  \/ Main \/ FeeWorks \/ SysDal_Main
  \/ \E b \in Blocks : MemDal_ReadBlock(b) \/ MemDal_WriteBlock(b) \/ MemDal_EraseBlock(b)

\* MemDal_Main is called cyclically, and the FEE ends its jobs.
Spec == Init /\ [][Next]_vars /\ WF_vars(Main) /\ WF_vars(FeeWorks)

-----------------------------------------------------------------------------
(* Properties *)

\* Types; head, tail and counter of the ring agree.
TypeOK ==
  /\ pJobs \in [Slots -> Jobs \cup {NoJob}]
  /\ eJobStatus \in [Slots -> {"PENDING", "ONGOING", "COMPLETED"}]
  /\ u16Head \in Slots /\ u16Tail \in Slots /\ u16Counter \in 0 .. MEMDAL_JOB_QUEUE_SIZE
  /\ u16Tail = (u16Head + u16Counter) % MEMDAL_JOB_QUEUE_SIZE
  /\ eBlockStatus \in [Blocks -> {"UNINIT", "READY", "BUSY", "ERROR"}]
  /\ bIsUpdated \in [Blocks -> BOOLEAN]
  /\ eLastEcuMode \in {"RUN", "SLEEP"} /\ EcuMode \in {"RUN", "SLEEP"}
  /\ fee \in {"idle", "busy"} /\ done \in Jobs \cup {NoJob}
  /\ u16Idx \in 1 .. MEMDAL_BLOCKS_NUMBER + 1
  /\ pc \in {"client", "flush", "process"}

\* The slot of the k-th job in the ring, the head being the 0th
Slot(k) == (u16Head + k) % MEMDAL_JOB_QUEUE_SIZE

\* A block that refuses its clients because it is busy (MemDal_ReadBlock,
\* MemDal_WriteBlock) has a job in the ring: no failed launch, second job or verdict
\* leaves it refused with nothing more to be done for it.  It stays refused for as long
\* as that job waits, which is for ever if its launch never succeeds.
BusyHasJob ==
  \A b \in Blocks : eBlockStatus[b] = "BUSY" =>
    \E k \in 0 .. u16Counter - 1 : pJobs[Slot(k)].block = b

\* The FEE driver, which takes one job at a time, works for the job at the head and for
\* no other; only the head is ever ongoing, and the rest wait to be launched
\* (MemDal_JobProcessor).
FeeServesHead ==
  /\ fee = "busy" => u16Counter > 0 /\ eJobStatus[u16Head] = "ONGOING" /\ Memory = "FLASH"
  /\ \A k \in 0 .. u16Counter - 1 :
       eJobStatus[Slot(k)] = "PENDING" \/ (k = 0 /\ eJobStatus[Slot(k)] = "ONGOING" /\ Memory = "FLASH")

Queue == INSTANCE BoundedFifo WITH
  Frames <- Jobs,
  Capacity <- MEMDAL_JOB_QUEUE_SIZE,
  NoFrame <- NoJob,
  taken <- done,
  waiting <- [k \in 1 .. u16Counter |-> pJobs[Slot(k - 1)]]

\* The ring is a bounded queue: jobs are done in the order in which they were accepted,
\* each once, and every accepted job is done, unless launches fail again and again
\* (MemDal_JobProcessor, which gives no job up).
QueueSpec ==
  /\ Queue!SafeSpec
  /\ Queue!Served \/ []<><<MemDal_JobProcessor /\ LaunchFails>>_vars

=============================================================================
