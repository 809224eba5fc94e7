------------------------------ MODULE Bootloader ------------------------------
(***************************************************************************)
(* The bootloader of core M7_0 (Bootloader.c, Bootloader_Specific.c): it   *)
(* fetches the boot table, loads and checks the images of every            *)
(* application in the order of the table, and starts the cores.            *)
(*                                                                         *)
(* Abstractions:                                                           *)
(*  - An image is a sequence of chunks, one per DMA transfer of the SHA    *)
(*    pipeline; a chunk is "good" when it is the signed content, "bad"     *)
(*    when it is any other stored content, "old" when it is what the RAM   *)
(*    held before this boot.  A warm reset may leave good chunks there.    *)
(*  - A hash or CRC matches exactly when every chunk it covers is good.    *)
(*  - The DMA engine, the HSE, MemDal below its job queue, ComManager and  *)
(*    the partitions' hardware are external: they answer, late or with an  *)
(*    error, and sessions that timed out may still receive.  The DMA       *)
(*    engine need not answer at all.                                       *)
(*  - The two waits of a core start that have no timeout (partition and    *)
(*    core leave their reset) end; the clocks of a core come up.           *)
(*  - BL_ENABLE_ECC_CHECK, lockstep and the interconnect registers, whose  *)
(*    status is never looked at, are left out.                             *)
(***************************************************************************)
EXTENDS Naturals, Sequences

CONSTANTS
  Configs,                   \* boot tables and builds, see Config below
  BL_NO_OF_DATA_TRANSFERS,   \* DMA transfers of a large image (8)
  SDHC_LOAD_TIMEOUT,         \* rounds of MemDal_Main for one fragment
  BL_COM_SESSION_TIMEOUT,    \* rounds of ComDal_Main for one fragment
  TIMEOUT_CNT_INIT_VALUE,    \* largest value of the polling counter (0xFFFF)
  Polls                      \* how often a partition may be seen not yet up

\* Bl_ApplicationDetails; "small" images take one transfer.
AppDetails ==
  [core : {"M7_0", "M7_1", "A53_0", "A53_1"}, bootSource : {"QSPI", "SDMMC", "COM"},
   signAlgorithm : {"NONE", "SHA", "CRC32"}, smr : BOOLEAN, encrypted : BOOLEAN,
   small : BOOLEAN, images : Nat, bIsCriticalApp : BOOLEAN, bStartCore : BOOLEAN]

Reasons == {"POR", "DESTRUCTIVE", "FUNCTIONAL", "STANDBY", "UNKNOWN"}

Config ==
  [apps : Seq(AppDetails), synchronized : BOOLEAN, secure : BOOLEAN,
   trigger : BOOLEAN, accepted : SUBSET Reasons]

\* A core runs one application at most.
ASSUME BootAssumption ==
  /\ \A c \in Configs :
       /\ c \in Config
       /\ \A a, b \in DOMAIN c.apps : c.apps[a].core = c.apps[b].core => a = b
  /\ BL_NO_OF_DATA_TRANSFERS \in Nat \ {0}
  /\ SDHC_LOAD_TIMEOUT \in Nat /\ BL_COM_SESSION_TIMEOUT \in Nat
  /\ TIMEOUT_CNT_INIT_VALUE \in Nat \ {0}
  /\ Polls \subseteq Nat

VARIABLES
  config,     \* the build and the boot table, fixed
  stored,     \* content of every image where it is stored or sent from, fixed
  ram,        \* content of its destination
  plain,      \* images decrypted in place
  dma,        \* the DMA channel: chunks of the transfer, state
  crc,        \* image the DMA_CRC value was computed over, and whether it matches
  digest,     \* every chunk hashed since START was good and taken by the HSE
  jobs,       \* read jobs in the queue of MemDal
  open,       \* images whose COM session is started and not complete
  app,        \* u8Index of Bl_BootApplications
  img,        \* u8ImgNumber of Bl_LoadApplication
  index,      \* chunk of Bl_LoadWithSHAAuth, or rounds spent waiting
  AppStatus,  \* Bl_AppStatus
  Status,     \* Status of Bl_BootApplications
  next,       \* u8Index of Bl_StartAllApplications
  started,    \* applications whose core was released
  enabled,    \* Bl_isPartitionEnabled
  up,         \* partitions that really are up
  pc

media == <<config, stored>>
memory == <<ram, plain, digest, crc>>
drivers == <<dma, jobs, open>>
place == <<app, img, index>>
verdict == <<AppStatus, Status>>
cores == <<next, started, enabled, up>>
vars == <<media, memory, drivers, place, verdict, cores, pc>>

Apps == DOMAIN config.apps
App(a) == config.apps[a]
Images == UNION {{a} \X (1 .. App(a).images) : a \in Apps}
Transfers(a) == IF App(a).small THEN 1 ELSE BL_NO_OF_DATA_TRANSFERS
Chunks(i) == 1 .. Transfers(i[1])
Here == <<app, img>>
AllGood(i) == \A c \in Chunks(i) : ram[i][c] = "good"
Goto(label) == pc' = label

BootTable == <<0, 0>>
Idle == [image |-> BootTable, chunks |-> {}, state |-> "done"]
OwnCore == "M7_0"
Partition(core) == IF core \in {"A53_0", "A53_1"} THEN 1 ELSE 0

\* currentCoreApplicationId, 0 for BL_APP_NOT_CONFIGURED
IsOwn(a) == App(a).core = OwnCore

Init ==
  /\ config \in Configs
  /\ stored \in [Images -> UNION {[1 .. n -> {"good", "bad"}] : n \in {1, BL_NO_OF_DATA_TRANSFERS}}]
  /\ \A i \in Images : DOMAIN stored[i] = Chunks(i)
  /\ \E left \in {"good", "old"} : ram = [i \in Images |-> [c \in Chunks(i) |-> left]]
  /\ plain = {} /\ crc = [image |-> BootTable, ok |-> FALSE] /\ digest = FALSE
  /\ dma = Idle /\ jobs = <<>> /\ open = {}
  /\ app = 1 /\ img = 1 /\ index = 0
  /\ AppStatus = [a \in Apps |-> "E_OK"] /\ Status = "E_OK"
  /\ next = 1 /\ started = {} /\ enabled = {} /\ up = {0}
  /\ pc = "main"

-----------------------------------------------------------------------------
(* The DMA engine *)

Bl_StartDmaTransfer(i, chunks) == dma' = [image |-> i, chunks |-> chunks, state |-> "busy"]

\* The whole transfer is done, or it stops with an error anywhere before.
DmaTransfer ==
  /\ dma.state = "busy"
  /\ \E W \in SUBSET dma.chunks :
       /\ dma' = [dma EXCEPT !.state = IF W = dma.chunks THEN "done" ELSE "error"]
       /\ ram' = [i \in Images |-> [c \in Chunks(i) |->
                    IF i = dma.image /\ c \in W THEN stored[i][c] ELSE ram[i][c]]]
  /\ UNCHANGED <<media, plain, digest, crc, jobs, open, place, verdict, cores, pc>>

-----------------------------------------------------------------------------
(* From main() to the loop over the applications *)

\* The secure build configures secure boot first, which leaves the boot table in RAM.
main ==
  /\ pc = "main"
  /\ IF config.secure
     THEN Goto("run") /\ UNCHANGED dma
     ELSE Bl_StartDmaTransfer(BootTable, {1}) /\ Goto("table")
  /\ UNCHANGED <<media, memory, jobs, open, place, verdict, cores>>

Bl_Fetch_BootTable ==
  /\ pc = "table" /\ dma.state # "busy"
  /\ Goto(IF dma.state = "done" THEN "run" ELSE "halt")
  /\ UNCHANGED <<media, memory, drivers, place, verdict, cores>>

\* RGM_DES, RGM_FES and the previous mode decide, in this order
Bl_GetResetReason(des, fes, standby) ==
  IF des = {"F_POR"} THEN IF fes = {} THEN "POR" ELSE "UNKNOWN"
  ELSE IF "F_DR" \in des THEN IF "F_POR" \notin des /\ "F_FR" \notin fes THEN "DESTRUCTIVE" ELSE "UNKNOWN"
  ELSE IF "F_FR" \in fes THEN IF des = {} THEN "FUNCTIONAL" ELSE "UNKNOWN"
  ELSE IF standby THEN "STANDBY" ELSE "UNKNOWN"

Bl_Run ==
  /\ pc = "run"
  /\ enabled' = enabled \cup {Partition(OwnCore)}
  /\ \E des \in SUBSET {"F_POR", "F_DR"}, fes \in SUBSET {"F_FR", "F_EXR"}, standby, received \in BOOLEAN :
       IF Bl_GetResetReason(des, fes, standby) \in config.accepted /\ (config.trigger => received)
       THEN Goto("setup") ELSE Goto("idle")
  /\ UNCHANGED <<media, memory, drivers, place, verdict, next, started, up>>

\* timeout after: while (not up && timeout--), when the partition is seen not up n times
Waited(n) ==
  IF n <= TIMEOUT_CNT_INIT_VALUE THEN TIMEOUT_CNT_INIT_VALUE - n ELSE TIMEOUT_CNT_INIT_VALUE

\* Changes enabled and up; the result is E_OK exactly when the partition is in enabled'.
Bl_EnablePartition(p) ==
  IF p \in enabled
  THEN UNCHANGED <<enabled, up>>
  ELSE \E n \in Polls :
         /\ enabled' = IF Waited(n) # 0 THEN enabled \cup {p} ELSE enabled
         /\ up' = IF n <= TIMEOUT_CNT_INIT_VALUE THEN up \cup {p} ELSE up

Bl_PreSetup ==
  /\ pc = "setup"
  /\ IF app \in Apps
     THEN /\ Goto("fetch")
          /\ IF App(app).core = "A53_0" THEN Bl_EnablePartition(1) ELSE UNCHANGED <<enabled, up>>
     ELSE Goto("deinit") /\ UNCHANGED <<enabled, up>>
  /\ UNCHANGED <<media, memory, drivers, place, verdict, next, started>>

-----------------------------------------------------------------------------
(* Bl_LoadApplication: one fragment after the other *)

Fetching(source, algorithms) ==
  /\ pc = "fetch" /\ img <= App(app).images
  /\ App(app).bootSource = source /\ App(app).signAlgorithm \in algorithms

UsesSmr(a) == config.secure /\ App(a).smr

Bl_TransferImageFromQspi ==
  /\ Fetching("QSPI", {"NONE"}) /\ ~UsesSmr(app)
  /\ Bl_StartDmaTransfer(Here, Chunks(Here)) /\ Goto("fetched")
  /\ UNCHANGED <<media, memory, jobs, open, place, verdict, cores>>

\* The HSE copies the image and verifies it.
CryptoDal_VerifySmr ==
  /\ Fetching("QSPI", {"NONE"}) /\ UsesSmr(app)
  /\ \E content \in {ram[Here], stored[Here]}, ok \in BOOLEAN :
       /\ ok => content = stored[Here] /\ \A c \in Chunks(Here) : content[c] = "good"
       /\ ram' = [ram EXCEPT ![Here] = content]
       /\ Goto(IF ok THEN "loaded" ELSE "refused")
  /\ UNCHANGED <<media, plain, digest, crc, drivers, place, verdict, cores>>

Bl_LoadWithCRCAuth ==
  /\ Fetching("QSPI", {"CRC32"})
  /\ Bl_StartDmaTransfer(Here, Chunks(Here)) /\ Goto("fetched")
  /\ UNCHANGED <<media, memory, jobs, open, place, verdict, cores>>

\* The CRC of a transfer is known when it is done.
Bl_WaitApplicationFetch ==
  /\ pc = "fetched" /\ dma.state # "busy"
  /\ Goto(IF dma.state = "done" THEN "loaded" ELSE "refused")
  /\ crc' = IF App(app).signAlgorithm = "CRC32" THEN [image |-> Here, ok |-> AllGood(Here)] ELSE crc
  /\ UNCHANGED <<media, ram, plain, digest, drivers, place, verdict, cores>>

\* Header first; a hash that fails or a header that does not match refuses the image.
Bl_LoadWithSHAAuth ==
  /\ Fetching("QSPI", {"SHA"})
  /\ \E matches \in BOOLEAN :
       IF matches
       THEN /\ Bl_StartDmaTransfer(Here, {1}) /\ Goto("sha_wait")
            /\ index' = 1 /\ digest' = TRUE
       ELSE Goto("refused") /\ UNCHANGED <<dma, index, digest>>
  /\ UNCHANGED <<media, ram, plain, crc, jobs, open, app, img, verdict, cores>>

Hashed(c, ok) == digest /\ ok /\ ram[Here][c] = "good"

\* Mutant: the transfer of the chunk to be hashed is not waited for.
ShaWait_NoWait ==
  /\ pc = "sha_wait"
  /\ IF index < Transfers(app)
     THEN /\ Bl_StartDmaTransfer(Here, {index + 1}) /\ Goto("sha_hash") /\ UNCHANGED digest
     ELSE /\ \E ok \in BOOLEAN :
               /\ digest' = Hashed(index, ok)
               /\ Goto(IF Hashed(index, ok) THEN "loaded" ELSE "refused")
          /\ UNCHANGED dma
  /\ UNCHANGED <<media, ram, plain, crc, jobs, open, place, verdict, cores>>

\* Mutant: one transfer too many.
ShaWait_OneMore ==
  /\ pc = "sha_wait" /\ dma.state # "busy"
  /\ IF index <= Transfers(app)
     THEN /\ Bl_StartDmaTransfer(Here, {index + 1}) /\ Goto("sha_hash") /\ UNCHANGED digest
     ELSE Goto("refused") /\ UNCHANGED <<digest, dma>>
  /\ UNCHANGED <<media, ram, plain, crc, jobs, open, place, verdict, cores>>

\* The status of the wait is ignored.  The next transfer runs while this chunk is hashed.
ShaWait ==
  /\ pc = "sha_wait" /\ dma.state # "busy"
  /\ IF index < Transfers(app)
     THEN /\ Bl_StartDmaTransfer(Here, {index + 1}) /\ Goto("sha_hash") /\ UNCHANGED digest
     ELSE /\ \E ok \in BOOLEAN :
               /\ digest' = Hashed(index, ok)
               /\ Goto(IF Hashed(index, ok) THEN "loaded" ELSE "refused")
          /\ UNCHANGED dma
  /\ UNCHANGED <<media, ram, plain, crc, jobs, open, place, verdict, cores>>

ShaHash ==
  /\ pc = "sha_hash"
  /\ \E ok \in BOOLEAN : digest' = Hashed(index, ok)
  /\ index' = index + 1
  /\ Goto("sha_wait")
  /\ UNCHANGED <<media, ram, plain, crc, drivers, app, img, verdict, cores>>

\* SD card: a block with a job in the queue is busy.
Bl_LoadFromSdhc ==
  /\ Fetching("SDMMC", {"NONE", "SHA", "CRC32"})
  /\ IF \E j \in DOMAIN jobs : jobs[j] = Here
     THEN Goto("refused") /\ UNCHANGED <<jobs, index>>
     ELSE jobs' = Append(jobs, Here) /\ index' = 0 /\ Goto("sd_wait")
  /\ UNCHANGED <<media, memory, dma, open, app, img, verdict, cores>>

\* SHA images carry their header in RAM; it and the image are hashed in one call each.
Bl_AuthenticateImage(content, ok) ==
  App(app).signAlgorithm = "SHA" => ok /\ \A c \in Chunks(Here) : content[c] = "good"

\* Mutant: the rounds are not counted.
SdWait_NoTimeout ==
  /\ pc = "sd_wait"
  /\ \/ jobs' = jobs /\ ram' = ram /\ UNCHANGED pc
     \/ /\ jobs # <<>> /\ jobs' = Tail(jobs)
        /\ \E done \in BOOLEAN :
             /\ ram' = IF done THEN [ram EXCEPT ![Head(jobs)] = stored[Head(jobs)]] ELSE ram
             /\ Goto(IF done /\ Head(jobs) = Here THEN "loaded" ELSE "sd_wait")
  /\ UNCHANGED <<media, plain, digest, crc, dma, open, place, verdict, cores>>

\* A round of MemDal_Main.  The job at the head stays, or ends with all data or with a part.
SdWait ==
  /\ pc = "sd_wait"
  /\ index' = index + 1
  /\ \/ /\ jobs' = jobs /\ ram' = ram
        /\ Goto(IF index + 1 < SDHC_LOAD_TIMEOUT THEN "sd_wait" ELSE "refused")
     \/ /\ jobs # <<>> /\ jobs' = Tail(jobs)
        /\ \E W \in SUBSET Chunks(Head(jobs)), ok \in BOOLEAN :
             LET content == [c \in Chunks(Head(jobs)) |->
                               IF c \in W THEN stored[Head(jobs)][c] ELSE ram[Head(jobs)][c]]
             IN /\ ram' = [ram EXCEPT ![Head(jobs)] = content]
                /\ Goto(IF index + 1 >= SDHC_LOAD_TIMEOUT THEN "refused"
                        ELSE IF Head(jobs) # Here \/ W # Chunks(Here) THEN "sd_wait"
                        ELSE IF Bl_AuthenticateImage(content, ok) THEN "loaded" ELSE "refused")
  /\ UNCHANGED <<media, plain, digest, crc, dma, open, app, img, verdict, cores>>

\* COM: the session may refuse to start.
Bl_TransferImageViaCom ==
  /\ Fetching("COM", {"NONE", "SHA", "CRC32"})
  /\ \/ open' = open \cup {Here} /\ index' = 0 /\ Goto("com_wait")
     \/ Goto("refused") /\ UNCHANGED <<open, index>>
  /\ UNCHANGED <<media, memory, dma, jobs, app, img, verdict, cores>>

\* A round of ComDal_Main: any open session may receive a part; the one waited for may
\* complete, with the configured size or another.
ComWait ==
  /\ pc = "com_wait"
  /\ index' = index + 1
  /\ \/ \E i \in open : \E c \in Chunks(i) :
          /\ ram' \in {ram, [ram EXCEPT ![i][c] = stored[i][c]]} /\ open' = open
          /\ Goto(IF index + 1 < BL_COM_SESSION_TIMEOUT THEN "com_wait" ELSE "refused")
     \/ \E right, ok \in BOOLEAN :
          /\ open' = open \ {Here}
          /\ ram' = IF right THEN [ram EXCEPT ![Here] = stored[Here]] ELSE ram
          /\ Goto(IF right /\ Bl_AuthenticateImage(stored[Here], ok) THEN "loaded" ELSE "refused")
  /\ UNCHANGED <<media, plain, digest, crc, dma, jobs, app, img, verdict, cores>>

\* Bl_CheckApplicationCrc and Bl_DecryptApplication: the CRC is that of the last such transfer.
CheckAndDecrypt ==
  /\ pc = "loaded"
  /\ \/ /\ App(app).signAlgorithm = "CRC32" => crc = [image |-> Here, ok |-> TRUE]
        /\ plain' = IF App(app).encrypted THEN plain \cup {Here} ELSE plain
        /\ img' = img + 1 /\ Goto("fetch")
     \/ /\ \/ App(app).signAlgorithm = "CRC32" /\ crc # [image |-> Here, ok |-> TRUE]
           \/ App(app).encrypted
        /\ Goto("refused") /\ UNCHANGED <<plain, img>>
  /\ UNCHANGED <<media, ram, digest, crc, drivers, app, index, verdict, cores>>

-----------------------------------------------------------------------------
(* The verdict on an application, and the cores *)

\* An application that is not released although its partition is refused goes unnoticed.
Bl_StartApplication(a) ==
  /\ Bl_EnablePartition(Partition(App(a).core))
  /\ started' = IF Partition(App(a).core) \in enabled' THEN started \cup {a} ELSE started

\* Without fragments the status of Bl_LoadApplication stays E_NOT_OK.
AppLoaded ==
  /\ pc = "fetch" /\ img > App(app).images /\ App(app).images > 0
  /\ AppStatus' = [AppStatus EXCEPT ![app] = "E_OK"]
  /\ IF ~config.synchronized /\ ~IsOwn(app) /\ App(app).bStartCore
     THEN Bl_StartApplication(app) ELSE UNCHANGED <<started, enabled, up>>
  /\ app' = app + 1 /\ img' = 1 /\ Goto("setup")
  /\ UNCHANGED <<media, memory, drivers, index, Status, next>>

\* Mutant: the boot goes on after a critical application.
AppRefused_GoesOn ==
  /\ pc = "refused" \/ (pc = "fetch" /\ App(app).images = 0)
  /\ AppStatus' = [AppStatus EXCEPT ![app] = "E_NOT_OK"]
  /\ Goto("setup")
  /\ app' = app + 1 /\ img' = 1
  /\ UNCHANGED <<media, memory, drivers, index, Status, cores>>

AppRefused ==
  /\ pc = "refused" \/ (pc = "fetch" /\ App(app).images = 0)
  /\ AppStatus' = [AppStatus EXCEPT ![app] = "E_NOT_OK"]
  /\ Status' = IF App(app).bIsCriticalApp THEN "E_NOT_OK" ELSE Status
  /\ Goto(IF App(app).bIsCriticalApp THEN "deinit" ELSE "setup")
  /\ app' = app + 1 /\ img' = 1
  /\ UNCHANGED <<media, memory, drivers, index, cores>>

\* SysDal_DeInit stops every peripheral; the cores are started afterwards.
DeInit ==
  /\ pc = "deinit"
  /\ Goto(IF Status # "E_OK" THEN "idle" ELSE IF config.synchronized THEN "start" ELSE "own")
  /\ UNCHANGED <<media, memory, drivers, place, verdict, cores>>

ToStart(a) == AppStatus[a] = "E_OK" /\ App(a).bStartCore

\* Mutant: the bootloader's own core is not left for the end.
Bl_StartAllApplications_InOrder ==
  /\ pc = "start"
  /\ IF next \in Apps
     THEN /\ next' = next + 1 /\ UNCHANGED pc
          /\ IF ToStart(next)
             THEN Bl_StartApplication(next) ELSE UNCHANGED <<started, enabled, up>>
     ELSE Goto("own") /\ UNCHANGED <<next, started, enabled, up>>
  /\ UNCHANGED <<media, memory, drivers, place, verdict>>

Bl_StartAllApplications ==
  /\ pc = "start"
  /\ IF next \in Apps
     THEN /\ next' = next + 1 /\ UNCHANGED pc
          /\ IF ToStart(next) /\ ~IsOwn(next)
             THEN Bl_StartApplication(next) ELSE UNCHANGED <<started, enabled, up>>
     ELSE Goto("own") /\ UNCHANGED <<next, started, enabled, up>>
  /\ UNCHANGED <<media, memory, drivers, place, verdict>>

\* The jump leaves the bootloader.
Bl_StartApplicationOnCurrentCore ==
  /\ pc = "own"
  /\ LET own == {a \in Apps : IsOwn(a) /\ ToStart(a)}
     IN /\ started' = started \cup own
        /\ Goto(IF own # {} THEN "gone" ELSE "idle")
  /\ UNCHANGED <<media, memory, drivers, place, verdict, next, enabled, up>>

-----------------------------------------------------------------------------
Load ==
  \/ Bl_TransferImageFromQspi \/ CryptoDal_VerifySmr \/ Bl_LoadWithCRCAuth
  \/ Bl_WaitApplicationFetch \/ Bl_LoadWithSHAAuth \/ ShaWait \/ ShaHash
  \/ Bl_LoadFromSdhc \/ SdWait \/ Bl_TransferImageViaCom \/ ComWait
  \/ CheckAndDecrypt

Boot ==
  \/ main \/ Bl_Fetch_BootTable \/ Bl_Run \/ Bl_PreSetup \/ Load
  \/ AppLoaded \/ AppRefused \/ DeInit
  \/ Bl_StartAllApplications \/ Bl_StartApplicationOnCurrentCore

Next == Boot \/ DmaTransfer

\* The processor runs.  Nothing is assumed of the DMA engine: it may never end a transfer.
Spec == Init /\ [][Next]_vars /\ WF_vars(Boot)

-----------------------------------------------------------------------------
(* Properties *)

\* Types: every DMA transfer stays within its image, every job is queued once.
TypeOK ==
  /\ config \in Configs
  /\ DOMAIN stored = Images /\ DOMAIN ram = Images
  /\ \A i \in Images : /\ stored[i] \in [Chunks(i) -> {"good", "bad"}]
                       /\ ram[i] \in [Chunks(i) -> {"good", "bad", "old"}]
  /\ plain \subseteq Images /\ open \subseteq Images
  /\ crc \in [image : Images \cup {BootTable}, ok : BOOLEAN] /\ digest \in BOOLEAN
  /\ DOMAIN dma = {"image", "chunks", "state"} /\ dma.state \in {"busy", "done", "error"}
  /\ dma.image \in Images \cup {BootTable}
  /\ dma.image \in Images => dma.chunks \subseteq Chunks(dma.image)
  /\ jobs \in Seq(Images) /\ \A j, k \in DOMAIN jobs : jobs[j] = jobs[k] => j = k
  /\ app \in 1 .. Len(config.apps) + 1 /\ img \in Nat \ {0} /\ index \in Nat
  /\ pc \in {"fetched", "sha_wait", "sha_hash", "sd_wait", "com_wait", "loaded", "refused"} =>
       Here \in Images
  /\ AppStatus \in [Apps -> {"E_OK", "E_NOT_OK"}] /\ Status \in {"E_OK", "E_NOT_OK"}
  /\ next \in 1 .. Len(config.apps) + 1 /\ started \subseteq Apps
  /\ enabled \subseteq {0, 1} /\ up \subseteq {0, 1}
  /\ pc \in {"main", "table", "run", "setup", "fetch", "fetched", "sha_wait", "sha_hash",
             "sd_wait", "com_wait", "loaded", "refused", "deinit", "start", "own",
             "idle", "gone", "halt"}

Checked(a) == App(a).signAlgorithm # "NONE" \/ (App(a).bootSource = "QSPI" /\ UsesSmr(a))

Authentic(i) ==
  /\ IF Checked(i[1]) THEN AllGood(i) ELSE ram[i] = stored[i]
  /\ App(i[1]).encrypted => i \in plain

\* What a released core runs is, from then on and for all of its fragments, what was
\* checked: every chunk good for a signed, CRC protected or SMR image, the stored content
\* for the others, decrypted where it is encrypted - although DMA errors are ignored while
\* hashing (Bl_LoadWithSHAAuth), a warm reset leaves good chunks behind, and jobs and
\* sessions that timed out go on writing.
RunsAuthentic == \A i \in Images : i[1] \in started => Authentic(i)

\* After a critical application has failed (Bl_BootApplications), the synchronized boot
\* starts nothing, and the other one keeps to the applications it had started before;
\* the own core is never left, although Bl_AppStatus of the rest still reads E_OK.
CriticalStops ==
  \A a \in Apps : AppStatus[a] = "E_NOT_OK" /\ App(a).bIsCriticalApp =>
    \A b \in started : ~config.synchronized /\ b < a /\ ~IsOwn(b)

\* Once the application of the bootloader's core runs (Bl_StartApplicationOnCurrentCore),
\* the bootloader touches no core, no partition and no memory any more.
OwnCoreLast ==
  [][(\A a \in started : ~IsOwn(a)) \/ UNCHANGED <<ram, plain, started, enabled>>]_vars

\* Bl_WaitApplicationFetch polls a channel that is still busy.  It counts nothing, although
\* its comment says "or until the timeout elapses" (Bootloader.c:475).
WaitsForDma == pc \in {"table", "fetched", "sha_wait"} /\ dma.state = "busy"

\* Whatever the SD card, the sender and the HSE do, the boot comes to an end: the waits of
\* Bl_BootApplications end with an answer, an error or their timeout, and only the wait for
\* the DMA engine may last for ever.  The waits for a reset to be released, which have no
\* timeout either, are taken to end.
BootEnds == <>(pc \in {"idle", "gone", "halt"}) \/ <>[]WaitsForDma

\* "If it takes too much time, consider the partition disabled" (Bl_EnablePartition).
EnabledMeansUp == enabled \subseteq up

=============================================================================
