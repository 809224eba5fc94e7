--------------------------- MODULE BootloaderProofs ---------------------------
(* Proofs about the boot, for every boot table and build, every number of transfers and *)
(* every length of the waits. *)
EXTENDS Bootloader, TLAPS

-----------------------------------------------------------------------------
(* The inductive invariant *)

\* TypeOK in parts
Labels == {"main", "table", "run", "setup", "fetch", "fetched", "sha_wait", "sha_hash",
           "sd_wait", "com_wait", "loaded", "refused", "deinit", "start", "own",
           "idle", "gone", "halt"}
Loading == {"fetched", "sha_wait", "sha_hash", "sd_wait", "com_wait", "loaded", "refused"}

MediaTypes ==
  /\ config \in Configs
  /\ DOMAIN stored = Images /\ DOMAIN ram = Images
  /\ \A i \in Images : /\ stored[i] \in [Chunks(i) -> {"good", "bad"}]
                       /\ ram[i] \in [Chunks(i) -> {"good", "bad", "old"}]

MemoryTypes ==
  /\ plain \subseteq Images /\ open \subseteq Images
  /\ crc \in [image : Images \cup {BootTable}, ok : BOOLEAN] /\ digest \in BOOLEAN

DmaTypes ==
  /\ DOMAIN dma = {"image", "chunks", "state"} /\ dma.state \in {"busy", "done", "error"}
  /\ dma.image \in Images \cup {BootTable}
  /\ dma.image \in Images => dma.chunks \subseteq Chunks(dma.image)

JobTypes ==
  /\ jobs \in Seq(Images)
  /\ \A j, k \in DOMAIN jobs : jobs[j] = jobs[k] => j = k

PlaceTypes ==
  /\ app \in 1 .. Len(config.apps) + 1 /\ img \in Nat \ {0} /\ index \in Nat
  /\ pc \in Loading => Here \in Images
  /\ pc = "fetch" => app \in Apps

CoreTypes ==
  /\ AppStatus \in [Apps -> {"E_OK", "E_NOT_OK"}] /\ Status \in {"E_OK", "E_NOT_OK"}
  /\ next \in 1 .. Len(config.apps) + 1 /\ started \subseteq Apps
  /\ enabled \subseteq {0, 1} /\ up \subseteq {0, 1}
  /\ pc \in Labels

Types == MediaTypes /\ MemoryTypes /\ DmaTypes /\ JobTypes /\ PlaceTypes /\ CoreTypes

\* An image that is loaded is authentic, and nobody can write to it any more.
Before(i) == i[1] < app \/ (i[1] = app /\ i[2] < img)
Loaded(i) == (i[1] < app /\ AppStatus[i[1]] = "E_OK") \/ (i[1] = app /\ i[2] < img)
Written(i) == i \in open \/ (\E j \in DOMAIN jobs : jobs[j] = i) \/ (dma.state = "busy" /\ dma.image = i)

LoadedInv == \A i \in Images : Loaded(i) => Authentic(i) /\ ~Written(i)

\* Each source has its images.
SourceInv ==
  /\ \A j \in DOMAIN jobs : App(jobs[j][1]).bootSource = "SDMMC"
  /\ \A i \in open : App(i[1]).bootSource = "COM"

\* The DMA engine works for the image that is loaded now, on no chunk that was hashed.
DmaInv ==
  /\ dma.state = "busy" => pc \in {"table", "fetched", "sha_wait", "sha_hash"}
  /\ pc = "table" => dma.image = BootTable
  /\ pc \in {"fetched", "sha_wait", "sha_hash"} => dma.image = Here /\ App(app).bootSource = "QSPI"
  /\ pc = "fetched" =>
       /\ App(app).signAlgorithm # "SHA" /\ (App(app).signAlgorithm = "NONE" => ~UsesSmr(app))
       /\ dma.chunks = Chunks(Here) /\ (dma.state = "done" => ram[Here] = stored[Here])
  /\ pc \in {"sha_wait", "sha_hash"} =>
       /\ App(app).signAlgorithm = "SHA" /\ index \in Chunks(Here)
       /\ digest => \A c \in Chunks(Here) : c < index => ram[Here][c] = "good"
  /\ pc = "sha_wait" => dma.chunks = {index}
  /\ pc = "sha_hash" => index + 1 \in Chunks(Here) /\ dma.chunks = {index + 1}

\* The other waits, and what was found out about an image before its CRC is compared
WaitInv ==
  /\ pc = "sd_wait" => App(app).bootSource = "SDMMC"
  /\ pc = "com_wait" => App(app).bootSource = "COM"
  /\ pc = "loaded" =>
       /\ ~Written(Here)
       /\ App(app).signAlgorithm = "SHA" => AllGood(Here)
       /\ App(app).signAlgorithm = "NONE" => IF Checked(app) THEN AllGood(Here) ELSE ram[Here] = stored[Here]

\* The CRC in DMA_CRC is that of this image, or of one before it.
CrcInv ==
  \/ Before(crc.image)
  \/ crc.image = Here /\ pc \in {"loaded", "refused"} /\ (crc.ok => AllGood(Here))

VerdictInv ==
  /\ Status = "E_NOT_OK" => pc \in {"deinit", "idle"}
  /\ \A a \in Apps : AppStatus[a] = "E_NOT_OK" => a < app
  /\ \A a \in Apps : AppStatus[a] = "E_NOT_OK" /\ App(a).bIsCriticalApp => Status = "E_NOT_OK" /\ a + 1 = app
  /\ pc \in {"start", "own", "gone"} => app \notin Apps
  /\ pc = "deinit" => app \notin Apps \/ Status = "E_NOT_OK"

StartInv ==
  /\ \A a \in started : a < app /\ AppStatus[a] = "E_OK"
  /\ pc \notin {"start", "own", "gone", "idle"} \/ Status = "E_NOT_OK" =>
       \A a \in started : ~config.synchronized /\ ~IsOwn(a)
  /\ \A a \in started : IsOwn(a) => pc = "gone"

Inv ==
  /\ Types /\ LoadedInv /\ SourceInv /\ DmaInv /\ WaitInv /\ CrcInv /\ VerdictInv /\ StartInv

-----------------------------------------------------------------------------
(* The boot table and the images *)

LEMMA TableFacts ==
  ASSUME config \in Configs
  PROVE  /\ Apps = 1 .. Len(config.apps) /\ Len(config.apps) \in Nat
         /\ \A a \in Apps : App(a) \in AppDetails
         /\ config.synchronized \in BOOLEAN
<1>1. config \in Config
  BY BootAssumption
<1>2. config.apps \in Seq(AppDetails) /\ config.synchronized \in BOOLEAN
  BY <1>1 DEF Config
<1>3. QED
  BY <1>2 DEF Apps, App

LEMMA OneAppPerCore ==
  ASSUME config \in Configs, NEW a \in Apps, NEW b \in Apps, IsOwn(a), IsOwn(b)
  PROVE  a = b
BY BootAssumption DEF Apps, App, IsOwn

LEMMA DetailFacts ==
  ASSUME config \in Configs, NEW a \in Apps
  PROVE  /\ App(a).images \in Nat
         /\ App(a).bootSource \in {"QSPI", "SDMMC", "COM"}
         /\ App(a).signAlgorithm \in {"NONE", "SHA", "CRC32"}
         /\ App(a).encrypted \in BOOLEAN /\ App(a).bIsCriticalApp \in BOOLEAN
<1>1. App(a) \in AppDetails
  BY TableFacts
<1>2. QED
  BY <1>1 DEF AppDetails

LEMMA ImageFacts ==
  ASSUME config \in Configs
  PROVE  /\ \A i \in Images : /\ i[1] \in Apps /\ i[1] \in Nat \ {0}
                              /\ i[2] \in Nat \ {0} /\ i[2] <= App(i[1]).images
                              /\ i = <<i[1], i[2]>>
         /\ \A a \in Apps, f \in Nat \ {0} : f <= App(a).images => <<a, f>> \in Images
         /\ BootTable \notin Images
<1>1. \A i \in Images : \E a \in Apps : \E f \in 1 .. App(a).images : i = <<a, f>>
  BY DEF Images
<1>2. \A i \in Images : i[1] \in Apps /\ i[2] \in 1 .. App(i[1]).images /\ i = <<i[1], i[2]>>
  BY <1>1
<1>3. \A a \in Apps : a \in Nat \ {0} /\ App(a).images \in Nat
  BY TableFacts, DetailFacts
<1>4. \A i \in Images : /\ i[1] \in Nat \ {0} /\ i[2] \in Nat \ {0} /\ i[2] <= App(i[1]).images
  BY <1>2, <1>3
<1>5. \A a \in Apps, f \in Nat \ {0} : f <= App(a).images => <<a, f>> \in Images
  <2> SUFFICES ASSUME NEW a \in Apps, NEW f \in Nat \ {0}, f <= App(a).images
               PROVE  <<a, f>> \in Images
    OBVIOUS
  <2>1. f \in 1 .. App(a).images
    BY <1>3
  <2>2. QED
    BY <2>1 DEF Images
<1>6. BootTable \notin Images
  <2>1. BootTable[1] = 0
    BY DEF BootTable
  <2>2. QED
    BY <1>4, <2>1
<1>7. QED
  BY <1>2, <1>4, <1>5, <1>6

LEMMA ChunkFacts ==
  ASSUME NEW i
  PROVE  Transfers(i[1]) \in Nat \ {0} /\ Chunks(i) = 1 .. Transfers(i[1])
BY BootAssumption DEF Transfers, Chunks

LEMMA Fixed == [Next]_vars => config' = config /\ stored' = stored
BY DEF Next, vars, media, Boot, Load, DmaTransfer, main, Bl_Fetch_BootTable, Bl_Run, Bl_PreSetup,
   Bl_TransferImageFromQspi, CryptoDal_VerifySmr, Bl_LoadWithCRCAuth, Bl_WaitApplicationFetch,
   Bl_LoadWithSHAAuth, ShaWait, ShaHash, Bl_LoadFromSdhc, SdWait, Bl_TransferImageViaCom, ComWait,
   CheckAndDecrypt, AppLoaded, AppRefused, DeInit, Bl_StartAllApplications,
   Bl_StartApplicationOnCurrentCore

LEMMA FixedTable ==
  ASSUME config' = config
  PROVE  /\ Apps' = Apps /\ Images' = Images
         /\ \A a : /\ App(a)' = App(a) /\ Transfers(a)' = Transfers(a) /\ IsOwn(a)' = IsOwn(a)
                   /\ UsesSmr(a)' = UsesSmr(a) /\ Checked(a)' = Checked(a) /\ ToStart(a)' = (AppStatus'[a] = "E_OK" /\ App(a).bStartCore)
         /\ \A i : Chunks(i)' = Chunks(i)
BY DEF Apps, Images, App, Transfers, IsOwn, UsesSmr, Checked, Chunks, ToStart

-----------------------------------------------------------------------------
(* Helpers for the steps *)

\* The image that is loaded is one of the table, and not loaded yet.
LEMMA HereFacts ==
  ASSUME Inv
  PROVE  /\ Here[1] = app /\ Here[2] = img
         /\ pc = "fetch" /\ img <= App(app).images => Here \in Images
         /\ \A i \in Images : Loaded(i) => i # Here
         /\ pc \in Loading => app \in Apps
<1>1. config \in Configs /\ app \in Nat /\ img \in Nat \ {0} /\ (pc = "fetch" => app \in Apps) /\ (pc \in Loading => Here \in Images)
  BY DEF Inv, Types, MediaTypes, PlaceTypes
<1>2. Here[1] = app /\ Here[2] = img
  BY DEF Here
<1>3. pc = "fetch" /\ img <= App(app).images => Here \in Images
  BY <1>1, ImageFacts DEF Here
<1>4. \A i \in Images : Loaded(i) => i # Here
  BY <1>1, <1>2 DEF Loaded
<1>5. pc \in Loading => app \in Apps
  BY <1>1, <1>2, ImageFacts
<1>6. QED
  BY <1>2, <1>3, <1>4, <1>5

\* Loaded images stay loaded images if nobody writes to them.
LEMMA LoadedKept ==
  ASSUME Inv, config' = config, stored' = stored,
         \A i \in Images : Loaded(i)' => /\ Loaded(i) /\ ram'[i] = ram[i]
                                         /\ i \in plain => i \in plain'
                                         /\ Written(i)' => Written(i)
  PROVE  LoadedInv'
BY FixedTable DEF Inv, LoadedInv, Authentic, AllGood

LEMMA RamTypes ==
  ASSUME Inv, NEW i \in Images
  PROVE  /\ stored[i] \in [Chunks(i) -> {"good", "bad"}]
         /\ stored[i] \in [Chunks(i) -> {"good", "bad", "old"}]
         /\ ram[i] \in [Chunks(i) -> {"good", "bad", "old"}]
BY DEF Inv, Types, MediaTypes

\* An image is overwritten, the others stay.
LEMMA RamWrite ==
  ASSUME Inv, config' = config, stored' = stored, NEW i \in Images,
         NEW content \in [Chunks(i) -> {"good", "bad", "old"}], ram' = [ram EXCEPT ![i] = content]
  PROVE  /\ MediaTypes' /\ ram'[i] = content
         /\ \A j \in Images : j # i => ram'[j] = ram[j]
<1>1. DOMAIN ram = Images /\ \A j \in Images : ram[j] \in [Chunks(j) -> {"good", "bad", "old"}]
  BY DEF Inv, Types, MediaTypes
<1>2. ram'[i] = content /\ DOMAIN ram' = Images /\ \A j \in Images : j # i => ram'[j] = ram[j]
  BY <1>1
<1>3. \A j \in Images : ram'[j] \in [Chunks(j) -> {"good", "bad", "old"}]
  BY <1>1, <1>2
<1>4. QED
  BY <1>2, <1>3, FixedTable DEF Inv, Types, MediaTypes

LEMMA StartDma ==
  ASSUME Inv, config' = config, NEW i \in Images \cup {BootTable}, NEW C,
         i \in Images => C \subseteq Chunks(i), Bl_StartDmaTransfer(i, C)
  PROVE  /\ DmaTypes'
         /\ dma'.image = i /\ dma'.chunks = C /\ dma'.state = "busy"
<1>1. dma'.image = i /\ dma'.chunks = C /\ dma'.state = "busy" /\ DOMAIN dma' = {"image", "chunks", "state"}
  BY DEF Bl_StartDmaTransfer
<1>2. QED
  BY <1>1, FixedTable DEF DmaTypes

LEMMA EnableTypes ==
  ASSUME Inv, NEW core, Bl_EnablePartition(Partition(core))
  PROVE  enabled' \subseteq {0, 1} /\ up' \subseteq {0, 1}
<1>1. Partition(core) \in {0, 1}
  BY DEF Partition
<1>2. enabled \subseteq {0, 1} /\ up \subseteq {0, 1}
  BY DEF Inv, Types, CoreTypes
<1>3. /\ enabled' = enabled \/ enabled' = enabled \cup {Partition(core)}
      /\ up' = up \/ up' = up \cup {Partition(core)}
  BY Zenon DEF Bl_EnablePartition
<1>4. QED
  BY <1>1, <1>2, <1>3

-----------------------------------------------------------------------------
(* Steps: from main() to the loop over the applications *)

LEMMA mainStep == ASSUME Inv, main, [Next]_vars PROVE Inv'
<1>0. config' = config /\ stored' = stored
  BY Fixed
<1>1. MediaTypes' /\ MemoryTypes' /\ JobTypes' /\ PlaceTypes' /\ CoreTypes'
  BY <1>0, FixedTable DEF Inv, Types, MediaTypes, MemoryTypes, JobTypes, PlaceTypes, CoreTypes,
     Loading, Here, Labels, Partition, main, Bl_StartDmaTransfer, media, memory, drivers, place,
     verdict, cores, Goto
<1>2. SourceInv' /\ DmaInv' /\ WaitInv' /\ CrcInv' /\ VerdictInv' /\ StartInv'
  BY <1>0, FixedTable DEF Inv, Types, SourceInv, DmaInv, WaitInv, CrcInv, VerdictInv, StartInv,
     Here, Written, AllGood, Bl_AuthenticateImage, Before, main, Bl_StartDmaTransfer, media,
     memory, drivers, place, verdict, cores, Goto
<1>3. DmaTypes'
  <2>1. CASE config.secure
    BY <1>0, <2>1, FixedTable DEF Inv, Types, DmaTypes, main, media, memory, drivers, place,
       verdict, cores, Goto
  <2>2. CASE ~config.secure
    <3>1. config \in Configs /\ Bl_StartDmaTransfer(BootTable, {1})
      BY <2>2 DEF Inv, Types, MediaTypes, main
    <3>2. BootTable \in Images \cup {BootTable} /\ BootTable \notin Images
      BY <3>1, ImageFacts
    <3>3. QED
      BY <1>0, <3>1, <3>2, StartDma
  <2>3. QED
    BY <2>1, <2>2
<1>4. LoadedInv'
  <2>1. \A i \in Images : Loaded(i)' => Loaded(i) /\ i # BootTable
    BY <1>0, ImageFacts DEF main, media, memory, drivers, place, verdict, cores, Goto, Loaded,
       Inv, Types, MediaTypes
  <2>2. \A i \in Images : Loaded(i) => ram'[i] = ram[i] /\ plain' = plain
    BY DEF main, media, memory, drivers, place, verdict, cores, Goto
  <2>3. dma' = dma \/ dma'.image = BootTable
    BY DEF main, Bl_StartDmaTransfer, media, memory, drivers, place, verdict, cores, Goto
  <2>4. open' = open /\ jobs' = jobs
    BY DEF main, media, memory, drivers, place, verdict, cores, Goto
  <2>5. QED
    BY <1>0, <2>1, <2>2, <2>3, <2>4, LoadedKept DEF Written
<1>5. QED
  BY Zenon, <1>1, <1>2, <1>3, <1>4 DEF Inv, Types

LEMMA Bl_Fetch_BootTableStep == ASSUME Inv, Bl_Fetch_BootTable, [Next]_vars PROVE Inv'
<1>0. config' = config /\ stored' = stored
  BY Fixed
<1>1. MediaTypes' /\ MemoryTypes' /\ DmaTypes' /\ JobTypes' /\ PlaceTypes' /\ CoreTypes'
  BY <1>0, FixedTable DEF Inv, Types, MediaTypes, MemoryTypes, DmaTypes, JobTypes, PlaceTypes,
     CoreTypes, Loading, Here, Labels, Partition, Bl_Fetch_BootTable, media, memory, drivers,
     place, verdict, cores, Goto
<1>2. LoadedInv' /\ SourceInv' /\ DmaInv' /\ WaitInv' /\ CrcInv' /\ VerdictInv' /\ StartInv'
  BY <1>0, FixedTable DEF Inv, Types, LoadedInv, SourceInv, DmaInv, WaitInv, CrcInv, VerdictInv,
     StartInv, Loaded, Authentic, Written, AllGood, Here, Bl_AuthenticateImage, Before,
     Bl_Fetch_BootTable, media, memory, drivers, place, verdict, cores, Goto
<1>3. QED
  BY Zenon, <1>1, <1>2 DEF Inv, Types

LEMMA Bl_RunStep == ASSUME Inv, Bl_Run, [Next]_vars PROVE Inv'
<1>0. config' = config /\ stored' = stored
  BY Fixed
<1>1. MediaTypes' /\ MemoryTypes' /\ DmaTypes' /\ JobTypes' /\ PlaceTypes' /\ CoreTypes'
  BY <1>0, FixedTable DEF Inv, Types, MediaTypes, MemoryTypes, DmaTypes, JobTypes, PlaceTypes,
     CoreTypes, Loading, Here, Labels, Partition, Bl_Run, media, memory, drivers, place, verdict,
     cores, Goto
<1>2. LoadedInv' /\ SourceInv' /\ DmaInv' /\ WaitInv' /\ CrcInv' /\ VerdictInv' /\ StartInv'
  BY <1>0, FixedTable DEF Inv, Types, LoadedInv, SourceInv, DmaInv, WaitInv, CrcInv, VerdictInv,
     StartInv, Loaded, Authentic, Written, AllGood, Here, Bl_AuthenticateImage, Before, Bl_Run,
     media, memory, drivers, place, verdict, cores, Goto
<1>3. QED
  BY Zenon, <1>1, <1>2 DEF Inv, Types

LEMMA Bl_PreSetupStep == ASSUME Inv, Bl_PreSetup, [Next]_vars PROVE Inv'
<1>0. config' = config /\ stored' = stored
  BY Fixed
<1>1. MediaTypes' /\ MemoryTypes' /\ DmaTypes' /\ JobTypes' /\ PlaceTypes'
  BY <1>0, FixedTable DEF Inv, Types, MediaTypes, MemoryTypes, DmaTypes, JobTypes, PlaceTypes,
     Loading, Here, Bl_PreSetup, Bl_EnablePartition, media, memory, drivers, place, verdict,
     cores, Goto
<1>2. LoadedInv' /\ SourceInv' /\ DmaInv' /\ WaitInv' /\ CrcInv' /\ VerdictInv' /\ StartInv'
  BY <1>0, FixedTable DEF Inv, Types, LoadedInv, SourceInv, DmaInv, WaitInv, CrcInv, VerdictInv,
     StartInv, Loaded, Authentic, Written, AllGood, Here, Bl_AuthenticateImage, Before,
     Bl_PreSetup, Bl_EnablePartition, media, memory, drivers, place, verdict, cores, Goto
<1>3. CoreTypes'
  <2>1. enabled' \subseteq {0, 1} /\ up' \subseteq {0, 1}
    <3>1. (enabled' = enabled /\ up' = up) \/ Bl_EnablePartition(Partition("A53_0"))
      BY DEF Bl_PreSetup, Partition, media, memory, drivers, place, verdict, cores, Goto
    <3>2. QED
      BY <3>1, EnableTypes DEF Inv, Types, CoreTypes
  <2>2. QED
    BY <1>0, <2>1, FixedTable DEF Inv, Types, CoreTypes, Labels, Bl_PreSetup, media, memory,
       drivers, place, verdict, cores, Goto
<1>4. QED
  BY Zenon, <1>1, <1>2, <1>3 DEF Inv, Types

-----------------------------------------------------------------------------
(* Steps: loading from QSPI *)

LEMMA Bl_TransferImageFromQspiStep == ASSUME Inv, Bl_TransferImageFromQspi, [Next]_vars PROVE Inv'
<1>0. config' = config /\ stored' = stored
  BY Fixed
<1>1. MediaTypes' /\ MemoryTypes' /\ JobTypes' /\ CoreTypes'
  BY <1>0, FixedTable DEF Inv, Types, MediaTypes, MemoryTypes, JobTypes, CoreTypes, Labels,
     Partition, Bl_TransferImageFromQspi, Fetching, Bl_StartDmaTransfer, media, memory, drivers,
     place, verdict, cores, Goto
<1>2. SourceInv' /\ DmaInv' /\ WaitInv' /\ CrcInv' /\ VerdictInv' /\ StartInv'
  BY <1>0, FixedTable DEF Inv, Types, SourceInv, DmaInv, WaitInv, CrcInv, VerdictInv, StartInv,
     Here, Written, AllGood, Bl_AuthenticateImage, Before, Bl_TransferImageFromQspi, Fetching,
     Bl_StartDmaTransfer, media, memory, drivers, place, verdict, cores, Goto
<1>3. DmaTypes'
  <2>1. Here \in Images
    BY HereFacts DEF Bl_TransferImageFromQspi, Fetching, Inv, Types, PlaceTypes, Loading
  <2>2. Bl_StartDmaTransfer(Here, Chunks(Here))
    BY DEF Bl_TransferImageFromQspi, Fetching
  <2>3. Chunks(Here) \subseteq Chunks(Here)
    BY ChunkFacts
  <2>4. QED
    BY <1>0, <2>1, <2>2, <2>3, StartDma
<1>4. PlaceTypes'
  <2>1. Here' = Here /\ Here \in Images
    BY HereFacts DEF Bl_TransferImageFromQspi, Fetching, media, memory, drivers, place, verdict,
       cores, Goto, Here
  <2>2. QED
    BY <1>0, <2>1, FixedTable DEF Inv, Types, PlaceTypes, Bl_TransferImageFromQspi, Fetching,
       media, memory, drivers, place, verdict, cores, Goto
<1>5. LoadedInv'
  <2>1. \A i \in Images : Loaded(i)' => Loaded(i)
    BY <1>0 DEF Bl_TransferImageFromQspi, media, memory, drivers, place, verdict, cores, Goto,
       Loaded, Fetching, Bl_StartDmaTransfer
  <2>2. \A i \in Images : Loaded(i) => ram'[i] = ram[i] /\ (i \in plain => i \in plain') /\ (Written(i)' => Written(i))
    BY HereFacts DEF Bl_TransferImageFromQspi, media, memory, drivers, place, verdict, cores,
       Goto, Written, Fetching, Bl_StartDmaTransfer
  <2>3. QED
    BY <1>0, <2>1, <2>2, LoadedKept
<1>6. QED
  BY Zenon, <1>1, <1>2, <1>3, <1>4, <1>5 DEF Inv, Types

LEMMA CryptoDal_VerifySmrStep == ASSUME Inv, CryptoDal_VerifySmr, [Next]_vars PROVE Inv'
<1>0. config' = config /\ stored' = stored
  BY Fixed
<1>a. PICK content \in {ram[Here], stored[Here]}, ok \in BOOLEAN :
        /\ ok => content = stored[Here] /\ \A c \in Chunks(Here) : content[c] = "good"
        /\ ram' = [ram EXCEPT ![Here] = content]
        /\ pc' = IF ok THEN "loaded" ELSE "refused"
  BY DEF CryptoDal_VerifySmr, Goto
<1>b. Here \in Images /\ content \in [Chunks(Here) -> {"good", "bad", "old"}]
  BY <1>a, HereFacts, RamTypes DEF CryptoDal_VerifySmr, Fetching
<1>c. /\ MediaTypes' /\ ram'[Here] = content
      /\ \A i \in Images : i # Here => ram'[i] = ram[i]
  BY <1>0, <1>a, <1>b, RamWrite
<1>d. /\ Here' = Here /\ app' = app /\ plain' = plain /\ open' = open /\ jobs' = jobs /\ dma' = dma
      /\ AppStatus' = AppStatus /\ img' = img
  BY DEF CryptoDal_VerifySmr, media, memory, drivers, place, verdict, cores, Goto, Here
<1>1. MemoryTypes' /\ DmaTypes' /\ JobTypes' /\ CoreTypes'
  BY <1>0, FixedTable DEF Inv, Types, MemoryTypes, DmaTypes, JobTypes, CoreTypes, Labels,
     Partition, CryptoDal_VerifySmr, Fetching, media, memory, drivers, place, verdict, cores, Goto
<1>2. SourceInv' /\ DmaInv' /\ CrcInv' /\ VerdictInv' /\ StartInv'
  BY <1>0, FixedTable DEF Inv, Types, SourceInv, DmaInv, CrcInv, VerdictInv, StartInv, Here,
     Before, AllGood, CryptoDal_VerifySmr, Fetching, media, memory, drivers, place, verdict,
     cores, Goto
<1>3. MediaTypes'
  BY <1>c
<1>4. PlaceTypes'
  BY <1>0, <1>a, <1>b, <1>d, FixedTable DEF Inv, Types, PlaceTypes, CryptoDal_VerifySmr, media,
     memory, drivers, place, verdict, cores, Goto
<1>5. LoadedInv'
  BY <1>0, <1>c, <1>d, HereFacts, LoadedKept DEF Loaded, Written
<1>6. WaitInv'
  <2>1. ~Written(Here)
    BY DEF CryptoDal_VerifySmr, Fetching, Inv, SourceInv, DmaInv, Written, Here
  <2>2. pc' = "loaded" => \A c \in Chunks(Here) : ram'[Here][c] = "good"
    BY <1>a, <1>c
  <2>3. Checked(app) /\ App(app).signAlgorithm = "NONE"
    BY DEF CryptoDal_VerifySmr, Fetching, Checked
  <2>4. QED
    BY <1>0, <1>a, <1>d, <2>1, <2>2, <2>3, FixedTable DEF WaitInv, Written, AllGood
<1>7. QED
  BY Zenon, <1>1, <1>2, <1>3, <1>4, <1>5, <1>6 DEF Inv, Types

LEMMA Bl_LoadWithCRCAuthStep == ASSUME Inv, Bl_LoadWithCRCAuth, [Next]_vars PROVE Inv'
<1>0. config' = config /\ stored' = stored
  BY Fixed
<1>1. MediaTypes' /\ MemoryTypes' /\ JobTypes' /\ CoreTypes'
  BY <1>0, FixedTable DEF Inv, Types, MediaTypes, MemoryTypes, JobTypes, CoreTypes, Labels,
     Partition, Bl_LoadWithCRCAuth, Fetching, Bl_StartDmaTransfer, media, memory, drivers, place,
     verdict, cores, Goto
<1>2. SourceInv' /\ DmaInv' /\ WaitInv' /\ CrcInv' /\ VerdictInv' /\ StartInv'
  BY <1>0, FixedTable DEF Inv, Types, SourceInv, DmaInv, WaitInv, CrcInv, VerdictInv, StartInv,
     Here, Written, AllGood, Bl_AuthenticateImage, Before, Bl_LoadWithCRCAuth, Fetching,
     Bl_StartDmaTransfer, media, memory, drivers, place, verdict, cores, Goto
<1>3. DmaTypes'
  <2>1. Here \in Images
    BY HereFacts DEF Bl_LoadWithCRCAuth, Fetching, Inv, Types, PlaceTypes, Loading
  <2>2. Bl_StartDmaTransfer(Here, Chunks(Here))
    BY DEF Bl_LoadWithCRCAuth, Fetching
  <2>3. Chunks(Here) \subseteq Chunks(Here)
    BY ChunkFacts
  <2>4. QED
    BY <1>0, <2>1, <2>2, <2>3, StartDma
<1>4. PlaceTypes'
  <2>1. Here' = Here /\ Here \in Images
    BY HereFacts DEF Bl_LoadWithCRCAuth, Fetching, media, memory, drivers, place, verdict, cores,
       Goto, Here
  <2>2. QED
    BY <1>0, <2>1, FixedTable DEF Inv, Types, PlaceTypes, Bl_LoadWithCRCAuth, Fetching, media,
       memory, drivers, place, verdict, cores, Goto
<1>5. LoadedInv'
  <2>1. \A i \in Images : Loaded(i)' => Loaded(i)
    BY <1>0 DEF Bl_LoadWithCRCAuth, media, memory, drivers, place, verdict, cores, Goto, Loaded,
       Fetching, Bl_StartDmaTransfer
  <2>2. \A i \in Images : Loaded(i) => ram'[i] = ram[i] /\ (i \in plain => i \in plain') /\ (Written(i)' => Written(i))
    BY HereFacts DEF Bl_LoadWithCRCAuth, media, memory, drivers, place, verdict, cores, Goto,
       Written, Fetching, Bl_StartDmaTransfer
  <2>3. QED
    BY <1>0, <2>1, <2>2, LoadedKept
<1>6. QED
  BY Zenon, <1>1, <1>2, <1>3, <1>4, <1>5 DEF Inv, Types

LEMMA Bl_WaitApplicationFetchStep == ASSUME Inv, Bl_WaitApplicationFetch, [Next]_vars PROVE Inv'
<1>0. config' = config /\ stored' = stored
  BY Fixed
<1>a. Here \in Images /\ Here' = Here /\ app \in Apps
  BY HereFacts DEF Bl_WaitApplicationFetch, media, memory, drivers, place, verdict, cores, Goto,
     Here, Inv, Types, PlaceTypes, Loading
<1>1. MediaTypes' /\ DmaTypes' /\ JobTypes' /\ PlaceTypes' /\ CoreTypes'
  BY <1>0, FixedTable DEF Inv, Types, MediaTypes, DmaTypes, JobTypes, PlaceTypes, CoreTypes,
     Loading, Here, Labels, Partition, Bl_WaitApplicationFetch, media, memory, drivers, place,
     verdict, cores, Goto
<1>2. LoadedInv' /\ SourceInv' /\ DmaInv' /\ CrcInv' /\ VerdictInv' /\ StartInv'
  BY <1>0, FixedTable DEF Inv, Types, LoadedInv, SourceInv, DmaInv, CrcInv, VerdictInv, StartInv,
     Loaded, Authentic, Written, AllGood, Here, Before, Bl_WaitApplicationFetch, media, memory,
     drivers, place, verdict, cores, Goto
<1>3. MemoryTypes'
  <2>1. AllGood(Here) \in BOOLEAN
    BY DEF AllGood
  <2>2. crc' \in [image : Images \cup {BootTable}, ok : BOOLEAN]
    BY <1>a, <2>1 DEF Bl_WaitApplicationFetch, Inv, Types, MemoryTypes
  <2>3. QED
    BY <1>0, <2>2, FixedTable DEF Bl_WaitApplicationFetch, media, memory, drivers, place,
       verdict, cores, Goto, Inv, Types, MemoryTypes
<1>4. WaitInv'
  <2>1. /\ pc = "fetched" /\ (pc' = "loaded" => dma.state = "done") /\ pc' \in {"loaded", "refused"} /\ dma.state # "busy"
        /\ ram' = ram /\ app' = app /\ open' = open /\ jobs' = jobs /\ dma' = dma
    BY DEF Bl_WaitApplicationFetch, media, memory, drivers, place, verdict, cores, Goto
  <2>2. ~Written(Here)
    BY <2>1 DEF Inv, SourceInv, DmaInv, Written, Here
  <2>3. App(app).signAlgorithm = "NONE" => ~Checked(app)
    BY <2>1 DEF Inv, DmaInv, Checked
  <2>4. QED
    BY <1>0, <1>a, <2>1, <2>2, <2>3, FixedTable DEF WaitInv, Written, Inv, DmaInv
<1>5. QED
  BY Zenon, <1>1, <1>2, <1>3, <1>4 DEF Inv, Types

LEMMA Bl_LoadWithSHAAuthStep == ASSUME Inv, Bl_LoadWithSHAAuth, [Next]_vars PROVE Inv'
<1>0. config' = config /\ stored' = stored
  BY Fixed
<1>a. /\ Here \in Images /\ Here' = Here /\ 1 \in Chunks(Here)
      /\ App(app).signAlgorithm = "SHA" /\ App(app).bootSource = "QSPI"
  BY HereFacts, ChunkFacts DEF Bl_LoadWithSHAAuth, Fetching, media, memory, drivers, place,
     verdict, cores, Goto, Here
<1>b. \/ /\ Bl_StartDmaTransfer(Here, {1}) /\ pc' = "sha_wait" /\ index' = 1 /\ digest' = TRUE
      \/ pc' = "refused" /\ dma' = dma /\ index' = index /\ digest' = digest
  BY DEF Bl_LoadWithSHAAuth, Goto
<1>c. /\ ram' = ram /\ plain' = plain /\ crc' = crc /\ jobs' = jobs /\ open' = open /\ app' = app /\ img' = img
      /\ AppStatus' = AppStatus /\ Status' = Status
  BY DEF Bl_LoadWithSHAAuth, media, memory, drivers, place, verdict, cores, Goto
<1>d. Bl_StartDmaTransfer(Here, {1}) =>
        DmaTypes' /\ dma'.image = Here /\ dma'.chunks = {1} /\ dma'.state = "busy"
  BY <1>0, <1>a, StartDma
<1>1. MediaTypes' /\ JobTypes' /\ CoreTypes'
  BY <1>0, FixedTable DEF Inv, Types, MediaTypes, JobTypes, CoreTypes, Labels, Partition,
     Bl_LoadWithSHAAuth, Fetching, Bl_StartDmaTransfer, media, memory, drivers, place, verdict,
     cores, Goto
<1>2. SourceInv' /\ WaitInv' /\ CrcInv' /\ VerdictInv' /\ StartInv'
  BY <1>0, FixedTable DEF Inv, Types, SourceInv, WaitInv, CrcInv, VerdictInv, StartInv, Here,
     Written, AllGood, Bl_AuthenticateImage, Before, Bl_LoadWithSHAAuth, Fetching,
     Bl_StartDmaTransfer, media, memory, drivers, place, verdict, cores, Goto
<1>3. MemoryTypes'
  <2>1. digest' \in BOOLEAN
    BY <1>b DEF Inv, Types, MemoryTypes
  <2>2. QED
    BY <1>0, <1>c, <2>1, FixedTable DEF Inv, Types, MemoryTypes
<1>4. DmaTypes'
  BY <1>0, <1>b, <1>d, FixedTable DEF Inv, Types, DmaTypes
<1>5. PlaceTypes'
  BY <1>0, <1>a, <1>b, <1>c, FixedTable DEF Inv, Types, PlaceTypes
<1>6. LoadedInv'
  BY <1>0, <1>b, <1>c, <1>d, HereFacts, LoadedKept DEF Loaded, Written
<1>7. DmaInv'
  <2>1. CASE pc' = "sha_wait"
    <3>1. \A c \in Chunks(Here) : ~(c < 1)
      BY ChunkFacts
    <3>2. QED
      BY <1>0, <1>a, <1>b, <1>c, <1>d, <2>1, <3>1, FixedTable DEF DmaInv
  <2>2. CASE pc' = "refused"
    BY <1>b, <2>2 DEF Inv, DmaInv, Bl_LoadWithSHAAuth, Fetching
  <2>3. QED
    BY <1>b, <2>1, <2>2
<1>8. QED
  BY Zenon, <1>1, <1>2, <1>3, <1>4, <1>5, <1>6, <1>7 DEF Inv, Types

LEMMA ShaWaitStep == ASSUME Inv, ShaWait, [Next]_vars PROVE Inv'
<1>0. config' = config /\ stored' = stored
  BY Fixed
<1>a. /\ Here \in Images /\ Here' = Here /\ app \in Apps /\ index \in Chunks(Here)
      /\ App(app).signAlgorithm = "SHA" /\ App(app).bootSource = "QSPI"
      /\ pc = "sha_wait" /\ dma.state # "busy"
      /\ digest => \A c \in Chunks(Here) : c < index => ram[Here][c] = "good"
  BY HereFacts DEF ShaWait, media, memory, drivers, place, verdict, cores, Goto, Here, Inv,
     Types, PlaceTypes, Loading, DmaInv
<1>b. \/ /\ index < Transfers(app)
         /\ Bl_StartDmaTransfer(Here, {index + 1}) /\ pc' = "sha_hash" /\ digest' = digest
      \/ /\ ~(index < Transfers(app)) /\ dma' = dma /\ digest' \in BOOLEAN /\ pc' \in {"loaded", "refused"}
         /\ pc' = "loaded" => digest /\ ram[Here][index] = "good"
  BY DEF ShaWait, media, memory, drivers, place, verdict, cores, Goto, Hashed, Inv, Types,
     MemoryTypes
<1>c. /\ ram' = ram /\ plain' = plain /\ crc' = crc /\ jobs' = jobs /\ open' = open /\ app' = app /\ img' = img
      /\ AppStatus' = AppStatus /\ Status' = Status /\ index' = index
  BY DEF ShaWait, media, memory, drivers, place, verdict, cores, Goto
<1>d. Chunks(Here) = 1 .. Transfers(app) /\ Transfers(app) \in Nat \ {0}
  BY ChunkFacts, HereFacts
<1>e. index < Transfers(app) => index + 1 \in Chunks(Here)
  BY <1>a, <1>d
<1>f. index < Transfers(app) /\ Bl_StartDmaTransfer(Here, {index + 1}) =>
        DmaTypes' /\ dma'.image = Here /\ dma'.chunks = {index + 1} /\ dma'.state = "busy"
  BY <1>0, <1>a, <1>e, StartDma
<1>1. MediaTypes' /\ JobTypes' /\ PlaceTypes' /\ CoreTypes'
  BY <1>0, FixedTable DEF Inv, Types, MediaTypes, JobTypes, PlaceTypes, CoreTypes, Loading, Here,
     Labels, Partition, ShaWait, Bl_StartDmaTransfer, Hashed, media, memory, drivers, place,
     verdict, cores, Goto
<1>2. SourceInv' /\ CrcInv' /\ VerdictInv' /\ StartInv'
  BY <1>0, FixedTable DEF Inv, Types, SourceInv, CrcInv, VerdictInv, StartInv, Here, Before,
     AllGood, ShaWait, Bl_StartDmaTransfer, Hashed, media, memory, drivers, place, verdict,
     cores, Goto
<1>3. MemoryTypes'
  <2>1. digest' \in BOOLEAN
    BY <1>b DEF Inv, Types, MemoryTypes
  <2>2. QED
    BY <1>0, <1>c, <2>1, FixedTable DEF Inv, Types, MemoryTypes
<1>4. DmaTypes'
  BY <1>0, <1>b, <1>f, FixedTable DEF Inv, Types, DmaTypes
<1>5. LoadedInv'
  BY <1>0, <1>b, <1>c, <1>f, HereFacts, LoadedKept DEF Loaded, Written
<1>6. DmaInv'
  <2>1. CASE index < Transfers(app)
    BY <1>0, <1>a, <1>b, <1>c, <1>e, <1>f, <2>1, FixedTable DEF DmaInv
  <2>2. CASE ~(index < Transfers(app))
    BY <1>a, <1>b, <2>2 DEF DmaInv
  <2>3. QED
    BY <2>1, <2>2
<1>7. WaitInv'
  <2>1. pc' = "loaded" => \A c \in Chunks(Here) : ram[Here][c] = "good"
    <3>1. pc' = "loaded" => ~(index < Transfers(app)) /\ digest /\ ram[Here][index] = "good"
      BY <1>b
    <3>2. ~(index < Transfers(app)) => \A c \in Chunks(Here) : c < index \/ c = index
      BY <1>a, <1>d
    <3>3. QED
      BY <1>a, <3>1, <3>2
  <2>2. pc' = "loaded" => dma'.state # "busy"
    BY <1>a, <1>b
  <2>3. pc' = "loaded" => ~Written(Here)'
    BY <1>a, <1>c, <2>2, HereFacts DEF Written, Inv, SourceInv
  <2>4. QED
    BY <1>0, <1>a, <1>b, <1>c, <2>1, <2>3, FixedTable DEF WaitInv, AllGood
<1>8. QED
  BY Zenon, <1>1, <1>2, <1>3, <1>4, <1>5, <1>6, <1>7 DEF Inv, Types

LEMMA ShaHashStep == ASSUME Inv, ShaHash, [Next]_vars PROVE Inv'
<1>0. config' = config /\ stored' = stored
  BY Fixed
<1>a. /\ Here \in Images /\ Here' = Here /\ index \in Chunks(Here) /\ index + 1 \in Chunks(Here)
      /\ App(app).signAlgorithm = "SHA" /\ App(app).bootSource = "QSPI"
      /\ pc = "sha_hash" /\ dma.chunks = {index + 1} /\ dma.image = Here
      /\ digest => \A c \in Chunks(Here) : c < index => ram[Here][c] = "good"
  BY DEF ShaHash, media, memory, drivers, place, verdict, cores, Goto, Here, Inv, Types,
     PlaceTypes, Loading, DmaInv
<1>b. /\ ram' = ram /\ app' = app /\ index' = index + 1 /\ pc' = "sha_wait" /\ dma' = dma
      /\ digest' => digest /\ ram[Here][index] = "good"
  BY DEF ShaHash, media, memory, drivers, place, verdict, cores, Goto, Hashed
<1>1. MediaTypes' /\ MemoryTypes' /\ DmaTypes' /\ JobTypes' /\ PlaceTypes' /\ CoreTypes'
  BY <1>0, FixedTable DEF Inv, Types, MediaTypes, MemoryTypes, DmaTypes, JobTypes, PlaceTypes,
     CoreTypes, Loading, Here, Labels, Partition, ShaHash, Hashed, media, memory, drivers, place,
     verdict, cores, Goto
<1>2. LoadedInv' /\ SourceInv' /\ WaitInv' /\ CrcInv' /\ VerdictInv' /\ StartInv'
  BY <1>0, FixedTable DEF Inv, Types, LoadedInv, SourceInv, WaitInv, CrcInv, VerdictInv,
     StartInv, Loaded, Authentic, Written, AllGood, Here, Bl_AuthenticateImage, Before, ShaHash,
     Hashed, media, memory, drivers, place, verdict, cores, Goto
<1>3. DmaInv'
  <2>1. \A c \in Chunks(Here) : c < index + 1 => c < index \/ c = index
    BY <1>a, ChunkFacts
  <2>2. QED
    BY <1>0, <1>a, <1>b, <2>1, FixedTable DEF DmaInv
<1>4. QED
  BY Zenon, <1>1, <1>2, <1>3 DEF Inv, Types

-----------------------------------------------------------------------------
(* Steps: loading from the SD card and from COM *)

LEMMA Bl_LoadFromSdhcStep == ASSUME Inv, Bl_LoadFromSdhc, [Next]_vars PROVE Inv'
<1>0. config' = config /\ stored' = stored
  BY Fixed
<1>a. Here \in Images /\ Here' = Here
  BY HereFacts DEF Bl_LoadFromSdhc, Fetching, media, memory, drivers, place, verdict, cores,
     Goto, Here
<1>b. \/ jobs' = Append(jobs, Here) /\ (\A j \in DOMAIN jobs : jobs[j] # Here) /\ index' = 0
      \/ jobs' = jobs /\ index' = index
  BY DEF Bl_LoadFromSdhc
<1>c. /\ jobs \in Seq(Images)
      /\ Append(jobs, Here) \in Seq(Images)
      /\ \A j \in DOMAIN Append(jobs, Here) :
           \/ j \in DOMAIN jobs /\ Append(jobs, Here)[j] = jobs[j]
           \/ j = Len(jobs) + 1 /\ Append(jobs, Here)[j] = Here
  BY <1>a DEF Inv, Types, JobTypes
<1>1. MediaTypes' /\ MemoryTypes' /\ DmaTypes' /\ CoreTypes'
  BY <1>0, FixedTable DEF Inv, Types, MediaTypes, MemoryTypes, DmaTypes, CoreTypes, Labels,
     Partition, Bl_LoadFromSdhc, Fetching, media, memory, drivers, place, verdict, cores, Goto
<1>2. SourceInv'
  BY <1>0, FixedTable DEF Inv, Types, SourceInv, Here, Bl_LoadFromSdhc, Fetching, media, memory,
     drivers, place, verdict, cores, Goto
<1>3. DmaInv' /\ WaitInv'
  BY <1>0, FixedTable DEF Inv, Types, DmaInv, WaitInv, Here, Written, AllGood,
     Bl_AuthenticateImage, Bl_LoadFromSdhc, Fetching, media, memory, drivers, place, verdict,
     cores, Goto
<1>4. CrcInv' /\ VerdictInv' /\ StartInv'
  BY <1>0, FixedTable DEF Inv, Types, CrcInv, VerdictInv, StartInv, Before, AllGood, Here,
     Bl_LoadFromSdhc, Fetching, media, memory, drivers, place, verdict, cores, Goto
<1>5. JobTypes'
  <2>1. \A j, k \in DOMAIN jobs : jobs[j] = jobs[k] => j = k
    BY DEF Inv, Types, JobTypes
  <2>2. CASE jobs' = jobs
    BY <1>0, <1>c, <2>1, <2>2, FixedTable DEF JobTypes
  <2>3. CASE jobs' = Append(jobs, Here) /\ (\A j \in DOMAIN jobs : jobs[j] # Here)
    <3>1. \A j, k \in DOMAIN jobs' : jobs'[j] = jobs'[k] => j = k
      BY <1>c, <2>1, <2>3
    <3>2. QED
      BY <1>0, <1>c, <2>3, <3>1, FixedTable DEF JobTypes
  <2>4. QED
    BY <1>b, <2>2, <2>3
<1>6. PlaceTypes'
  <2>1. index' \in Nat
    BY <1>b DEF Inv, Types, PlaceTypes
  <2>2. QED
    BY <1>0, <1>a, <2>1, FixedTable DEF Inv, Types, PlaceTypes, Bl_LoadFromSdhc, Fetching, media,
       memory, drivers, place, verdict, cores, Goto
<1>7. LoadedInv'
  <2>1. /\ ram' = ram /\ plain' = plain /\ open' = open /\ dma' = dma /\ app' = app /\ img' = img /\ AppStatus' = AppStatus
    BY DEF Bl_LoadFromSdhc, media, memory, drivers, place, verdict, cores, Goto
  <2>2. \A i \in Images : (\E j \in DOMAIN jobs' : jobs'[j] = i) => i = Here \/ \E j \in DOMAIN jobs : jobs[j] = i
    BY <1>b, <1>c
  <2>3. QED
    BY <1>0, <2>1, <2>2, HereFacts, LoadedKept DEF Loaded, Written
<1>8. QED
  BY Zenon, <1>1, <1>2, <1>3, <1>4, <1>5, <1>6, <1>7 DEF Inv, Types

LEMMA SdWaitStep == ASSUME Inv, SdWait, [Next]_vars PROVE Inv'
<1>0. config' = config /\ stored' = stored
  BY Fixed
<1>a. /\ pc = "sd_wait" /\ index' = index + 1 /\ Here' = Here
      /\ plain' = plain /\ digest' = digest /\ crc' = crc /\ dma' = dma /\ open' = open
      /\ app' = app /\ img' = img /\ AppStatus' = AppStatus /\ Status' = Status
      /\ next' = next /\ started' = started /\ enabled' = enabled /\ up' = up
  BY DEF SdWait, media, memory, drivers, place, verdict, cores, Goto, Here
<1>b. /\ Here \in Images /\ App(app).bootSource = "SDMMC" /\ app \in Apps
      /\ jobs \in Seq(Images) /\ \A j, k \in DOMAIN jobs : jobs[j] = jobs[k] => j = k
  BY <1>a, HereFacts DEF Inv, Types, PlaceTypes, WaitInv, JobTypes, Loading
<1>c. jobs # << >> => /\ Head(jobs) \in Images /\ 1 \in DOMAIN jobs /\ jobs[1] = Head(jobs)
                      /\ Tail(jobs) \in Seq(Images)
                      /\ \A j \in DOMAIN Tail(jobs) :
                           j + 1 \in DOMAIN jobs /\ j + 1 # 1 /\ Tail(jobs)[j] = jobs[j + 1]
  BY <1>b
<1>d. \/ jobs' = jobs /\ ram' = ram /\ pc' \in {"sd_wait", "refused"}
      \/ /\ jobs # << >> /\ jobs' = Tail(jobs) /\ pc' \in {"sd_wait", "refused", "loaded"}
         /\ \E content \in [Chunks(Head(jobs)) -> {"good", "bad", "old"}] :
              /\ ram' = [ram EXCEPT ![Head(jobs)] = content]
              /\ pc' = "loaded" =>
                   /\ Head(jobs) = Here /\ content = stored[Here]
                   /\ App(app).signAlgorithm = "SHA" => \A c \in Chunks(Here) : content[c] = "good"
  <2>1. CASE jobs' = jobs /\ ram' = ram /\ pc' \in {"sd_wait", "refused"}
    BY <2>1
  <2>2. ASSUME jobs # << >>, jobs' = Tail(jobs), NEW W \in SUBSET Chunks(Head(jobs)), NEW ok \in BOOLEAN,
               NEW content, content = [c \in Chunks(Head(jobs)) |-> IF c \in W THEN stored[Head(jobs)][c] ELSE ram[Head(jobs)][c]],
               ram' = [ram EXCEPT ![Head(jobs)] = content],
               pc' \in {"sd_wait", "refused", "loaded"},
               pc' = "loaded" => Head(jobs) = Here /\ W = Chunks(Here) /\ Bl_AuthenticateImage(content, ok)
        PROVE  \E new \in [Chunks(Head(jobs)) -> {"good", "bad", "old"}] :
                 /\ ram' = [ram EXCEPT ![Head(jobs)] = new]
                 /\ pc' = "loaded" =>
                      /\ Head(jobs) = Here /\ new = stored[Here]
                      /\ App(app).signAlgorithm = "SHA" => \A c \in Chunks(Here) : new[c] = "good"
    <3>1. content \in [Chunks(Head(jobs)) -> {"good", "bad", "old"}]
      BY <1>c, <2>2, RamTypes
    <3>2. pc' = "loaded" => content = stored[Here]
      BY <1>b, <2>2, RamTypes
    <3>3. pc' = "loaded" => (App(app).signAlgorithm = "SHA" => \A c \in Chunks(Here) : content[c] = "good")
      BY <2>2 DEF Bl_AuthenticateImage
    <3>4. QED
      BY <2>2, <3>1, <3>2, <3>3
  <2>3. QED
    BY <2>1, <2>2 DEF SdWait, Goto
<1>e. MediaTypes' /\ (\A i \in Images : Loaded(i) => ram'[i] = ram[i]) /\ (pc' = "loaded" => ram'[Here] = stored[Here])
  <2>1. CASE jobs' = jobs /\ ram' = ram /\ pc' \in {"sd_wait", "refused"}
    BY <1>0, <2>1, FixedTable DEF Inv, Types, MediaTypes
  <2>2. ASSUME jobs # << >>, NEW content \in [Chunks(Head(jobs)) -> {"good", "bad", "old"}],
               ram' = [ram EXCEPT ![Head(jobs)] = content],
               pc' = "loaded" => Head(jobs) = Here /\ content = stored[Here]
        PROVE  MediaTypes' /\ (\A i \in Images : Loaded(i) => ram'[i] = ram[i]) /\ (pc' = "loaded" => ram'[Here] = stored[Here])
    <3>1. /\ MediaTypes' /\ ram'[Head(jobs)] = content
          /\ \A i \in Images : i # Head(jobs) => ram'[i] = ram[i]
      BY <1>0, <1>c, <2>2, RamWrite
    <3>2. ~Loaded(Head(jobs))
      BY <1>c, <2>2 DEF Inv, LoadedInv, Written
    <3>3. QED
      BY <2>2, <3>1, <3>2
  <2>3. QED
    BY <1>d, <2>1, <2>2
<1>f. /\ jobs' \in Seq(Images) /\ \A j, k \in DOMAIN jobs' : jobs'[j] = jobs'[k] => j = k
      /\ \A j \in DOMAIN jobs' : \E k \in DOMAIN jobs : jobs'[j] = jobs[k]
  <2>1. CASE jobs' = jobs
    BY <1>b, <2>1
  <2>2. CASE jobs # << >> /\ jobs' = Tail(jobs)
    <3>1. \A j, k \in DOMAIN Tail(jobs) : j \in Nat /\ k \in Nat /\ (j + 1 = k + 1 => j = k)
      BY <1>c, <2>2
    <3>2. QED
      BY <1>b, <1>c, <2>2, <3>1
  <2>3. QED
    BY <1>d, <2>1, <2>2
<1>g. pc' = "loaded" => /\ \A j \in DOMAIN jobs' : jobs'[j] # Here
                        /\ App(app).signAlgorithm = "SHA" => \A c \in Chunks(Here) : stored[Here][c] = "good"
  BY <1>b, <1>c, <1>d
<1>1. MemoryTypes' /\ DmaTypes'
  BY <1>0, FixedTable DEF Inv, Types, MemoryTypes, DmaTypes, SdWait, media, memory, drivers,
     place, verdict, cores, Goto
<1>2. SourceInv'
  BY <1>0, <1>a, <1>f, FixedTable DEF Inv, SourceInv
<1>3. CrcInv' /\ StartInv'
  BY <1>0, FixedTable DEF Inv, Types, CrcInv, StartInv, Before, AllGood, Here, SdWait, media,
     memory, drivers, place, verdict, cores, Goto
<1>4. MediaTypes'
  BY <1>e
<1>5. JobTypes'
  BY <1>0, <1>f, FixedTable DEF JobTypes
<1>6. PlaceTypes'
  <2>1. pc' # "fetch" /\ index + 1 \in Nat
    BY <1>d DEF Inv, Types, PlaceTypes
  <2>2. QED
    BY <1>0, <1>a, <1>b, <2>1, FixedTable DEF Inv, Types, PlaceTypes
<1>7. CoreTypes'
  <2>1. pc' \in Labels
    BY <1>d DEF Labels
  <2>2. QED
    BY <1>0, <1>a, <2>1, FixedTable DEF Inv, Types, CoreTypes
<1>8. LoadedInv'
  BY <1>0, <1>a, <1>e, <1>f, LoadedKept DEF Loaded, Written
<1>9. DmaInv'
  BY <1>a, <1>d DEF Inv, DmaInv
<1>10. WaitInv'
  <2>1. pc' = "loaded" => ~Written(Here)'
    <3>1. Here \notin open /\ dma.state # "busy"
      BY <1>a, <1>b, HereFacts DEF Inv, SourceInv, DmaInv
    <3>2. Here' = Here /\ open' = open /\ dma' = dma
      BY <1>a
    <3>3. pc' = "loaded" => \A j \in DOMAIN jobs' : jobs'[j] # Here
      BY <1>g
    <3>4. QED
      BY <3>1, <3>2, <3>3 DEF Written
  <2>2. ~(App(app).signAlgorithm = "NONE" /\ Checked(app))
    BY <1>b DEF Checked
  <2>3. pc' # "com_wait"
    BY <1>d
  <2>4. QED
    <3>1. pc' = "loaded" => /\ ram'[Here] = stored[Here]
                            /\ App(app).signAlgorithm = "SHA" => \A c \in Chunks(Here) : ram'[Here][c] = "good"
      <4>1. pc' = "loaded" => ram'[Here] = stored[Here]
        BY <1>e
      <4>2. pc' = "loaded" => (App(app).signAlgorithm = "SHA" => \A c \in Chunks(Here) : stored[Here][c] = "good")
        BY <1>g
      <4>3. QED
        BY <4>1, <4>2
    <3>2. QED
      BY <1>0, <1>a, <1>b, <2>1, <2>2, <2>3, <3>1, FixedTable DEF WaitInv, AllGood
<1>11. VerdictInv'
  <2>1. pc' \notin {"start", "own", "gone", "deinit"}
    BY <1>d
  <2>2. QED
    BY <1>0, <1>a, <2>1, FixedTable DEF Inv, VerdictInv
<1>12. QED
  BY Zenon, <1>1, <1>2, <1>3, <1>4, <1>5, <1>6, <1>7, <1>8, <1>9, <1>10, <1>11 DEF Inv, Types

LEMMA Bl_TransferImageViaComStep == ASSUME Inv, Bl_TransferImageViaCom, [Next]_vars PROVE Inv'
<1>0. config' = config /\ stored' = stored
  BY Fixed
<1>1. MediaTypes' /\ DmaTypes' /\ JobTypes' /\ CoreTypes'
  BY <1>0, FixedTable DEF Inv, Types, MediaTypes, DmaTypes, JobTypes, CoreTypes, Labels,
     Partition, Bl_TransferImageViaCom, Fetching, media, memory, drivers, place, verdict, cores,
     Goto
<1>2. SourceInv' /\ DmaInv' /\ WaitInv' /\ CrcInv' /\ VerdictInv' /\ StartInv'
  BY <1>0, FixedTable DEF Inv, Types, SourceInv, DmaInv, WaitInv, CrcInv, VerdictInv, StartInv,
     Here, Written, AllGood, Bl_AuthenticateImage, Before, Bl_TransferImageViaCom, Fetching,
     media, memory, drivers, place, verdict, cores, Goto
<1>3. MemoryTypes'
  <2>1. open' \subseteq Images
    BY HereFacts DEF Bl_TransferImageViaCom, Fetching, Inv, Types, MemoryTypes
  <2>2. QED
    BY <1>0, <2>1, FixedTable DEF Inv, Types, MemoryTypes, Bl_TransferImageViaCom, media, memory,
       drivers, place, verdict, cores, Goto
<1>4. PlaceTypes'
  <2>1. Here' = Here /\ Here \in Images
    BY HereFacts DEF Bl_TransferImageViaCom, Fetching, media, memory, drivers, place, verdict,
       cores, Goto, Here
  <2>2. QED
    BY <1>0, <2>1, FixedTable DEF Inv, Types, PlaceTypes, Bl_TransferImageViaCom, Fetching,
       media, memory, drivers, place, verdict, cores, Goto
<1>5. LoadedInv'
  <2>1. \A i \in Images : Loaded(i)' => Loaded(i)
    BY <1>0 DEF Bl_TransferImageViaCom, media, memory, drivers, place, verdict, cores, Goto,
       Loaded, Fetching
  <2>2. \A i \in Images : Loaded(i) => ram'[i] = ram[i] /\ (i \in plain => i \in plain') /\ (Written(i)' => Written(i))
    BY HereFacts DEF Bl_TransferImageViaCom, media, memory, drivers, place, verdict, cores, Goto,
       Written, Fetching
  <2>3. QED
    BY <1>0, <2>1, <2>2, LoadedKept
<1>6. QED
  BY Zenon, <1>1, <1>2, <1>3, <1>4, <1>5 DEF Inv, Types

LEMMA ComWaitStep == ASSUME Inv, ComWait, [Next]_vars PROVE Inv'
<1>0. config' = config /\ stored' = stored
  BY Fixed
<1>a. /\ pc = "com_wait" /\ Here' = Here /\ plain' = plain /\ dma' = dma /\ jobs' = jobs
      /\ app' = app /\ img' = img /\ AppStatus' = AppStatus
  BY DEF ComWait, media, memory, drivers, place, verdict, cores, Goto, Here
<1>b. /\ Here \in Images /\ App(app).bootSource = "COM" /\ app \in Apps
  BY <1>a, HereFacts DEF Inv, Types, PlaceTypes, WaitInv, Loading
<1>c. \/ /\ \E i \in open : \E c : ram' \in {ram, [ram EXCEPT ![i][c] = stored[i][c]]}
         /\ open' = open /\ pc' \in {"com_wait", "refused"}
      \/ /\ open' = open \ {Here} /\ ram' \in {ram, [ram EXCEPT ![Here] = stored[Here]]}
         /\ pc' \in {"loaded", "refused"}
         /\ pc' = "loaded" =>
              /\ ram' = [ram EXCEPT ![Here] = stored[Here]]
              /\ App(app).signAlgorithm = "SHA" => \A c \in Chunks(Here) : stored[Here][c] = "good"
  BY DEF ComWait, Goto, Bl_AuthenticateImage
<1>d. DOMAIN ram = Images
  BY DEF Inv, Types, MediaTypes
<1>1. MediaTypes' /\ MemoryTypes' /\ DmaTypes'
  BY <1>0, FixedTable DEF Inv, Types, MediaTypes, MemoryTypes, DmaTypes, ComWait, media, memory,
     drivers, place, verdict, cores, Goto
<1>2. JobTypes' /\ PlaceTypes' /\ CoreTypes'
  BY <1>0, FixedTable DEF Inv, Types, JobTypes, PlaceTypes, CoreTypes, Loading, Here, Labels,
     Partition, ComWait, media, memory, drivers, place, verdict, cores, Goto
<1>3. SourceInv' /\ DmaInv' /\ CrcInv' /\ VerdictInv' /\ StartInv'
  BY <1>0, FixedTable DEF Inv, Types, SourceInv, DmaInv, CrcInv, VerdictInv, StartInv, Here,
     Before, AllGood, ComWait, media, memory, drivers, place, verdict, cores, Goto
<1>4. LoadedInv'
  <2>1. \A i \in Images : Loaded(i) => i \notin open /\ i # Here
    BY HereFacts DEF Inv, LoadedInv, Written
  <2>2. open' \subseteq open
    BY <1>c
  <2>3. \A i \in Images : Loaded(i) => ram'[i] = ram[i]
    <3>1. CASE \E i \in open : \E c : ram' \in {ram, [ram EXCEPT ![i][c] = stored[i][c]]}
      BY <1>d, <2>1, <3>1
    <3>2. CASE ram' \in {ram, [ram EXCEPT ![Here] = stored[Here]]}
      BY <1>d, <2>1, <3>2
    <3>3. QED
      BY <1>c, <3>1, <3>2
  <2>4. QED
    BY <1>0, <1>a, <2>2, <2>3, LoadedKept DEF Loaded, Written
<1>5. WaitInv'
  <2>1. pc' = "loaded" => ~Written(Here)'
    BY <1>a, <1>b, <1>c, HereFacts DEF Written, Inv, SourceInv, DmaInv
  <2>2. ~(App(app).signAlgorithm = "NONE" /\ Checked(app))
    BY <1>b DEF Checked
  <2>3. pc' = "loaded" => /\ ram'[Here] = stored[Here]
                          /\ App(app).signAlgorithm = "SHA" => \A c \in Chunks(Here) : ram'[Here][c] = "good"
    BY <1>b, <1>c, <1>d
  <2>4. pc' # "sd_wait"
    BY <1>c
  <2>5. QED
    BY <1>0, <1>a, <1>b, <2>1, <2>2, <2>3, <2>4, FixedTable DEF WaitInv, AllGood
<1>6. QED
  BY Zenon, <1>1, <1>2, <1>3, <1>4, <1>5 DEF Inv, Types

-----------------------------------------------------------------------------
(* Steps: the verdict, and the cores *)

LEMMA CheckAndDecryptStep == ASSUME Inv, CheckAndDecrypt, [Next]_vars PROVE Inv'
<1>0. config' = config /\ stored' = stored
  BY Fixed
<1>a. /\ pc = "loaded" /\ ram' = ram /\ crc' = crc /\ dma' = dma /\ jobs' = jobs /\ open' = open
      /\ app' = app /\ AppStatus' = AppStatus
      /\ \/ /\ App(app).signAlgorithm = "CRC32" => crc = [image |-> Here, ok |-> TRUE]
            /\ plain' = IF App(app).encrypted THEN plain \cup {Here} ELSE plain
            /\ img' = img + 1 /\ pc' = "fetch"
         \/ pc' = "refused" /\ plain' = plain /\ img' = img
  BY DEF CheckAndDecrypt, media, memory, drivers, place, verdict, cores, Goto
<1>b. /\ Here \in Images /\ app \in Apps /\ app \in Nat /\ img \in Nat \ {0} /\ ~Written(Here)
      /\ Here[1] = app /\ Here[2] = img
      /\ config \in Configs
  BY <1>a, HereFacts, ImageFacts DEF Inv, Types, PlaceTypes, MediaTypes, WaitInv, Loading
<1>c. crc.image \in Images \cup {BootTable} /\ (Before(crc.image) \/ (crc.image = Here /\ (crc.ok => AllGood(Here))))
  BY DEF Inv, Types, MemoryTypes, CrcInv
<1>d. crc.image[1] \in Nat /\ crc.image[2] \in Nat
  BY <1>b, <1>c, ImageFacts DEF BootTable
<1>1. MediaTypes' /\ DmaTypes' /\ JobTypes' /\ CoreTypes'
  BY <1>0, FixedTable DEF Inv, Types, MediaTypes, DmaTypes, JobTypes, CoreTypes, Labels,
     Partition, CheckAndDecrypt, media, memory, drivers, place, verdict, cores, Goto
<1>2. SourceInv' /\ DmaInv' /\ WaitInv' /\ VerdictInv' /\ StartInv'
  BY <1>0, FixedTable DEF Inv, Types, SourceInv, DmaInv, WaitInv, VerdictInv, StartInv, Here,
     Written, AllGood, Bl_AuthenticateImage, CheckAndDecrypt, media, memory, drivers, place,
     verdict, cores, Goto
<1>3. MemoryTypes'
  <2>1. plain' \subseteq Images
    BY <1>a, <1>b DEF Inv, Types, MemoryTypes
  <2>2. QED
    BY <1>0, <2>1, FixedTable DEF Inv, Types, MemoryTypes, CheckAndDecrypt, media, memory, drivers
<1>4. PlaceTypes'
  <2>1. CASE img' = img + 1 /\ pc' = "fetch"
    BY <1>0, <1>a, <1>b, <2>1, FixedTable DEF Inv, Types, PlaceTypes, Loading, CheckAndDecrypt
  <2>2. CASE img' = img /\ pc' = "refused"
    <3>1. Here' = Here
      BY <1>a, <2>2 DEF Here
    <3>2. QED
      BY <1>0, <1>a, <1>b, <2>2, <3>1, FixedTable DEF Inv, Types, PlaceTypes, Loading,
         CheckAndDecrypt
  <2>3. QED
    BY <1>a, <2>1, <2>2
<1>5. LoadedInv'
  <2>1. CASE img' = img
    BY <1>0, <1>a, <2>1, LoadedKept DEF Loaded, Written
  <2>2. CASE img' = img + 1 /\ pc' = "fetch"
    <3>1. /\ App(app).signAlgorithm = "CRC32" => crc = [image |-> Here, ok |-> TRUE]
          /\ plain \subseteq plain' /\ (App(app).encrypted => Here \in plain')
      BY <1>a, <1>b, <2>2
    <3>2. \A i \in Images : Loaded(i)' => Loaded(i) \/ i = Here
      <4> SUFFICES ASSUME NEW i \in Images, i[1] = app, i[2] < img + 1, ~(i[2] < img) PROVE i = Here
        BY <1>a, <2>2 DEF Loaded
      <4>1. i = <<i[1], i[2]>> /\ i[2] \in Nat
        BY <1>b, ImageFacts
      <4>2. i[2] = img
        BY <1>b, <4>1
      <4>3. QED
        BY <4>1, <4>2 DEF Here
    <3>3. ~Before(Here)
      BY <1>b DEF Before
    <3>4. App(app).signAlgorithm = "CRC32" => AllGood(Here)
      BY <1>c, <3>1, <3>3
    <3>5. IF Checked(app) THEN AllGood(Here) ELSE ram[Here] = stored[Here]
      <4>1. App(app).signAlgorithm \in {"NONE", "SHA", "CRC32"}
        BY <1>b, DetailFacts
      <4>2. App(app).signAlgorithm # "NONE" => Checked(app)
        BY DEF Checked
      <4>3. QED
        BY <1>a, <3>4, <4>1, <4>2 DEF Inv, WaitInv
    <3>0. PICK h : h = Here
      OBVIOUS
    <3>6. Authentic(h)'
      BY <1>0, <1>a, <1>b, <3>0, <3>1, <3>5, FixedTable DEF Authentic, AllGood
    <3>7. \A i \in Images : Authentic(i) => Authentic(i)'
      BY <1>0, <1>a, <3>1, FixedTable DEF Authentic, AllGood
    <3>8. \A i : Written(i)' = Written(i)
      BY <1>a DEF Written
    <3>9. QED
      BY <1>0, <1>b, <3>0, <3>2, <3>6, <3>7, <3>8, FixedTable DEF Inv, LoadedInv
  <2>3. QED
    BY <1>a, <2>1, <2>2
<1>6. CrcInv'
  <2>1. CASE img' = img /\ pc' = "refused"
    <3>1. Here' = Here
      BY <1>a, <2>1 DEF Here
    <3>2. QED
      BY <1>0, <1>a, <1>c, <2>1, <3>1, FixedTable DEF CrcInv, Before, AllGood
  <2>2. CASE img' = img + 1
    BY <1>a, <1>b, <1>c, <1>d, <2>2 DEF CrcInv, Before
  <2>3. QED
    BY <1>a, <2>1, <2>2
<1>7. QED
  BY Zenon, <1>1, <1>2, <1>3, <1>4, <1>5, <1>6 DEF Inv, Types

LEMMA AppLoadedStep == ASSUME Inv, AppLoaded, [Next]_vars PROVE Inv'
<1>0. config' = config /\ stored' = stored
  BY Fixed
<1>a. /\ pc = "fetch" /\ img > App(app).images /\ pc' = "setup" /\ app' = app + 1 /\ img' = 1
      /\ AppStatus' = [AppStatus EXCEPT ![app] = "E_OK"]
      /\ \/ started' = started
         \/ started' = started \cup {app} /\ ~config.synchronized /\ ~IsOwn(app)
      /\ ram' = ram /\ plain' = plain /\ crc' = crc /\ dma' = dma /\ jobs' = jobs /\ open' = open
      /\ index' = index /\ Status' = Status /\ next' = next
  BY DEF AppLoaded, Bl_StartApplication, media, memory, drivers, place, verdict, cores, Goto
<1>b. /\ app \in Apps /\ app \in Nat \ {0} /\ img \in Nat \ {0} /\ App(app).images \in Nat
      /\ Apps = 1 .. Len(config.apps) /\ Len(config.apps) \in Nat /\ config \in Configs
      /\ AppStatus \in [Apps -> {"E_OK", "E_NOT_OK"}]
  <2>1. config \in Configs /\ app \in Apps /\ img \in Nat \ {0}
    BY <1>a DEF Inv, Types, PlaceTypes, MediaTypes
  <2>2. Apps = 1 .. Len(config.apps) /\ Len(config.apps) \in Nat /\ App(app).images \in Nat
    BY <2>1, TableFacts, DetailFacts
  <2>3. AppStatus \in [Apps -> {"E_OK", "E_NOT_OK"}]
    BY DEF Inv, Types, CoreTypes
  <2>4. app \in Nat \ {0}
    BY <2>1, <2>2
  <2>5. QED
    BY <2>1, <2>2, <2>3, <2>4
<1>c. AppStatus'[app] = "E_OK" /\ \A a \in Apps : a # app => AppStatus'[a] = AppStatus[a]
  BY <1>a, <1>b
<1>d. /\ crc.image \in Images \cup {BootTable} /\ crc.image[1] \in Nat /\ crc.image[2] \in Nat
  BY <1>b, ImageFacts DEF BootTable, Inv, Types, MemoryTypes
<1>1. MediaTypes' /\ MemoryTypes' /\ DmaTypes' /\ JobTypes'
  BY <1>0, FixedTable DEF Inv, Types, MediaTypes, MemoryTypes, DmaTypes, JobTypes, AppLoaded,
     Bl_StartApplication, Bl_EnablePartition, media, memory, drivers, place, verdict, cores, Goto
<1>2. SourceInv' /\ DmaInv' /\ WaitInv'
  BY <1>0, FixedTable DEF Inv, Types, SourceInv, DmaInv, WaitInv, Here, Written, AllGood,
     Bl_AuthenticateImage, AppLoaded, Bl_StartApplication, Bl_EnablePartition, media, memory,
     drivers, place, verdict, cores, Goto
<1>3. PlaceTypes'
  BY <1>0, <1>a, <1>b, FixedTable DEF Inv, Types, PlaceTypes, Loading
<1>4. CoreTypes'
  <2>1. enabled' \subseteq {0, 1} /\ up' \subseteq {0, 1}
    <3>1. (enabled' = enabled /\ up' = up) \/ \E core : Bl_EnablePartition(Partition(core))
      BY DEF AppLoaded, Bl_StartApplication, media, memory, drivers, place, verdict, cores, Goto
    <3>2. QED
      BY <3>1, EnableTypes DEF Inv, Types, CoreTypes
  <2>2. AppStatus' \in [Apps -> {"E_OK", "E_NOT_OK"}] /\ started' \subseteq Apps
    BY <1>a, <1>b DEF Inv, Types, CoreTypes
  <2>3. pc' \in Labels
    BY <1>a DEF Labels
  <2>4. QED
    BY <1>0, <1>a, <2>1, <2>2, <2>3, FixedTable DEF Inv, Types, CoreTypes
<1>5. LoadedInv'
  <2>1. \A i \in Images : Loaded(i)' => Loaded(i)
    <3> SUFFICES ASSUME NEW i \in Images, Loaded(i)' PROVE Loaded(i)
      OBVIOUS
    <3>1. /\ i[1] \in Apps /\ i[1] \in Nat /\ i[2] \in Nat \ {0} /\ i[2] <= App(i[1]).images
      BY <1>b, ImageFacts
    <3>2. i[1] < app + 1 /\ AppStatus'[i[1]] = "E_OK"
      BY <1>a, <3>1 DEF Loaded
    <3>3. CASE i[1] < app
      BY <1>b, <1>c, <3>1, <3>2, <3>3 DEF Loaded
    <3>4. CASE i[1] = app
      BY <1>a, <1>b, <3>1, <3>4 DEF Loaded
    <3>5. QED
      BY <1>b, <3>1, <3>2, <3>3, <3>4
  <2>2. QED
    BY <1>0, <1>a, <2>1, LoadedKept DEF Written
<1>6. CrcInv'
  BY <1>a, <1>b, <1>d, HereFacts DEF Inv, CrcInv, Before
<1>7. VerdictInv'
  <2>1. Status = "E_OK" /\ \A a \in Apps : AppStatus[a] = "E_NOT_OK" => a < app /\ ~App(a).bIsCriticalApp
    BY <1>a DEF Inv, VerdictInv, Types, CoreTypes
  <2>2. \A a \in Apps : AppStatus'[a] = "E_NOT_OK" => a < app + 1 /\ ~App(a).bIsCriticalApp
    BY <1>b, <1>c, <2>1
  <2>3. QED
    BY <1>0, <1>a, <2>1, <2>2, FixedTable DEF VerdictInv
<1>8. StartInv'
  <2>1. \A a \in started : /\ a \in Apps /\ a < app /\ AppStatus[a] = "E_OK"
                            /\ ~config.synchronized /\ ~IsOwn(a)
    BY <1>a DEF Inv, StartInv, Types, CoreTypes
  <2>2. \A a \in started' : /\ a < app + 1 /\ AppStatus'[a] = "E_OK"
                             /\ ~config.synchronized /\ ~IsOwn(a)
    BY <1>a, <1>b, <1>c, <2>1
  <2>3. QED
    BY <1>0, <1>a, <2>2, FixedTable DEF StartInv
<1>9. QED
  BY Zenon, <1>1, <1>2, <1>3, <1>4, <1>5, <1>6, <1>7, <1>8 DEF Inv, Types

LEMMA AppRefusedStep == ASSUME Inv, AppRefused, [Next]_vars PROVE Inv'
<1>0. config' = config /\ stored' = stored
  BY Fixed
<1>a. /\ pc = "refused" \/ pc = "fetch"
      /\ pc' = (IF App(app).bIsCriticalApp THEN "deinit" ELSE "setup") /\ app' = app + 1 /\ img' = 1
      /\ AppStatus' = [AppStatus EXCEPT ![app] = "E_NOT_OK"]
      /\ Status' = IF App(app).bIsCriticalApp THEN "E_NOT_OK" ELSE Status
      /\ ram' = ram /\ plain' = plain /\ crc' = crc /\ dma' = dma /\ jobs' = jobs /\ open' = open
      /\ index' = index /\ next' = next /\ started' = started /\ enabled' = enabled /\ up' = up
  BY DEF AppRefused, media, memory, drivers, place, verdict, cores, Goto
<1>b. /\ app \in Apps /\ app \in Nat \ {0} /\ img \in Nat \ {0}
      /\ Apps = 1 .. Len(config.apps) /\ Len(config.apps) \in Nat /\ config \in Configs
      /\ AppStatus \in [Apps -> {"E_OK", "E_NOT_OK"}] /\ App(app).bIsCriticalApp \in BOOLEAN
      /\ Status \in {"E_OK", "E_NOT_OK"}
  <2>1. config \in Configs /\ app \in Apps /\ img \in Nat \ {0}
    BY <1>a, HereFacts DEF Inv, Types, PlaceTypes, MediaTypes, Loading
  <2>2. Apps = 1 .. Len(config.apps) /\ Len(config.apps) \in Nat /\ App(app).bIsCriticalApp \in BOOLEAN
    BY <2>1, TableFacts, DetailFacts
  <2>3. AppStatus \in [Apps -> {"E_OK", "E_NOT_OK"}] /\ Status \in {"E_OK", "E_NOT_OK"}
    BY DEF Inv, Types, CoreTypes
  <2>4. app \in Nat \ {0}
    BY <2>1, <2>2
  <2>5. QED
    BY <2>1, <2>2, <2>3, <2>4
<1>c. AppStatus'[app] = "E_NOT_OK" /\ \A a \in Apps : a # app => AppStatus'[a] = AppStatus[a]
  BY <1>a, <1>b
<1>d. /\ crc.image \in Images \cup {BootTable} /\ crc.image[1] \in Nat /\ crc.image[2] \in Nat
  BY <1>b, ImageFacts DEF BootTable, Inv, Types, MemoryTypes
<1>1. MediaTypes' /\ MemoryTypes' /\ DmaTypes' /\ JobTypes'
  BY <1>0, FixedTable DEF Inv, Types, MediaTypes, MemoryTypes, DmaTypes, JobTypes, AppRefused,
     media, memory, drivers, place, verdict, cores, Goto
<1>2. SourceInv' /\ DmaInv' /\ WaitInv'
  BY <1>0, FixedTable DEF Inv, Types, SourceInv, DmaInv, WaitInv, Here, Written, AllGood,
     Bl_AuthenticateImage, AppRefused, media, memory, drivers, place, verdict, cores, Goto
<1>3. PlaceTypes'
  <2>1. pc' \in {"deinit", "setup"}
    BY <1>a
  <2>2. QED
    BY <1>0, <1>a, <1>b, <2>1, FixedTable DEF Inv, Types, PlaceTypes, Loading
<1>4. CoreTypes'
  <2>1. AppStatus' \in [Apps -> {"E_OK", "E_NOT_OK"}] /\ Status' \in {"E_OK", "E_NOT_OK"}
    BY <1>a, <1>b
  <2>2. pc' \in Labels
    BY <1>a DEF Labels
  <2>3. QED
    BY <1>0, <1>a, <2>1, <2>2, FixedTable DEF Inv, Types, CoreTypes
<1>5. LoadedInv'
  <2>1. \A i \in Images : Loaded(i)' => Loaded(i)
    <3> SUFFICES ASSUME NEW i \in Images, Loaded(i)' PROVE Loaded(i)
      OBVIOUS
    <3>1. /\ i[1] \in Apps /\ i[1] \in Nat /\ i[2] \in Nat \ {0}
      BY <1>b, ImageFacts
    <3>2. i[1] < app + 1 /\ AppStatus'[i[1]] = "E_OK"
      BY <1>a, <3>1 DEF Loaded
    <3>3. i[1] < app /\ AppStatus[i[1]] = "E_OK"
      BY <1>b, <1>c, <3>1, <3>2
    <3>4. QED
      BY <3>3 DEF Loaded
  <2>2. QED
    BY <1>0, <1>a, <2>1, LoadedKept DEF Written
<1>6. CrcInv'
  BY <1>a, <1>b, <1>d, HereFacts DEF Inv, CrcInv, Before
<1>7. VerdictInv'
  <2>1. Status = "E_OK" /\ \A a \in Apps : AppStatus[a] = "E_NOT_OK" => a < app /\ ~App(a).bIsCriticalApp
    BY <1>a, <1>b DEF Inv, VerdictInv
  <2>2. \A a \in Apps : AppStatus'[a] = "E_NOT_OK" => a < app + 1
    BY <1>b, <1>c, <2>1
  <2>3. \A a \in Apps : AppStatus'[a] = "E_NOT_OK" /\ App(a).bIsCriticalApp => a = app
    BY <1>b, <1>c, <2>1
  <2>4. CASE App(app).bIsCriticalApp
    BY <1>0, <1>a, <1>b, <2>2, <2>3, <2>4, FixedTable DEF VerdictInv
  <2>5. CASE ~App(app).bIsCriticalApp
    BY <1>0, <1>a, <2>1, <2>2, <2>3, <2>5, FixedTable DEF VerdictInv
  <2>6. QED
    BY <2>4, <2>5
<1>8. StartInv'
  <2>1. \A a \in started : /\ a \in Apps /\ a < app /\ AppStatus[a] = "E_OK"
                            /\ ~config.synchronized /\ ~IsOwn(a)
    BY <1>a DEF Inv, StartInv, Types, CoreTypes
  <2>2. \A a \in started : a < app + 1 /\ AppStatus'[a] = "E_OK"
    BY <1>b, <1>c, <2>1
  <2>3. QED
    BY <1>0, <1>a, <2>1, <2>2, FixedTable DEF StartInv
<1>9. QED
  BY Zenon, <1>1, <1>2, <1>3, <1>4, <1>5, <1>6, <1>7, <1>8 DEF Inv, Types

LEMMA DeInitStep == ASSUME Inv, DeInit, [Next]_vars PROVE Inv'
<1>0. config' = config /\ stored' = stored
  BY Fixed
<1>1. MediaTypes' /\ MemoryTypes' /\ DmaTypes' /\ JobTypes' /\ PlaceTypes' /\ CoreTypes'
  BY <1>0, FixedTable DEF Inv, Types, MediaTypes, MemoryTypes, DmaTypes, JobTypes, PlaceTypes,
     CoreTypes, Loading, Here, Labels, Partition, DeInit, media, memory, drivers, place, verdict,
     cores, Goto
<1>2. LoadedInv' /\ SourceInv' /\ DmaInv' /\ WaitInv' /\ CrcInv' /\ VerdictInv' /\ StartInv'
  BY <1>0, FixedTable DEF Inv, Types, LoadedInv, SourceInv, DmaInv, WaitInv, CrcInv, VerdictInv,
     StartInv, Loaded, Authentic, Written, AllGood, Here, Bl_AuthenticateImage, Before, DeInit,
     media, memory, drivers, place, verdict, cores, Goto
<1>3. QED
  BY Zenon, <1>1, <1>2 DEF Inv, Types

LEMMA Bl_StartAllApplicationsStep == ASSUME Inv, Bl_StartAllApplications, [Next]_vars PROVE Inv'
<1>0. config' = config /\ stored' = stored
  BY Fixed
<1>a. /\ pc = "start" /\ pc' \in {"start", "own"} /\ app' = app /\ AppStatus' = AppStatus /\ Status' = Status
      /\ \/ started' = started
         \/ started' = started \cup {next} /\ next \in Apps /\ AppStatus[next] = "E_OK" /\ ~IsOwn(next)
      /\ next' = next \/ (next \in Apps /\ next' = next + 1)
  BY DEF Bl_StartAllApplications, Bl_StartApplication, ToStart, media, memory, drivers, place,
     verdict, cores, Goto
<1>b. /\ Apps = 1 .. Len(config.apps) /\ Len(config.apps) \in Nat
      /\ app \in 1 .. Len(config.apps) + 1 /\ app \notin Apps /\ Status = "E_OK"
  BY <1>a, TableFacts DEF Inv, Types, MediaTypes, PlaceTypes, CoreTypes, VerdictInv
<1>1. MediaTypes' /\ MemoryTypes' /\ DmaTypes' /\ JobTypes' /\ PlaceTypes'
  BY <1>0, FixedTable DEF Inv, Types, MediaTypes, MemoryTypes, DmaTypes, JobTypes, PlaceTypes,
     Loading, Here, Bl_StartAllApplications, Bl_StartApplication, Bl_EnablePartition, media,
     memory, drivers, place, verdict, cores, Goto
<1>2. LoadedInv' /\ SourceInv' /\ DmaInv' /\ WaitInv' /\ CrcInv' /\ VerdictInv'
  BY <1>0, FixedTable DEF Inv, Types, LoadedInv, SourceInv, DmaInv, WaitInv, CrcInv, VerdictInv,
     Loaded, Authentic, Written, AllGood, Here, Bl_AuthenticateImage, Before,
     Bl_StartAllApplications, Bl_StartApplication, Bl_EnablePartition, media, memory, drivers,
     place, verdict, cores, Goto
<1>3. CoreTypes'
  <2>1. enabled' \subseteq {0, 1} /\ up' \subseteq {0, 1}
    <3>1. (enabled' = enabled /\ up' = up) \/ \E core : Bl_EnablePartition(Partition(core))
      BY DEF Bl_StartAllApplications, Bl_StartApplication, media, memory, drivers, place,
         verdict, cores, Goto
    <3>2. QED
      BY <3>1, EnableTypes DEF Inv, Types, CoreTypes
  <2>2. next' \in 1 .. Len(config.apps) + 1 /\ started' \subseteq Apps
    <3>1. next \in 1 .. Len(config.apps) + 1 /\ started \subseteq Apps
      BY DEF Inv, Types, CoreTypes
    <3>2. next' \in 1 .. Len(config.apps) + 1
      BY <1>a, <1>b, <3>1
    <3>3. started' \subseteq Apps
      BY <1>a, <3>1
    <3>4. QED
      BY <3>2, <3>3
  <2>3. pc' \in Labels
    BY <1>a DEF Labels
  <2>4. QED
    BY <1>0, <1>a, <2>1, <2>2, <2>3, FixedTable DEF Inv, Types, CoreTypes
<1>4. StartInv'
  <2>1. \A a \in Apps : a < app
    BY <1>b
  <2>2. \A a \in started' : a < app /\ AppStatus[a] = "E_OK" /\ ~IsOwn(a)
    BY <1>a, <2>1 DEF Inv, StartInv
  <2>3. QED
    BY <1>0, <1>a, <1>b, <2>2, FixedTable DEF StartInv
<1>5. QED
  BY Zenon, <1>1, <1>2, <1>3, <1>4 DEF Inv, Types

LEMMA Bl_StartApplicationOnCurrentCoreStep == ASSUME Inv, Bl_StartApplicationOnCurrentCore, [Next]_vars PROVE Inv'
<1>0. config' = config /\ stored' = stored
  BY Fixed
<1>1. MediaTypes' /\ MemoryTypes' /\ DmaTypes' /\ JobTypes' /\ PlaceTypes' /\ CoreTypes'
  BY <1>0, FixedTable DEF Inv, Types, MediaTypes, MemoryTypes, DmaTypes, JobTypes, PlaceTypes,
     CoreTypes, Loading, Here, Labels, Partition, Bl_StartApplicationOnCurrentCore, media,
     memory, drivers, place, verdict, cores, Goto
<1>2. LoadedInv' /\ SourceInv' /\ DmaInv' /\ WaitInv' /\ CrcInv' /\ VerdictInv'
  BY <1>0, FixedTable DEF Inv, Types, LoadedInv, SourceInv, DmaInv, WaitInv, CrcInv, VerdictInv,
     Loaded, Authentic, Written, AllGood, Here, Bl_AuthenticateImage, Before,
     Bl_StartApplicationOnCurrentCore, media, memory, drivers, place, verdict, cores, Goto
<1>3. StartInv'
  <2>1. /\ pc = "own" /\ app' = app /\ AppStatus' = AppStatus /\ Status' = Status /\ pc' \in {"gone", "idle"}
        /\ \A a \in started' : a \in started \/ (a \in Apps /\ AppStatus[a] = "E_OK" /\ pc' = "gone")
    BY DEF Bl_StartApplicationOnCurrentCore, ToStart, media, memory, drivers, place, verdict,
       cores, Goto
  <2>2. /\ Apps = 1 .. Len(config.apps) /\ Len(config.apps) \in Nat
        /\ app \in 1 .. Len(config.apps) + 1 /\ app \notin Apps /\ Status = "E_OK"
    BY <2>1, TableFacts DEF Inv, Types, MediaTypes, PlaceTypes, CoreTypes, VerdictInv
  <2>3. \A a \in Apps : a < app
    BY <2>2
  <2>4. QED
    BY <1>0, <2>1, <2>2, <2>3, FixedTable DEF Inv, StartInv
<1>4. QED
  BY Zenon, <1>1, <1>2, <1>3 DEF Inv, Types

-----------------------------------------------------------------------------
(* Steps: the DMA engine *)

LEMMA DmaTransferStep == ASSUME Inv, DmaTransfer, [Next]_vars PROVE Inv'
<1>0. config' = config /\ stored' = stored
  BY Fixed
<1>a. PICK W \in SUBSET dma.chunks :
        /\ dma' = [dma EXCEPT !.state = IF W = dma.chunks THEN "done" ELSE "error"]
        /\ ram' = [i \in Images |-> [c \in Chunks(i) |->
                     IF i = dma.image /\ c \in W THEN stored[i][c] ELSE ram[i][c]]]
  BY DEF DmaTransfer
<1>b. /\ dma.state = "busy" /\ Here' = Here /\ plain' = plain /\ crc' = crc /\ jobs' = jobs /\ open' = open
      /\ app' = app /\ img' = img /\ index' = index /\ digest' = digest /\ AppStatus' = AppStatus /\ pc' = pc
  BY DEF DmaTransfer, media, memory, drivers, place, verdict, cores, Goto, Here
<1>c. pc \in {"table", "fetched", "sha_wait", "sha_hash"}
  BY <1>b DEF Inv, DmaInv
<1>d. /\ dma'.image = dma.image /\ dma'.chunks = dma.chunks /\ dma'.state \in {"done", "error"}
      /\ dma'.state = "done" => W = dma.chunks
  BY <1>a DEF Inv, Types, DmaTypes
<1>e. \A i \in Images : i # dma.image => ram'[i] = ram[i]
  BY <1>a, RamTypes
<1>f. \A i \in Images : \A c \in Chunks(i) : c \notin W => ram'[i][c] = ram[i][c]
  BY <1>a
<1>1. MediaTypes' /\ MemoryTypes' /\ DmaTypes' /\ JobTypes' /\ PlaceTypes' /\ CoreTypes'
  BY <1>0, FixedTable DEF Inv, Types, MediaTypes, MemoryTypes, DmaTypes, JobTypes, PlaceTypes,
     CoreTypes, Loading, Here, Labels, Partition, DmaTransfer, media, memory, drivers, place,
     verdict, cores, Goto
<1>2. SourceInv' /\ VerdictInv' /\ StartInv'
  BY <1>0, FixedTable DEF Inv, Types, SourceInv, VerdictInv, StartInv, Here, DmaTransfer, media,
     memory, drivers, place, verdict, cores, Goto
<1>3. LoadedInv'
  <2>1. \A i \in Images : Loaded(i) => i # dma.image
    BY <1>b DEF Inv, LoadedInv, Written
  <2>2. \A i : Written(i)' => Written(i)
    BY <1>b, <1>d DEF Written
  <2>3. \A i : Loaded(i)' <=> Loaded(i)
    BY <1>b DEF Loaded
  <2>4. QED
    BY <1>0, <1>b, <1>e, <2>1, <2>2, <2>3, LoadedKept
<1>4. DmaInv'
  <2>1. CASE pc = "table"
    BY <1>b, <1>d, <2>1 DEF Inv, DmaInv
  <2>2. CASE pc = "fetched"
    <3>1. /\ Here \in Images /\ dma.image = Here /\ dma.chunks = Chunks(Here) /\ App(app).bootSource = "QSPI"
          /\ App(app).signAlgorithm # "SHA" /\ (App(app).signAlgorithm = "NONE" => ~UsesSmr(app))
      BY <2>2 DEF Inv, Types, PlaceTypes, Loading, DmaInv
    <3>2. dma'.state = "done" => ram'[Here] = [c \in Chunks(Here) |-> stored[Here][c]]
      BY <1>a, <1>d, <3>1
    <3>3. dma'.state = "done" => ram'[Here] = stored[Here]
      BY <3>1, <3>2, RamTypes
    <3>4. QED
      BY <1>0, <1>b, <1>d, <2>2, <3>1, <3>3, FixedTable DEF DmaInv
  <2>3. CASE pc \in {"sha_wait", "sha_hash"}
    <3>1. /\ Here \in Images /\ dma.image = Here /\ App(app).bootSource = "QSPI"
          /\ App(app).signAlgorithm = "SHA" /\ index \in Chunks(Here)
          /\ digest => \A c \in Chunks(Here) : c < index => ram[Here][c] = "good"
          /\ pc = "sha_wait" => dma.chunks = {index}
          /\ pc = "sha_hash" => index + 1 \in Chunks(Here) /\ dma.chunks = {index + 1}
      BY <2>3 DEF Inv, Types, PlaceTypes, Loading, DmaInv
    <3>2. \A c \in Chunks(Here) : c < index => c \notin W
      BY <1>a, <2>3, <3>1, ChunkFacts
    <3>3. digest => \A c \in Chunks(Here) : c < index => ram'[Here][c] = "good"
      BY <1>f, <3>1, <3>2
    <3>4. QED
      BY <1>0, <1>b, <1>d, <2>3, <3>1, <3>3, FixedTable DEF DmaInv
  <2>4. QED
    BY <1>c, <2>1, <2>2, <2>3
<1>5. WaitInv'
  BY <1>b, <1>c DEF WaitInv
<1>6. CrcInv'
  BY <1>b, <1>c DEF Inv, CrcInv, Before
<1>7. QED
  BY Zenon, <1>1, <1>2, <1>3, <1>4, <1>5, <1>6 DEF Inv, Types

-----------------------------------------------------------------------------
(* The invariant holds *)

LEMMA InvInit == Init => Inv
<1> SUFFICES ASSUME Init PROVE Inv
  OBVIOUS
<1>1. config \in Configs /\ app = 1 /\ img = 1 /\ index = 0 /\ pc = "main"
  BY DEF Init
<1>2. 1 \in 1 .. Len(config.apps) + 1
  BY <1>1, TableFacts
<1>3. MediaTypes
  <2>1. DOMAIN stored = Images /\ DOMAIN ram = Images
    BY DEF Init
  <2>2. \A i \in Images : stored[i] \in [Chunks(i) -> {"good", "bad"}]
    <3> SUFFICES ASSUME NEW i \in Images PROVE stored[i] \in [Chunks(i) -> {"good", "bad"}]
      OBVIOUS
    <3>1. PICK n \in {1, BL_NO_OF_DATA_TRANSFERS} : stored[i] \in [1 .. n -> {"good", "bad"}]
      BY DEF Init
    <3>2. DOMAIN stored[i] = Chunks(i) /\ DOMAIN stored[i] = 1 .. n
      BY <3>1 DEF Init
    <3>3. QED
      BY <3>1, <3>2
  <2>3. \A i \in Images : ram[i] \in [Chunks(i) -> {"good", "bad", "old"}]
    BY DEF Init
  <2>4. QED
    BY <1>1, <2>1, <2>2, <2>3 DEF MediaTypes
<1>4. MemoryTypes /\ JobTypes /\ PlaceTypes
  <2>1. MemoryTypes
    BY DEF Init, MemoryTypes
  <2>2. JobTypes
    <3>1. << >> \in Seq(Images) /\ jobs = << >> /\ DOMAIN << >> = {}
      BY DEF Init
    <3>2. QED
      BY <3>1 DEF JobTypes
  <2>3. PlaceTypes
    BY <1>1, <1>2 DEF PlaceTypes, Loading
  <2>4. QED
    BY <2>1, <2>2, <2>3
<1>5. DmaTypes
  BY <1>1, ImageFacts DEF Init, DmaTypes, Idle
<1>6. CoreTypes
  BY <1>2 DEF Init, CoreTypes, Labels
<1>7. LoadedInv /\ CrcInv
  BY <1>1, ImageFacts DEF Init, LoadedInv, Loaded, CrcInv, Before, BootTable
<1>8. SourceInv /\ DmaInv /\ WaitInv /\ VerdictInv /\ StartInv
  BY <1>1 DEF Init, SourceInv, DmaInv, Idle, WaitInv, VerdictInv, StartInv
<1>9. QED
  BY <1>3, <1>4, <1>5, <1>6, <1>7, <1>8 DEF Inv, Types

LEMMA InvStep == Inv /\ [Next]_vars => Inv'
<1> SUFFICES ASSUME Inv, [Next]_vars PROVE Inv'
  OBVIOUS
<1>1. CASE main
  BY <1>1, mainStep
<1>2. CASE Bl_Fetch_BootTable
  BY <1>2, Bl_Fetch_BootTableStep
<1>3. CASE Bl_Run
  BY <1>3, Bl_RunStep
<1>4. CASE Bl_PreSetup
  BY <1>4, Bl_PreSetupStep
<1>5. CASE Bl_TransferImageFromQspi
  BY <1>5, Bl_TransferImageFromQspiStep
<1>6. CASE CryptoDal_VerifySmr
  BY <1>6, CryptoDal_VerifySmrStep
<1>7. CASE Bl_LoadWithCRCAuth
  BY <1>7, Bl_LoadWithCRCAuthStep
<1>8. CASE Bl_WaitApplicationFetch
  BY <1>8, Bl_WaitApplicationFetchStep
<1>9. CASE Bl_LoadWithSHAAuth
  BY <1>9, Bl_LoadWithSHAAuthStep
<1>10. CASE ShaWait
  BY <1>10, ShaWaitStep
<1>11. CASE ShaHash
  BY <1>11, ShaHashStep
<1>12. CASE Bl_LoadFromSdhc
  BY <1>12, Bl_LoadFromSdhcStep
<1>13. CASE SdWait
  BY <1>13, SdWaitStep
<1>14. CASE Bl_TransferImageViaCom
  BY <1>14, Bl_TransferImageViaComStep
<1>15. CASE ComWait
  BY <1>15, ComWaitStep
<1>16. CASE CheckAndDecrypt
  BY <1>16, CheckAndDecryptStep
<1>17. CASE AppLoaded
  BY <1>17, AppLoadedStep
<1>18. CASE AppRefused
  BY <1>18, AppRefusedStep
<1>19. CASE DeInit
  BY <1>19, DeInitStep
<1>20. CASE Bl_StartAllApplications
  BY <1>20, Bl_StartAllApplicationsStep
<1>21. CASE Bl_StartApplicationOnCurrentCore
  BY <1>21, Bl_StartApplicationOnCurrentCoreStep
<1>22. CASE DmaTransfer
  BY <1>22, DmaTransferStep
<1>23. CASE UNCHANGED vars
  <2>1. /\ config' = config /\ stored' = stored /\ Here' = Here
        /\ ram' = ram /\ plain' = plain /\ digest' = digest /\ crc' = crc
        /\ dma' = dma /\ jobs' = jobs /\ open' = open /\ app' = app /\ img' = img /\ index' = index
        /\ AppStatus' = AppStatus /\ Status' = Status /\ next' = next /\ started' = started
        /\ enabled' = enabled /\ up' = up /\ pc' = pc
    BY <1>23 DEF vars, media, memory, drivers, place, verdict, cores, Here
  <2>2. Types'
    BY <2>1, FixedTable DEF Inv, Types, MediaTypes, MemoryTypes, DmaTypes, JobTypes, PlaceTypes,
       CoreTypes
  <2>3. LoadedInv' /\ SourceInv'
    BY <2>1, FixedTable DEF Inv, LoadedInv, Loaded, Authentic, AllGood, Written, SourceInv
  <2>4. DmaInv' /\ WaitInv'
    BY <2>1, FixedTable DEF Inv, DmaInv, WaitInv, AllGood, Written
  <2>5. CrcInv' /\ VerdictInv' /\ StartInv'
    BY <2>1, FixedTable DEF Inv, CrcInv, Before, AllGood, VerdictInv, StartInv
  <2>6. QED
    BY <2>2, <2>3, <2>4, <2>5 DEF Inv
<1>24. QED
  BY <1>1, <1>2, <1>3, <1>4, <1>5, <1>6, <1>7, <1>8, <1>9, <1>10, <1>11, <1>12, <1>13, <1>14,
     <1>15, <1>16, <1>17, <1>18, <1>19, <1>20, <1>21, <1>22, <1>23 DEF Next, Boot, Load

LEMMA InvAlways == Spec => []Inv
BY InvInit, InvStep, PTL DEF Spec

-----------------------------------------------------------------------------
(* Theorems *)

\* Types: no DMA transfer leaves its image (Bl_LoadWithSHAAuth, Bl_StartDmaTransfer), and no
\* block is queued twice (MemDal_ReadBlock).
THEOREM BootTypes == Spec => []TypeOK
<1>1. Inv => TypeOK
  BY DEF Inv, Types, MediaTypes, MemoryTypes, DmaTypes, JobTypes, PlaceTypes, CoreTypes, TypeOK,
     Loading, Labels
<1>2. QED
  BY <1>1, InvAlways, PTL

\* A released core runs what was checked, whatever the DMA engine, late jobs and late
\* sessions do (Bl_LoadApplication, Bl_StartApplication).
THEOREM ReleasedIsAuthentic == Spec => []RunsAuthentic
<1>1. Inv => RunsAuthentic
  <2> SUFFICES ASSUME Inv, NEW i \in Images, i[1] \in started PROVE Authentic(i)
    BY DEF RunsAuthentic
  <2>1. Loaded(i)
    BY DEF Inv, StartInv, Loaded
  <2>2. QED
    BY <2>1 DEF Inv, LoadedInv
<1>2. QED
  BY <1>1, InvAlways, PTL

\* After a critical application has failed, nothing more is started (Bl_BootApplications).
THEOREM CriticalStopsBoot == Spec => []CriticalStops
<1>1. Inv => CriticalStops
  <2> SUFFICES ASSUME Inv, NEW a \in Apps, AppStatus[a] = "E_NOT_OK", App(a).bIsCriticalApp,
                      NEW b \in started
               PROVE  ~config.synchronized /\ b < a /\ ~IsOwn(b)
    BY DEF CriticalStops
  <2>1. Status = "E_NOT_OK" /\ a + 1 = app /\ b < app
    BY DEF Inv, VerdictInv, StartInv
  <2>2. ~config.synchronized /\ ~IsOwn(b)
    BY <2>1 DEF Inv, StartInv
  <2>3. b \in Apps /\ b # a /\ config \in Configs
    BY DEF Inv, StartInv, Types, CoreTypes, MediaTypes
  <2>4. a \in Nat /\ b \in Nat
    BY <2>3, TableFacts
  <2>5. QED
    BY <2>1, <2>2, <2>3, <2>4
<1>2. QED
  BY <1>1, InvAlways, PTL

\* Once the own core is left, nothing in memory and no core changes any more
\* (Bl_StartApplicationOnCurrentCore).
THEOREM OwnCoreIsLast == Spec => OwnCoreLast
<1>1. Inv /\ [Next]_vars =>
        [(\A a \in started : ~IsOwn(a)) \/ UNCHANGED <<ram, plain, started, enabled>>]_vars
  <2> SUFFICES ASSUME Inv, [Next]_vars, NEW a \in started, IsOwn(a)
               PROVE  UNCHANGED vars
    BY DEF vars
  <2>1. pc = "gone" /\ dma.state # "busy"
    BY DEF Inv, StartInv, DmaInv
  <2>2. ~Load
    BY <2>1 DEF Load, Fetching, Bl_TransferImageFromQspi, CryptoDal_VerifySmr, Bl_LoadWithCRCAuth,
       Bl_WaitApplicationFetch, Bl_LoadWithSHAAuth, ShaWait, ShaHash, Bl_LoadFromSdhc, SdWait,
       Bl_TransferImageViaCom, ComWait, CheckAndDecrypt
  <2>3. ~Boot
    BY <2>1, <2>2 DEF Boot, main, Bl_Fetch_BootTable, Bl_Run, Bl_PreSetup, AppLoaded, AppRefused,
       DeInit, Bl_StartAllApplications, Bl_StartApplicationOnCurrentCore
  <2>4. ~DmaTransfer
    BY <2>1 DEF DmaTransfer
  <2>5. QED
    BY <2>3, <2>4 DEF Next
<1>2. QED
  BY <1>1, InvAlways, PTL DEF Spec, OwnCoreLast
=============================================================================
