----------------------------- MODULE BlSecureBoot -----------------------------
(***************************************************************************)
(* How the bootloader sets up the HSE and activates secure boot            *)
(* (Bl_ConfigureSecureBoot and what it calls in Bootloader.c, CryptoDal.c):*)
(* keys, secure memory regions (SMR) and the core reset entry (CR) go to   *)
(* the HSE one by one, the HSE publishes them as an image, which is saved  *)
(* to flash, and last the image vector table (IVT) is rewritten with the   *)
(* secure boot bit.  Power may fail between any two steps.                 *)
(*                                                                         *)
(* Abstractions:                                                           *)
(*  - What the HSE holds is a set of items: keys, SMRs, the CR.            *)
(*  - A flash area is valid when it was written as a whole since it was    *)
(*    last erased.  After a failed erase or write it is valid or not.      *)
(*  - The HSE firmware and the boot ROM are external (PowerOn).            *)
(*  - The protection of the messaging units is left out.                   *)
(***************************************************************************)
EXTENDS Naturals, Sequences

CONSTANTS
  NumKeys, NvmKeys,       \* keys in the order of CryptoDal_Config; those in the NVM catalog
  Fragments,              \* u8SMRIndex of the fragments of all applications, 0 for none
  BL_BOOTLOADER_SMR_ID, BL_BOOT_TABLE_SMR_ID,
  MaxFailures, MaxLosses  \* bounds: requests that fail, power losses

Keys == 1 .. NumKeys
Used == {Fragments[f] : f \in DOMAIN Fragments} \ {0}

ASSUME SecureBootAssumption ==
  /\ NumKeys \in Nat /\ NvmKeys \subseteq Keys
  /\ Fragments \in Seq(Nat)
  /\ BL_BOOTLOADER_SMR_ID \in Nat /\ BL_BOOT_TABLE_SMR_ID \in Nat
  /\ MaxFailures \in Nat /\ MaxLosses \in Nat

VARIABLES
  BL_ENABLE_DYNAMIC_BOOT, \* the build, fixed
  ivt,                    \* IVT in flash: open, secure, lost
  sysimg,                 \* SYS_IMG in flash: valid, items
  hse,                    \* items the HSE holds
  INSTALL_OK,             \* status bit of the HSE: SYS_IMG is present
  bIsCatalogFormated,
  Bl_HseSysImage,         \* the published image, in RAM
  SMR_Config,             \* SMRs to install
  index,                  \* position in the keys, the fragments or SMR_Config
  failures, losses,
  pc

flash == <<ivt, sysimg>>
state == <<hse, INSTALL_OK, bIsCatalogFormated, Bl_HseSysImage, SMR_Config, index>>
bounds == <<BL_ENABLE_DYNAMIC_BOOT, failures, losses>>
vars == <<flash, state, bounds, pc>>

Key(k) == <<"key", k>>
Smr(s) == <<"smr", s>>
CR == <<"cr", 0>>

BootSmrs == <<BL_BOOTLOADER_SMR_ID>> \o
            (IF BL_ENABLE_DYNAMIC_BOOT THEN <<BL_BOOT_TABLE_SMR_ID>> ELSE <<>>)
PreBoot == {Smr(BootSmrs[i]) : i \in DOMAIN BootSmrs}

\* What the NVM of the HSE must hold for secure boot
Complete == {Key(k) : k \in NvmKeys} \cup PreBoot \cup {Smr(s) : s \in Used} \cup {CR}

Init ==
  /\ BL_ENABLE_DYNAMIC_BOOT \in BOOLEAN
  /\ ivt = "open" /\ sysimg = [valid |-> FALSE, items |-> {}]
  /\ hse = {} /\ INSTALL_OK = FALSE /\ bIsCatalogFormated = FALSE
  /\ Bl_HseSysImage = {} /\ SMR_Config = <<>> /\ index = 1 /\ failures = 0 /\ losses = 0
  /\ pc = "off"

-----------------------------------------------------------------------------
(* Around the bootloader *)

\* Boot ROM and HSE: no boot without IVT; a saved image is loaded; a secure boot releases
\* the core only with a CR whose SMRs are there.
PowerOn ==
  /\ pc = "off"
  /\ hse' = IF sysimg.valid THEN sysimg.items ELSE {}
  /\ INSTALL_OK' = sysimg.valid
  /\ bIsCatalogFormated' = FALSE /\ Bl_HseSysImage' = {}
  /\ SMR_Config' = <<>> /\ index' = 1
  /\ pc' = IF ivt = "lost" \/ (ivt = "secure" /\ ~({CR} \cup PreBoot \subseteq hse'))
           THEN "dead" ELSE "init"
  /\ UNCHANGED <<flash, bounds>>

\* Also the end of a boot that was stopped by while(1).
PowerLoss ==
  /\ pc \notin {"off", "dead"} /\ losses < MaxLosses
  /\ losses' = losses + 1
  /\ pc' = "off"
  /\ UNCHANGED <<flash, state, BL_ENABLE_DYNAMIC_BOOT, failures>>

\* CryptoDal_HseSrv_Request and the crypto driver: a request of step "at" fails, and the
\* caller ends in a while(1), or it is done.
Stopped(at) ==
  /\ pc = at /\ failures < MaxFailures
  /\ failures' = failures + 1
  /\ pc' = "halt"
  /\ UNCHANGED <<flash, state, BL_ENABLE_DYNAMIC_BOOT, losses>>

Done(at, next) == pc = at /\ pc' = next /\ UNCHANGED <<flash, bounds, INSTALL_OK>>

-----------------------------------------------------------------------------
(* CryptoDal_Init *)

\* Mutant: the NVM keys of a fresh catalog are taken to be there.
CryptoDal_FormatKeyCatalogs_NotNoted ==
  \/ ~INSTALL_OK /\ Stopped("init")
  \/ /\ Done("init", "keys")
     /\ IF INSTALL_OK THEN UNCHANGED hse ELSE hse' = {}
     /\ UNCHANGED <<bIsCatalogFormated, Bl_HseSysImage, SMR_Config, index>>

\* CryptoDal_HSE_Config, if no SYS_IMG was found
CryptoDal_FormatKeyCatalogs ==
  \/ ~INSTALL_OK /\ Stopped("init")
  \/ /\ Done("init", "keys")
     /\ IF INSTALL_OK
        THEN UNCHANGED <<hse, bIsCatalogFormated>>
        ELSE hse' = {} /\ bIsCatalogFormated' = TRUE
     /\ UNCHANGED <<Bl_HseSysImage, SMR_Config, index>>

\* An NVM key is skipped unless the catalog was formatted in this boot.
Skipped(k) == ~bIsCatalogFormated /\ k \in NvmKeys

\* Mutant: one key too many.
CryptoDal_InstallKey_OneMore ==
  /\ index \in Keys \cup {NumKeys + 1}
  /\ Done("keys", "keys")
  /\ hse' = IF Skipped(index) THEN hse ELSE hse \cup {Key(index)}
  /\ index' = index + 1
  /\ UNCHANGED <<bIsCatalogFormated, Bl_HseSysImage, SMR_Config>>

\* A round of CryptoDal_InstallAllKeys
CryptoDal_InstallKey ==
  /\ index \in Keys
  /\ \/ ~Skipped(index) /\ Stopped("keys")
     \/ /\ Done("keys", "keys")
        /\ hse' = IF Skipped(index) THEN hse ELSE hse \cup {Key(index)}
        /\ index' = index + 1
        /\ UNCHANGED <<bIsCatalogFormated, Bl_HseSysImage, SMR_Config>>

-----------------------------------------------------------------------------
(* Bl_ConfigureSecureBoot *)

\* The IVT is read when all keys are installed (Bl_IsSecureBootActive).
Bl_ConfigureSecureBoot ==
  /\ index \notin Keys
  /\ Done("keys", IF ivt = "secure" THEN "run" ELSE "cmac_boot")
  /\ UNCHANGED <<hse, bIsCatalogFormated, Bl_HseSysImage, SMR_Config, index>>

\* The tag of the bootloader, with which its SMR and that of the boot table are installed
CryptoDal_GenerateCmac ==
  \/ Stopped("cmac_boot")
  \/ /\ Done("cmac_boot", "smr_boot")
     /\ SMR_Config' = BootSmrs /\ index' = 1
     /\ UNCHANGED <<hse, bIsCatalogFormated, Bl_HseSysImage>>

\* CryptoDal_InstallSmr for one after the other; then the CR, if there is one
CryptoDal_SMR_CR_Install(at, next) ==
  \/ index \in DOMAIN SMR_Config /\ Stopped(at)
  \/ /\ index \in DOMAIN SMR_Config
     /\ Done(at, at)
     /\ hse' = hse \cup {Smr(SMR_Config[index])} /\ index' = index + 1
     /\ UNCHANGED <<bIsCatalogFormated, Bl_HseSysImage, SMR_Config>>
  \/ /\ index \notin DOMAIN SMR_Config
     /\ Done(at, next)
     /\ UNCHANGED <<hse, bIsCatalogFormated, Bl_HseSysImage, SMR_Config, index>>

CryptoDal_InstallCr ==
  \/ Stopped("cr")
  \/ /\ Done("cr", IF BL_ENABLE_DYNAMIC_BOOT THEN "verify" ELSE "return")
     /\ hse' = hse \cup {CR}
     /\ UNCHANGED <<bIsCatalogFormated, Bl_HseSysImage, SMR_Config, index>>

\* The boot table is loaded by its SMR: the applications' fragments are known.
CryptoDal_VerifySmr ==
  \/ Stopped("verify")
  \/ /\ Done("verify", "cmac_app")
     /\ SMR_Config' = <<>> /\ index' = 1
     /\ UNCHANGED <<hse, bIsCatalogFormated, Bl_HseSysImage>>

\* Without a dynamic boot table the function ends without a return: its result is any.
Bl_Configure_Bootloader_SecureBoot ==
  /\ \E next \in {"cmac_app", "halt"} : Done("return", next)
  /\ SMR_Config' = <<>> /\ index' = 1
  /\ UNCHANGED <<hse, bIsCatalogFormated, Bl_HseSysImage>>

\* Every fragment with an SMR gets its tag before the first SMR is installed.
Bl_Configure_Applications_SecureBoot ==
  \/ index \in DOMAIN Fragments /\ Fragments[index] # 0 /\ Stopped("cmac_app")
  \/ /\ index \in DOMAIN Fragments
     /\ Done("cmac_app", "cmac_app")
     /\ SMR_Config' = IF Fragments[index] # 0 THEN Append(SMR_Config, Fragments[index]) ELSE SMR_Config
     /\ index' = index + 1
     /\ UNCHANGED <<hse, bIsCatalogFormated, Bl_HseSysImage>>
  \/ /\ index \notin DOMAIN Fragments
     /\ Done("cmac_app", "smr_app")
     /\ index' = 1
     /\ UNCHANGED <<hse, bIsCatalogFormated, Bl_HseSysImage, SMR_Config>>

\* The result of the request for the size is ignored, but without it the buffer has none.
CryptoDal_GetSysImage ==
  \/ Stopped("publish")
  \/ /\ Done("publish", "erase_img")
     /\ Bl_HseSysImage' = hse \ {Key(k) : k \in Keys \ NvmKeys}
     /\ UNCHANGED <<hse, bIsCatalogFormated, SMR_Config, index>>

-----------------------------------------------------------------------------
(* Bl_SaveConfiguration *)

Erased == [valid |-> FALSE, items |-> {}]
Saved == [valid |-> TRUE, items |-> Bl_HseSysImage]

\* A flash job leaves "newIvt" and "newImg", or fails and leaves these or what was there.
Fls(at, newIvt, newImg, next) ==
  /\ pc = at
  /\ UNCHANGED <<state, BL_ENABLE_DYNAMIC_BOOT, losses>>
  /\ \/ ivt' = newIvt /\ sysimg' = newImg /\ pc' = next /\ UNCHANGED failures
     \/ /\ failures < MaxFailures /\ failures' = failures + 1 /\ pc' = "halt"
        /\ ivt' \in {ivt, newIvt} /\ sysimg' \in {sysimg, newImg}

EraseSysImage == Fls("erase_img", ivt, Erased, "write_img")

\* Mutant: the result of the job is not looked at.
WriteSysImage_Unchecked ==
  /\ pc = "write_img"
  /\ UNCHANGED <<state, bounds, ivt>>
  /\ sysimg' \in {sysimg, Saved} /\ pc' = "erase_ivt"

WriteSysImage == Fls("write_img", ivt, Saved, "erase_ivt")

EraseIvt == Fls("erase_ivt", "lost", sysimg, "write_ivt")

\* Mutant: the mirror is written back without the secure boot bit.
WriteIvt_NoBit == Fls("write_ivt", "open", sysimg, "off")

\* Written from the mirror in RAM; then Mcu_PerformReset.
WriteIvt == Fls("write_ivt", "secure", sysimg, "off")

-----------------------------------------------------------------------------
Bootloader ==
  \/ CryptoDal_FormatKeyCatalogs \/ CryptoDal_InstallKey \/ Bl_ConfigureSecureBoot
  \/ CryptoDal_GenerateCmac \/ CryptoDal_SMR_CR_Install("smr_boot", "cr")
  \/ CryptoDal_InstallCr \/ CryptoDal_VerifySmr \/ Bl_Configure_Bootloader_SecureBoot
  \/ Bl_Configure_Applications_SecureBoot \/ CryptoDal_SMR_CR_Install("smr_app", "publish")
  \/ CryptoDal_GetSysImage
  \/ EraseSysImage \/ WriteSysImage \/ EraseIvt \/ WriteIvt

Next == PowerOn \/ PowerLoss \/ Bootloader

\* Power comes back, and the processor runs while it is there.
Spec == Init /\ [][Next]_vars /\ WF_vars(PowerOn) /\ WF_vars(Bootloader)

-----------------------------------------------------------------------------
(* Properties *)

Items == {Key(k) : k \in Keys} \cup Complete

\* Types; only items that were configured reach the HSE and the flash, RAM keys only the HSE.
TypeOK ==
  /\ BL_ENABLE_DYNAMIC_BOOT \in BOOLEAN
  /\ ivt \in {"open", "secure", "lost"}
  /\ sysimg \in [valid : BOOLEAN, items : SUBSET Complete]
  /\ hse \subseteq Items /\ Bl_HseSysImage \subseteq Complete
  /\ INSTALL_OK \in BOOLEAN /\ bIsCatalogFormated \in BOOLEAN
  /\ SMR_Config \in Seq(Nat) /\ index \in Nat \ {0}
  /\ failures \in 0 .. MaxFailures /\ losses \in 0 .. MaxLosses
  /\ pc \in {"off", "init", "keys", "cmac_boot", "smr_boot", "cr", "verify", "return",
             "cmac_app", "smr_app", "publish", "erase_img", "write_img", "erase_ivt",
             "write_ivt", "run", "halt", "dead"}

\* The old IVT goes only when a complete image is in flash (Bl_SaveConfiguration), however
\* often power was lost or a request failed before; so the secure boot bit never meets an
\* image without a key, an SMR or the CR, and a board is lost in one window only, that
\* between the erase and the write of the IVT.
SecureIsComplete ==
  /\ ivt # "open" => sysimg = [valid |-> TRUE, items |-> Complete]
  /\ pc = "dead" => ivt = "lost"

\* NVM keys are skipped after a boot that saved its image (CryptoDal_InstallKey), also when
\* that boot was cut off before the IVT was written: yet they are there whenever SMRs are
\* installed, published or the boot goes on.
KeysPresent ==
  pc \notin {"off", "init", "keys", "halt", "dead"} => {Key(k) : k \in NvmKeys} \subseteq hse

\* Power losses only delay the activation: in the end secure boot is active and runs,
\* unless a request failed, the IVT was lost in its window, or the build without dynamic
\* boot table met the missing return (Bl_Configure_Bootloader_SecureBoot).
ActivatedAtLast ==
  <>[]\/ pc = "run" /\ ivt = "secure"
      \/ pc = "halt" /\ (failures > 0 \/ ~BL_ENABLE_DYNAMIC_BOOT)
      \/ pc = "dead"
=============================================================================
