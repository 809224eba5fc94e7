-------------------------- MODULE BlSecureBootProofs --------------------------
(* Proofs about the activation of secure boot, for every set of keys and fragments and *)
(* any number of failures and power losses. *)
EXTENDS BlSecureBoot, TLAPS

Nvm == {Key(k) : k \in NvmKeys}
Ram == {Key(k) : k \in Keys \ NvmKeys}
AppSmrs == {Smr(s) : s \in Used}

-----------------------------------------------------------------------------
(* The inductive invariant *)

\* TypeOK in three parts
FlagTypes ==
  /\ BL_ENABLE_DYNAMIC_BOOT \in BOOLEAN
  /\ ivt \in {"open", "secure", "lost"}
  /\ INSTALL_OK \in BOOLEAN /\ bIsCatalogFormated \in BOOLEAN
  /\ pc \in {"off", "init", "keys", "cmac_boot", "smr_boot", "cr", "verify", "return",
             "cmac_app", "smr_app", "publish", "erase_img", "write_img", "erase_ivt",
             "write_ivt", "run", "halt", "dead"}

ItemTypes ==
  /\ sysimg \in [valid : BOOLEAN, items : SUBSET Complete]
  /\ hse \subseteq Items /\ Bl_HseSysImage \subseteq Complete

CountTypes ==
  /\ SMR_Config \in Seq(Nat) /\ index \in Nat \ {0}
  /\ failures \in 0 .. MaxFailures /\ losses \in 0 .. MaxLosses

\* From the first request to the HSE until the new IVT is written, the old one is there.
Activating == {"cmac_boot", "smr_boot", "cr", "verify", "return", "cmac_app", "smr_app",
               "publish", "erase_img", "write_img", "erase_ivt"}

FlashInv ==
  /\ sysimg.valid => sysimg.items = Complete
  /\ ivt # "open" => sysimg.valid
  /\ pc \in {"init", "keys", "run"} => ivt # "lost"
  /\ pc \in Activating => ivt = "open"
  /\ pc \in {"erase_img", "write_img"} => Bl_HseSysImage = Complete
  /\ pc \in {"erase_ivt", "write_ivt"} => sysimg.valid
  /\ pc = "dead" => ivt = "lost"

\* The NVM keys are in the HSE, or will be when the loop over the keys is done.
KeyInv ==
  /\ pc = "init" => index = 1 /\ ~bIsCatalogFormated /\ (INSTALL_OK => Nvm \subseteq hse)
  /\ pc = "keys" => \A k \in NvmKeys : k < index \/ ~bIsCatalogFormated => Key(k) \in hse
  /\ KeysPresent

\* What the bootloader has installed so far for itself
BootInv ==
  /\ pc = "smr_boot" =>
       /\ SMR_Config = BootSmrs
       /\ \A i \in DOMAIN BootSmrs : i < index => Smr(BootSmrs[i]) \in hse
  /\ pc \in {"cr", "verify", "return", "cmac_app", "smr_app", "publish"} => PreBoot \subseteq hse
  /\ pc \in {"verify", "return", "cmac_app", "smr_app", "publish"} => CR \in hse

\* ... and for the applications
AppInv ==
  /\ pc \in {"cmac_app", "smr_app"} => \A j \in DOMAIN SMR_Config : SMR_Config[j] \in Used
  /\ pc = "cmac_app" =>
       \A f \in DOMAIN Fragments : f < index /\ Fragments[f] # 0 =>
         \E j \in DOMAIN SMR_Config : SMR_Config[j] = Fragments[f]
  /\ pc = "smr_app" =>
       /\ \A s \in Used : \E j \in DOMAIN SMR_Config : SMR_Config[j] = s
       /\ \A i \in DOMAIN SMR_Config : i < index => Smr(SMR_Config[i]) \in hse
  /\ pc = "publish" => AppSmrs \subseteq hse

Inv == TypeOK /\ FlashInv /\ KeyInv /\ BootInv /\ AppInv

-----------------------------------------------------------------------------
(* Items *)

LEMMA ItemsDiffer == Items = Ram \cup Complete /\ Ram \cap Complete = {}
<1>1. Complete = Nvm \cup PreBoot \cup AppSmrs \cup {CR}
  BY DEF Complete, Nvm, AppSmrs
<1>2. \A k, j : Key(k) = Key(j) => k = j
  BY DEF Key
<1>3. \A k, s : Key(k) # Smr(s) /\ Key(k) # CR
  BY DEF Key, Smr, CR
<1>4. {Key(k) : k \in Keys} = Nvm \cup Ram
  BY SecureBootAssumption DEF Nvm, Ram
<1>5. QED
  BY <1>1, <1>2, <1>3, <1>4 DEF Items, Nvm, Ram, PreBoot, AppSmrs

LEMMA BootSmrsSeq == BootSmrs \in Seq(Nat)
<1>1. <<BL_BOOTLOADER_SMR_ID>> \in Seq(Nat) /\ <<BL_BOOT_TABLE_SMR_ID>> \in Seq(Nat) /\ << >> \in Seq(Nat)
  BY SecureBootAssumption
<1>2. QED
  BY <1>1 DEF BootSmrs

LEMMA UsedNat == Used \subseteq Nat
BY SecureBootAssumption DEF Used

\* The build does not change.
LEMMA SameBuild ==
  ASSUME BL_ENABLE_DYNAMIC_BOOT' = BL_ENABLE_DYNAMIC_BOOT
  PROVE  BootSmrs' = BootSmrs /\ PreBoot' = PreBoot /\ Complete' = Complete /\ Items' = Items
BY DEF BootSmrs, PreBoot, Complete, Items

LEMMA BuildFixed == ASSUME [Next]_vars PROVE BL_ENABLE_DYNAMIC_BOOT' = BL_ENABLE_DYNAMIC_BOOT
BY DEF Next, vars, flash, state, bounds, PowerOn, PowerLoss, Bootloader, Done, Stopped, Fls,
   CryptoDal_FormatKeyCatalogs, CryptoDal_InstallKey, Bl_ConfigureSecureBoot,
   CryptoDal_GenerateCmac, CryptoDal_SMR_CR_Install, CryptoDal_InstallCr, CryptoDal_VerifySmr,
   Bl_Configure_Bootloader_SecureBoot, Bl_Configure_Applications_SecureBoot,
   CryptoDal_GetSysImage, EraseSysImage, WriteSysImage, EraseIvt, WriteIvt

-----------------------------------------------------------------------------
(* The invariant is inductive *)

LEMMA TypeParts == TypeOK <=> FlagTypes /\ ItemTypes /\ CountTypes
BY Zenon DEF TypeOK, FlagTypes, ItemTypes, CountTypes

LEMMA TypesNext == ASSUME FlagTypes', ItemTypes', CountTypes' PROVE TypeOK'
BY Zenon DEF TypeOK, FlagTypes, ItemTypes, CountTypes

LEMMA InvInit == Init => Inv
<1> SUFFICES ASSUME Init PROVE Inv
  OBVIOUS
<1>1. FlagTypes
  BY DEF Init, FlagTypes
<1>2. ItemTypes
  BY DEF Init, ItemTypes
<1>3. CountTypes
  BY SecureBootAssumption DEF Init, CountTypes
<1>4. FlashInv /\ KeyInv /\ BootInv /\ AppInv
  BY DEF Init, FlashInv, KeyInv, KeysPresent, BootInv, AppInv, Activating
<1>5. QED
  BY <1>1, <1>2, <1>3, <1>4, TypeParts DEF Inv

LEMMA PowerOnStep == ASSUME Inv, PowerOn, [Next]_vars PROVE Inv'
<1>0. Complete' = Complete /\ PreBoot' = PreBoot /\ Items' = Items
  BY BuildFixed, SameBuild
<1>1. FlagTypes'
  BY DEF Inv, TypeOK, FlagTypes, ItemTypes, PowerOn, flash, bounds
<1>2. ItemTypes'
  BY <1>0 DEF Inv, TypeOK, ItemTypes, PowerOn, flash, bounds, Items
<1>3. CountTypes'
  BY DEF Inv, TypeOK, CountTypes, PowerOn, flash, bounds
<1>4. FlashInv'
  BY <1>0 DEF Inv, TypeOK, PowerOn, flash, bounds, FlashInv, Activating, Complete
<1>5. KeyInv'
  BY DEF Inv, TypeOK, PowerOn, flash, bounds, FlashInv, KeyInv, KeysPresent, Complete, Nvm
<1>6. BootInv' /\ AppInv'
  BY DEF PowerOn, BootInv, AppInv
<1>7. QED
  BY <1>1, <1>2, <1>3, <1>4, <1>5, <1>6, TypesNext DEF Inv

LEMMA PowerLossStep == ASSUME Inv, PowerLoss, [Next]_vars PROVE Inv'
<1>0. Complete' = Complete /\ PreBoot' = PreBoot /\ Items' = Items /\ BootSmrs' = BootSmrs
  BY BuildFixed, SameBuild
<1>1. FlagTypes'
  BY DEF Inv, TypeOK, PowerLoss, flash, state, FlagTypes
<1>2. ItemTypes'
  BY <1>0 DEF Inv, TypeOK, PowerLoss, flash, state, ItemTypes
<1>3. CountTypes'
  BY SecureBootAssumption DEF Inv, TypeOK, PowerLoss, flash, state, CountTypes
<1>4. FlashInv'
  BY <1>0 DEF Inv, TypeOK, PowerLoss, flash, state, FlashInv, Activating
<1>5. KeyInv'
  BY <1>0 DEF Inv, TypeOK, PowerLoss, flash, state, KeyInv, KeysPresent
<1>6. BootInv'
  BY <1>0 DEF Inv, TypeOK, PowerLoss, flash, state, BootInv
<1>7. AppInv'
  BY <1>0 DEF Inv, TypeOK, PowerLoss, flash, state, AppInv
<1>8. QED
  BY <1>1, <1>2, <1>3, <1>4, <1>5, <1>6, <1>7, TypesNext DEF Inv

LEMMA StoppedStep == ASSUME Inv, NEW at, Stopped(at), [Next]_vars PROVE Inv'
<1>0. Complete' = Complete /\ PreBoot' = PreBoot /\ Items' = Items /\ BootSmrs' = BootSmrs
  BY BuildFixed, SameBuild
<1>1. FlagTypes'
  BY DEF Inv, TypeOK, Stopped, flash, state, FlagTypes
<1>2. ItemTypes'
  BY <1>0 DEF Inv, TypeOK, Stopped, flash, state, ItemTypes
<1>3. CountTypes'
  BY SecureBootAssumption DEF Inv, TypeOK, Stopped, flash, state, CountTypes
<1>4. FlashInv'
  BY <1>0 DEF Inv, TypeOK, Stopped, flash, state, FlashInv, Activating
<1>5. KeyInv'
  BY <1>0 DEF Inv, TypeOK, Stopped, flash, state, KeyInv, KeysPresent
<1>6. BootInv'
  BY <1>0 DEF Inv, TypeOK, Stopped, flash, state, BootInv
<1>7. AppInv'
  BY <1>0 DEF Inv, TypeOK, Stopped, flash, state, AppInv
<1>8. QED
  BY <1>1, <1>2, <1>3, <1>4, <1>5, <1>6, <1>7, TypesNext DEF Inv

LEMMA FormatKeyCatalogsStep == ASSUME Inv, CryptoDal_FormatKeyCatalogs, [Next]_vars PROVE Inv'
<1>. SUFFICES ASSUME ~\E at : Stopped(at) PROVE Inv'
  BY StoppedStep DEF CryptoDal_FormatKeyCatalogs, Done, Stopped
<1>0. Complete' = Complete /\ PreBoot' = PreBoot /\ Items' = Items /\ BootSmrs' = BootSmrs
  BY BuildFixed, SameBuild
<1>1. FlagTypes'
  BY DEF Inv, TypeOK, CryptoDal_FormatKeyCatalogs, Done, flash, bounds, FlagTypes
<1>2. ItemTypes'
  BY <1>0 DEF Inv, TypeOK, CryptoDal_FormatKeyCatalogs, Done, flash, bounds, ItemTypes
<1>3. CountTypes'
  BY SecureBootAssumption DEF Inv, TypeOK, CryptoDal_FormatKeyCatalogs, Done, flash, bounds,
     CountTypes
<1>4. FlashInv'
  BY <1>0 DEF Inv, TypeOK, CryptoDal_FormatKeyCatalogs, Done, flash, bounds, FlashInv, Activating
<1>5. KeyInv'
  <2>1. index = 1 /\ ~bIsCatalogFormated /\ (INSTALL_OK => Nvm \subseteq hse) /\ index' = index
    BY DEF Inv, CryptoDal_FormatKeyCatalogs, Done, flash, bounds, KeyInv
  <2>2. \A k \in NvmKeys : k < index' \/ ~bIsCatalogFormated' => Key(k) \in hse'
    BY <2>1, SecureBootAssumption DEF CryptoDal_FormatKeyCatalogs, Done, flash, bounds, Nvm, Keys
  <2>3. QED
    BY <2>2 DEF CryptoDal_FormatKeyCatalogs, Done, flash, bounds, KeyInv, KeysPresent
<1>6. BootInv'
  BY <1>0 DEF Inv, TypeOK, CryptoDal_FormatKeyCatalogs, Done, flash, bounds, BootInv
<1>7. AppInv'
  BY <1>0 DEF Inv, TypeOK, CryptoDal_FormatKeyCatalogs, Done, flash, bounds, AppInv
<1>8. QED
  BY <1>1, <1>2, <1>3, <1>4, <1>5, <1>6, <1>7, TypesNext DEF Inv

LEMMA InstallKeyStep == ASSUME Inv, CryptoDal_InstallKey, [Next]_vars PROVE Inv'
<1>. SUFFICES ASSUME ~\E at : Stopped(at) PROVE Inv'
  BY StoppedStep DEF CryptoDal_InstallKey, Done, Stopped
<1>0. Complete' = Complete /\ PreBoot' = PreBoot /\ Items' = Items /\ BootSmrs' = BootSmrs
  BY BuildFixed, SameBuild
<1>1. FlagTypes'
  BY DEF Inv, TypeOK, CryptoDal_InstallKey, Done, flash, bounds, FlagTypes
<1>2. ItemTypes'
  <2>1. hse' \subseteq Items'
    BY <1>0 DEF Inv, TypeOK, CryptoDal_InstallKey, Done, flash, bounds, Items
  <2>2. QED
    BY <1>0, <2>1 DEF Inv, TypeOK, CryptoDal_InstallKey, Done, flash, bounds, ItemTypes
<1>3. CountTypes'
  BY SecureBootAssumption DEF Inv, TypeOK, CryptoDal_InstallKey, Done, flash, bounds, CountTypes
<1>4. FlashInv'
  BY <1>0 DEF Inv, TypeOK, CryptoDal_InstallKey, Done, flash, bounds, FlashInv, Activating
<1>5. KeyInv'
  <2>1. pc = "keys" /\ pc' = "keys" /\ index' = index + 1 /\ bIsCatalogFormated' = bIsCatalogFormated
    BY DEF CryptoDal_InstallKey, Done, flash, bounds
  <2>2. ASSUME NEW k \in NvmKeys, k < index' \/ ~bIsCatalogFormated'
        PROVE  Key(k) \in hse'
    <3>1. CASE k < index \/ ~bIsCatalogFormated
      BY <2>1, <3>1 DEF Inv, KeyInv, CryptoDal_InstallKey, Done, flash, bounds
    <3>2. CASE k = index /\ bIsCatalogFormated
      BY <3>2 DEF CryptoDal_InstallKey, Done, flash, bounds, Skipped
    <3>3. k \in Nat /\ index \in Nat
      BY SecureBootAssumption DEF Keys, Inv, TypeOK
    <3>4. QED
      BY <2>1, <2>2, <3>1, <3>2, <3>3
  <2>3. QED
    BY <2>1, <2>2 DEF KeyInv, KeysPresent
<1>6. BootInv'
  BY <1>0 DEF Inv, TypeOK, CryptoDal_InstallKey, Done, flash, bounds, BootInv
<1>7. AppInv'
  BY <1>0 DEF Inv, TypeOK, CryptoDal_InstallKey, Done, flash, bounds, AppInv
<1>8. QED
  BY <1>1, <1>2, <1>3, <1>4, <1>5, <1>6, <1>7, TypesNext DEF Inv

LEMMA ConfigureSecureBootStep == ASSUME Inv, Bl_ConfigureSecureBoot, [Next]_vars PROVE Inv'
<1>. SUFFICES ASSUME ~\E at : Stopped(at) PROVE Inv'
  BY StoppedStep DEF Bl_ConfigureSecureBoot, Done, Stopped
<1>0. Complete' = Complete /\ PreBoot' = PreBoot /\ Items' = Items /\ BootSmrs' = BootSmrs
  BY BuildFixed, SameBuild
<1>1. FlagTypes'
  BY DEF Inv, TypeOK, Bl_ConfigureSecureBoot, Done, flash, bounds, FlagTypes
<1>2. ItemTypes'
  BY <1>0 DEF Inv, TypeOK, Bl_ConfigureSecureBoot, Done, flash, bounds, ItemTypes
<1>3. CountTypes'
  BY SecureBootAssumption DEF Inv, TypeOK, Bl_ConfigureSecureBoot, Done, flash, bounds, CountTypes
<1>4. FlashInv'
  BY <1>0 DEF Inv, TypeOK, Bl_ConfigureSecureBoot, Done, flash, bounds, FlashInv, Activating
<1>5. KeyInv'
  <2>1. pc = "keys" /\ pc' \notin {"init", "keys"} /\ index \notin Keys /\ hse' = hse
    BY DEF Bl_ConfigureSecureBoot, Done, flash, bounds
  <2>2. \A k \in NvmKeys : k < index
    BY <2>1, SecureBootAssumption DEF Keys, Inv, TypeOK
  <2>3. {Key(k) : k \in NvmKeys} \subseteq hse
    BY <2>1, <2>2 DEF Inv, KeyInv
  <2>4. QED
    BY <2>1, <2>3 DEF KeyInv, KeysPresent
<1>6. BootInv'
  BY <1>0 DEF Inv, TypeOK, Bl_ConfigureSecureBoot, Done, flash, bounds, BootInv
<1>7. AppInv'
  BY <1>0 DEF Inv, TypeOK, Bl_ConfigureSecureBoot, Done, flash, bounds, AppInv
<1>8. QED
  BY <1>1, <1>2, <1>3, <1>4, <1>5, <1>6, <1>7, TypesNext DEF Inv

LEMMA GenerateCmacStep == ASSUME Inv, CryptoDal_GenerateCmac, [Next]_vars PROVE Inv'
<1>. SUFFICES ASSUME ~\E at : Stopped(at) PROVE Inv'
  BY StoppedStep DEF CryptoDal_GenerateCmac, Done, Stopped
<1>0. Complete' = Complete /\ PreBoot' = PreBoot /\ Items' = Items /\ BootSmrs' = BootSmrs
  BY BuildFixed, SameBuild
<1>1. FlagTypes'
  BY DEF Inv, TypeOK, CryptoDal_GenerateCmac, Done, flash, bounds, FlagTypes
<1>2. ItemTypes'
  BY <1>0 DEF Inv, TypeOK, CryptoDal_GenerateCmac, Done, flash, bounds, ItemTypes
<1>3. CountTypes'
  BY BootSmrsSeq DEF Inv, TypeOK, CryptoDal_GenerateCmac, Done, flash, bounds, CountTypes
<1>4. FlashInv'
  BY <1>0 DEF Inv, TypeOK, CryptoDal_GenerateCmac, Done, flash, bounds, FlashInv, Activating
<1>5. KeyInv'
  BY <1>0 DEF Inv, TypeOK, CryptoDal_GenerateCmac, Done, flash, bounds, KeyInv, KeysPresent
<1>6. BootInv'
  <2>1. pc' = "smr_boot" /\ SMR_Config' = BootSmrs /\ index' = 1
    BY DEF CryptoDal_GenerateCmac, Done, flash, bounds
  <2>2. \A i \in DOMAIN BootSmrs : i \in Nat /\ i >= 1
    BY BootSmrsSeq
  <2>3. QED
    BY <1>0, <2>1, <2>2 DEF BootInv
<1>7. AppInv'
  BY <1>0 DEF Inv, TypeOK, CryptoDal_GenerateCmac, Done, flash, bounds, AppInv
<1>8. QED
  BY <1>1, <1>2, <1>3, <1>4, <1>5, <1>6, <1>7, TypesNext DEF Inv

LEMMA InstallCrStep == ASSUME Inv, CryptoDal_InstallCr, [Next]_vars PROVE Inv'
<1>. SUFFICES ASSUME ~\E at : Stopped(at) PROVE Inv'
  BY StoppedStep DEF CryptoDal_InstallCr, Done, Stopped
<1>0. Complete' = Complete /\ PreBoot' = PreBoot /\ Items' = Items /\ BootSmrs' = BootSmrs
  BY BuildFixed, SameBuild
<1>1. FlagTypes'
  BY DEF Inv, TypeOK, CryptoDal_InstallCr, Done, flash, bounds, FlagTypes
<1>2. ItemTypes'
  <2>1. hse' \subseteq Items'
    BY <1>0 DEF Inv, TypeOK, CryptoDal_InstallCr, Done, flash, bounds, Items, Complete
  <2>2. QED
    BY <1>0, <2>1 DEF Inv, TypeOK, CryptoDal_InstallCr, Done, flash, bounds, ItemTypes
<1>3. CountTypes'
  BY SecureBootAssumption DEF Inv, TypeOK, CryptoDal_InstallCr, Done, flash, bounds, CountTypes
<1>4. FlashInv'
  BY <1>0 DEF Inv, TypeOK, CryptoDal_InstallCr, Done, flash, bounds, FlashInv, Activating
<1>5. KeyInv'
  BY <1>0 DEF Inv, TypeOK, CryptoDal_InstallCr, Done, flash, bounds, KeyInv, KeysPresent
<1>6. BootInv'
  BY <1>0 DEF Inv, TypeOK, CryptoDal_InstallCr, Done, flash, bounds, BootInv
<1>7. AppInv'
  BY <1>0 DEF Inv, TypeOK, CryptoDal_InstallCr, Done, flash, bounds, AppInv
<1>8. QED
  BY <1>1, <1>2, <1>3, <1>4, <1>5, <1>6, <1>7, TypesNext DEF Inv

LEMMA VerifySmrStep == ASSUME Inv, CryptoDal_VerifySmr, [Next]_vars PROVE Inv'
<1>. SUFFICES ASSUME ~\E at : Stopped(at) PROVE Inv'
  BY StoppedStep DEF CryptoDal_VerifySmr, Done, Stopped
<1>0. Complete' = Complete /\ PreBoot' = PreBoot /\ Items' = Items /\ BootSmrs' = BootSmrs
  BY BuildFixed, SameBuild
<1>1. FlagTypes'
  BY DEF Inv, TypeOK, CryptoDal_VerifySmr, Done, flash, bounds, FlagTypes
<1>2. ItemTypes'
  BY <1>0 DEF Inv, TypeOK, CryptoDal_VerifySmr, Done, flash, bounds, ItemTypes
<1>3. CountTypes'
  <2>1. << >> \in Seq(Nat)
    OBVIOUS
  <2>2. SMR_Config' = << >> /\ index' = 1 /\ failures' = failures /\ losses' = losses
    BY DEF CryptoDal_VerifySmr, Done, bounds
  <2>3. failures \in 0 .. MaxFailures /\ losses \in 0 .. MaxLosses
    BY DEF Inv, TypeOK
  <2>4. QED
    BY <2>1, <2>2, <2>3 DEF CountTypes
<1>4. FlashInv'
  BY <1>0 DEF Inv, TypeOK, CryptoDal_VerifySmr, Done, flash, bounds, FlashInv, Activating
<1>5. KeyInv'
  BY <1>0 DEF Inv, TypeOK, CryptoDal_VerifySmr, Done, flash, bounds, KeyInv, KeysPresent
<1>6. BootInv'
  BY <1>0 DEF Inv, TypeOK, CryptoDal_VerifySmr, Done, flash, bounds, BootInv
<1>7. AppInv'
  BY <1>0 DEF Inv, TypeOK, CryptoDal_VerifySmr, Done, flash, bounds, AppInv
<1>8. QED
  BY <1>1, <1>2, <1>3, <1>4, <1>5, <1>6, <1>7, TypesNext DEF Inv

LEMMA ConfigureBootloaderStep == ASSUME Inv, Bl_Configure_Bootloader_SecureBoot, [Next]_vars PROVE Inv'
<1>. SUFFICES ASSUME ~\E at : Stopped(at) PROVE Inv'
  BY StoppedStep DEF Bl_Configure_Bootloader_SecureBoot, Done, Stopped
<1>0. Complete' = Complete /\ PreBoot' = PreBoot /\ Items' = Items /\ BootSmrs' = BootSmrs
  BY BuildFixed, SameBuild
<1>1. FlagTypes'
  BY DEF Inv, TypeOK, Bl_Configure_Bootloader_SecureBoot, Done, flash, bounds, FlagTypes
<1>2. ItemTypes'
  BY <1>0 DEF Inv, TypeOK, Bl_Configure_Bootloader_SecureBoot, Done, flash, bounds, ItemTypes
<1>3. CountTypes'
  BY SecureBootAssumption DEF Inv, TypeOK, Bl_Configure_Bootloader_SecureBoot, Done, flash,
     bounds, CountTypes
<1>4. FlashInv'
  BY <1>0 DEF Inv, TypeOK, Bl_Configure_Bootloader_SecureBoot, Done, flash, bounds, FlashInv,
     Activating
<1>5. KeyInv'
  BY <1>0 DEF Inv, TypeOK, Bl_Configure_Bootloader_SecureBoot, Done, flash, bounds, KeyInv,
     KeysPresent
<1>6. BootInv'
  BY <1>0 DEF Inv, TypeOK, Bl_Configure_Bootloader_SecureBoot, Done, flash, bounds, BootInv
<1>7. AppInv'
  BY <1>0 DEF Inv, TypeOK, Bl_Configure_Bootloader_SecureBoot, Done, flash, bounds, AppInv
<1>8. QED
  BY <1>1, <1>2, <1>3, <1>4, <1>5, <1>6, <1>7, TypesNext DEF Inv

LEMMA ConfigureApplicationsStep == ASSUME Inv, Bl_Configure_Applications_SecureBoot, [Next]_vars PROVE Inv'
<1>. SUFFICES ASSUME ~\E at : Stopped(at) PROVE Inv'
  BY StoppedStep DEF Bl_Configure_Applications_SecureBoot, Done, Stopped
<1>0. Complete' = Complete /\ PreBoot' = PreBoot /\ Items' = Items /\ BootSmrs' = BootSmrs
  BY BuildFixed, SameBuild
<1>1. FlagTypes'
  BY DEF Inv, TypeOK, Bl_Configure_Applications_SecureBoot, Done, flash, bounds, FlagTypes
<1>2. ItemTypes'
  BY <1>0 DEF Inv, TypeOK, Bl_Configure_Applications_SecureBoot, Done, flash, bounds, ItemTypes
<1>3. CountTypes'
  <2>1. SMR_Config \in Seq(Nat) /\ index \in Nat \ {0} /\ Fragments \in Seq(Nat)
    BY SecureBootAssumption DEF Inv, TypeOK
  <2>2. ASSUME index \in DOMAIN Fragments
        PROVE  Append(SMR_Config, Fragments[index]) \in Seq(Nat)
    BY <2>1, <2>2
  <2>3. /\ SMR_Config' = SMR_Config \/ (index \in DOMAIN Fragments /\ SMR_Config' = Append(SMR_Config, Fragments[index]))
        /\ index' \in {1, index + 1}
    BY DEF Bl_Configure_Applications_SecureBoot, Done
  <2>4. SMR_Config' \in Seq(Nat)
    BY Zenon, <2>1, <2>2, <2>3
  <2>5. index' \in Nat \ {0}
    <3>1. CASE index' = 1
      BY <3>1
    <3>2. CASE index' = index + 1
      BY <2>1, <3>2
    <3>3. QED
      BY Zenon, <2>3, <3>1, <3>2
  <2>6. QED
    BY <2>4, <2>5 DEF Inv, TypeOK, Bl_Configure_Applications_SecureBoot, Done, flash, bounds,
       CountTypes
<1>4. FlashInv'
  BY <1>0 DEF Inv, TypeOK, Bl_Configure_Applications_SecureBoot, Done, flash, bounds, FlashInv,
     Activating
<1>5. KeyInv'
  BY <1>0 DEF Inv, TypeOK, Bl_Configure_Applications_SecureBoot, Done, flash, bounds, KeyInv,
     KeysPresent
<1>6. BootInv'
  BY <1>0 DEF Inv, TypeOK, Bl_Configure_Applications_SecureBoot, Done, flash, bounds, BootInv
<1>7. AppInv'
  <2>1. SMR_Config \in Seq(Nat) /\ index \in Nat \ {0} /\ Fragments \in Seq(Nat)
    BY SecureBootAssumption DEF Inv, TypeOK
  <2>2. pc = "cmac_app" /\ \A j \in DOMAIN SMR_Config : SMR_Config[j] \in Used
    BY DEF Inv, AppInv, Bl_Configure_Applications_SecureBoot, Done, flash, bounds
  <2>3. \A f \in DOMAIN Fragments : f < index /\ Fragments[f] # 0 =>
          \E j \in DOMAIN SMR_Config : SMR_Config[j] = Fragments[f]
    BY <2>2 DEF Inv, AppInv
  <2>4. CASE index \in DOMAIN Fragments /\ Fragments[index] # 0
    <3>1. pc' = "cmac_app" /\ SMR_Config' = Append(SMR_Config, Fragments[index]) /\ index' = index + 1
      BY <2>4 DEF Bl_Configure_Applications_SecureBoot, Done, flash, bounds
    <3>2. /\ DOMAIN SMR_Config' = DOMAIN SMR_Config \cup {Len(SMR_Config) + 1}
          /\ SMR_Config'[Len(SMR_Config) + 1] = Fragments[index]
          /\ \A j \in DOMAIN SMR_Config : SMR_Config'[j] = SMR_Config[j]
      BY <2>1, <2>4, <3>1
    <3>3. Fragments[index] \in Used
      BY <2>4 DEF Used
    <3>4. \A j \in DOMAIN SMR_Config' : SMR_Config'[j] \in Used
      BY <2>2, <3>2, <3>3
    <3>5. \A f \in DOMAIN Fragments : f < index' => f < index \/ f = index
      BY <2>1, <3>1
    <3>6. \A f \in DOMAIN Fragments : f < index' /\ Fragments[f] # 0 =>
            \E j \in DOMAIN SMR_Config' : SMR_Config'[j] = Fragments[f]
      BY <2>3, <3>2, <3>5
    <3>7. QED
      BY <3>1, <3>4, <3>6 DEF AppInv
  <2>5. CASE index \in DOMAIN Fragments /\ Fragments[index] = 0
    <3>1. pc' = "cmac_app" /\ SMR_Config' = SMR_Config /\ index' = index + 1
      BY <2>5 DEF Bl_Configure_Applications_SecureBoot, Done, flash, bounds
    <3>2. \A f \in DOMAIN Fragments : f < index' => f < index \/ f = index
      BY <2>1, <3>1
    <3>3. QED
      BY <2>2, <2>3, <2>5, <3>1, <3>2 DEF AppInv
  <2>6. CASE index \notin DOMAIN Fragments
    <3>1. pc' = "smr_app" /\ SMR_Config' = SMR_Config /\ index' = 1
      BY <2>6 DEF Bl_Configure_Applications_SecureBoot, Done, flash, bounds
    <3>2. \A f \in DOMAIN Fragments : f < index
      BY <2>1, <2>6
    <3>3. \A s \in Used : \E j \in DOMAIN SMR_Config : SMR_Config[j] = s
      BY <2>3, <3>2 DEF Used
    <3>4. \A i \in DOMAIN SMR_Config' : ~(i < index')
      BY <2>1, <3>1
    <3>5. QED
      BY <2>2, <3>1, <3>3, <3>4 DEF AppInv
  <2>7. QED
    BY <2>4, <2>5, <2>6
<1>8. QED
  BY <1>1, <1>2, <1>3, <1>4, <1>5, <1>6, <1>7, TypesNext DEF Inv

LEMMA GetSysImageStep == ASSUME Inv, CryptoDal_GetSysImage, [Next]_vars PROVE Inv'
<1>. SUFFICES ASSUME ~\E at : Stopped(at) PROVE Inv'
  BY StoppedStep DEF CryptoDal_GetSysImage, Done, Stopped
<1>0. Complete' = Complete /\ PreBoot' = PreBoot /\ Items' = Items /\ BootSmrs' = BootSmrs
  BY BuildFixed, SameBuild
<1>9. Bl_HseSysImage' = Complete
  <2>1. pc = "publish" /\ Bl_HseSysImage' = hse \ Ram
    BY DEF CryptoDal_GetSysImage, Done, flash, bounds, Ram
  <2>2. hse \subseteq Ram \cup Complete
    BY ItemsDiffer DEF Inv, TypeOK
  <2>3. Complete \subseteq hse
    BY <2>1 DEF Inv, KeyInv, KeysPresent, BootInv, AppInv, Complete, AppSmrs
  <2>4. QED
    BY <2>1, <2>2, <2>3, ItemsDiffer
<1>1. FlagTypes'
  BY DEF Inv, TypeOK, CryptoDal_GetSysImage, Done, flash, bounds, FlagTypes
<1>2. ItemTypes'
  BY <1>0, <1>9 DEF Inv, TypeOK, CryptoDal_GetSysImage, Done, flash, bounds, ItemTypes
<1>3. CountTypes'
  BY SecureBootAssumption DEF Inv, TypeOK, CryptoDal_GetSysImage, Done, flash, bounds, CountTypes
<1>4. FlashInv'
  BY <1>0, <1>9 DEF Inv, TypeOK, CryptoDal_GetSysImage, Done, flash, bounds, FlashInv, Activating
<1>5. KeyInv'
  BY <1>0 DEF Inv, TypeOK, CryptoDal_GetSysImage, Done, flash, bounds, KeyInv, KeysPresent
<1>6. BootInv'
  BY <1>0 DEF Inv, TypeOK, CryptoDal_GetSysImage, Done, flash, bounds, BootInv
<1>7. AppInv'
  BY <1>0 DEF Inv, TypeOK, CryptoDal_GetSysImage, Done, flash, bounds, AppInv
<1>8. QED
  BY <1>1, <1>2, <1>3, <1>4, <1>5, <1>6, <1>7, TypesNext DEF Inv

LEMMA SmrBootStep == ASSUME Inv, CryptoDal_SMR_CR_Install("smr_boot", "cr"), [Next]_vars PROVE Inv'
<1>. SUFFICES ASSUME ~\E at : Stopped(at) PROVE Inv'
  BY StoppedStep
<1>0. Complete' = Complete /\ PreBoot' = PreBoot /\ Items' = Items /\ BootSmrs' = BootSmrs
  BY BuildFixed, SameBuild
<1>1. FlagTypes'
  BY DEF Inv, TypeOK, CryptoDal_SMR_CR_Install, Done, flash, bounds, FlagTypes
<1>2. ItemTypes'
  <2>1. ASSUME index \in DOMAIN SMR_Config
        PROVE  Smr(SMR_Config[index]) \in Items
    BY <2>1 DEF Inv, TypeOK, CryptoDal_SMR_CR_Install, Done, flash, bounds, PreBoot, Items,
       Complete, BootInv
  <2>2. hse' \subseteq Items'
    BY <1>0, <2>1 DEF Inv, TypeOK, CryptoDal_SMR_CR_Install, Done, flash, bounds
  <2>3. QED
    BY <1>0, <2>2 DEF Inv, TypeOK, CryptoDal_SMR_CR_Install, Done, flash, bounds, ItemTypes
<1>3. CountTypes'
  BY SecureBootAssumption DEF Inv, TypeOK, CryptoDal_SMR_CR_Install, Done, flash, bounds, CountTypes
<1>4. FlashInv'
  BY <1>0 DEF Inv, TypeOK, CryptoDal_SMR_CR_Install, Done, flash, bounds, FlashInv, Activating
<1>5. KeyInv'
  BY <1>0 DEF Inv, TypeOK, CryptoDal_SMR_CR_Install, Done, flash, bounds, KeyInv, KeysPresent
<1>6. BootInv'
  <2>1. SMR_Config \in Seq(Nat) /\ index \in Nat \ {0}
    BY DEF Inv, TypeOK
  <2>2. SMR_Config = BootSmrs /\ (\A i \in DOMAIN SMR_Config : i < index => Smr(SMR_Config[i]) \in hse)
    BY DEF Inv, BootInv, CryptoDal_SMR_CR_Install, Done, flash, bounds
  <2>3. CASE index \in DOMAIN SMR_Config
    <3>1. /\ pc' = "smr_boot" /\ SMR_Config' = SMR_Config /\ index' = index + 1
          /\ hse' = hse \cup {Smr(SMR_Config[index])}
      BY <2>3 DEF CryptoDal_SMR_CR_Install, Done, flash, bounds
    <3>2. \A i \in DOMAIN SMR_Config : i < index' => i < index \/ i = index
      BY <2>1, <3>1
    <3>3. \A i \in DOMAIN SMR_Config : i < index' => Smr(SMR_Config[i]) \in hse'
      BY <2>2, <3>1, <3>2
    <3>4. QED
      BY <1>0, <2>2, <3>1, <3>3 DEF BootInv
  <2>4. CASE index \notin DOMAIN SMR_Config
    <3>1. pc' = "cr" /\ SMR_Config' = SMR_Config /\ hse' = hse
      BY <2>4 DEF CryptoDal_SMR_CR_Install, Done, flash, bounds
    <3>2. \A i \in DOMAIN SMR_Config : i < index
      BY <2>1, <2>4
    <3>3. PreBoot \subseteq hse
      BY <2>2, <3>2 DEF PreBoot
    <3>4. QED
      BY <1>0, <3>1, <3>3 DEF BootInv
  <2>5. QED
    BY <2>3, <2>4
<1>7. AppInv'
  BY <1>0 DEF Inv, TypeOK, CryptoDal_SMR_CR_Install, Done, flash, bounds, AppInv
<1>8. QED
  BY <1>1, <1>2, <1>3, <1>4, <1>5, <1>6, <1>7, TypesNext DEF Inv

LEMMA SmrAppStep == ASSUME Inv, CryptoDal_SMR_CR_Install("smr_app", "publish"), [Next]_vars PROVE Inv'
<1>. SUFFICES ASSUME ~\E at : Stopped(at) PROVE Inv'
  BY StoppedStep
<1>0. Complete' = Complete /\ PreBoot' = PreBoot /\ Items' = Items /\ BootSmrs' = BootSmrs
  BY BuildFixed, SameBuild
<1>1. FlagTypes'
  BY DEF Inv, TypeOK, CryptoDal_SMR_CR_Install, Done, flash, bounds, FlagTypes
<1>2. ItemTypes'
  <2>1. ASSUME index \in DOMAIN SMR_Config
        PROVE  Smr(SMR_Config[index]) \in Items
    BY <2>1 DEF Inv, TypeOK, CryptoDal_SMR_CR_Install, Done, flash, bounds, Items, Complete, AppInv
  <2>2. hse' \subseteq Items'
    BY <1>0, <2>1 DEF Inv, TypeOK, CryptoDal_SMR_CR_Install, Done, flash, bounds
  <2>3. QED
    BY <1>0, <2>2 DEF Inv, TypeOK, CryptoDal_SMR_CR_Install, Done, flash, bounds, ItemTypes
<1>3. CountTypes'
  BY SecureBootAssumption DEF Inv, TypeOK, CryptoDal_SMR_CR_Install, Done, flash, bounds, CountTypes
<1>4. FlashInv'
  BY <1>0 DEF Inv, TypeOK, CryptoDal_SMR_CR_Install, Done, flash, bounds, FlashInv, Activating
<1>5. KeyInv'
  BY <1>0 DEF Inv, TypeOK, CryptoDal_SMR_CR_Install, Done, flash, bounds, KeyInv, KeysPresent
<1>6. BootInv'
  BY <1>0 DEF Inv, TypeOK, CryptoDal_SMR_CR_Install, Done, flash, bounds, BootInv
<1>7. AppInv'
  <2>1. SMR_Config \in Seq(Nat) /\ index \in Nat \ {0}
    BY DEF Inv, TypeOK
  <2>2. (\A j \in DOMAIN SMR_Config : SMR_Config[j] \in Used)
       /\ (\A s \in Used : \E j \in DOMAIN SMR_Config : SMR_Config[j] = s)
       /\ (\A i \in DOMAIN SMR_Config : i < index => Smr(SMR_Config[i]) \in hse)
    BY DEF Inv, AppInv, CryptoDal_SMR_CR_Install, Done, flash, bounds
  <2>3. CASE index \in DOMAIN SMR_Config
    <3>1. /\ pc' = "smr_app" /\ SMR_Config' = SMR_Config /\ index' = index + 1
          /\ hse' = hse \cup {Smr(SMR_Config[index])}
      BY <2>3 DEF CryptoDal_SMR_CR_Install, Done, flash, bounds
    <3>2. \A i \in DOMAIN SMR_Config : i < index' => i < index \/ i = index
      BY <2>1, <3>1
    <3>3. \A i \in DOMAIN SMR_Config : i < index' => Smr(SMR_Config[i]) \in hse'
      BY <2>2, <3>1, <3>2
    <3>4. QED
      BY <1>0, <2>2, <3>1, <3>3 DEF AppInv
  <2>4. CASE index \notin DOMAIN SMR_Config
    <3>1. pc' = "publish" /\ SMR_Config' = SMR_Config /\ hse' = hse
      BY <2>4 DEF CryptoDal_SMR_CR_Install, Done, flash, bounds
    <3>2. \A i \in DOMAIN SMR_Config : i < index
      BY <2>1, <2>4
    <3>3. AppSmrs \subseteq hse
      BY <2>2, <3>2 DEF AppSmrs
    <3>4. QED
      BY <1>0, <3>1, <3>3 DEF AppInv
  <2>5. QED
    BY <2>3, <2>4
<1>8. QED
  BY <1>1, <1>2, <1>3, <1>4, <1>5, <1>6, <1>7, TypesNext DEF Inv

LEMMA EraseSysImageStep == ASSUME Inv, EraseSysImage, [Next]_vars PROVE Inv'
<1>0. Complete' = Complete /\ PreBoot' = PreBoot /\ Items' = Items /\ BootSmrs' = BootSmrs
  BY BuildFixed, SameBuild
<1>1. FlagTypes'
  BY DEF Inv, TypeOK, EraseSysImage, Fls, Erased, Saved, state, FlagTypes
<1>2. ItemTypes'
  <2>1. Erased \in [valid : BOOLEAN, items : SUBSET Complete]
    BY DEF Erased
  <2>2. sysimg' \in [valid : BOOLEAN, items : SUBSET Complete]
    BY <2>1 DEF Inv, TypeOK, EraseSysImage, Fls
  <2>3. hse' = hse /\ Bl_HseSysImage' = Bl_HseSysImage
    BY DEF EraseSysImage, Fls, state
  <2>4. QED
    BY <1>0, <2>2, <2>3 DEF Inv, TypeOK, ItemTypes
<1>3. CountTypes'
  BY SecureBootAssumption DEF Inv, TypeOK, EraseSysImage, Fls, Erased, Saved, state, CountTypes
<1>4. FlashInv'
  BY <1>0 DEF Inv, TypeOK, EraseSysImage, Fls, Erased, Saved, state, FlashInv, Activating
<1>5. KeyInv'
  BY <1>0 DEF Inv, TypeOK, EraseSysImage, Fls, Erased, Saved, state, KeyInv, KeysPresent
<1>6. BootInv'
  BY <1>0 DEF Inv, TypeOK, EraseSysImage, Fls, Erased, Saved, state, BootInv
<1>7. AppInv'
  BY <1>0 DEF Inv, TypeOK, EraseSysImage, Fls, Erased, Saved, state, AppInv
<1>8. QED
  BY <1>1, <1>2, <1>3, <1>4, <1>5, <1>6, <1>7, TypesNext DEF Inv

LEMMA WriteSysImageStep == ASSUME Inv, WriteSysImage, [Next]_vars PROVE Inv'
<1>0. Complete' = Complete /\ PreBoot' = PreBoot /\ Items' = Items /\ BootSmrs' = BootSmrs
  BY BuildFixed, SameBuild
<1>1. FlagTypes'
  BY DEF Inv, TypeOK, WriteSysImage, Fls, Erased, Saved, state, FlagTypes
<1>2. ItemTypes'
  <2>1. Saved \in [valid : BOOLEAN, items : SUBSET Complete]
    BY DEF Saved, Inv, TypeOK
  <2>2. sysimg' \in [valid : BOOLEAN, items : SUBSET Complete]
    BY <2>1 DEF Inv, TypeOK, WriteSysImage, Fls
  <2>3. hse' = hse /\ Bl_HseSysImage' = Bl_HseSysImage
    BY DEF WriteSysImage, Fls, state
  <2>4. QED
    BY <1>0, <2>2, <2>3 DEF Inv, TypeOK, ItemTypes
<1>3. CountTypes'
  BY SecureBootAssumption DEF Inv, TypeOK, WriteSysImage, Fls, Erased, Saved, state, CountTypes
<1>4. FlashInv'
  BY <1>0 DEF Inv, TypeOK, WriteSysImage, Fls, Erased, Saved, state, FlashInv, Activating
<1>5. KeyInv'
  BY <1>0 DEF Inv, TypeOK, WriteSysImage, Fls, Erased, Saved, state, KeyInv, KeysPresent
<1>6. BootInv'
  BY <1>0 DEF Inv, TypeOK, WriteSysImage, Fls, Erased, Saved, state, BootInv
<1>7. AppInv'
  BY <1>0 DEF Inv, TypeOK, WriteSysImage, Fls, Erased, Saved, state, AppInv
<1>8. QED
  BY <1>1, <1>2, <1>3, <1>4, <1>5, <1>6, <1>7, TypesNext DEF Inv

LEMMA EraseIvtStep == ASSUME Inv, EraseIvt, [Next]_vars PROVE Inv'
<1>0. Complete' = Complete /\ PreBoot' = PreBoot /\ Items' = Items /\ BootSmrs' = BootSmrs
  BY BuildFixed, SameBuild
<1>1. FlagTypes'
  BY DEF Inv, TypeOK, EraseIvt, Fls, Erased, Saved, state, FlagTypes
<1>2. ItemTypes'
  BY <1>0 DEF Inv, TypeOK, EraseIvt, Fls, Erased, Saved, state, ItemTypes
<1>3. CountTypes'
  BY SecureBootAssumption DEF Inv, TypeOK, EraseIvt, Fls, Erased, Saved, state, CountTypes
<1>4. FlashInv'
  BY <1>0 DEF Inv, TypeOK, EraseIvt, Fls, Erased, Saved, state, FlashInv, Activating
<1>5. KeyInv'
  BY <1>0 DEF Inv, TypeOK, EraseIvt, Fls, Erased, Saved, state, KeyInv, KeysPresent
<1>6. BootInv'
  BY <1>0 DEF Inv, TypeOK, EraseIvt, Fls, Erased, Saved, state, BootInv
<1>7. AppInv'
  BY <1>0 DEF Inv, TypeOK, EraseIvt, Fls, Erased, Saved, state, AppInv
<1>8. QED
  BY <1>1, <1>2, <1>3, <1>4, <1>5, <1>6, <1>7, TypesNext DEF Inv

LEMMA WriteIvtStep == ASSUME Inv, WriteIvt, [Next]_vars PROVE Inv'
<1>0. Complete' = Complete /\ PreBoot' = PreBoot /\ Items' = Items /\ BootSmrs' = BootSmrs
  BY BuildFixed, SameBuild
<1>1. FlagTypes'
  BY DEF Inv, TypeOK, WriteIvt, Fls, Erased, Saved, state, FlagTypes
<1>2. ItemTypes'
  BY <1>0 DEF Inv, TypeOK, WriteIvt, Fls, Erased, Saved, state, ItemTypes
<1>3. CountTypes'
  BY SecureBootAssumption DEF Inv, TypeOK, WriteIvt, Fls, Erased, Saved, state, CountTypes
<1>4. FlashInv'
  BY <1>0 DEF Inv, TypeOK, WriteIvt, Fls, Erased, Saved, state, FlashInv, Activating
<1>5. KeyInv'
  BY <1>0 DEF Inv, TypeOK, WriteIvt, Fls, Erased, Saved, state, KeyInv, KeysPresent
<1>6. BootInv'
  BY <1>0 DEF Inv, TypeOK, WriteIvt, Fls, Erased, Saved, state, BootInv
<1>7. AppInv'
  BY <1>0 DEF Inv, TypeOK, WriteIvt, Fls, Erased, Saved, state, AppInv
<1>8. QED
  BY <1>1, <1>2, <1>3, <1>4, <1>5, <1>6, <1>7, TypesNext DEF Inv

LEMMA StutterStep == ASSUME Inv, UNCHANGED vars, [Next]_vars PROVE Inv'
<1>0. Complete' = Complete /\ PreBoot' = PreBoot /\ Items' = Items /\ BootSmrs' = BootSmrs
  BY BuildFixed, SameBuild
<1>1. FlagTypes'
  BY DEF Inv, TypeOK, vars, flash, state, bounds, FlagTypes
<1>2. ItemTypes'
  BY <1>0 DEF Inv, TypeOK, vars, flash, state, bounds, ItemTypes
<1>3. CountTypes'
  BY SecureBootAssumption DEF Inv, TypeOK, vars, flash, state, bounds, CountTypes
<1>4. FlashInv'
  BY <1>0 DEF Inv, TypeOK, vars, flash, state, bounds, FlashInv, Activating
<1>5. KeyInv'
  BY <1>0 DEF Inv, TypeOK, vars, flash, state, bounds, KeyInv, KeysPresent
<1>6. BootInv'
  BY <1>0 DEF Inv, TypeOK, vars, flash, state, bounds, BootInv
<1>7. AppInv'
  BY <1>0 DEF Inv, TypeOK, vars, flash, state, bounds, AppInv
<1>8. QED
  BY <1>1, <1>2, <1>3, <1>4, <1>5, <1>6, <1>7, TypesNext DEF Inv

LEMMA InvStep == Inv /\ [Next]_vars => Inv'
<1> SUFFICES ASSUME Inv, [Next]_vars PROVE Inv'
  OBVIOUS
<1>1. CASE PowerOn
  BY <1>1, PowerOnStep
<1>2. CASE PowerLoss
  BY <1>2, PowerLossStep
<1>3. CASE CryptoDal_FormatKeyCatalogs
  BY <1>3, FormatKeyCatalogsStep
<1>4. CASE CryptoDal_InstallKey
  BY <1>4, InstallKeyStep
<1>5. CASE Bl_ConfigureSecureBoot
  BY <1>5, ConfigureSecureBootStep
<1>6. CASE CryptoDal_GenerateCmac
  BY <1>6, GenerateCmacStep
<1>7. CASE CryptoDal_SMR_CR_Install("smr_boot", "cr")
  BY <1>7, SmrBootStep
<1>8. CASE CryptoDal_InstallCr
  BY <1>8, InstallCrStep
<1>9. CASE CryptoDal_VerifySmr
  BY <1>9, VerifySmrStep
<1>10. CASE Bl_Configure_Bootloader_SecureBoot
  BY <1>10, ConfigureBootloaderStep
<1>11. CASE Bl_Configure_Applications_SecureBoot
  BY <1>11, ConfigureApplicationsStep
<1>12. CASE CryptoDal_SMR_CR_Install("smr_app", "publish")
  BY <1>12, SmrAppStep
<1>13. CASE CryptoDal_GetSysImage
  BY <1>13, GetSysImageStep
<1>14. CASE EraseSysImage
  BY <1>14, EraseSysImageStep
<1>15. CASE WriteSysImage
  BY <1>15, WriteSysImageStep
<1>16. CASE EraseIvt
  BY <1>16, EraseIvtStep
<1>17. CASE WriteIvt
  BY <1>17, WriteIvtStep
<1>18. CASE UNCHANGED vars
  BY <1>18, StutterStep
<1>19. QED
  BY <1>1, <1>2, <1>3, <1>4, <1>5, <1>6, <1>7, <1>8, <1>9, <1>10, <1>11, <1>12, <1>13,
     <1>14, <1>15, <1>16, <1>17, <1>18 DEF Next, Bootloader

LEMMA InvAlways == Spec => []Inv
BY InvInit, InvStep, PTL DEF Spec

-----------------------------------------------------------------------------
(* Theorems *)

\* Types, and that only configured items reach the HSE and its image: the loops over keys,
\* SMRs and fragments end at their ends (CryptoDal_InstallAllKeys, CryptoDal_SMR_CR_Install).
THEOREM SecureBootTypes == Spec => []TypeOK
<1>1. Inv => TypeOK
  BY DEF Inv
<1>2. QED
  BY <1>1, InvAlways, PTL

\* Whatever fails and whenever power is lost, the secure boot bit is set and the old IVT
\* goes only with a complete image in flash (Bl_SaveConfiguration), and no board is lost
\* but by the erase of the IVT.
THEOREM BitNeedsCompleteImage == Spec => []SecureIsComplete
<1>1. Inv => SecureIsComplete
  <2> SUFFICES ASSUME Inv PROVE SecureIsComplete
    OBVIOUS
  <2>1. sysimg \in [valid : BOOLEAN, items : SUBSET Complete]
    BY DEF Inv, TypeOK
  <2>2. ivt # "open" => sysimg.valid = TRUE /\ sysimg.items = Complete
    BY <2>1 DEF Inv, FlashInv
  <2>3. ivt # "open" => sysimg = [valid |-> TRUE, items |-> Complete]
    BY <2>1, <2>2
  <2>4. QED
    BY <2>3 DEF Inv, FlashInv, SecureIsComplete
<1>2. QED
  BY <1>1, InvAlways, PTL

\* The keys that a later boot skips are there when they are needed (CryptoDal_InstallKey).
THEOREM NvmKeysPresent == Spec => []KeysPresent
<1>1. Inv => KeysPresent
  BY DEF Inv, KeyInv
<1>2. QED
  BY <1>1, InvAlways, PTL
=============================================================================
