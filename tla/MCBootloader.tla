----------------------------- MODULE MCBootloader -----------------------------
(* Small boot tables for TLC. *)
EXTENDS Bootloader

Plain(core) ==
  [core |-> core, bootSource |-> "QSPI", signAlgorithm |-> "NONE", smr |-> FALSE,
   encrypted |-> FALSE, small |-> TRUE, images |-> 1, bIsCriticalApp |-> FALSE,
   bStartCore |-> TRUE]

Sha(core) == [Plain(core) EXCEPT !.signAlgorithm = "SHA", !.small = FALSE]
Smr(core) == [Plain(core) EXCEPT !.smr = TRUE]
Crc(core) == [Plain(core) EXCEPT !.signAlgorithm = "CRC32"]
From(source, a) == [a EXCEPT !.bootSource = source, !.small = TRUE]
Critical(a) == [a EXCEPT !.bIsCriticalApp = TRUE]
Encrypted(a) == [a EXCEPT !.encrypted = TRUE]

Build(synchronized, secure, apps) ==
  [apps |-> apps, synchronized |-> synchronized, secure |-> secure, trigger |-> FALSE,
   accepted |-> Reasons]

\* Every source, check and kind of build, own core first or later, A53 with its partition;
\* two SD and two COM images, so that a late answer meets the wait for the next one; a CRC
\* image from SD after one from QSPI, so that the CRC is stale; no fragment at all.
MCConfigs == {
  Build(TRUE, FALSE, <<Plain("M7_1"), Critical(Sha("M7_0")), Plain("A53_0")>>),
  Build(FALSE, FALSE, <<Sha("A53_1"), Critical(Crc("A53_0")), Encrypted(Plain("M7_0"))>>),
  Build(FALSE, FALSE, <<From("SDMMC", Sha("M7_0")), From("SDMMC", Plain("M7_1")), From("SDMMC", Plain("A53_0"))>>),
  Build(TRUE, FALSE, <<From("COM", Plain("A53_0")), From("COM", Sha("M7_0")), From("COM", Plain("M7_1"))>>),
  Build(TRUE, FALSE, <<Crc("M7_1"), From("SDMMC", Crc("M7_0"))>>),
  [Build(TRUE, TRUE, <<Smr("M7_1"), Critical(Encrypted(Smr("M7_0"))),
                       [Plain("A53_0") EXCEPT !.images = 0]>>)
     EXCEPT !.trigger = TRUE, !.accepted = {"POR", "FUNCTIONAL"}],
  Build(FALSE, FALSE, <<[Plain("M7_1") EXCEPT !.images = 2],
                        [Plain("M7_0") EXCEPT !.bStartCore = FALSE]>>)}
=============================================================================
