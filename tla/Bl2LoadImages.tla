--------------------------- MODULE Bl2LoadImages ---------------------------
(***************************************************************************)
(* bl2_load_images() of src/emmc/cld_code/bl2_image_load_idsm.c composed   *)
(* with the logger of IdsmLog: BL2 brings the logger up, loads the images  *)
(* of its list one after the other, logs what happens, tries once more     *)
(* from the secondary FIP, and hands over or stops.                        *)
(*                                                                         *)
(* The parameter block handed to the next stage is left out; the assert()s *)
(* on the lists the platform hands over are taken to hold.                 *)
(***************************************************************************)
EXTENDS IdsmLog

CONSTANTS
  NumImages,    \* length of the list of plat_get_bl_image_load_info()
  PlatSetup,    \* images with IMAGE_ATTRIB_PLAT_SETUP
  SkipLoading   \* images with IMAGE_ATTRIB_SKIP_LOADING

Images == 1 .. NumImages

ASSUME ImageAssumption ==
  /\ NumImages \in Nat \ {0}
  /\ PlatSetup \subseteq Images
  /\ SkipLoading \subseteq Images
  /\ {"BOOT_START", "BOOT_OK", "BL31_FAIL"} \subseteq Events

VARIABLES
  stage,            \* where bl2_load_images() is
  node,             \* bl2_node_info, as a position in the list
  plat_setup_done,
  retried,
  failed_in,        \* the check that failed last: it decides what is reset
  fip,              \* the FIP images are read from
  loaded,           \* history: the FIP each image was last loaded from
  setup_for         \* history: the FIP in use when bl2_platform_setup() last ran

bl2Vars == <<stage, node, plat_setup_done, retried, failed_in, fip, loaded, setup_for>>
vars == <<logVars, bl2Vars>>

-----------------------------------------------------------------------------
Init ==
  /\ LogInit
  /\ stage = "start"
  /\ node = 1
  /\ plat_setup_done = FALSE
  /\ retried = FALSE
  /\ failed_in = "none"
  /\ fip = "primary"
  /\ loaded = [i \in Images |-> "none"]
  /\ setup_for = "none"

\* Power-up: BL2 starts over with its locals, from the primary FIP.
BootBl2 ==
  /\ PowerOn
  /\ stage' = "start"
  /\ node' = 1
  /\ plat_setup_done' = FALSE
  /\ retried' = FALSE
  /\ failed_in' = "none"
  /\ fip' = "primary"
  /\ loaded' = [i \in Images |-> "none"]
  /\ setup_for' = "none"

LogBootStart ==
  /\ stage = "start"
  /\ idsm_log_event("BOOT_START")
  /\ stage' = "restart"
  /\ UNCHANGED <<node, plat_setup_done, retried, failed_in, fip, loaded, setup_for>>

\* Mutant: the retry goes on with the image that failed.
Restart_ResumesAtFailedImage ==
  /\ pc = "ready" /\ stage = "restart"
  /\ stage' = "image"
  /\ UNCHANGED <<logVars, node, plat_setup_done, retried, failed_in, fip, loaded, setup_for>>

\* the label restart: the list is walked from its head
Restart ==
  /\ pc = "ready" /\ stage = "restart"
  /\ node' = 1
  /\ stage' = "image"
  /\ UNCHANGED <<logVars, plat_setup_done, retried, failed_in, fip, loaded, setup_for>>

\* A check of the image at hand either leads on or to the failure path.
Check(name, next) ==
  \/ stage' = next /\ UNCHANGED failed_in
  \/ stage' = "failed" /\ failed_in' = name

\* Platform setup, if this image asks for it, and the pre-load handler
PreImageLoad ==
  /\ pc = "ready" /\ stage = "image" /\ node \in Images
  /\ IF node \in PlatSetup /\ ~plat_setup_done
     THEN plat_setup_done' = TRUE /\ setup_for' = fip
     ELSE UNCHANGED <<plat_setup_done, setup_for>>
  /\ Check("pre", "load")
  /\ UNCHANGED <<logVars, node, retried, fip, loaded>>

LoadAuthImage ==
  /\ pc = "ready" /\ stage = "load" /\ node \notin SkipLoading
  /\ Check("load", "post")
  /\ loaded' = IF stage' = "post" THEN [loaded EXCEPT ![node] = fip] ELSE loaded
  /\ UNCHANGED <<logVars, node, plat_setup_done, retried, fip, setup_for>>

SkipImage ==
  /\ pc = "ready" /\ stage = "load" /\ node \in SkipLoading
  /\ stage' = "post"
  /\ UNCHANGED <<logVars, node, plat_setup_done, retried, failed_in, fip, loaded, setup_for>>

PostImageLoad ==
  /\ pc = "ready" /\ stage = "post"
  /\ Check("post", "image")
  /\ node' = IF stage' = "image" THEN node + 1 ELSE node
  /\ UNCHANGED <<logVars, plat_setup_done, retried, fip, loaded, setup_for>>

\* Mutant: BL2 acts on the failure without logging it.
LogFailure_Silent ==
  /\ pc = "ready" /\ stage = "failed"
  /\ stage' = "decide"
  /\ UNCHANGED <<logVars, node, plat_setup_done, retried, failed_in, fip, loaded, setup_for>>

\* Whatever image and check failed, BL31_FAIL is logged.
LogFailure ==
  /\ stage = "failed"
  /\ idsm_log_event("BL31_FAIL")
  /\ stage' = "decide"
  /\ UNCHANGED <<node, plat_setup_done, retried, failed_in, fip, loaded, setup_for>>

\* plat_switch_to_secondary_fip() and another try
Retry(setup_done, remember, label) ==
  /\ pc = "ready" /\ stage = "decide" /\ ~retried
  /\ fip' = "secondary"
  /\ plat_setup_done' = setup_done
  /\ retried' = remember
  /\ stage' = label
  /\ UNCHANGED <<logVars, node, failed_in, loaded, setup_for>>

\* A failed post-load handler leaves plat_setup_done as it is.
SetupKept == plat_setup_done /\ failed_in = "post"

\* Mutants: setup is never repeated; the label is above the BOOT_START
\* event; the retry is not remembered.
Switch_KeepsSetup  == Retry(plat_setup_done, TRUE, "restart")
Switch_StartsAgain == Retry(SetupKept, TRUE, "start")
Switch_Forgets     == Retry(SetupKept, FALSE, "restart")

SwitchToSecondaryFip == Retry(SetupKept, TRUE, "restart")

\* plat_error_handler() does not return
PlatErrorHandler ==
  /\ pc = "ready" /\ stage = "decide" /\ retried
  /\ stage' = "panic"
  /\ UNCHANGED <<logVars, node, plat_setup_done, retried, failed_in, fip, loaded, setup_for>>

\* Mutant: off by one, the last image is not waited for.
LogBootOk_Early ==
  /\ stage = "image" /\ node >= NumImages
  /\ idsm_log_event("BOOT_OK")
  /\ stage' = "handover"
  /\ UNCHANGED <<node, plat_setup_done, retried, failed_in, fip, loaded, setup_for>>

LogBootOk ==
  /\ stage = "image" /\ node \notin Images
  /\ idsm_log_event("BOOT_OK")
  /\ stage' = "handover"
  /\ UNCHANGED <<node, plat_setup_done, retried, failed_in, fip, loaded, setup_for>>

HandOver ==
  /\ pc = "ready" /\ stage = "handover"
  /\ stage' = "returned"
  /\ UNCHANGED <<logVars, node, plat_setup_done, retried, failed_in, fip, loaded, setup_for>>

\* One step of the processor running BL2
Bl2Step ==
  \/ LogStep /\ UNCHANGED bl2Vars
  \/ LogBootStart
  \/ Restart
  \/ PreImageLoad
  \/ LoadAuthImage
  \/ SkipImage
  \/ PostImageLoad
  \/ LogFailure
  \/ SwitchToSecondaryFip
  \/ PlatErrorHandler
  \/ LogBootOk
  \/ HandOver

Next ==
  \/ BootBl2
  \/ PowerLoss /\ UNCHANGED bl2Vars
  \/ Bl2Step

Spec == Init /\ [][Next]_vars

\* The core keeps running while it has power; nothing makes power stay or return.
FairSpec == Spec /\ WF_vars(Bl2Step)

-----------------------------------------------------------------------------
(* Properties *)

Fips == {"primary", "secondary"}

Bl2TypeOK ==
  /\ TypeOK
  /\ stage \in {"start", "restart", "image", "load", "post", "failed", "decide",
                "panic", "handover", "returned"}
  /\ node \in 1 .. NumImages + 1
  /\ plat_setup_done \in BOOLEAN
  /\ retried \in BOOLEAN
  /\ failed_in \in {"none", "pre", "load", "post"}
  /\ fip \in Fips
  /\ loaded \in [Images -> Fips \cup {"none"}]
  /\ setup_for \in Fips \cup {"none"}

\* Every image of the list that is to be loaded was, from the FIP in use.
AllLoaded == \A i \in Images \ SkipLoading : loaded[i] = fip

(* BL2 hands over to images of one FIP only: a retry reloads the images     *)
(* that had already been loaded from the primary FIP.                       *)
HandoverFromOneFip == stage \in {"handover", "returned"} => AllLoaded

(* When an image at or behind the first one that asks for platform setup is *)
(* being loaded, setup has run since the FIP in use was chosen; only after  *)
(* a failed post-load handler may it date from the primary FIP.             *)
SetupBeforeLoad ==
  stage \in {"load", "post"} /\ (\E i \in PlatSetup : i <= node) =>
    \/ setup_for = fip
    \/ setup_for = "primary" /\ failed_in = "post"

\* Sector s holds an event of the current boot.
EventNow(s, event) == TellsEvent(s) /\ emmc[s].of.boot = boots /\ emmc[s].of.event = event

\* Passes over the list that have failed so far
Failures ==
  (IF retried THEN 1 ELSE 0) + (IF stage \in {"failed", "decide", "panic"} THEN 1 ELSE 0)

(* The log never runs ahead of the boot: BOOT_OK is on eMMC only if every   *)
(* image was loaded and nothing is left to fail, and the n-th failure only  *)
(* if n passes have failed.  Which image failed the log does not tell:      *)
(* BL31_FAIL is logged for every image, although idsm_event.h:114-117 has   *)
(* an event for each, so the property cannot and does not ask for it.       *)
OutcomeIsTrue ==
  \A s \in Sectors :
    /\ EventNow(s, "BOOT_OK") => AllLoaded /\ stage \in {"handover", "returned"}
    /\ EventNow(s, "BL31_FAIL") => emmc[s].of.n \in 1 .. Failures

(* What the events of one boot, this or an earlier one, say in the order    *)
(* they were logged: the first and only it is BOOT_START, BOOT_OK is the    *)
(* last, and a boot that failed twice has none.                             *)
BootStory ==
  \A s \in Sectors : TellsEvent(s) =>
    /\ (emmc[s].of.event = "BOOT_START") <=> (emmc[s].of.n = 0)
    /\ \A t \in Sectors :
         TellsEvent(t) /\ emmc[t].of.boot = emmc[s].of.boot /\ emmc[t].of.n > emmc[s].of.n =>
           /\ emmc[s].of.event # "BOOT_OK"
           /\ emmc[s].of.event = "BL31_FAIL" => emmc[s].of.n = 1

\* Passes over the list that failed and were dealt with
FailedPasses == IF stage = "panic" THEN 2 ELSE IF retried THEN 1 ELSE 0

(* A failure is logged before BL2 acts on it: once the secondary FIP is in  *)
(* use, or BL2 has stopped, idsm_log_event() has been called and has        *)
(* returned for each failure that led there, and the event can be read back *)
(* unless a service of the logger failed in that very call.                 *)
FailureLoggedBeforeAction ==
  pc # "off" => \A n \in 1 .. FailedPasses :
    \/ n \in lost
    \/ /\ n \in stored
       /\ Retrievable(n)
       /\ \E s \in Sectors : EventNow(s, "BL31_FAIL") /\ emmc[s].of.n = n

(* Every boot is decided: BL2 hands over or stops in plat_error_handler(),  *)
(* unless power is lost first; the retry happens once (retried).            *)
BootDecided == (stage = "start") ~> (stage \in {"returned", "panic"} \/ pc = "off")

=============================================================================
