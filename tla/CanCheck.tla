------------------------------ MODULE CanCheck ------------------------------
(***************************************************************************)
(* The two FreeRTOS tasks of the A53 demo that meet in xQueue: in every    *)
(* period Ipcf_Send_Task puts a value in (Ipcf_Rtos_Task.c), and           *)
(* Llce_Send_Task answers it with a CAN frame and checks that the frame    *)
(* comes back (Llce_Rtos_Task.c), waiting on counters that the CAN         *)
(* callbacks advance in interrupt context (CanIf_Cbk.c).                   *)
(*                                                                         *)
(* Abstractions:                                                           *)
(*  - A frame is the rotation of its payload; two rotations differ in      *)
(*    every byte, so the first byte compared decides.                      *)
(*  - The CAN driver and the bus (external) take a frame, confirm it and   *)
(*    bring it back, in order; they may be late or lose it (Faults).       *)
(*  - Llce_Send_Task has the higher priority and the scheduler is          *)
(*    preemptive: the other task runs only while it is blocked.            *)
(***************************************************************************)
EXTENDS Naturals, Sequences

CONSTANTS
  CAN_FD_FRAME_LEN,  \* bytes of a frame, so rotations of its payload (64)
  UINT32,            \* how many values a counter has
  mainQUEUE_LENGTH,  \* items xQueue can hold (1)
  Mailboxes,         \* frames the CAN driver handles at a time
  Faults             \* what the bus may do: "late", "lost"

ASSUME CanAssumption ==
  /\ CAN_FD_FRAME_LEN \in Nat \ {0}
  /\ UINT32 \in Nat \ {0, 1}
  /\ mainQUEUE_LENGTH \in Nat \ {0}
  /\ Mailboxes \in Nat \ {0} /\ Mailboxes < UINT32
  /\ Faults \subseteq {"late", "lost"}

Rotations == 0 .. CAN_FD_FRAME_LEN - 1
Count == 0 .. UINT32 - 1
NoFrame == CAN_FD_FRAME_LEN

Plus1(n) == (n + 1) % UINT32
Minus(m, n) == (m + UINT32 - n) % UINT32

VARIABLES
  xQueue,                                  \* number of items in the queue
  ipcf, llce,                              \* where the two tasks are
  sdu,                                     \* rotation of the payload to send next
  bus,                                     \* frames taken by the driver, not yet back
  unconfirmed,                             \* how many of them have no confirmation yet
  Can_RxData,                              \* payload received last
  Can_TxConfirmation, Can_RxIndication,    \* counters of the callbacks
  last_TxConfirmation, last_RxIndication,  \* counters of Check_Status
  status,                                  \* history: result of the last Check_Status
  lost,                                    \* history: frames that never came back
  disturbed                                \* history: the bus was late, busy or lost a frame

counters == <<Can_TxConfirmation, Can_RxIndication, last_TxConfirmation, last_RxIndication>>
vars == <<xQueue, ipcf, llce, sdu, bus, unconfirmed, Can_RxData, counters, status, lost, disturbed>>

Init ==
  /\ xQueue = 0
  /\ ipcf = "delay"
  /\ llce = "receive"
  /\ sdu = 0
  /\ bus = <<>>
  /\ unconfirmed = 0
  /\ Can_RxData = NoFrame
  /\ Can_TxConfirmation = 0
  /\ Can_RxIndication = 0
  /\ last_TxConfirmation = 0
  /\ last_RxIndication = 0
  /\ status = "none"
  /\ lost = 0
  /\ disturbed = FALSE

-----------------------------------------------------------------------------
(* Ipcf_Send_Task *)

\* Llce_Send_Task is blocked in xQueueReceive.
LowPriorityRuns == llce = "receive" /\ xQueue = 0

vTaskDelayUntil ==
  /\ ipcf = "delay" /\ LowPriorityRuns
  /\ ipcf' = "send"
  /\ UNCHANGED <<xQueue, llce, sdu, bus, unconfirmed, Can_RxData, counters, status, lost, disturbed>>

xQueueSend ==
  /\ ipcf = "send" /\ LowPriorityRuns
  /\ xQueue < mainQUEUE_LENGTH
  /\ xQueue' = xQueue + 1
  /\ ipcf' = "delay"
  /\ UNCHANGED <<llce, sdu, bus, unconfirmed, Can_RxData, counters, status, lost, disturbed>>

-----------------------------------------------------------------------------
(* Llce_Send_Task *)

\* Mutant: the value is looked at and left in the queue.
xQueueReceive_Peek ==
  /\ llce = "receive" /\ xQueue > 0
  /\ llce' = "write"
  /\ UNCHANGED <<xQueue, ipcf, sdu, bus, unconfirmed, Can_RxData, counters, status, lost, disturbed>>

xQueueReceive ==
  /\ llce = "receive" /\ xQueue > 0
  /\ xQueue' = xQueue - 1
  /\ llce' = "write"
  /\ UNCHANGED <<ipcf, sdu, bus, unconfirmed, Can_RxData, counters, status, lost, disturbed>>

\* A busy driver takes no frame, and the result is not looked at.
Can_43_LLCE_Write ==
  /\ llce = "write"
  /\ IF Len(bus) < Mailboxes /\ unconfirmed < Mailboxes
     THEN bus' = Append(bus, sdu) /\ unconfirmed' = unconfirmed + 1 /\ UNCHANGED <<lost, disturbed>>
     ELSE lost' = (lost + 1) % UINT32 /\ disturbed' = TRUE /\ UNCHANGED <<bus, unconfirmed>>
  /\ llce' = "wait"
  /\ UNCHANGED <<xQueue, ipcf, sdu, Can_RxData, counters, status>>

\* The condition of the wait loop of Check_Status, on unsigned counters
Arrived ==
  /\ Minus(Can_TxConfirmation, last_TxConfirmation) >= 1
  /\ Minus(Can_RxIndication, last_RxIndication) >= 1

\* Mutant: the confirmation alone ends the wait.
WaitArrived_TxOnly ==
  /\ llce = "wait" /\ Minus(Can_TxConfirmation, last_TxConfirmation) >= 1
  /\ llce' = "compare"
  /\ UNCHANGED <<xQueue, ipcf, sdu, bus, unconfirmed, Can_RxData, counters, status, lost, disturbed>>

WaitArrived ==
  /\ llce = "wait" /\ Arrived
  /\ llce' = "compare"
  /\ UNCHANGED <<xQueue, ipcf, sdu, bus, unconfirmed, Can_RxData, counters, status, lost, disturbed>>

\* TP_TIMEOUT is long enough for a bus without faults.
WaitTimeout ==
  /\ llce = "wait" /\ ~Arrived /\ Faults # {}
  /\ llce' = "compare"
  /\ disturbed' = TRUE
  /\ UNCHANGED <<xQueue, ipcf, sdu, bus, unconfirmed, Can_RxData, counters, status, lost>>

\* The rest of Check_Status, with last_RxIndication left at rx
Check(rx) ==
  /\ llce = "compare"
  /\ status' = IF Can_RxData = sdu THEN "E_OK" ELSE "E_NOT_OK"
  /\ last_RxIndication' = rx
  /\ last_TxConfirmation' = Plus1(last_TxConfirmation)
  /\ sdu' = (sdu + 1) % CAN_FD_FRAME_LEN
  /\ llce' = "receive"
  /\ UNCHANGED <<xQueue, ipcf, bus, unconfirmed, Can_RxData,
                 Can_TxConfirmation, Can_RxIndication, lost, disturbed>>

\* Mutant: the counters are left alone after a timeout.
Check_Status_OnlyArrived ==
  Check(IF Arrived THEN Plus1(last_RxIndication) ELSE last_RxIndication)

Check_Status == Check(Plus1(last_RxIndication))

-----------------------------------------------------------------------------
(* Interrupts of the CAN driver *)

CanIf_TxConfirmation ==
  /\ unconfirmed > 0
  /\ Can_TxConfirmation' = Plus1(Can_TxConfirmation)
  /\ unconfirmed' = unconfirmed - 1
  /\ UNCHANGED <<xQueue, ipcf, llce, sdu, bus, Can_RxData, Can_RxIndication,
                 last_TxConfirmation, last_RxIndication, status, lost, disturbed>>

\* A frame comes back once it was sent, before or after its confirmation.
CanIf_RxIndication ==
  /\ bus # <<>>
  /\ Can_RxData' = Head(bus)
  /\ Can_RxIndication' = Plus1(Can_RxIndication)
  /\ bus' = Tail(bus)
  /\ UNCHANGED <<xQueue, ipcf, llce, sdu, unconfirmed, Can_TxConfirmation,
                 last_TxConfirmation, last_RxIndication, status, lost, disturbed>>

\* A frame is lost after it was sent.
FrameLost ==
  /\ "lost" \in Faults /\ bus # <<>>
  /\ bus' = Tail(bus)
  /\ lost' = (lost + 1) % UINT32
  /\ disturbed' = TRUE
  /\ UNCHANGED <<xQueue, ipcf, llce, sdu, unconfirmed, Can_RxData, counters, status>>

IpcfStep == vTaskDelayUntil \/ xQueueSend

LlceStep ==
  \/ xQueueReceive
  \/ Can_43_LLCE_Write
  \/ WaitArrived
  \/ WaitTimeout
  \/ Check_Status

Interrupt == CanIf_TxConfirmation \/ CanIf_RxIndication

Next == IpcfStep \/ LlceStep \/ Interrupt \/ FrameLost

Spec == Init /\ [][Next]_vars

(* The scheduler runs both tasks, the period passes, and a frame that is    *)
(* not lost comes back.                                                     *)
FairSpec ==
  /\ Spec
  /\ WF_vars(IpcfStep)
  /\ WF_vars(LlceStep)
  /\ WF_vars(CanIf_TxConfirmation)
  /\ WF_vars(CanIf_RxIndication)

-----------------------------------------------------------------------------
(* Properties *)

(* As long as the bus delivers in time every check finds the frame it sent: *)
(* neither the counters, which wrap, nor the rotated payload ever get out   *)
(* of step (Check_Status, Circular_Permutation).                            *)
CheckedOk == ~disturbed => status # "E_NOT_OK"

(* Check_Status counts one frame for each call, so its counter is ahead of  *)
(* the interrupts' by the frames on the bus and those lost for good.        *)
FramesAccounted ==
  (last_RxIndication + IF llce \in {"wait", "compare"} THEN 1 ELSE 0) % UINT32 =
    (Can_RxIndication + Len(bus) + lost) % UINT32

(* Whatever the bus does the task goes on: each check comes to an end, by   *)
(* TP_TIMEOUT if need be, and the next value is taken from the queue.       *)
KeepsChecking == []<>(llce = "compare") /\ []<>(ipcf = "send")

=============================================================================
