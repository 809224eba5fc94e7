------------------------------ MODULE CanProofs ------------------------------
(***************************************************************************)
(* Proofs about CanCheck, for every width of the counters, length of a     *)
(* frame, number of mailboxes and set of faults of the bus.                *)
(***************************************************************************)
EXTENDS CanCheck, Integers, TLAPS

Frames == 0 .. CAN_FD_FRAME_LEN

CanTypes ==
  /\ xQueue \in 0 .. mainQUEUE_LENGTH
  /\ ipcf \in {"delay", "send"}
  /\ llce \in {"receive", "write", "wait", "compare"}
  /\ sdu \in Rotations
  /\ bus \in Seq(Rotations) /\ Len(bus) <= Mailboxes
  /\ unconfirmed \in 0 .. Mailboxes
  /\ Can_RxData \in Frames
  /\ Can_TxConfirmation \in Count /\ Can_RxIndication \in Count
  /\ last_TxConfirmation \in Count /\ last_RxIndication \in Count
  /\ status \in {"none", "E_OK", "E_NOT_OK"}
  /\ lost \in Count
  /\ disturbed \in BOOLEAN

(* A call of Check_Status is under way. *)
Calling == llce \in {"wait", "compare"}

(* The frame of an undisturbed call comes back and is confirmed, in either  *)
(* order.                                                                   *)
OnBus == bus = <<sdu>> /\ Can_RxIndication = last_RxIndication
Back == bus = <<>> /\ Can_RxIndication = Plus1(last_RxIndication) /\ Can_RxData = sdu
Unconfirmed == unconfirmed = 1 /\ Can_TxConfirmation = last_TxConfirmation
Confirmed == unconfirmed = 0 /\ Can_TxConfirmation = Plus1(last_TxConfirmation)

(* What holds as long as the bus has done no wrong: nothing is on the bus   *)
(* between two calls, during a call nothing but the frame it sent, and a    *)
(* call that compares has seen both callbacks.                              *)
CalmInv ==
  ~disturbed =>
    /\ lost = 0
    /\ status # "E_NOT_OK"
    /\ llce \in {"receive", "write"} =>
         /\ bus = <<>> /\ Can_RxIndication = last_RxIndication
         /\ unconfirmed = 0 /\ Can_TxConfirmation = last_TxConfirmation
    /\ llce = "wait" => (OnBus \/ Back) /\ (Unconfirmed \/ Confirmed)
    /\ llce = "compare" => Back /\ Confirmed

CanInv == CanTypes /\ FramesAccounted /\ CalmInv

-----------------------------------------------------------------------------
(* Counters *)

LEMMA Sizes ==
  /\ UINT32 \in Nat /\ UINT32 > 1 /\ Count = 0 .. UINT32 - 1
  /\ CAN_FD_FRAME_LEN \in Nat /\ CAN_FD_FRAME_LEN > 0
  /\ Mailboxes \in Nat /\ Mailboxes > 0
  /\ mainQUEUE_LENGTH \in Nat /\ mainQUEUE_LENGTH > 0
BY CanAssumption DEF Count

(* The remainder is the only representative of its class.                   *)
LEMMA Remainder ==
  ASSUME NEW w \in Nat, w > 0, NEW m \in Int, NEW q \in Int, NEW r \in 0 .. w - 1, m = (w * q) + r
  PROVE  m % w = r
<1> DEFINE d == (m \div w) - q
<1>1. d \in Int /\ m = (w * (m \div w)) + (m % w) /\ m % w \in 0 .. w - 1
  OBVIOUS
<1>2. r - (m % w) = w * d
  BY <1>1
<1>3. CASE d >= 1
  BY <1>1, <1>2, <1>3
<1>4. CASE d <= -1
  BY <1>1, <1>2, <1>4
<1>5. CASE d = 0
  BY <1>1, <1>2, <1>5
<1>6. QED
  BY <1>1, <1>3, <1>4, <1>5

Wrap(n) == n % UINT32

(* A sum may be reduced before the last summand is added.                   *)
LEMMA ReduceFirst ==
  ASSUME NEW a \in Int, NEW b \in Int
  PROVE  Wrap(a) \in Int /\ Wrap(Wrap(a) + b) = Wrap(a + b)
<1> DEFINE q == ((a + b) \div UINT32) - (a \div UINT32)
           r == (a + b) % UINT32
           m == (a % UINT32) + b
<1>1. UINT32 \in Nat /\ UINT32 > 0
  BY Sizes
<1>2. /\ a = (UINT32 * (a \div UINT32)) + (a % UINT32)
      /\ a + b = (UINT32 * ((a + b) \div UINT32)) + r
      /\ a \div UINT32 \in Int /\ (a + b) \div UINT32 \in Int /\ r \in 0 .. UINT32 - 1
  BY <1>1
<1>3. q \in Int /\ m \in Int /\ m = (UINT32 * q) + r
  BY <1>1, <1>2
<1>4. m % UINT32 = r
  <2> HIDE DEF m, q, r
  <2>1. r \in 0 .. UINT32 - 1
    BY <1>2 DEF r
  <2>2. QED
    BY <1>1, <1>3, <2>1, Remainder
<1>5. a % UINT32 \in Int
  BY <1>1
<1>6. QED
  BY <1>4, <1>5 DEF Wrap

(* The next value of a counter, and how far two counters are apart that are *)
(* equal or next to each other.                                             *)
LEMMA CounterStep ==
  ASSUME NEW n \in Count
  PROVE  /\ Plus1(n) \in Count /\ Minus(n, n) = 0 /\ Minus(Plus1(n), n) = 1
         /\ Plus1(n) # n
<1>1. UINT32 \in Nat /\ UINT32 > 1 /\ n \in 0 .. UINT32 - 1
  BY Sizes
<1>2. Plus1(n) = IF n = UINT32 - 1 THEN 0 ELSE n + 1
  <2>1. CASE n = UINT32 - 1
    <3>1. n + 1 = (UINT32 * 1) + 0 /\ 0 \in 0 .. UINT32 - 1 /\ n + 1 \in Int
      BY <1>1, <2>1
    <3>2. QED
      BY <1>1, <2>1, <3>1, Remainder DEF Plus1
  <2>2. CASE n # UINT32 - 1
    <3>1. n + 1 = (UINT32 * 0) + (n + 1) /\ n + 1 \in 0 .. UINT32 - 1 /\ n + 1 \in Int
      BY <1>1, <2>2
    <3>2. QED
      BY <1>1, <2>2, <3>1, Remainder DEF Plus1
  <2>3. QED
    BY <2>1, <2>2
<1>3. Minus(n, n) = 0
  <2>1. n + UINT32 - n = (UINT32 * 1) + 0 /\ 0 \in 0 .. UINT32 - 1 /\ n + UINT32 - n \in Int
    BY <1>1
  <2>2. QED
    BY <1>1, <2>1, Remainder DEF Minus
<1>4. Minus(Plus1(n), n) = 1
  <2> DEFINE m == Plus1(n) + UINT32 - n
             q == IF n = UINT32 - 1 THEN 0 ELSE 1
  <2>1. m = (UINT32 * q) + 1 /\ 1 \in 0 .. UINT32 - 1 /\ m \in Int /\ q \in Int
    <3>1. CASE n = UINT32 - 1
      BY <1>1, <1>2, <3>1
    <3>2. CASE n # UINT32 - 1
      BY <1>1, <1>2, <3>2
    <3>3. QED
      BY <3>1, <3>2
  <2>2. m % UINT32 = 1
    <3> HIDE DEF m, q
    <3>1. QED
      BY <1>1, <2>1, Remainder
  <2>3. QED
    BY <2>2 DEF Minus
<1>5. Plus1(n) \in 0 .. UINT32 - 1 /\ Plus1(n) # n
  BY <1>1, <1>2
<1>6. QED
  BY <1>3, <1>4, <1>5, Sizes

-----------------------------------------------------------------------------
(* Types *)

LEMMA CanTypesStep == ASSUME CanTypes, [Next]_vars PROVE CanTypes'
<1>0. /\ UINT32 \in Nat /\ UINT32 > 1 /\ Count = 0 .. UINT32 - 1
      /\ Mailboxes \in Nat /\ Mailboxes > 0 /\ mainQUEUE_LENGTH \in Nat
      /\ Rotations = 0 .. CAN_FD_FRAME_LEN - 1 /\ CAN_FD_FRAME_LEN \in Nat /\ CAN_FD_FRAME_LEN > 0
  BY Sizes DEF Rotations
<1>1. \A n \in Count : Plus1(n) \in Count
  BY CounterStep
<1>2. CASE IpcfStep
  BY <1>0, <1>2 DEF IpcfStep, vTaskDelayUntil, xQueueSend, LowPriorityRuns, counters, CanTypes
<1>3. CASE xQueueReceive
  BY <1>0, <1>3 DEF xQueueReceive, counters, CanTypes
<1>4. CASE Can_43_LLCE_Write
  <2>1. (lost + 1) % UINT32 \in Count
    BY <1>1 DEF CanTypes, Plus1
  <2>2. bus' \in Seq(Rotations) /\ Len(bus') <= Mailboxes
    <3>1. CASE bus' = Append(bus, sdu) /\ Len(bus) < Mailboxes
      BY <1>0, <3>1 DEF CanTypes
    <3>2. CASE bus' = bus
      BY <3>2 DEF CanTypes
    <3>3. QED
      BY <1>4, <3>1, <3>2 DEF Can_43_LLCE_Write
  <2>3. unconfirmed' \in 0 .. Mailboxes
    BY <1>0, <1>4 DEF Can_43_LLCE_Write, CanTypes
  <2>4. QED
    BY <1>4, <2>1, <2>2, <2>3 DEF Can_43_LLCE_Write, counters, CanTypes
<1>5. CASE WaitArrived \/ WaitTimeout
  BY <1>5 DEF WaitArrived, WaitTimeout, counters, CanTypes
<1>6. CASE Check_Status
  <2>1. (sdu + 1) % CAN_FD_FRAME_LEN \in Rotations
    BY <1>0 DEF CanTypes
  <2>2. QED
    BY <1>1, <1>6, <2>1 DEF Check_Status, Check, CanTypes
<1>7. CASE CanIf_TxConfirmation
  BY <1>0, <1>1, <1>7 DEF CanIf_TxConfirmation, CanTypes
<1>8. ASSUME bus # <<>> PROVE Head(bus) \in Rotations /\ Tail(bus) \in Seq(Rotations) /\ Len(Tail(bus)) <= Mailboxes
  BY <1>0, <1>8 DEF CanTypes
<1>9. CASE CanIf_RxIndication
  <2>1. Rotations \subseteq Frames
    BY <1>0 DEF Frames
  <2>2. QED
    BY <1>1, <1>8, <1>9, <2>1 DEF CanIf_RxIndication, CanTypes
<1>10. CASE FrameLost
  <2>1. (lost + 1) % UINT32 \in Count
    BY <1>1 DEF CanTypes, Plus1
  <2>2. QED
    BY <1>8, <1>10, <2>1 DEF FrameLost, counters, CanTypes
<1>11. CASE UNCHANGED vars
  BY <1>11 DEF vars, counters, CanTypes
<1>12. QED
  BY <1>2, <1>3, <1>4, <1>5, <1>6, <1>7, <1>9, <1>10, <1>11 DEF Next, LlceStep, Interrupt

-----------------------------------------------------------------------------
(* Accounting *)

(* Both sides of FramesAccounted before they are reduced *)
Expected == last_RxIndication + (IF Calling THEN 1 ELSE 0)
Found == Can_RxIndication + Len(bus) + lost

Balance == Wrap(Expected) = Wrap(Found)

LEMMA Accounts ==
  ASSUME CanTypes
  PROVE  /\ Expected \in Int /\ Found \in Int
         /\ FramesAccounted <=> Balance
BY Sizes DEF Balance, Wrap, CanTypes, Expected, Found, Calling, FramesAccounted

LEMMA AccountsNext ==
  CanTypes' => (FramesAccounted' <=> Balance')
<1>1. CanTypes => (FramesAccounted <=> Balance)
  BY Accounts
<1>2. QED
  BY <1>1, PTL

LEMMA AccountsStep ==
  ASSUME CanTypes, FramesAccounted, [Next]_vars
  PROVE  FramesAccounted'
<1>0. /\ CanTypes' /\ UINT32 \in Nat /\ UINT32 > 1
      /\ Expected \in Int /\ Found \in Int /\ Wrap(Expected) = Wrap(Found)
      /\ last_RxIndication \in Int /\ Can_RxIndication \in Int /\ lost \in Int /\ Len(bus) \in Int
  BY CanTypesStep, Accounts, Sizes DEF CanTypes, Balance
<1>1. ASSUME Wrap(Expected') = Wrap(Expected), Wrap(Found') = Wrap(Found)
      PROVE  FramesAccounted'
  BY <1>0, <1>1, AccountsNext DEF Balance
<1>2. Wrap(Expected + 1) = Wrap(Found + 1)
  <2>1. /\ Wrap(Wrap(Expected) + 1) = Wrap(Expected + 1)
        /\ Wrap(Wrap(Found) + 1) = Wrap(Found + 1)
    <3>1. Expected \in Int /\ Found \in Int /\ 1 \in Int
      BY <1>0
    <3>2. QED
      BY <3>1, ReduceFirst, Zenon
  <2>2. QED
    BY <1>0, <2>1
<1>3. Wrap(Wrap(lost + 1) + (Can_RxIndication + Len(bus))) = Wrap(Found + 1)
  <2>1. (lost + 1) + (Can_RxIndication + Len(bus)) = Found + 1
    BY <1>0 DEF Found
  <2>2. QED
    BY <1>0, <2>1, ReduceFirst
<1>4. CASE Can_43_LLCE_Write
  <2>1. Expected' = Expected + 1
    BY <1>0, <1>4 DEF Can_43_LLCE_Write, Expected, Calling, counters
  <2>2. CASE bus' = Append(bus, sdu) /\ lost' = lost
    <3>1. Len(bus') = Len(bus) + 1
      BY <2>2 DEF CanTypes
    <3>2. Found' = Found + 1
      BY <1>0, <1>4, <2>2, <3>1 DEF Can_43_LLCE_Write, Found, counters
    <3>3. QED
      BY <1>0, <1>2, <2>1, <3>2, AccountsNext DEF Balance
  <2>3. CASE bus' = bus /\ lost' = Wrap(lost + 1)
    <3>1. Wrap(Found') = Wrap(Found + 1)
      <4>1. Found' = Wrap(lost + 1) + (Can_RxIndication + Len(bus))
        BY <1>0, <1>4, <2>3 DEF Can_43_LLCE_Write, Found, counters
      <4>2. QED
        BY <1>3, <4>1
    <3>2. QED
      BY <1>0, <1>2, <2>1, <3>1, AccountsNext DEF Balance
  <2>4. QED
    BY <1>4, <2>2, <2>3 DEF Can_43_LLCE_Write, Wrap
<1>5. CASE Check_Status
  <2>1. Expected' = Wrap(last_RxIndication + 1) /\ Expected = last_RxIndication + 1 /\ Found' = Found
    BY <1>0, <1>5 DEF Check_Status, Check, Expected, Calling, Found, CanTypes, Plus1, Wrap
  <2>2. Wrap(Wrap(last_RxIndication + 1) + 0) = Wrap((last_RxIndication + 1) + 0)
    BY <1>0, ReduceFirst
  <2>3. Wrap(last_RxIndication + 1) \in Int
    BY <1>0, ReduceFirst
  <2>4. Wrap(Expected') = Wrap(Expected)
    BY <1>0, <2>1, <2>2, <2>3
  <2>5. QED
    BY <1>1, <2>1, <2>4
<1>6. ASSUME bus # <<>> PROVE Len(Tail(bus)) = Len(bus) - 1
  BY <1>6 DEF CanTypes
<1>7. CASE CanIf_RxIndication
  <2>1. Expected' = Expected /\ Found' = Wrap(Can_RxIndication + 1) + (Len(bus) - 1 + lost)
    BY <1>0, <1>6, <1>7 DEF CanIf_RxIndication, Expected, Calling, Found, Plus1, Wrap
  <2>2. (Can_RxIndication + 1) + (Len(bus) - 1 + lost) = Found
    BY <1>0 DEF Found
  <2>3. Wrap(Wrap(Can_RxIndication + 1) + (Len(bus) - 1 + lost)) = Wrap(Found)
    <3>1. Can_RxIndication + 1 \in Int /\ Len(bus) - 1 + lost \in Int
      BY <1>0
    <3>2. QED
      BY <2>2, <3>1, ReduceFirst, Zenon
  <2>4. QED
    BY <1>1, <2>1, <2>3
<1>8. CASE FrameLost
  <2>1. Expected' = Expected /\ Found' = Wrap(lost + 1) + (Can_RxIndication + (Len(bus) - 1))
    BY <1>0, <1>6, <1>8 DEF FrameLost, Expected, Calling, Found, counters, Wrap
  <2>2. (lost + 1) + (Can_RxIndication + (Len(bus) - 1)) = Found
    BY <1>0 DEF Found
  <2>3. Wrap(Wrap(lost + 1) + (Can_RxIndication + (Len(bus) - 1))) = Wrap(Found)
    <3>1. lost + 1 \in Int /\ Can_RxIndication + (Len(bus) - 1) \in Int
      BY <1>0
    <3>2. QED
      BY <2>2, <3>1, ReduceFirst, Zenon
  <2>4. QED
    BY <1>1, <2>1, <2>3
<1>9. CASE IpcfStep \/ xQueueReceive \/ WaitArrived \/ WaitTimeout \/ CanIf_TxConfirmation \/ UNCHANGED vars
  <2>1. /\ last_RxIndication' = last_RxIndication /\ Can_RxIndication' = Can_RxIndication
        /\ bus' = bus /\ lost' = lost /\ (Calling' <=> Calling)
    BY <1>9 DEF IpcfStep, vTaskDelayUntil, xQueueSend, xQueueReceive, WaitArrived, WaitTimeout,
                CanIf_TxConfirmation, vars, counters, Calling
  <2>2. Expected' = Expected /\ Found' = Found
    BY <2>1 DEF Expected, Found
  <2>3. QED
    BY <1>1, <2>2
<1>10. QED
  BY <1>4, <1>5, <1>7, <1>8, <1>9 DEF Next, LlceStep, Interrupt

-----------------------------------------------------------------------------
(* A bus without faults *)

LEMMA CalmStep ==
  ASSUME CanTypes, CalmInv, [Next]_vars
  PROVE  CalmInv'
<1> SUFFICES ASSUME ~disturbed' PROVE CalmInv'
  BY DEF CalmInv
<1>0. /\ Mailboxes \in Nat /\ Mailboxes > 0
      /\ last_RxIndication \in Count /\ last_TxConfirmation \in Count
      /\ bus \in Seq(Rotations) /\ unconfirmed \in 0 .. Mailboxes /\ sdu \in Rotations
      /\ llce \in {"receive", "write", "wait", "compare"}
  BY Sizes DEF CanTypes
<1>1. ~disturbed
  BY DEF Next, IpcfStep, LlceStep, Interrupt, vTaskDelayUntil, xQueueSend, xQueueReceive,
         Can_43_LLCE_Write, WaitArrived, WaitTimeout, Check_Status, Check,
         CanIf_TxConfirmation, CanIf_RxIndication, FrameLost, vars, CanTypes
<1>2. CASE IpcfStep \/ xQueueReceive \/ UNCHANGED vars
  BY <1>1, <1>2 DEF IpcfStep, vTaskDelayUntil, xQueueSend, LowPriorityRuns, xQueueReceive, vars,
                    counters, CalmInv, OnBus, Back, Unconfirmed, Confirmed
<1>3. CASE Can_43_LLCE_Write
  <2>1. /\ bus = <<>> /\ Can_RxIndication = last_RxIndication /\ lost = 0 /\ status # "E_NOT_OK"
        /\ unconfirmed = 0 /\ Can_TxConfirmation = last_TxConfirmation
    BY <1>1, <1>3 DEF Can_43_LLCE_Write, CalmInv
  <2>2. Len(bus) = 0 /\ Append(bus, sdu) = <<sdu>>
    BY <1>0, <2>1
  <2>3. /\ bus' = <<sdu>> /\ unconfirmed' = 1 /\ lost' = 0 /\ llce' = "wait"
        /\ counters' = counters /\ status' = status /\ sdu' = sdu
    BY <1>0, <1>3, <2>1, <2>2 DEF Can_43_LLCE_Write
  <2>4. QED
    BY <2>1, <2>3 DEF CalmInv, counters, OnBus, Unconfirmed
<1>4. CASE WaitArrived
  <2>1. (OnBus \/ Back) /\ (Unconfirmed \/ Confirmed)
    BY <1>1, <1>4 DEF WaitArrived, CalmInv
  <2>2. ~OnBus /\ ~Unconfirmed
    BY <1>0, <1>4, CounterStep DEF WaitArrived, Arrived, OnBus, Unconfirmed
  <2>3. QED
    BY <1>1, <1>4, <2>1, <2>2 DEF WaitArrived, counters, CalmInv, Back, Confirmed
<1>5. CASE WaitTimeout
  BY <1>5 DEF WaitTimeout
<1>6. CASE Check_Status
  <2>1. Back /\ Confirmed /\ lost = 0
    BY <1>1, <1>6 DEF Check_Status, Check, CalmInv
  <2>2. QED
    BY <1>6, <2>1 DEF Check_Status, Check, CalmInv, Back, Confirmed
<1>7. CASE CanIf_TxConfirmation
  <2>1. llce = "wait" /\ Unconfirmed /\ (OnBus \/ Back) /\ lost = 0 /\ status # "E_NOT_OK"
    BY <1>0, <1>1, <1>7 DEF CanIf_TxConfirmation, CalmInv, Unconfirmed, Confirmed
  <2>2. QED
    BY <1>7, <2>1 DEF CanIf_TxConfirmation, CalmInv, OnBus, Back, Unconfirmed, Confirmed
<1>8. CASE CanIf_RxIndication
  <2>1. llce = "wait" /\ OnBus /\ (Unconfirmed \/ Confirmed) /\ lost = 0 /\ status # "E_NOT_OK"
    BY <1>0, <1>1, <1>8 DEF CanIf_RxIndication, CalmInv, OnBus, Back
  <2>2. Head(bus) = sdu /\ Tail(bus) = <<>>
    BY <1>0, <2>1 DEF OnBus
  <2>3. QED
    BY <1>8, <2>1, <2>2 DEF CanIf_RxIndication, CalmInv, OnBus, Back, Unconfirmed, Confirmed
<1>9. CASE FrameLost
  BY <1>9 DEF FrameLost
<1>10. QED
  BY <1>2, <1>3, <1>4, <1>5, <1>6, <1>7, <1>8, <1>9 DEF Next, LlceStep, Interrupt

-----------------------------------------------------------------------------
(* Results *)

LEMMA CanInit == Init => CanInv
<1> SUFFICES ASSUME Init PROVE CanInv
  OBVIOUS
<1>1. CanTypes
  <2>1. bus \in Seq(Rotations) /\ Len(bus) <= Mailboxes
    BY Sizes DEF Init
  <2>2. 0 \in Count /\ 0 \in Rotations /\ NoFrame \in Frames /\ 0 \in 0 .. mainQUEUE_LENGTH /\ 0 \in 0 .. Mailboxes
    BY Sizes DEF Rotations, NoFrame, Frames
  <2>3. QED
    BY <2>1, <2>2 DEF Init, CanTypes
<1>2. Expected = 0 /\ Found = 0
  BY DEF Init, Expected, Calling, Found
<1>3. FramesAccounted
  BY <1>1, <1>2, Accounts DEF Balance
<1>4. CalmInv
  BY DEF Init, CalmInv
<1>5. QED
  BY <1>1, <1>3, <1>4 DEF CanInv

(* The invariant holds in every state. *)
THEOREM CanInvariant == Spec => []CanInv
<1>1. CanInv /\ [Next]_vars => CanInv'
  BY CanTypesStep, AccountsStep, CalmStep DEF CanInv
<1>2. QED
  BY CanInit, <1>1, PTL DEF Spec

(* Check_Status is one ahead of the callbacks for each frame that is on the *)
(* bus or lost, whatever the bus does and however the counters wrap.        *)
THEOREM EveryFrameAccounted == Spec => []FramesAccounted
<1>1. CanInv => FramesAccounted
  BY DEF CanInv
<1>2. QED
  BY <1>1, CanInvariant, PTL

(* As long as the bus delivers in time Check_Status finds its frame.        *)
THEOREM CheckFindsItsFrame == Spec => []CheckedOk
<1>1. CanInv => CheckedOk
  BY DEF CanInv, CalmInv, CheckedOk
<1>2. QED
  BY <1>1, CanInvariant, PTL
==============================================================================
