------------------------------- MODULE IpcDemo -------------------------------
(***************************************************************************)
(* The shared-memory IPC demo between the A53 (Ipcf_Rtos_Task.c), whose    *)
(* FreeRTOS task sends a numbered message in every period, and the M7_0    *)
(* (ipc_shm_m7_0.c), whose main loop echoes it.  Both cores share the text *)
(* of the receive callbacks, which the IPCF driver calls in interrupt      *)
(* context: they run between any two steps of the main code of their core. *)
(*                                                                         *)
(* Abstractions:                                                           *)
(*  - A message is its number; both cores start with the driver set up.    *)
(*  - The driver (external) keeps each channel in order and no order       *)
(*    between channels; a buffer belongs to the channel it was acquired    *)
(*    for, and sending it on another one is an error.                      *)
(*  - last_rx_no_msg is only used inside the callback.  The fixed texts    *)
(*    and lengths the callbacks check are those the senders write.         *)
(***************************************************************************)
EXTENDS Naturals, Sequences

CONSTANTS
  SAMPLE_NUM_MSGS,  \* messages the A53 announces (100)
  UINT16, UINT8,    \* how many values a counter and the semaphore have
  Bufs,             \* buffers of each data channel and direction
  Pace              \* what is known of the timing, see below

(* "period": the next message is sent only when all traffic of the last one *)
(* has been handled, as 200 ms between messages suggest.  "prompt": the A53 *)
(* ends its round before the answer to its message interrupts it.           *)
ASSUME IpcAssumption ==
  /\ UINT16 \in Nat /\ UINT16 % 2 = 0
  /\ SAMPLE_NUM_MSGS \in 1 .. UINT16 - 1 /\ SAMPLE_NUM_MSGS % 2 = 0
  /\ UINT8 \in Nat \ {0, 1}
  /\ Bufs \in Nat \ {0}
  /\ Pace \subseteq {"period", "prompt"}

Cores == {"A53", "M7_0"}
Peer(core) == IF core = "A53" THEN "M7_0" ELSE "A53"
Channels == {1, 2}
Count == 0 .. UINT16 - 1
None == UINT16

VARIABLES
  app,    \* struct ipc_sample_app of each core
  sem,    \* shm_event_rx of each core
  pc,     \* where the main code of each core is
  work,   \* its locals: pool and number of the buffer in hand, value being updated
  data,   \* messages on their way to a core, by channel
  ctrl,   \* the control message on its way to a core, or None
  free    \* buffers a core can acquire, by channel

vars == <<app, sem, pc, work, data, ctrl, free>>

Init ==
  /\ app = [c \in Cores |-> [rx_count |-> 0, tx_count |-> 0, expected_msgs |-> 0, last_rx_ch |-> 0]]
  /\ sem = [c \in Cores |-> 0]
  /\ pc = [c \in Cores |-> IF c = "A53" THEN "send_ctrl" ELSE "take"]
  /\ work = [c \in Cores |-> [ch |-> 0, no |-> 0, val |-> 0]]
  /\ data = [c \in Cores |-> [ch \in Channels |-> <<>>]]
  /\ ctrl = [c \in Cores |-> None]
  /\ free = [c \in Cores |-> [ch \in Channels |-> Bufs]]

Goto(core, label) == pc' = [pc EXCEPT ![core] = label]

\* The channel on which a message of that number goes
ChannelOf(no) == (no % 2) + 1

-----------------------------------------------------------------------------
(* Receive callbacks: interrupts of either core *)

\* handle_error() in a callback never returns from the interrupt.
Interruptible(core) ==
  /\ pc[core] # "isr_error"
  /\ core = "A53" /\ "prompt" \in Pace => pc[core] = "delay"

\* The message has arrived in sync: count it, remember its channel, give.
Received(core, ch) ==
  /\ app' = [app EXCEPT ![core].last_rx_ch = ch,
                        ![core].rx_count = (@ + 1) % UINT16]
  /\ sem' = [sem EXCEPT ![core] = (@ + 1) % UINT8]

\* Mutant: the buffer is not released.
data_chan_rx_cb_KeepsBuffer(core, ch) ==
  /\ data[core][ch] # <<>> /\ Interruptible(core)
  /\ IF ch = ChannelOf(Head(data[core][ch]))
     THEN /\ Received(core, ch)
          /\ data' = [data EXCEPT ![core][ch] = Tail(@)]
          /\ UNCHANGED <<pc, free>>
     ELSE Goto(core, "isr_error") /\ UNCHANGED <<app, sem, data, free>>
  /\ UNCHANGED <<work, ctrl>>

\* Mutant: the count is not advanced.
data_chan_rx_cb_NoCount(core, ch) ==
  /\ data[core][ch] # <<>> /\ Interruptible(core)
  /\ IF ch = ChannelOf(Head(data[core][ch]))
     THEN /\ app' = [app EXCEPT ![core].last_rx_ch = ch]
          /\ sem' = [sem EXCEPT ![core] = (@ + 1) % UINT8]
          /\ free' = [free EXCEPT ![Peer(core)][ch] = @ + 1]
          /\ data' = [data EXCEPT ![core][ch] = Tail(@)]
          /\ UNCHANGED pc
     ELSE Goto(core, "isr_error") /\ UNCHANGED <<app, sem, data, free>>
  /\ UNCHANGED <<work, ctrl>>

data_chan_rx_cb(core, ch) ==
  /\ data[core][ch] # <<>> /\ Interruptible(core)
  /\ IF ch = ChannelOf(Head(data[core][ch]))
     THEN /\ Received(core, ch)
          /\ free' = [free EXCEPT ![Peer(core)][ch] = @ + 1]
          /\ data' = [data EXCEPT ![core][ch] = Tail(@)]
          /\ UNCHANGED pc
     ELSE Goto(core, "isr_error") /\ UNCHANGED <<app, sem, data, free>>
  /\ UNCHANGED <<work, ctrl>>

\* Mutant: the messages are counted from one after the first round.
ctrl_chan_rx_cb_FromOne(core) ==
  /\ ctrl[core] # None /\ Interruptible(core)
  /\ app' = [app EXCEPT ![core].expected_msgs = ctrl[core],
                        ![core].rx_count = 0,
                        ![core].tx_count = IF core = "A53" THEN 1 ELSE 0]
  /\ ctrl' = [ctrl EXCEPT ![core] = None]
  /\ UNCHANGED <<sem, pc, work, data, free>>

ctrl_chan_rx_cb(core) ==
  /\ ctrl[core] # None /\ Interruptible(core)
  /\ app' = [app EXCEPT ![core].expected_msgs = ctrl[core],
                        ![core].rx_count = 0,
                        ![core].tx_count = 0]
  /\ ctrl' = [ctrl EXCEPT ![core] = None]
  /\ UNCHANGED <<sem, pc, work, data, free>>

-----------------------------------------------------------------------------
(* What both cores do to send the next message *)

\* ipc_shm_acquire_buf
Acquire(core, ch) ==
  /\ IF free[core][ch] = 0
     THEN Goto(core, "error") /\ UNCHANGED <<work, free>>
     ELSE /\ free' = [free EXCEPT ![core][ch] = @ - 1]
          /\ work' = [work EXCEPT ![core].ch = ch]
          /\ Goto(core, "fill")
  /\ UNCHANGED <<app, sem, data, ctrl>>

Fill(core) ==
  /\ pc[core] = "fill"
  /\ work' = [work EXCEPT ![core].no = app[core].tx_count]
  /\ Goto(core, "tx")
  /\ UNCHANGED <<app, sem, data, ctrl, free>>

\* ipc_shm_tx of the buffer in hand, on channel ch
Tx(core, ch) ==
  /\ pc[core] = "tx"
  /\ IF ch # work[core].ch
     THEN Goto(core, "error") /\ UNCHANGED <<work, data>>
     ELSE /\ data' = [data EXCEPT ![Peer(core)][ch] = Append(@, work[core].no)]
          /\ work' = [work EXCEPT ![core].ch = 0]
          /\ Goto(core, "count")
  /\ UNCHANGED <<app, sem, ctrl, free>>

\* app.tx_count++ reads and writes a volatile: an interrupt may come between.
CountLoad(core) ==
  /\ pc[core] = "count"
  /\ work' = [work EXCEPT ![core].val = app[core].tx_count]
  /\ Goto(core, "count_store")
  /\ UNCHANGED <<app, sem, data, ctrl, free>>

CountStore(core, next) ==
  /\ pc[core] = "count_store"
  /\ app' = [app EXCEPT ![core].tx_count = (work[core].val + 1) % UINT16]
  /\ Goto(core, next)
  /\ UNCHANGED <<sem, work, data, ctrl, free>>

-----------------------------------------------------------------------------
(* The A53: Ipcf_Rtos_Prepare() and Ipcf_Send_Task() *)

send_ctrl_msg ==
  /\ pc["A53"] = "send_ctrl"
  /\ ctrl' = [ctrl EXCEPT !["M7_0"] = SAMPLE_NUM_MSGS]
  /\ app' = [app EXCEPT !["A53"].tx_count = 0]
  /\ Goto("A53", "delay")
  /\ UNCHANGED <<sem, work, data, free>>

\* No message is on its way and the M7 waits for one.
Quiet ==
  /\ \A c \in Cores : ctrl[c] = None /\ \A ch \in Channels : data[c][ch] = <<>>
  /\ sem["M7_0"] = 0 /\ pc["M7_0"] = "take"

\* vTaskDelayUntil is over: a buffer for the channel of the next message
Wake ==
  /\ pc["A53"] = "delay"
  /\ "period" \in Pace => Quiet
  /\ Acquire("A53", ChannelOf(app["A53"].tx_count))

Ipcf_Send_Task ==
  \/ Wake
  \/ Fill("A53")
  \/ Tx("A53", work["A53"].ch)
  \/ CountLoad("A53")
  \/ CountStore("A53", "delay")

-----------------------------------------------------------------------------
(* The M7_0: shm_demo() *)

\* xSemaphoreTake: wait, then decrement by a read and a write
SemaphoreWait ==
  /\ pc["M7_0"] = "take" /\ sem["M7_0"] # 0
  /\ Goto("M7_0", "take_load")
  /\ UNCHANGED <<app, sem, work, data, ctrl, free>>

SemaphoreLoad ==
  /\ pc["M7_0"] = "take_load"
  /\ work' = [work EXCEPT !["M7_0"].val = sem["M7_0"]]
  /\ Goto("M7_0", "take_store")
  /\ UNCHANGED <<app, sem, data, ctrl, free>>

\* Mutant: the semaphore is read and not decremented.
SemaphoreStore_KeepsToken ==
  /\ pc["M7_0"] = "take_store"
  /\ Goto("M7_0", "acquire")
  /\ UNCHANGED <<app, sem, work, data, ctrl, free>>

SemaphoreStore ==
  /\ pc["M7_0"] = "take_store"
  /\ sem' = [sem EXCEPT !["M7_0"] = (work["M7_0"].val + UINT8 - 1) % UINT8]
  /\ Goto("M7_0", "acquire")
  /\ UNCHANGED <<app, work, data, ctrl, free>>

AcquireEcho == pc["M7_0"] = "acquire" /\ Acquire("M7_0", app["M7_0"].last_rx_ch)

CheckExpected ==
  /\ pc["M7_0"] = "check"
  /\ Goto("M7_0", IF app["M7_0"].rx_count = app["M7_0"].expected_msgs THEN "reply" ELSE "take")
  /\ UNCHANGED <<app, sem, work, data, ctrl, free>>

reply_ctrl_msg ==
  /\ pc["M7_0"] = "reply"
  /\ ctrl' = [ctrl EXCEPT !["A53"] = app["M7_0"].rx_count]
  /\ Goto("M7_0", "take")
  /\ UNCHANGED <<app, sem, work, data, free>>

shm_demo ==
  \/ SemaphoreWait
  \/ SemaphoreLoad
  \/ SemaphoreStore
  \/ AcquireEcho
  \/ Fill("M7_0")
  \/ Tx("M7_0", app["M7_0"].last_rx_ch)
  \/ CountLoad("M7_0")
  \/ CountStore("M7_0", "check")
  \/ CheckExpected
  \/ reply_ctrl_msg

-----------------------------------------------------------------------------
Interrupt(core) == ctrl_chan_rx_cb(core) \/ \E ch \in Channels : data_chan_rx_cb(core, ch)

A53Step == send_ctrl_msg \/ Ipcf_Send_Task

Next ==
  \/ A53Step
  \/ shm_demo
  \/ \E core \in Cores : Interrupt(core)

Spec == Init /\ [][Next]_vars

(* Both cores run, their interrupts are taken, and the period of the task   *)
(* always passes.                                                           *)
FairSpec ==
  /\ Spec
  /\ WF_vars(A53Step)
  /\ WF_vars(shm_demo)
  /\ \A core \in Cores : WF_vars(Interrupt(core))

-----------------------------------------------------------------------------
(* Properties *)

Mains == {"send_ctrl", "delay", "take", "take_load", "take_store", "acquire", "fill", "tx",
          "count", "count_store", "check", "reply", "error", "isr_error"}

TypeOK ==
  /\ app \in [Cores -> [rx_count : Count, tx_count : Count, expected_msgs : Count,
                        last_rx_ch : Channels \cup {0}]]
  /\ sem \in [Cores -> 0 .. UINT8 - 1]
  /\ pc \in [Cores -> Mains]
  /\ work \in [Cores -> [ch : Channels \cup {0}, no : Count, val : Nat]]
  /\ data \in [Cores -> [Channels -> Seq(Count)]]
  /\ ctrl \in [Cores -> Count \cup {None}]
  /\ free \in [Cores -> [Channels -> 0 .. Bufs]]

(* No buffer is lost or used twice: a buffer of a channel is free, in the   *)
(* hand of the core it belongs to, or on its way to the other core, which   *)
(* releases it in its callback, on whatever schedule.                       *)
BuffersConserved ==
  \A c \in Cores, ch \in Channels :
    Bufs = free[c][ch] + Len(data[Peer(c)][ch]) + (IF work[c].ch = ch THEN 1 ELSE 0)

(* Between two messages each one sent has come back exactly once: the M7    *)
(* has echoed what it received, and the A53 has as many answers as          *)
(* messages, one more if the last echo came in after the control message    *)
(* that resets its counters (the two channels have no order).               *)
AllEchoed ==
  Quiet /\ pc["A53"] = "delay" =>
    /\ app["M7_0"].tx_count = app["M7_0"].rx_count
    /\ app["A53"].rx_count \in {app["A53"].tx_count, (app["A53"].tx_count + 1) % UINT16}

(* Every message is answered on its own channel, and the A53 never stops    *)
(* sending on both channels.                                                *)
EveryMessageAnswered ==
  \A ch \in Channels :
    /\ data["M7_0"][ch] # <<>> ~> data["A53"][ch] # <<>>
    /\ []<>(data["M7_0"][ch] # <<>>)

(* Neither core ever ends up in handle_error(): every acquisition finds a    *)
(* buffer of the channel it wants, every buffer goes out on its own channel *)
(* and every message comes in on the channel its number goes with.          *)
NeverStops == \A c \in Cores : pc[c] \notin {"error", "isr_error"}

\* How many messages the A53 has sent, counted or not
Plus1(n) == (n + 1) % UINT16
SentA ==
  IF pc["A53"] \in {"count", "count_store"}
  THEN Plus1(app["A53"].tx_count)
  ELSE app["A53"].tx_count

\* The M7 has a message to echo, given to its task or in its hands.
Echoing ==
  \/ sem["M7_0"] # 0 /\ pc["M7_0"] = "take"
  \/ pc["M7_0"] \in {"take_load", "take_store", "acquire", "fill", "tx"}

\* How many messages are on their way to a core
UnderWay(core) == [ch \in Channels |-> Len(data[core][ch])]

(* The two channels take turns, one message at a time and its echo on the   *)
(* same channel, also across the wrap of the counters and their reset by    *)
(* the answer of the M7 (Ipcf_Send_Task, ctrl_chan_rx_cb).                  *)
Turns == INSTANCE EchoTurns
           WITH Channels <- Channels, out <- UnderWay("M7_0"), back <- UnderWay("A53"),
                held <- Echoing, last <- ChannelOf(SentA + 1)
TurnsSpec == Turns!TurnsSpec

(* "check if the chan_id is in sync with no_msg" (data_chan_rx_cb, both     *)
(* files): a message arrives on the channel its number goes with.           *)
ChannelInSync == \A c \in Cores : pc[c] # "isr_error"

=============================================================================
