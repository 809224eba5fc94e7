----------------------------- MODULE IpcProofs -----------------------------
(***************************************************************************)
(* Proofs about IpcDemo, whatever the width of counters and semaphore and  *)
(* the number of buffers: no buffer is lost or used twice, whatever the    *)
(* timing of the two cores and of their interrupts; and with the timing    *)
(* the demo counts on, every message comes back once on its own channel    *)
(* and neither core ever stops.                                            *)
(***************************************************************************)
EXTENDS IpcDemo, TLAPS

(* TypeOK but for the bound on the free buffers, which needs conservation.  *)
Types ==
  /\ app \in [Cores -> [rx_count : Count, tx_count : Count, expected_msgs : Count,
                        last_rx_ch : Channels \cup {0}]]
  /\ sem \in [Cores -> 0 .. UINT8 - 1]
  /\ pc \in [Cores -> Mains]
  /\ work \in [Cores -> [ch : Channels \cup {0}, no : Count, val : Nat]]
  /\ data \in [Cores -> [Channels -> Seq(Count)]]
  /\ ctrl \in [Cores -> Count \cup {None}]
  /\ free \in [Cores -> [Channels -> Nat]]

(* A core holds a buffer from acquisition to transmission, and keeps it if  *)
(* it stops in between.                                                     *)
InHand ==
  \A c \in Cores :
    /\ work[c].ch # 0 => pc[c] \in {"fill", "tx", "error", "isr_error"}
    /\ pc[c] \in {"fill", "tx"} => work[c].ch # 0

(* The M7 only echoes once it has received, so it knows a channel.          *)
ChannelKnown ==
  app["M7_0"].last_rx_ch = 0 =>
    sem["M7_0"] = 0 /\ pc["M7_0"] \in {"take", "isr_error"}

(* The inductive invariant. *)
IpcInv == Types /\ BuffersConserved /\ InHand /\ ChannelKnown

-----------------------------------------------------------------------------
(* Wrapping sums are counter values, and the sentinel is none.              *)
LEMMA CountWidth ==
  /\ \A n \in Nat : n % UINT16 \in Count
  /\ \A n \in Nat : n % UINT8 \in 0 .. UINT8 - 1
  /\ \A n \in Nat : ChannelOf(n) \in Channels
  /\ Count \subseteq Nat
  /\ None \notin Count
  /\ 0 \in Count
  /\ SAMPLE_NUM_MSGS \in Count
  /\ UINT8 \in Nat /\ UINT8 > 1
BY IpcAssumption DEF IpcAssumption, Count, None, ChannelOf, Channels

(* A core is the peer of its peer and of no other.                          *)
LEMMA PeerOfPeer ==
  \A c \in Cores : Peer(c) \in Cores /\ Peer(c) # c /\ Peer(Peer(c)) = c
BY DEF Cores, Peer

(* What the types say of one core. *)
LEMMA CoreTypes ==
  ASSUME Types, NEW c \in Cores
  PROVE  /\ app[c] \in [rx_count : Count, tx_count : Count, expected_msgs : Count,
                        last_rx_ch : Channels \cup {0}]
         /\ app[c].rx_count \in Nat /\ app[c].tx_count \in Nat
         /\ sem[c] \in Nat
         /\ work[c] \in [ch : Channels \cup {0}, no : Count, val : Nat]
         /\ \A ch \in Channels :
              /\ data[c][ch] \in Seq(Count) /\ Len(data[c][ch]) \in Nat
              /\ free[c][ch] \in Nat
<1>1. /\ app[c] \in [rx_count : Count, tx_count : Count, expected_msgs : Count,
                     last_rx_ch : Channels \cup {0}]
      /\ work[c] \in [ch : Channels \cup {0}, no : Count, val : Nat]
  BY DEF Types
<1>2. app[c].rx_count \in Nat /\ app[c].tx_count \in Nat
  BY <1>1, CountWidth
<1>3. sem[c] \in Nat
  <2>1. sem[c] \in 0 .. UINT8 - 1
    BY DEF Types
  <2> QED
    BY <2>1, CountWidth
<1>4. ASSUME NEW ch \in Channels
      PROVE  data[c][ch] \in Seq(Count) /\ Len(data[c][ch]) \in Nat /\ free[c][ch] \in Nat
  <2>1. data[c] \in [Channels -> Seq(Count)] /\ free[c] \in [Channels -> Nat]
    BY DEF Types
  <2> QED
    BY <2>1
<1> QED
  BY <1>1, <1>2, <1>3, <1>4

-----------------------------------------------------------------------------
(* The initial states satisfy the invariant. *)
LEMMA IpcInitial == Init => IpcInv
<1> SUFFICES ASSUME Init PROVE IpcInv
  OBVIOUS
<1>1. Types
  BY CountWidth, IpcAssumption DEF Init, Types, IpcAssumption, Mains, Cores, Channels
<1>2. BuffersConserved
  <2> SUFFICES ASSUME NEW c \in Cores, NEW ch \in Channels
               PROVE  Bufs = free[c][ch] + Len(data[Peer(c)][ch])
                             + (IF work[c].ch = ch THEN 1 ELSE 0)
    BY DEF BuffersConserved
  <2>1. free[c][ch] = Bufs /\ data[Peer(c)][ch] = <<>> /\ work[c].ch = 0
    BY PeerOfPeer DEF Init
  <2>2. Len(data[Peer(c)][ch]) = 0
    BY <2>1
  <2> QED
    BY <2>1, <2>2, IpcAssumption DEF IpcAssumption, Channels
<1>3. InHand /\ ChannelKnown
  BY DEF Init, InHand, ChannelKnown, Cores
<1> QED
  BY <1>1, <1>2, <1>3 DEF IpcInv

(* A data callback hands its buffer back to the peer, or stops the core.    *)
LEMMA DataCallback ==
  ASSUME IpcInv, NEW core \in Cores, NEW ch \in Channels, data_chan_rx_cb(core, ch)
  PROVE  IpcInv'
<1> USE DEF IpcInv, data_chan_rx_cb
<1>1. CASE ch = ChannelOf(Head(data[core][ch]))
  <2>1. /\ free' = [free EXCEPT ![Peer(core)][ch] = @ + 1]
        /\ data' = [data EXCEPT ![core][ch] = Tail(@)]
        /\ app' = [app EXCEPT ![core].last_rx_ch = ch, ![core].rx_count = (@ + 1) % UINT16]
        /\ sem' = [sem EXCEPT ![core] = (@ + 1) % UINT8]
        /\ pc' = pc /\ work' = work /\ ctrl' = ctrl
    BY <1>1 DEF Received
  <2>2. data[core][ch] \in Seq(Count) /\ data[core][ch] # <<>>
    BY DEF Types
  <2>3. /\ Tail(data[core][ch]) \in Seq(Count)
        /\ Len(Tail(data[core][ch])) = Len(data[core][ch]) - 1
    BY <2>2
  <2>4. Types'
    <3>1. (app[core].rx_count + 1) % UINT16 \in Count /\ (sem[core] + 1) % UINT8 \in 0 .. UINT8 - 1
      <4>1. app[core].rx_count + 1 \in Nat /\ sem[core] + 1 \in Nat
        BY CoreTypes
      <4> QED
        BY <4>1, CountWidth
    <3>2. app' \in [Cores -> [rx_count : Count, tx_count : Count, expected_msgs : Count,
                              last_rx_ch : Channels \cup {0}]]
      <4>1. [app[core] EXCEPT !.last_rx_ch = ch, !.rx_count = (@ + 1) % UINT16]
              \in [rx_count : Count, tx_count : Count, expected_msgs : Count,
                   last_rx_ch : Channels \cup {0}]
        BY <3>1, CoreTypes
      <4> QED
        BY <2>1, <4>1 DEF Types
    <3>3. data' \in [Cores -> [Channels -> Seq(Count)]] /\ free' \in [Cores -> [Channels -> Nat]]
      BY <2>1, <2>3, PeerOfPeer DEF Types
    <3> QED
      BY <2>1, <3>1, <3>2, <3>3 DEF Types
  <2>5. BuffersConserved'
    <3> SUFFICES ASSUME NEW c \in Cores, NEW k \in Channels
                 PROVE  Bufs = free'[c][k] + Len(data'[Peer(c)][k])
                               + (IF work'[c].ch = k THEN 1 ELSE 0)
      BY DEF BuffersConserved
    <3>1. Bufs = free[c][k] + Len(data[Peer(c)][k]) + (IF work[c].ch = k THEN 1 ELSE 0)
      BY DEF BuffersConserved
    <3>2. CASE c = Peer(core) /\ k = ch
      <4>1. free'[c][k] = free[c][k] + 1 /\ Len(data'[Peer(c)][k]) = Len(data[Peer(c)][k]) - 1
        BY <2>1, <2>3, <3>2, PeerOfPeer DEF Types
      <4> QED
        BY <2>1, <2>2, <3>1, <3>2, <4>1, PeerOfPeer DEF Types
    <3>3. CASE ~(c = Peer(core) /\ k = ch)
      <4>1. free'[c][k] = free[c][k] /\ data'[Peer(c)][k] = data[Peer(c)][k]
        BY <2>1, <3>3, PeerOfPeer DEF Types
      <4> QED
        BY <2>1, <3>1, <4>1
    <3> QED
      BY <3>2, <3>3
  <2>6. InHand' /\ ChannelKnown'
    BY <2>1 DEF Types, InHand, ChannelKnown, Channels, Cores
  <2> QED
    BY <2>4, <2>5, <2>6
<1>2. CASE ch # ChannelOf(Head(data[core][ch]))
  <2>1. /\ pc' = [pc EXCEPT ![core] = "isr_error"]
        /\ app' = app /\ sem' = sem /\ data' = data /\ free' = free
        /\ work' = work /\ ctrl' = ctrl
    BY <1>2 DEF Goto
  <2>2. Types' /\ BuffersConserved'
    BY <2>1 DEF Types, BuffersConserved, Mains
  <2>3. InHand' /\ ChannelKnown'
    BY <2>1 DEF Types, InHand, ChannelKnown, Cores
  <2> QED
    BY <2>2, <2>3
<1> QED
  BY <1>1, <1>2

(* The control callback touches counters only. *)
LEMMA CtrlCallback ==
  ASSUME IpcInv, NEW core \in Cores, ctrl_chan_rx_cb(core)
  PROVE  IpcInv'
<1>1. /\ app' = [app EXCEPT ![core].expected_msgs = ctrl[core],
                            ![core].rx_count = 0, ![core].tx_count = 0]
      /\ ctrl' = [ctrl EXCEPT ![core] = None] /\ ctrl[core] # None
      /\ sem' = sem /\ pc' = pc /\ work' = work /\ data' = data /\ free' = free
  BY DEF ctrl_chan_rx_cb
<1>2. Types'
  <2>1. ctrl[core] \in Count
    BY <1>1 DEF IpcInv, Types
  <2>2. [app[core] EXCEPT !.expected_msgs = ctrl[core], !.rx_count = 0, !.tx_count = 0]
          \in [rx_count : Count, tx_count : Count, expected_msgs : Count,
               last_rx_ch : Channels \cup {0}]
    BY <2>1, CoreTypes, CountWidth DEF IpcInv
  <2>3. app' \in [Cores -> [rx_count : Count, tx_count : Count, expected_msgs : Count,
                            last_rx_ch : Channels \cup {0}]]
    BY <1>1, <2>2 DEF IpcInv, Types
  <2> QED
    BY <1>1, <2>3 DEF IpcInv, Types
<1>3. BuffersConserved' /\ InHand' /\ ChannelKnown'
  BY <1>1 DEF IpcInv, Types, BuffersConserved, InHand, ChannelKnown, Cores
<1> QED
  BY <1>2, <1>3 DEF IpcInv

(* Acquisition takes a buffer in hand, or stops the core. *)
LEMMA Acquisition ==
  ASSUME IpcInv, NEW core \in Cores, NEW ch \in Channels, Acquire(core, ch),
         pc[core] \in {"delay", "acquire"}
  PROVE  IpcInv'
<1> USE DEF IpcInv, Acquire
<1>1. work[core].ch = 0
  BY DEF InHand
<1>2. CASE free[core][ch] = 0
  <2>1. /\ pc' = [pc EXCEPT ![core] = "error"] /\ work' = work /\ free' = free
        /\ app' = app /\ sem' = sem /\ data' = data /\ ctrl' = ctrl
    BY <1>2 DEF Goto
  <2>2. Types' /\ BuffersConserved'
    BY <2>1 DEF Types, BuffersConserved, Mains
  <2>3. InHand' /\ ChannelKnown'
    BY <1>1, <2>1 DEF Types, InHand, ChannelKnown, Cores
  <2> QED
    BY <2>2, <2>3
<1>3. CASE free[core][ch] # 0
  <2>1. /\ free' = [free EXCEPT ![core][ch] = @ - 1]
        /\ work' = [work EXCEPT ![core].ch = ch]
        /\ pc' = [pc EXCEPT ![core] = "fill"]
        /\ app' = app /\ sem' = sem /\ data' = data /\ ctrl' = ctrl
    BY <1>3 DEF Goto
  <2>2. free[core][ch] \in Nat /\ free[core][ch] - 1 \in Nat
    BY <1>3 DEF Types
  <2>3. Types'
    BY <2>1, <2>2 DEF Types, Mains
  <2>4. BuffersConserved'
    <3> SUFFICES ASSUME NEW c \in Cores, NEW k \in Channels
                 PROVE  Bufs = free'[c][k] + Len(data'[Peer(c)][k])
                               + (IF work'[c].ch = k THEN 1 ELSE 0)
      BY DEF BuffersConserved
    <3>1. Bufs = free[c][k] + Len(data[Peer(c)][k]) + (IF work[c].ch = k THEN 1 ELSE 0)
      BY DEF BuffersConserved
    <3>2. Len(data[Peer(c)][k]) \in Nat
      BY PeerOfPeer, CoreTypes
    <3>3. CASE c = core /\ k = ch
      <4>1. free'[c][k] = free[c][k] - 1 /\ work'[c].ch = k /\ data' = data
        BY <2>1, <3>3 DEF Types
      <4>2. free[c][k] \in Nat /\ work[c].ch # k
        BY <1>1, <3>3, CoreTypes DEF Channels
      <4> QED
        BY <3>1, <3>2, <4>1, <4>2
    <3>4. CASE ~(c = core /\ k = ch)
      BY <1>1, <2>1, <3>1, <3>4 DEF Types, Channels
    <3> QED
      BY <3>3, <3>4
  <2>5. InHand' /\ ChannelKnown'
    BY <2>1 DEF Types, InHand, ChannelKnown, Channels, Cores
  <2> QED
    BY <2>3, <2>4, <2>5
<1> QED
  BY <1>2, <1>3

(* Transmission puts the buffer in hand on its way, or stops the core.      *)
LEMMA Transmission ==
  ASSUME IpcInv, NEW core \in Cores, NEW ch \in Channels \cup {0}, Tx(core, ch)
  PROVE  IpcInv'
<1> USE DEF IpcInv, Tx
<1>1. work[core].ch # 0 /\ work[core].ch \in Channels
  BY DEF InHand, Types
<1>2. CASE ch # work[core].ch
  <2>1. /\ pc' = [pc EXCEPT ![core] = "error"] /\ work' = work /\ data' = data
        /\ app' = app /\ sem' = sem /\ ctrl' = ctrl /\ free' = free
    BY <1>2 DEF Goto
  <2> QED
    BY <1>1, <2>1 DEF Types, BuffersConserved, InHand, ChannelKnown, Mains, Cores
<1>3. CASE ch = work[core].ch
  <2>1. /\ data' = [data EXCEPT ![Peer(core)][ch] = Append(@, work[core].no)]
        /\ work' = [work EXCEPT ![core].ch = 0]
        /\ pc' = [pc EXCEPT ![core] = "count"]
        /\ app' = app /\ sem' = sem /\ ctrl' = ctrl /\ free' = free
    BY <1>3 DEF Goto
  <2>2. data[Peer(core)][ch] \in Seq(Count) /\ work[core].no \in Count
    BY <1>1, <1>3, PeerOfPeer DEF Types
  <2>3. /\ Append(data[Peer(core)][ch], work[core].no) \in Seq(Count)
        /\ Len(Append(data[Peer(core)][ch], work[core].no)) = Len(data[Peer(core)][ch]) + 1
    BY <2>2
  <2>4. Types'
    <3>1. data' \in [Cores -> [Channels -> Seq(Count)]]
      BY <1>1, <1>3, <2>1, <2>3, PeerOfPeer DEF Types
    <3>2. work' \in [Cores -> [ch : Channels \cup {0}, no : Count, val : Nat]]
      <4>1. [work[core] EXCEPT !.ch = 0] \in [ch : Channels \cup {0}, no : Count, val : Nat]
        BY CoreTypes
      <4> QED
        BY <2>1, <4>1 DEF Types
    <3> QED
      BY <2>1, <3>1, <3>2 DEF Types, Mains
  <2>5. BuffersConserved'
    <3> SUFFICES ASSUME NEW c \in Cores, NEW k \in Channels
                 PROVE  Bufs = free'[c][k] + Len(data'[Peer(c)][k])
                               + (IF work'[c].ch = k THEN 1 ELSE 0)
      BY DEF BuffersConserved
    <3>1. Bufs = free[c][k] + Len(data[Peer(c)][k]) + (IF work[c].ch = k THEN 1 ELSE 0)
      BY DEF BuffersConserved
    <3>2. free[c][k] \in Nat /\ Len(data[Peer(c)][k]) \in Nat
      BY PeerOfPeer DEF Types
    <3>3. CASE c = core /\ k = ch
      <4>1. Len(data'[Peer(c)][k]) = Len(data[Peer(c)][k]) + 1 /\ work'[c].ch = 0
        BY <2>1, <2>3, <3>3, PeerOfPeer DEF Types
      <4> QED
        BY <1>3, <2>1, <3>1, <3>2, <3>3, <4>1 DEF Channels
    <3>4. CASE c = core /\ k # ch
      <4>1. data'[Peer(c)][k] = data[Peer(c)][k] /\ work'[c].ch = 0
        BY <2>1, <3>4, PeerOfPeer DEF Types
      <4> QED
        BY <1>3, <2>1, <3>1, <3>4, <4>1 DEF Channels
    <3>5. CASE c # core
      <4>1. data'[Peer(c)] = data[Peer(c)] /\ work'[c] = work[c]
        <5>1. Peer(c) # Peer(core)
          BY <3>5, PeerOfPeer
        <5> QED
          BY <2>1, <3>5, <5>1, PeerOfPeer DEF Types
      <4> QED
        BY <2>1, <3>1, <4>1
    <3> QED
      BY <3>3, <3>4, <3>5
  <2>6. InHand' /\ ChannelKnown'
    BY <2>1 DEF Types, InHand, ChannelKnown, Cores
  <2> QED
    BY <2>4, <2>5, <2>6
<1> QED
  BY <1>2, <1>3

(* The other steps of the main code move no buffer. *)
LEMMA OtherSteps ==
  ASSUME IpcInv,
         \/ \E core \in Cores : Fill(core) \/ CountLoad(core)
         \/ CountStore("A53", "delay") \/ CountStore("M7_0", "check")
         \/ SemaphoreWait \/ SemaphoreLoad \/ SemaphoreStore
         \/ CheckExpected \/ send_ctrl_msg \/ reply_ctrl_msg
  PROVE  IpcInv'
<1> USE DEF IpcInv, Goto
<1>c. "A53" \in Cores /\ "M7_0" \in Cores
  BY DEF Cores
<1>1. ASSUME NEW core \in Cores, Fill(core) PROVE IpcInv'
  <2>1. Types'
    BY <1>1 DEF Fill, Types, Mains
  <2> QED
    BY <1>1, <2>1 DEF Fill, Types, BuffersConserved, InHand, ChannelKnown
<1>2. ASSUME NEW core \in Cores, CountLoad(core) PROVE IpcInv'
  <2>1. Types'
    BY <1>2, CountWidth DEF CountLoad, Types, Mains
  <2> QED
    BY <1>2, <2>1 DEF CountLoad, Types, BuffersConserved, InHand, ChannelKnown
<1>3. ASSUME NEW core \in Cores, NEW next \in {"delay", "check"}, CountStore(core, next)
      PROVE  IpcInv'
  <2>1. (work[core].val + 1) % UINT16 \in Count
    BY CountWidth DEF Types
  <2>2. Types'
    BY <1>3, <2>1 DEF CountStore, Types, Mains
  <2>3. \A c \in Cores : app'[c].last_rx_ch = app[c].last_rx_ch
    BY <1>3, CoreTypes DEF CountStore, Types
  <2>4. pc[core] = "count_store" /\ pc' = [pc EXCEPT ![core] = next]
    BY <1>3 DEF CountStore
  <2>5. InHand' /\ ChannelKnown'
    BY <1>3, <1>c, <2>3, <2>4 DEF CountStore, Types, InHand, ChannelKnown
  <2> QED
    BY <1>3, <2>2, <2>5 DEF CountStore, BuffersConserved
<1>4. CASE SemaphoreWait
  <2>1. Types'
    BY <1>4 DEF SemaphoreWait, Types, Mains
  <2> QED
    BY <1>4, <1>c, <2>1 DEF SemaphoreWait, Types, BuffersConserved, InHand, ChannelKnown
<1>5. CASE SemaphoreLoad
  <2>1. /\ work' = [work EXCEPT !["M7_0"].val = sem["M7_0"]]
        /\ pc["M7_0"] = "take_load" /\ pc' = [pc EXCEPT !["M7_0"] = "take_store"]
        /\ app' = app /\ sem' = sem /\ data' = data /\ ctrl' = ctrl /\ free' = free
    BY <1>5 DEF SemaphoreLoad
  <2>2. sem["M7_0"] \in Nat
    BY <1>c, CoreTypes
  <2>3. Types'
    BY <2>1, <2>2 DEF Types, Mains
  <2>4. \A c \in Cores : work'[c].ch = work[c].ch
    BY <2>1 DEF Types
  <2>5. BuffersConserved'
    BY <2>1, <2>4 DEF BuffersConserved
  <2>6. InHand' /\ ChannelKnown'
    BY <1>c, <2>1, <2>4 DEF Types, InHand, ChannelKnown
  <2> QED
    BY <2>3, <2>5, <2>6
<1>6. CASE SemaphoreStore
  <2>1. (work["M7_0"].val + UINT8 - 1) % UINT8 \in 0 .. UINT8 - 1
    <3>1. work["M7_0"].val + UINT8 - 1 \in Nat
      <4>1. work["M7_0"].val \in Nat
        BY <1>c, CoreTypes
      <4> QED
        BY <4>1, CountWidth
    <3> QED
      BY <3>1, CountWidth
  <2>2. Types'
    BY <1>6, <2>1 DEF SemaphoreStore, Types, Mains
  <2> QED
    BY <1>6, <1>c, <2>2 DEF SemaphoreStore, Types, BuffersConserved, InHand, ChannelKnown
<1>7. CASE CheckExpected
  <2>1. Types'
    BY <1>7 DEF CheckExpected, Types, Mains
  <2> QED
    BY <1>7, <1>c, <2>1 DEF CheckExpected, Types, BuffersConserved, InHand, ChannelKnown
<1>8. CASE send_ctrl_msg
  <2>1. Types'
    BY <1>8, CountWidth DEF send_ctrl_msg, Types, Mains
  <2> QED
    BY <1>8, <1>c, <2>1 DEF send_ctrl_msg, Types, BuffersConserved, InHand, ChannelKnown
<1>9. CASE reply_ctrl_msg
  <2>1. Types'
    BY <1>9, <1>c DEF reply_ctrl_msg, Types, Mains
  <2> QED
    BY <1>9, <1>c, <2>1 DEF reply_ctrl_msg, Types, BuffersConserved, InHand, ChannelKnown
<1> QED
  BY <1>1, <1>2, <1>3, <1>4, <1>5, <1>6, <1>7, <1>8, <1>9, <1>c

(* Every step preserves the invariant. *)
LEMMA IpcStep == IpcInv /\ [Next]_vars => IpcInv'
<1> SUFFICES ASSUME IpcInv, [Next]_vars PROVE IpcInv'
  OBVIOUS
<1>c. "A53" \in Cores /\ "M7_0" \in Cores
  BY DEF Cores
<1>1. CASE UNCHANGED vars
  BY <1>1 DEF vars, IpcInv, Types, BuffersConserved, InHand, ChannelKnown
<1>2. ASSUME NEW core \in Cores, Interrupt(core) PROVE IpcInv'
  BY <1>2, DataCallback, CtrlCallback DEF Interrupt
<1>3. CASE A53Step
  <2>1. CASE Wake
    <3>1. ChannelOf(app["A53"].tx_count) \in Channels
      BY <1>c, CountWidth DEF IpcInv, Types
    <3> QED
      BY <1>c, <2>1, <3>1, Acquisition DEF Wake
  <2>2. CASE Tx("A53", work["A53"].ch)
    <3>1. work["A53"].ch \in Channels \cup {0}
      BY <1>c DEF IpcInv, Types
    <3> QED
      BY <1>c, <2>2, <3>1, Transmission
  <2>3. CASE send_ctrl_msg \/ Fill("A53") \/ CountLoad("A53") \/ CountStore("A53", "delay")
    BY <1>c, <2>3, OtherSteps
  <2> QED
    BY <1>3, <2>1, <2>2, <2>3 DEF A53Step, Ipcf_Send_Task
<1>4. CASE shm_demo
  <2>1. app["M7_0"].last_rx_ch \in Channels \cup {0}
    BY <1>c DEF IpcInv, Types
  <2>2. CASE AcquireEcho
    <3>1. app["M7_0"].last_rx_ch \in Channels
      BY <2>1, <2>2 DEF IpcInv, ChannelKnown, AcquireEcho
    <3> QED
      BY <1>c, <2>2, <3>1, Acquisition DEF AcquireEcho
  <2>3. CASE Tx("M7_0", app["M7_0"].last_rx_ch)
    BY <1>c, <2>1, <2>3, Transmission
  <2>4. CASE \/ Fill("M7_0") \/ CountLoad("M7_0") \/ CountStore("M7_0", "check")
             \/ SemaphoreWait \/ SemaphoreLoad \/ SemaphoreStore
             \/ CheckExpected \/ reply_ctrl_msg
    BY <1>c, <2>4, OtherSteps
  <2> QED
    BY <1>4, <2>2, <2>3, <2>4 DEF shm_demo
<1> QED
  BY <1>1, <1>2, <1>3, <1>4 DEF Next

(* The invariant holds in every state. *)
THEOREM IpcInvariant == Spec => []IpcInv
BY IpcInitial, IpcStep, PTL DEF Spec

(* BuffersConserved, for every timing of data_chan_rx_cb against the main   *)
(* code of both cores.                                                      *)
THEOREM NoBufferLost == Spec => []BuffersConserved
<1>1. IpcInv => BuffersConserved
  BY DEF IpcInv
<1> QED
  BY <1>1, IpcInvariant, PTL

(* The variables of the demo keep their types; that no more buffers are     *)
(* free than there are follows from conservation.                           *)
THEOREM IpcTypes == Spec => []TypeOK
<1>1. IpcInv => TypeOK
  <2> SUFFICES ASSUME IpcInv PROVE TypeOK
    OBVIOUS
  <2>1. ASSUME NEW c \in Cores, NEW ch \in Channels PROVE free[c][ch] \in 0 .. Bufs
    <3>1. free[c][ch] \in Nat /\ Len(data[Peer(c)][ch]) \in Nat
      BY PeerOfPeer DEF IpcInv, Types
    <3> QED
      BY <3>1, IpcAssumption DEF IpcInv, BuffersConserved, IpcAssumption
  <2> QED
    BY <2>1 DEF IpcInv, Types, TypeOK
<1> QED
  BY <1>1, IpcInvariant, PTL


-----------------------------------------------------------------------------
(* With the timing the demo counts on *)

Timely == {"period", "prompt"} \subseteq Pace

A == "A53"
M == "M7_0"
Idle(c) == \A ch \in Channels : data[c][ch] = <<>>

(* Nothing is on its way to core c but one message, with the parity of n,   *)
(* on the channel that goes with it.                                        *)
Carries(c, n) ==
  \E ch \in Channels, no \in Count :
    /\ ch = ChannelOf(no) /\ ch = ChannelOf(n)
    /\ data[c] = [k \in Channels |-> IF k = ch THEN <<no>> ELSE <<>>]

(* Where the one message under way is: in the hands of the A53, on its way  *)
(* to the M7, with the M7 (Echoing), or on its way back.                    *)
Sending == pc[A] \in {"fill", "tx"}
Going == ~Idle(M)
Coming == ~Idle(A)

OneMessage ==
  /\ Sending => ~Going /\ ~Echoing /\ ~Coming /\ pc[M] = "take" /\ ctrl[A] = None
  /\ Going => ~Echoing /\ ~Coming /\ pc[M] = "take" /\ ctrl[A] = None
  /\ Echoing => ~Coming /\ ctrl[A] = None
  /\ pc[A] \in {"count", "count_store"} => Going \/ Echoing \/ Coming
  /\ pc[M] \in {"count", "count_store", "check", "reply"} => ctrl[A] = None
  /\ sem[M] \in {0, 1} /\ (sem[M] # 0 => pc[M] \in {"take", "take_load", "take_store"})
  /\ pc[M] \in {"take_load", "take_store"} => sem[M] = 1
  /\ pc[M] = "take_store" => work[M].val = 1

(* The control message is the first; no other state has one for the M7.     *)
Start ==
  /\ ctrl[M] # None \/ pc[A] = "send_ctrl" =>
       /\ pc[A] \in {"send_ctrl", "delay"} /\ pc[M] = "take" /\ sem[M] = 0
       /\ Idle(A) /\ Idle(M) /\ ctrl[A] = None
       /\ app[M].rx_count = 0 /\ app[M].tx_count = 0
       /\ app[A].rx_count = 0 /\ app[A].tx_count = 0
  /\ ctrl[M] \in {None, SAMPLE_NUM_MSGS} /\ (pc[A] = "send_ctrl" => ctrl[M] = None)
  /\ ctrl[M] = None /\ pc[A] # "send_ctrl" => app[M].expected_msgs = SAMPLE_NUM_MSGS

\* The M7 has received a message that it has not counted as sent.
Owed == Echoing \/ pc[M] \in {"count", "count_store"}

Counting ==
  /\ app[M].rx_count = IF Owed THEN Plus1(app[M].tx_count) ELSE app[M].tx_count
  /\ pc[A] = "count_store" => work[A].val = app[A].tx_count
  /\ pc[M] = "count_store" => work[M].val = app[M].tx_count
  /\ IF Going \/ Echoing \/ Coming
     THEN Plus1(app[A].rx_count) \in {SentA, Plus1(SentA)}
     ELSE app[A].rx_count \in {SentA, Plus1(SentA)}

(* The numbers of both cores have the same parity, so each message and its  *)
(* echo go on the channel the other side expects.                           *)
Parity ==
  /\ IF Going THEN SentA % 2 # app[M].rx_count % 2 ELSE SentA % 2 = app[M].rx_count % 2
  /\ Going => Carries(M, app[M].rx_count)
  /\ pc[A] \in {"fill", "tx"} => work[A].ch = ChannelOf(app[A].tx_count)
  /\ pc[A] = "tx" => work[A].no = app[A].tx_count
  /\ Echoing => app[M].last_rx_ch = ChannelOf(app[M].tx_count)
  /\ pc[M] \in {"fill", "tx"} => work[M].ch = app[M].last_rx_ch
  /\ pc[M] = "tx" => work[M].no = app[M].tx_count
  /\ Coming => Carries(A, Plus1(app[M].rx_count))
  /\ pc[M] = "reply" \/ ctrl[A] # None => app[M].rx_count % 2 = 0

PacedInv == IpcInv /\ NeverStops /\ OneMessage /\ Start /\ Counting /\ Parity

(* What a step does to the message under way: nothing, or one of the moves  *)
(* of EchoTurns.                                                            *)
Stays ==
  /\ (Going' <=> Going) /\ (Echoing' <=> Echoing) /\ (Coming' <=> Coming)
  /\ SentA' % 2 = SentA % 2
Sends == ~Going /\ ~Echoing /\ ~Coming /\ Going' /\ SentA' % 2 # SentA % 2
Receives == Going /\ Echoing' /\ SentA' = SentA
Echoes == Echoing /\ Coming' /\ SentA' = SentA
Returns == Coming /\ ~Going' /\ ~Echoing' /\ ~Coming' /\ SentA' = SentA

LEMMA Basics ==
  /\ A \in Cores /\ M \in Cores /\ A # M /\ Cores = {A, M}
  /\ Peer(A) = M /\ Peer(M) = A
  /\ Channels = {1, 2}
BY DEF A, M, Cores, Peer, Channels

(* Numbers count modulo an even number, so that each next one has the other *)
(* parity, and the parity is the channel.                                   *)
LEMMA Numbers ==
  /\ \A n \in Count : Plus1(n) \in Count /\ Plus1(n) % 2 # n % 2 /\ Plus1(n) # n
  /\ \A m, n \in Count : m % 2 # n % 2 => Plus1(m) % 2 = n % 2
  /\ \A n \in Count : ChannelOf(n) \in Channels /\ n % 2 \in {0, 1}
  /\ \A m, n \in Count : m % 2 = n % 2 <=> ChannelOf(m) = ChannelOf(n)
  /\ 0 \in Count /\ 0 % 2 = 0 /\ SAMPLE_NUM_MSGS % 2 = 0 /\ SAMPLE_NUM_MSGS \in Count
<1>1. UINT16 \in Nat /\ UINT16 % 2 = 0 /\ UINT16 > 1 /\ Count = 0 .. UINT16 - 1
  BY IpcAssumption DEF Count
<1>2. ASSUME NEW n \in Count PROVE Plus1(n) = IF n = UINT16 - 1 THEN 0 ELSE n + 1
  <2>1. n + 1 \in 1 .. UINT16
    BY <1>1
  <2>2. CASE n = UINT16 - 1
    BY <1>1, <2>2 DEF Plus1
  <2>3. CASE n # UINT16 - 1
    BY <1>1, <2>1, <2>3 DEF Plus1
  <2>4. QED
    BY <2>2, <2>3
<1>3. ASSUME NEW n \in Count PROVE n % 2 \in {0, 1} /\ ChannelOf(n) = (n % 2) + 1
  BY <1>1 DEF ChannelOf
<1>4. ASSUME NEW n \in Count PROVE Plus1(n) \in Count /\ Plus1(n) % 2 # n % 2
  BY <1>1, <1>2
<1>5. 0 \in Count /\ 0 % 2 = 0 /\ SAMPLE_NUM_MSGS % 2 = 0 /\ SAMPLE_NUM_MSGS \in Count
  BY <1>1, IpcAssumption
<1>6. ASSUME NEW m \in Count, NEW n \in Count, m % 2 # n % 2 PROVE Plus1(m) % 2 = n % 2
  BY <1>3, <1>4, <1>6
<1>7. ASSUME NEW m \in Count, NEW n \in Count PROVE m % 2 = n % 2 <=> ChannelOf(m) = ChannelOf(n)
  <2>1. m % 2 \in Nat /\ n % 2 \in Nat
    BY <1>3
  <2>2. QED
    BY <1>3, <2>1
<1>8. QED
  BY <1>3, <1>4, <1>5, <1>6, <1>7 DEF Channels

LEMMA PacedTypes ==
  ASSUME PacedInv, Timely
  PROVE  /\ \A c \in Cores : /\ app[c].rx_count \in Count /\ app[c].tx_count \in Count
                            /\ app[c].last_rx_ch \in Channels \cup {0}
                            /\ work[c].ch \in Channels \cup {0} /\ work[c].no \in Count
                            /\ sem[c] \in Nat
         /\ SentA \in Count
         /\ ctrl \in [Cores -> Count \cup {None}] /\ pc \in [Cores -> Mains] /\ sem \in [Cores -> Nat]
         /\ data \in [Cores -> [Channels -> Seq(Count)]]
         /\ None \notin Count
         /\ pc[A] \notin {"error", "isr_error"} /\ pc[M] \notin {"error", "isr_error"}
<1>1. Types
  BY DEF PacedInv, IpcInv
<1>2. ASSUME NEW c \in Cores
      PROVE  /\ app[c].rx_count \in Count /\ app[c].tx_count \in Count
             /\ app[c].last_rx_ch \in Channels \cup {0}
             /\ work[c].ch \in Channels \cup {0} /\ work[c].no \in Count
             /\ sem[c] \in Nat
  BY <1>1, <1>2, CoreTypes
<1>3. SentA \in Count
  BY <1>2, Basics, Numbers DEF SentA, A, M
<1>4. sem \in [Cores -> Nat]
  BY <1>1, <1>2 DEF Types
<1>5. QED
  BY <1>1, <1>2, <1>3, <1>4, Basics, CountWidth DEF Types, PacedInv, NeverStops

(* The first control message sets what the M7 expects. *)
LEMMA CtrlToM ==
  ASSUME PacedInv, Timely, IpcInv', ctrl_chan_rx_cb(M)
  PROVE  PacedInv' /\ Stays
<1>1. /\ ctrl[M] # None /\ ctrl' = [ctrl EXCEPT ![M] = None]
      /\ app' = [app EXCEPT ![M].expected_msgs = ctrl[M], ![M].rx_count = 0, ![M].tx_count = 0]
      /\ sem' = sem /\ pc' = pc /\ work' = work /\ data' = data /\ free' = free
  BY DEF ctrl_chan_rx_cb
<1>2. /\ app'[M].rx_count = 0 /\ app'[M].tx_count = 0 /\ app'[M].expected_msgs = ctrl[M]
      /\ app'[M].last_rx_ch = app[M].last_rx_ch /\ app'[A] = app[A]
      /\ ctrl'[M] = None /\ ctrl'[A] = ctrl[A]
  BY <1>1, Basics, CoreTypes DEF PacedInv, IpcInv, Types
<1>3. /\ app[M].rx_count = 0 /\ app[M].tx_count = 0 /\ ctrl[M] = SAMPLE_NUM_MSGS
      /\ pc[A] = "delay" /\ Idle(A) /\ Idle(M)
  BY <1>1 DEF PacedInv, Start
<1>4. Idle(A)' = Idle(A) /\ Idle(M)' = Idle(M)
  BY <1>1 DEF Idle
<1>5. OneMessage' /\ NeverStops'
  BY <1>1, <1>2, <1>4 DEF PacedInv, OneMessage, NeverStops, Sending, Going, Echoing, Coming, A, M
<1>6. Start'
  BY <1>1, <1>2, <1>3 DEF Start
<1>7. SentA' = SentA /\ (Owed' <=> Owed)
  BY <1>1, <1>2 DEF SentA, Owed, Echoing, A, M
<1>8. Counting'
  BY <1>1, <1>2, <1>3, <1>4, <1>7 DEF PacedInv, Counting, Going, Echoing, Coming, A, M
<1>9. Parity'
  <2>1. ~Going /\ ~Coming /\ ~Going' /\ ~Coming' /\ (Echoing' <=> Echoing)
    BY <1>1, <1>3, <1>4 DEF Going, Coming, Echoing, A, M
  <2>2. QED
    BY <1>1, <1>2, <1>3, <1>7, <2>1 DEF PacedInv, Parity
<1>10. Stays
  BY <1>1, <1>4, <1>7 DEF Stays, Going, Echoing, Coming, A, M
<1>11. QED
  BY <1>5, <1>6, <1>8, <1>9, <1>10 DEF PacedInv

(* The answer resets the counters of the A53, with the last echo still on   *)
(* its way or not.                                                          *)
LEMMA CtrlToA ==
  ASSUME PacedInv, Timely, IpcInv', ctrl_chan_rx_cb(A)
  PROVE  PacedInv' /\ Stays
<1>1. /\ ctrl[A] # None /\ ctrl' = [ctrl EXCEPT ![A] = None] /\ pc[A] = "delay"
      /\ app' = [app EXCEPT ![A].expected_msgs = ctrl[A], ![A].rx_count = 0, ![A].tx_count = 0]
      /\ sem' = sem /\ pc' = pc /\ work' = work /\ data' = data /\ free' = free
  BY DEF ctrl_chan_rx_cb, Interruptible, Timely, A
<1>2. /\ app'[A].rx_count = 0 /\ app'[A].tx_count = 0 /\ app'[M] = app[M]
      /\ ctrl'[A] = None /\ ctrl'[M] = ctrl[M]
  BY <1>1, Basics, CoreTypes DEF PacedInv, IpcInv, Types
<1>3. /\ ~Sending /\ ~Going /\ ~Echoing /\ ctrl[M] = None /\ pc[A] # "send_ctrl"
      /\ app[M].rx_count % 2 = 0
  BY <1>1 DEF PacedInv, OneMessage, Start, Parity
<1>4. Idle(A)' = Idle(A) /\ Idle(M)' = Idle(M)
  BY <1>1 DEF Idle
<1>5. OneMessage' /\ NeverStops'
  BY <1>1, <1>2, <1>4 DEF PacedInv, OneMessage, NeverStops, Sending, Going, Echoing, Coming, A, M
<1>6. Start'
  BY <1>1, <1>2, <1>3 DEF PacedInv, Start
<1>7. SentA' = 0 /\ (Owed' <=> Owed) /\ ~Going' /\ ~Echoing'
  BY <1>1, <1>2, <1>3, <1>4 DEF SentA, Owed, Going, Echoing, A, M
<1>8. Counting'
  BY <1>1, <1>2, <1>7 DEF PacedInv, Counting
<1>9. Parity'
  <2>1. SentA' % 2 = app'[M].rx_count % 2
    <3>1. 0 % 2 = 0
      BY Numbers
    <3>2. QED
      BY <1>2, <1>3, <1>7, <3>1
  <2>2. Coming' => Carries(A, Plus1(app[M].rx_count))'
    <3>1. Coming => Carries(A, Plus1(app[M].rx_count))
      BY DEF PacedInv, Parity
    <3>2. QED
      BY <1>1, <1>2, <1>4, <3>1 DEF Coming, Carries
  <2>3. /\ pc'[A] \notin {"fill", "tx"} /\ pc'[M] \notin {"fill", "tx"}
        /\ pc'[M] = "reply" \/ ctrl'[A] # None => app'[M].rx_count % 2 = 0
    BY <1>1, <1>2, <1>3 DEF Echoing, A, M
  <2>4. QED
    BY <1>7, <2>1, <2>2, <2>3 DEF Parity
<1>10. Stays
  <2>1. SentA % 2 = app[M].rx_count % 2 /\ 0 % 2 = 0
    BY <1>3, Numbers DEF PacedInv, Parity
  <2>2. QED
    BY <1>1, <1>3, <1>4, <1>7, <2>1 DEF Stays, Going, Coming
<1>11. QED
  BY <1>5, <1>6, <1>8, <1>9, <1>10 DEF PacedInv

(* The message under way leaves the channel it came on empty.               *)
LEMMA Delivered ==
  ASSUME NEW c \in Cores, NEW n \in Count, NEW ch \in Channels,
         Carries(c, n), data[c][ch] # <<>>, data \in [Cores -> [Channels -> Seq(Count)]],
         data' = [data EXCEPT ![c][ch] = Tail(@)]
  PROVE  ch = ChannelOf(Head(data[c][ch])) /\ ch = ChannelOf(n) /\ Idle(c)'
<1>1. PICK k \in Channels, no \in Count :
        /\ k = ChannelOf(no) /\ k = ChannelOf(n)
        /\ data[c] = [j \in Channels |-> IF j = k THEN <<no>> ELSE <<>>]
  BY DEF Carries
<1>2. ch = k /\ data[c][ch] = <<no>>
  BY <1>1
<1>3. Head(<<no>>) = no /\ Tail(<<no>>) = <<>>
  OBVIOUS
<1>4. \A j \in Channels : data'[c][j] = <<>>
  BY <1>1, <1>2, <1>3
<1>5. QED
  BY <1>1, <1>2, <1>3, <1>4 DEF Idle

LEMMA DataToM ==
  ASSUME PacedInv, Timely, IpcInv', NEW ch \in Channels, data_chan_rx_cb(M, ch)
  PROVE  PacedInv' /\ Receives
<1>0. /\ app[M].rx_count \in Count /\ app[M].tx_count \in Count /\ SentA \in Count
      /\ data \in [Cores -> [Channels -> Seq(Count)]] /\ sem \in [Cores -> Nat]
  BY PacedTypes, Basics
<1>1. Going /\ data[M][ch] # <<>>
  BY DEF data_chan_rx_cb, Going, Idle
<1>2. /\ Carries(M, app[M].rx_count) /\ ~Sending /\ ~Echoing /\ ~Coming /\ pc[M] = "take" /\ sem[M] = 0
      /\ ctrl[A] = None /\ ctrl[M] = None /\ pc[A] # "send_ctrl"
      /\ ~Owed /\ app[M].rx_count = app[M].tx_count
  <2>1. Carries(M, app[M].rx_count) /\ ~Sending /\ ~Echoing /\ ~Coming /\ pc[M] = "take" /\ ctrl[A] = None
    BY <1>1 DEF PacedInv, OneMessage, Parity
  <2>2. sem[M] = 0 /\ ~Owed
    BY <2>1 DEF Echoing, Owed, A, M
  <2>3. ctrl[M] = None /\ pc[A] # "send_ctrl"
    BY <1>1 DEF PacedInv, Start, Going
  <2>4. QED
    BY <2>1, <2>2, <2>3 DEF PacedInv, Counting
<1>3. ch = ChannelOf(Head(data[M][ch]))
  <2>1. PICK k \in Channels, no \in Count :
          /\ k = ChannelOf(no) /\ data[M] = [j \in Channels |-> IF j = k THEN <<no>> ELSE <<>>]
    BY <1>2 DEF Carries
  <2>2. QED
    BY <1>1, <2>1
<1>4. /\ app' = [app EXCEPT ![M].last_rx_ch = ch, ![M].rx_count = (@ + 1) % UINT16]
      /\ sem' = [sem EXCEPT ![M] = (@ + 1) % UINT8]
      /\ data' = [data EXCEPT ![M][ch] = Tail(@)]
      /\ pc' = pc /\ work' = work /\ ctrl' = ctrl
  BY <1>3 DEF data_chan_rx_cb, Received
<1>5. ch = ChannelOf(app[M].rx_count) /\ Idle(M)'
  BY <1>0, <1>1, <1>2, <1>4, Basics, Delivered
<1>6. Idle(A)' = Idle(A)
  BY <1>0, <1>4, Basics DEF Idle
<1>7. sem'[M] = 1
  <2>1. UINT8 \in Nat /\ UINT8 > 1
    BY CountWidth
  <2>2. (0 + 1) % UINT8 = 1
    BY <2>1
  <2>3. sem'[M] = (sem[M] + 1) % UINT8
    BY <1>0, <1>4, Basics
  <2>4. QED
    BY <1>2, <2>2, <2>3
<1>8. /\ app'[M].rx_count = Plus1(app[M].rx_count) /\ app'[M].tx_count = app[M].tx_count
      /\ app'[M].last_rx_ch = ch /\ app'[M].expected_msgs = app[M].expected_msgs /\ app'[A] = app[A]
  BY <1>4, Basics, CoreTypes DEF PacedInv, IpcInv, Types, Plus1
<1>9. Echoing' /\ ~Going' /\ ~Coming' /\ ~Sending'
  BY <1>2, <1>4, <1>5, <1>6, <1>7 DEF Echoing, Going, Coming, Sending, A, M
<1>10. OneMessage' /\ NeverStops'
  BY <1>2, <1>4, <1>7, <1>9 DEF PacedInv, OneMessage, NeverStops
<1>11. Start'
  BY <1>2, <1>4, <1>8 DEF PacedInv, Start
<1>12. SentA' = SentA /\ Owed'
  BY <1>4, <1>8, <1>9 DEF SentA, Owed, A, M
<1>13. Counting'
  BY <1>1, <1>2, <1>4, <1>8, <1>9, <1>12 DEF PacedInv, Counting
<1>14. Parity'
  <2>1. SentA' % 2 = app'[M].rx_count % 2
    BY <1>0, <1>1, <1>8, <1>12, Numbers DEF PacedInv, Parity
  <2>2. QED
    BY <1>2, <1>4, <1>5, <1>8, <1>9, <2>1 DEF Parity, Sending
<1>15. Receives
  BY <1>1, <1>9, <1>12 DEF Receives
<1>16. QED
  BY <1>10, <1>11, <1>13, <1>14, <1>15 DEF PacedInv

LEMMA DataToA ==
  ASSUME PacedInv, Timely, IpcInv', NEW ch \in Channels, data_chan_rx_cb(A, ch)
  PROVE  PacedInv' /\ Returns
<1>0. /\ app[A].rx_count \in Count /\ SentA \in Count
      /\ data \in [Cores -> [Channels -> Seq(Count)]] /\ sem \in [Cores -> Nat]
  BY PacedTypes, Basics
<1>1. Coming /\ data[A][ch] # <<>> /\ pc[A] = "delay"
  BY DEF data_chan_rx_cb, Coming, Idle, Interruptible, Timely, A
<1>2. ~Sending /\ ~Going /\ ~Echoing
  BY <1>1 DEF PacedInv, OneMessage
<1>3. PICK n \in Count : Carries(A, n)
  BY <1>1, PacedTypes, Numbers, Basics DEF PacedInv, Parity
<1>4. ch = ChannelOf(Head(data[A][ch]))
  <2>1. PICK k \in Channels, no \in Count :
          /\ k = ChannelOf(no) /\ data[A] = [j \in Channels |-> IF j = k THEN <<no>> ELSE <<>>]
    BY <1>3 DEF Carries
  <2>2. QED
    BY <1>1, <2>1
<1>5. /\ app' = [app EXCEPT ![A].last_rx_ch = ch, ![A].rx_count = (@ + 1) % UINT16]
      /\ sem' = [sem EXCEPT ![A] = (@ + 1) % UINT8]
      /\ data' = [data EXCEPT ![A][ch] = Tail(@)]
      /\ pc' = pc /\ work' = work /\ ctrl' = ctrl
  BY <1>4 DEF data_chan_rx_cb, Received
<1>6. Idle(A)' /\ Idle(M)' = Idle(M)
  <2>1. Idle(A)'
    BY <1>0, <1>1, <1>3, <1>5, Basics, Delivered
  <2>2. Idle(M)' = Idle(M)
    BY <1>0, <1>5, Basics DEF Idle
  <2>3. QED
    BY <2>1, <2>2
<1>7. /\ app'[A].rx_count = Plus1(app[A].rx_count) /\ app'[A].tx_count = app[A].tx_count
      /\ app'[M] = app[M] /\ sem'[M] = sem[M]
  BY <1>0, <1>5, Basics, CoreTypes DEF PacedInv, IpcInv, Types, Plus1
<1>8. ~Sending' /\ ~Going' /\ ~Echoing' /\ ~Coming'
  BY <1>2, <1>5, <1>6, <1>7 DEF Echoing, Going, Coming, Sending, A, M
<1>9. OneMessage' /\ NeverStops'
  BY <1>1, <1>5, <1>7, <1>8 DEF PacedInv, OneMessage, NeverStops
<1>10. Start'
  BY <1>1, <1>5, <1>7 DEF PacedInv, Start, Coming
<1>11. SentA' = SentA /\ (Owed' <=> Owed)
  BY <1>2, <1>5, <1>7, <1>8 DEF SentA, Owed, A, M
<1>12. Counting'
  BY <1>1, <1>5, <1>7, <1>8, <1>11 DEF PacedInv, Counting
<1>13. Parity'
  BY <1>1, <1>2, <1>5, <1>7, <1>8, <1>11 DEF PacedInv, Parity
<1>14. Returns
  BY <1>1, <1>8, <1>11 DEF Returns
<1>15. QED
  BY <1>9, <1>10, <1>12, <1>13, <1>14 DEF PacedInv

(* A step of a core's main code that moves no message, or the control one.  *)
LEMMA SendsCtrl ==
  ASSUME PacedInv, Timely, IpcInv', send_ctrl_msg
  PROVE  PacedInv' /\ Stays
<1>1. /\ pc[A] = "send_ctrl" /\ pc' = [pc EXCEPT ![A] = "delay"]
      /\ ctrl' = [ctrl EXCEPT ![M] = SAMPLE_NUM_MSGS]
      /\ app' = [app EXCEPT ![A].tx_count = 0]
      /\ sem' = sem /\ work' = work /\ data' = data /\ free' = free
  BY DEF send_ctrl_msg, Goto, A, M
<1>2. /\ app'[A].tx_count = 0 /\ app'[A].rx_count = app[A].rx_count /\ app'[M] = app[M]
      /\ ctrl'[M] = SAMPLE_NUM_MSGS /\ ctrl'[A] = ctrl[A] /\ pc'[A] = "delay" /\ pc'[M] = pc[M]
  BY <1>1, Basics, CoreTypes DEF PacedInv, IpcInv, Types
<1>3. /\ pc[M] = "take" /\ sem[M] = 0 /\ Idle(A) /\ Idle(M) /\ ctrl[A] = None
      /\ app[M].rx_count = 0 /\ app[M].tx_count = 0 /\ app[A].rx_count = 0 /\ app[A].tx_count = 0
      /\ SAMPLE_NUM_MSGS # None
  BY <1>1, CountWidth DEF PacedInv, Start
<1>4. Idle(A)' /\ Idle(M)'
  BY <1>1, <1>3 DEF Idle
<1>5. ~Sending' /\ ~Going' /\ ~Echoing' /\ ~Coming' /\ SentA' = 0 /\ SentA = 0 /\ ~Owed' /\ ~Owed
  BY <1>1, <1>2, <1>3, <1>4 DEF Sending, Going, Echoing, Coming, SentA, Owed, A, M
<1>6. OneMessage' /\ NeverStops'
  BY <1>1, <1>2, <1>3, <1>5 DEF PacedInv, OneMessage, NeverStops
<1>7. Start'
  BY <1>1, <1>2, <1>3, <1>4 DEF Start
<1>8. Counting'
  BY <1>1, <1>2, <1>3, <1>5 DEF PacedInv, Counting, Going, Echoing, Coming, A, M
<1>9. Parity'
  <2>1. 0 % 2 = 0
    BY Numbers
  <2>2. QED
    BY <1>1, <1>2, <1>3, <1>5, <2>1 DEF Parity
<1>10. Stays
  BY <1>3, <1>5 DEF Stays, Going, Coming, Echoing, A, M
<1>11. QED
  BY <1>6, <1>7, <1>8, <1>9, <1>10 DEF PacedInv

(* With nothing under way every buffer of the A53 is free.                  *)
LEMMA Wakes ==
  ASSUME PacedInv, Timely, IpcInv', Wake
  PROVE  PacedInv' /\ Stays
<1> DEFINE ch == ChannelOf(app[A].tx_count)
<1>1. pc[A] = "delay" /\ Quiet /\ Acquire(A, ch)
  BY DEF Wake, Timely, A
<1>2. /\ ctrl[A] = None /\ ctrl[M] = None /\ Idle(A) /\ Idle(M) /\ sem[M] = 0 /\ pc[M] = "take"
  BY <1>1, Basics DEF Quiet, Idle, M
<1>3. ch \in Channels /\ app[A].tx_count \in Count /\ pc \in [Cores -> Mains]
  BY Basics, PacedTypes, Numbers
<1>4. free[A][ch] # 0
  <2>1. Bufs = free[A][ch] + Len(data[M][ch]) + (IF work[A].ch = ch THEN 1 ELSE 0)
    BY <1>3, Basics DEF PacedInv, IpcInv, BuffersConserved
  <2>2. Len(data[M][ch]) = 0
    BY <1>2, <1>3 DEF Idle
  <2>3. work[A].ch = 0 /\ 0 # ch
    BY <1>1, <1>3, Basics DEF PacedInv, IpcInv, InHand
  <2>4. QED
    BY <2>1, <2>2, <2>3, IpcAssumption
<1>5. /\ work' = [work EXCEPT ![A].ch = ch] /\ pc' = [pc EXCEPT ![A] = "fill"]
      /\ app' = app /\ sem' = sem /\ data' = data /\ ctrl' = ctrl
  BY <1>1, <1>4 DEF Acquire, Goto
<1>6. pc'[A] = "fill" /\ pc'[M] = "take" /\ work'[A].ch = ch /\ work'[M] = work[M]
  BY <1>2, <1>3, <1>5, Basics, CoreTypes DEF PacedInv, IpcInv, Types
<1>7. Idle(A)' /\ Idle(M)'
  BY <1>2, <1>5 DEF Idle
<1>8. /\ ~Going' /\ ~Echoing' /\ ~Coming' /\ SentA' = SentA /\ ~Owed'
      /\ ~Going /\ ~Echoing /\ ~Coming /\ ~Owed
  BY <1>1, <1>2, <1>5, <1>6, <1>7 DEF Going, Echoing, Coming, SentA, Owed, A, M
<1>9. OneMessage' /\ NeverStops'
  BY <1>2, <1>5, <1>6, <1>8 DEF PacedInv, OneMessage, NeverStops
<1>10. Start'
  BY <1>1, <1>2, <1>5, <1>6 DEF PacedInv, Start
<1>11. Counting'
  BY <1>5, <1>6, <1>8 DEF PacedInv, Counting
<1>12. Parity'
  BY <1>2, <1>5, <1>6, <1>8 DEF PacedInv, Parity
<1>13. Stays
  BY <1>8 DEF Stays
<1>14. QED
  BY <1>9, <1>10, <1>11, <1>12, <1>13 DEF PacedInv

LEMMA FillsA ==
  ASSUME PacedInv, Timely, IpcInv', Fill(A)
  PROVE  PacedInv' /\ Stays
<1>1. /\ pc[A] = "fill" /\ pc' = [pc EXCEPT ![A] = "tx"]
      /\ work' = [work EXCEPT ![A].no = app[A].tx_count]
      /\ app' = app /\ sem' = sem /\ data' = data /\ ctrl' = ctrl
  BY DEF Fill, Goto
<1>2. /\ pc'[A] = "tx" /\ pc'[M] = pc[M] /\ work'[A].ch = work[A].ch
      /\ work'[A].no = app[A].tx_count /\ work'[M] = work[M]
  BY <1>1, Basics, CoreTypes DEF PacedInv, IpcInv, Types
<1>3. Idle(A)' = Idle(A) /\ Idle(M)' = Idle(M)
  BY <1>1 DEF Idle
<1>4. /\ Sending /\ (Going' <=> Going) /\ (Echoing' <=> Echoing) /\ (Coming' <=> Coming)
      /\ SentA' = SentA /\ (Owed' <=> Owed)
  BY <1>1, <1>2, <1>3 DEF Sending, Going, Echoing, Coming, SentA, Owed, A, M
<1>5. OneMessage' /\ NeverStops'
  BY <1>1, <1>2, <1>4 DEF PacedInv, OneMessage, NeverStops
<1>6. Start'
  BY <1>1, <1>2, <1>3 DEF PacedInv, Start
<1>7. Counting'
  BY <1>1, <1>2, <1>4 DEF PacedInv, Counting
<1>8. Parity'
  BY <1>1, <1>2, <1>4 DEF PacedInv, Parity, OneMessage
<1>9. Stays
  BY <1>4 DEF Stays
<1>10. QED
  BY <1>5, <1>6, <1>7, <1>8, <1>9 DEF PacedInv

(* A message sent into an idle core is the only one under way to it.        *)
LEMMA Sent ==
  ASSUME NEW c \in Cores, NEW no \in Count, NEW n \in Count, NEW ch \in Channels,
         Idle(c), data \in [Cores -> [Channels -> Seq(Count)]],
         ch = ChannelOf(no), ch = ChannelOf(n),
         data' = [data EXCEPT ![c][ch] = Append(@, no)]
  PROVE  Carries(c, n)' /\ ~Idle(c)'
<1>1. Append(<<>>, no) = <<no>> /\ <<no>> # <<>>
  OBVIOUS
<1>2. data'[c] = [k \in Channels |-> IF k = ch THEN <<no>> ELSE <<>>]
  BY <1>1 DEF Idle
<1>3. data'[c][ch] # <<>>
  BY <1>1, <1>2
<1>4. QED
  BY <1>2, <1>3 DEF Carries, Idle

LEMMA TxA ==
  ASSUME PacedInv, Timely, IpcInv', Tx(A, work[A].ch)
  PROVE  PacedInv' /\ Sends
<1> DEFINE ch == work[A].ch
           no == app[A].tx_count
<1>0. /\ no \in Count /\ app[A].rx_count \in Count /\ app[M].rx_count \in Count
      /\ data \in [Cores -> [Channels -> Seq(Count)]]
      /\ ch \in Channels /\ ch = ChannelOf(no)
  <2>1. no \in Count /\ app[A].rx_count \in Count /\ app[M].rx_count \in Count
    BY PacedTypes, Basics
  <2>2. ch = ChannelOf(no)
    BY DEF Tx, PacedInv, Parity
  <2>3. QED
    BY <2>1, <2>2, PacedTypes, Numbers
<1>1. /\ pc[A] = "tx" /\ pc' = [pc EXCEPT ![A] = "count"]
      /\ data' = [data EXCEPT ![M][ch] = Append(@, work[A].no)]
      /\ work' = [work EXCEPT ![A].ch = 0]
      /\ app' = app /\ sem' = sem /\ ctrl' = ctrl
  BY Basics DEF Tx, Goto
<1>2. work[A].no = no /\ Sending /\ ~Going /\ ~Echoing /\ ~Coming /\ pc[M] = "take" /\ ctrl[A] = None
  BY <1>1 DEF PacedInv, Parity, OneMessage, Sending
<1>3. pc'[A] = "count" /\ pc'[M] = pc[M] /\ work'[M] = work[M]
  BY <1>1, Basics DEF PacedInv, IpcInv, Types
<1>4. SentA = no /\ SentA' = Plus1(no)
  BY <1>1, <1>3 DEF SentA, Plus1, A, M
<1>5. no % 2 = app[M].rx_count % 2 /\ ChannelOf(no) = ChannelOf(app[M].rx_count)
  <2>1. no % 2 = app[M].rx_count % 2
    BY <1>2, <1>4 DEF PacedInv, Parity
  <2>2. QED
    BY <1>0, <2>1, Numbers
<1>6. Carries(M, app[M].rx_count)' /\ ~Idle(M)'
  <2>1. \E n \in Count : n = app[M].rx_count
    BY <1>0
  <2>2. PICK n \in Count : n = app[M].rx_count
    BY <2>1
  <2>3. Idle(M) /\ M \in Cores
    BY <1>2, Basics DEF Going
  <2>4. Carries(M, n)' /\ ~Idle(M)'
    BY <1>0, <1>1, <1>2, <1>5, <2>2, <2>3, Sent
  <2>5. QED
    BY <1>1, <2>2, <2>4 DEF Carries
<1>7. Idle(A)' = Idle(A)
  BY <1>0, <1>1, Basics DEF Idle
<1>8. Going' /\ ~Echoing' /\ ~Coming' /\ ~Sending' /\ (Owed' <=> Owed)
  BY <1>1, <1>2, <1>3, <1>6, <1>7 DEF Going, Echoing, Coming, Sending, Owed, A, M
<1>9. OneMessage' /\ NeverStops'
  BY <1>1, <1>2, <1>3, <1>8 DEF PacedInv, OneMessage, NeverStops
<1>10. Start'
  BY <1>1, <1>3 DEF PacedInv, Start
<1>11. Counting'
  <2>1. app[A].rx_count \in {SentA, Plus1(SentA)}
    BY <1>2 DEF PacedInv, Counting
  <2>2. Plus1(app'[A].rx_count) \in {SentA', Plus1(SentA')}
    BY <1>1, <1>4, <2>1
  <2>3. app'[M].rx_count = IF Owed' THEN Plus1(app'[M].tx_count) ELSE app'[M].tx_count
    BY <1>1, <1>8 DEF PacedInv, Counting
  <2>4. /\ pc'[A] = "count_store" => work'[A].val = app'[A].tx_count
        /\ pc'[M] = "count_store" => work'[M].val = app'[M].tx_count
    BY <1>1, <1>3 DEF PacedInv, Counting
  <2>5. QED
    BY <1>8, <2>2, <2>3, <2>4 DEF Counting, Plus1
<1>12. Parity'
  <2>1. SentA' % 2 # app'[M].rx_count % 2
    BY <1>0, <1>1, <1>4, <1>5, Numbers
  <2>2. QED
    BY <1>1, <1>2, <1>3, <1>6, <1>8, <2>1 DEF Parity
<1>13. Sends
  BY <1>0, <1>2, <1>4, <1>8, Numbers DEF Sends
<1>14. QED
  BY <1>9, <1>10, <1>11, <1>12, <1>13 DEF PacedInv

(* Counting what was sent takes two steps, and an interrupt has no part in  *)
(* them.                                                                    *)
LEMMA CountLoads ==
  ASSUME PacedInv, Timely, IpcInv', NEW c \in Cores, CountLoad(c)
  PROVE  PacedInv' /\ Stays
<1>1. /\ pc[c] = "count" /\ pc' = [pc EXCEPT ![c] = "count_store"]
      /\ work' = [work EXCEPT ![c].val = app[c].tx_count]
      /\ app' = app /\ sem' = sem /\ data' = data /\ ctrl' = ctrl
  BY DEF CountLoad, Goto
<1>2. /\ pc'[c] = "count_store" /\ work'[c].val = app[c].tx_count
      /\ work'[c].ch = work[c].ch /\ work'[c].no = work[c].no
      /\ \A k \in Cores : k # c => pc'[k] = pc[k] /\ work'[k] = work[k]
  BY <1>1, CoreTypes DEF PacedInv, IpcInv, Types
<1>3. Idle(A)' = Idle(A) /\ Idle(M)' = Idle(M)
  BY <1>1 DEF Idle
<1>4. /\ (Sending' <=> Sending) /\ (Going' <=> Going) /\ (Echoing' <=> Echoing)
      /\ (Coming' <=> Coming) /\ SentA' = SentA /\ (Owed' <=> Owed)
  <2>1. SentA' = SentA /\ (Sending' <=> Sending)
    BY <1>1, <1>2, Basics DEF SentA, Sending, A, M
  <2>2. (Echoing' <=> Echoing) /\ (Owed' <=> Owed)
    BY <1>1, <1>2, Basics DEF Echoing, Owed, A, M
  <2>3. QED
    BY <1>3, <2>1, <2>2 DEF Going, Coming
<1>5. OneMessage' /\ NeverStops'
  BY <1>1, <1>2, <1>4, Basics DEF PacedInv, OneMessage, NeverStops
<1>6. Start'
  BY <1>1, <1>2, <1>3, Basics DEF PacedInv, Start
<1>7. Counting'
  <2>1. /\ pc'[A] = "count_store" => work'[A].val = app'[A].tx_count
        /\ pc'[M] = "count_store" => work'[M].val = app'[M].tx_count
    BY <1>1, <1>2, Basics DEF PacedInv, Counting
  <2>2. QED
    BY <1>1, <1>4, <2>1 DEF PacedInv, Counting
<1>8. Parity'
  <2>1. /\ pc'[A] = "fill" <=> pc[A] = "fill"
        /\ pc'[A] = "tx" <=> pc[A] = "tx"
        /\ pc'[M] = "fill" <=> pc[M] = "fill"
        /\ pc'[M] = "tx" <=> pc[M] = "tx"
        /\ pc'[M] = "reply" <=> pc[M] = "reply"
        /\ work'[A].ch = work[A].ch /\ work'[A].no = work[A].no
        /\ work'[M].ch = work[M].ch /\ work'[M].no = work[M].no
    BY <1>1, <1>2, Basics
  <2>2. /\ Going' => Carries(M, app[M].rx_count)'
        /\ Coming' => Carries(A, Plus1(app[M].rx_count))'
    BY <1>1, <1>4 DEF PacedInv, Parity, Carries
  <2>3. QED
    BY <1>1, <1>4, <2>1, <2>2 DEF PacedInv, Parity
<1>9. Stays
  BY <1>4 DEF Stays
<1>10. QED
  BY <1>5, <1>6, <1>7, <1>8, <1>9 DEF PacedInv

LEMMA CountStoresA ==
  ASSUME PacedInv, Timely, IpcInv', CountStore(A, "delay")
  PROVE  PacedInv' /\ Stays
<1>1. /\ pc[A] = "count_store" /\ pc' = [pc EXCEPT ![A] = "delay"]
      /\ app' = [app EXCEPT ![A].tx_count = (work[A].val + 1) % UINT16]
      /\ work' = work /\ sem' = sem /\ data' = data /\ ctrl' = ctrl
  BY DEF CountStore, Goto
<1>2. /\ pc'[A] = "delay" /\ pc'[M] = pc[M]
      /\ app'[A].tx_count = Plus1(app[A].tx_count) /\ app'[A].rx_count = app[A].rx_count
      /\ app'[M] = app[M]
  <2>1. work[A].val = app[A].tx_count
    BY <1>1 DEF PacedInv, Counting
  <2>2. QED
    BY <1>1, <2>1, Basics, CoreTypes DEF PacedInv, IpcInv, Types, Plus1
<1>3. Idle(A)' = Idle(A) /\ Idle(M)' = Idle(M)
  BY <1>1 DEF Idle
<1>4. /\ ~Sending' /\ (Going' <=> Going) /\ (Echoing' <=> Echoing)
      /\ (Coming' <=> Coming) /\ SentA' = SentA /\ (Owed' <=> Owed)
  BY <1>1, <1>2, <1>3 DEF Sending, Going, Echoing, Coming, SentA, Owed, A, M
<1>5. OneMessage' /\ NeverStops'
  BY <1>1, <1>2, <1>4 DEF PacedInv, OneMessage, NeverStops
<1>6. Start'
  BY <1>1, <1>2, <1>3 DEF PacedInv, Start
<1>7. Counting'
  BY <1>1, <1>2, <1>4 DEF PacedInv, Counting
<1>8. Parity'
  <2>1. /\ Going' => Carries(M, app[M].rx_count)'
        /\ Coming' => Carries(A, Plus1(app[M].rx_count))'
    <3>1. /\ Going => Carries(M, app[M].rx_count)
          /\ Coming => Carries(A, Plus1(app[M].rx_count))
      BY DEF PacedInv, Parity
    <3>2. Carries(A, Plus1(app[M].rx_count)) => Carries(A, Plus1(app[M].rx_count))'
      BY <1>1, <1>2 DEF Carries
    <3>3. Carries(M, app[M].rx_count) => Carries(M, app[M].rx_count)'
      BY <1>1, <1>2 DEF Carries
    <3>4. QED
      BY <1>4, <3>1, <3>2, <3>3
  <2>2. QED
    BY <1>1, <1>2, <1>4, <2>1 DEF PacedInv, Parity
<1>9. Stays
  BY <1>4 DEF Stays
<1>10. QED
  BY <1>5, <1>6, <1>7, <1>8, <1>9 DEF PacedInv

(* The steps of the M7 that only touch its semaphore and its locals, while  *)
(* it has the message.                                                      *)
LEMMA Takes ==
  ASSUME PacedInv, Timely, IpcInv', SemaphoreWait \/ SemaphoreLoad \/ SemaphoreStore
  PROVE  PacedInv' /\ Stays
<1>1. /\ app' = app /\ data' = data /\ ctrl' = ctrl
      /\ pc'[A] = pc[A] /\ work'[A] = work[A]
      /\ work'[M].ch = work[M].ch /\ work'[M].no = work[M].no
  <2>1. app' = app /\ data' = data /\ ctrl' = ctrl
    BY DEF SemaphoreWait, SemaphoreLoad, SemaphoreStore
  <2>2. pc' \in {[pc EXCEPT ![M] = "take_load"], [pc EXCEPT ![M] = "take_store"],
                 [pc EXCEPT ![M] = "acquire"]}
    BY DEF SemaphoreWait, SemaphoreLoad, SemaphoreStore, Goto, M
  <2>3. work' = work \/ work' = [work EXCEPT ![M].val = sem[M]]
    BY DEF SemaphoreWait, SemaphoreLoad, SemaphoreStore, M
  <2>4. pc'[A] = pc[A]
    BY <2>2, Basics DEF PacedInv, IpcInv, Types
  <2>5. work'[A] = work[A] /\ work'[M].ch = work[M].ch /\ work'[M].no = work[M].no
    <3>1. work \in [Cores -> [ch : Channels \cup {0}, no : Count, val : Nat]]
      BY DEF PacedInv, IpcInv, Types
    <3>2. QED
      BY <2>3, <3>1, Basics
  <2>6. QED
    BY <2>1, <2>4, <2>5
<1>2. Echoing /\ Echoing' /\ sem'[M] \in {0, 1}
      /\ (sem'[M] # 0 => pc'[M] \in {"take_load", "take_store"})
      /\ pc'[M] \in {"take_load", "take_store", "acquire"}
      /\ (pc'[M] \in {"take_load", "take_store"} => sem'[M] = 1)
      /\ (pc'[M] = "take_store" => work'[M].val = 1)
  <2>1. CASE SemaphoreWait
    <3>1. pc[M] = "take" /\ sem[M] = 1 /\ pc'[M] = "take_load" /\ sem'[M] = 1
      BY <2>1, Basics DEF SemaphoreWait, Goto, M, PacedInv, OneMessage, IpcInv, Types
    <3>2. QED
      BY <3>1 DEF Echoing, A, M
  <2>2. CASE SemaphoreLoad
    <3>1. /\ pc[M] = "take_load" /\ pc'[M] = "take_store" /\ sem'[M] = sem[M]
          /\ work'[M].val = sem[M]
      BY <2>2, Basics, CoreTypes DEF SemaphoreLoad, Goto, M, PacedInv, IpcInv, Types
    <3>2. sem[M] = 1
      BY <3>1 DEF PacedInv, OneMessage
    <3>3. QED
      BY <3>1, <3>2 DEF Echoing, A, M
  <2>3. CASE SemaphoreStore
    <3>1. /\ pc[M] = "take_store" /\ pc'[M] = "acquire"
          /\ sem'[M] = (work[M].val + UINT8 - 1) % UINT8
      BY <2>3, Basics DEF SemaphoreStore, Goto, M, PacedInv, IpcInv, Types
    <3>2. work[M].val = 1
      BY <3>1 DEF PacedInv, OneMessage
    <3>3. (1 + UINT8 - 1) % UINT8 = 0
      BY CountWidth
    <3>4. QED
      BY <3>1, <3>2, <3>3 DEF Echoing, A, M
  <2>4. QED
    BY <2>1, <2>2, <2>3
<1>3. Idle(A)' = Idle(A) /\ Idle(M)' = Idle(M)
  BY <1>1 DEF Idle
<1>4. /\ (Sending' <=> Sending) /\ (Going' <=> Going) /\ (Coming' <=> Coming)
      /\ SentA' = SentA /\ Owed /\ Owed'
  BY <1>1, <1>2, <1>3 DEF Sending, Going, Coming, SentA, Owed, A, M
<1>5. ~Sending /\ ~Going /\ ~Coming /\ ctrl[A] = None /\ pc'[M] \in {"take_load", "take_store", "acquire"}
  BY <1>2 DEF PacedInv, OneMessage
<1>6. OneMessage' /\ NeverStops'
  BY <1>1, <1>2, <1>4, <1>5, Basics DEF PacedInv, OneMessage, NeverStops
<1>7. ctrl[M] = None /\ pc[A] # "send_ctrl"
  BY <1>2 DEF PacedInv, Start, Echoing, A, M
<1>8. Start'
  BY <1>1, <1>7 DEF PacedInv, Start
<1>9. Counting'
  BY <1>1, <1>2, <1>4, <1>5 DEF PacedInv, Counting
<1>10. Parity'
  BY <1>1, <1>2, <1>4, <1>5 DEF PacedInv, Parity
<1>11. Stays
  BY <1>2, <1>4 DEF Stays
<1>12. QED
  BY <1>6, <1>8, <1>9, <1>10, <1>11 DEF PacedInv

(* The echo finds every buffer of the M7 free.                              *)
LEMMA AcquiresEcho ==
  ASSUME PacedInv, Timely, IpcInv', AcquireEcho
  PROVE  PacedInv' /\ Stays
<1> DEFINE ch == app[M].last_rx_ch
<1>1. pc[M] = "acquire" /\ Acquire(M, ch)
  BY DEF AcquireEcho, M
<1>2. Echoing /\ ~Sending /\ ~Going /\ ~Coming /\ ctrl[A] = None /\ sem[M] = 0
      /\ ctrl[M] = None /\ pc[A] # "send_ctrl"
  BY <1>1 DEF PacedInv, OneMessage, Start, Echoing, A, M
<1>3. ch = ChannelOf(app[M].tx_count) /\ ch \in Channels
  BY <1>2, PacedTypes, Numbers, Basics DEF PacedInv, Parity
<1>4. free[M][ch] # 0
  <2>1. Bufs = free[M][ch] + Len(data[A][ch]) + (IF work[M].ch = ch THEN 1 ELSE 0)
    BY <1>3, Basics DEF PacedInv, IpcInv, BuffersConserved
  <2>2. Len(data[A][ch]) = 0
    BY <1>2, <1>3 DEF Coming, Idle
  <2>3. work[M].ch = 0 /\ 0 # ch
    BY <1>1, <1>3, Basics DEF PacedInv, IpcInv, InHand
  <2>4. QED
    BY <2>1, <2>2, <2>3, IpcAssumption
<1>5. /\ work' = [work EXCEPT ![M].ch = ch] /\ pc' = [pc EXCEPT ![M] = "fill"]
      /\ app' = app /\ sem' = sem /\ data' = data /\ ctrl' = ctrl
  BY <1>1, <1>4 DEF Acquire, Goto
<1>6. pc'[M] = "fill" /\ pc'[A] = pc[A] /\ work'[M].ch = ch /\ work'[A] = work[A]
  BY <1>3, <1>5, Basics, CoreTypes DEF PacedInv, IpcInv, Types
<1>7. Idle(A)' = Idle(A) /\ Idle(M)' = Idle(M)
  BY <1>5 DEF Idle
<1>8. ~Sending' /\ ~Going' /\ Echoing' /\ ~Coming' /\ SentA' = SentA /\ Owed /\ Owed'
  BY <1>2, <1>5, <1>6, <1>7 DEF Sending, Going, Echoing, Coming, SentA, Owed, A, M
<1>9. OneMessage' /\ NeverStops'
  BY <1>2, <1>5, <1>6, <1>8 DEF PacedInv, OneMessage, NeverStops
<1>10. Start'
  BY <1>2, <1>5, <1>6 DEF PacedInv, Start
<1>11. Counting'
  BY <1>2, <1>5, <1>6, <1>8 DEF PacedInv, Counting
<1>12. Parity'
  BY <1>2, <1>3, <1>5, <1>6, <1>8 DEF PacedInv, Parity, Sending
<1>13. Stays
  BY <1>2, <1>8 DEF Stays
<1>14. QED
  BY <1>9, <1>10, <1>11, <1>12, <1>13 DEF PacedInv

LEMMA FillsM ==
  ASSUME PacedInv, Timely, IpcInv', Fill(M)
  PROVE  PacedInv' /\ Stays
<1>1. /\ pc[M] = "fill" /\ pc' = [pc EXCEPT ![M] = "tx"]
      /\ work' = [work EXCEPT ![M].no = app[M].tx_count]
      /\ app' = app /\ sem' = sem /\ data' = data /\ ctrl' = ctrl
  BY DEF Fill, Goto
<1>2. /\ pc'[M] = "tx" /\ pc'[A] = pc[A] /\ work'[M].ch = work[M].ch
      /\ work'[M].no = app[M].tx_count /\ work'[A] = work[A]
  BY <1>1, Basics, CoreTypes DEF PacedInv, IpcInv, Types
<1>3. Idle(A)' = Idle(A) /\ Idle(M)' = Idle(M)
  BY <1>1 DEF Idle
<1>4. Echoing /\ ~Sending /\ ~Going /\ ~Coming /\ ctrl[A] = None /\ sem[M] = 0
      /\ ctrl[M] = None /\ pc[A] # "send_ctrl"
  BY <1>1 DEF PacedInv, OneMessage, Start, Echoing, A, M
<1>5. ~Sending' /\ ~Going' /\ Echoing' /\ ~Coming' /\ SentA' = SentA /\ Owed /\ Owed'
  BY <1>1, <1>2, <1>3, <1>4 DEF Sending, Going, Echoing, Coming, SentA, Owed, A, M
<1>6. OneMessage' /\ NeverStops'
  BY <1>1, <1>2, <1>4, <1>5 DEF PacedInv, OneMessage, NeverStops
<1>7. Start'
  BY <1>1, <1>2, <1>4 DEF PacedInv, Start
<1>8. Counting'
  BY <1>1, <1>2, <1>4, <1>5 DEF PacedInv, Counting
<1>9. Parity'
  BY <1>1, <1>2, <1>4, <1>5 DEF PacedInv, Parity, Sending
<1>10. Stays
  BY <1>4, <1>5 DEF Stays
<1>11. QED
  BY <1>6, <1>7, <1>8, <1>9, <1>10 DEF PacedInv

LEMMA TxM ==
  ASSUME PacedInv, Timely, IpcInv', Tx(M, app[M].last_rx_ch)
  PROVE  PacedInv' /\ Echoes
<1> DEFINE ch == app[M].last_rx_ch
           no == app[M].tx_count
<1>1. pc[M] = "tx" /\ Echoing /\ ~Sending /\ ~Going /\ ~Coming /\ ctrl[A] = None /\ sem[M] = 0
      /\ ctrl[M] = None /\ pc[A] # "send_ctrl"
  <2>1. pc[M] = "tx"
    BY DEF Tx
  <2>2. QED
    BY <2>1 DEF PacedInv, OneMessage, Start, Echoing, A, M
<1>2. work[M].ch = ch /\ work[M].no = no /\ ch = ChannelOf(no)
  BY <1>1 DEF PacedInv, Parity
<1>3. no \in Count /\ data \in [Cores -> [Channels -> Seq(Count)]] /\ ch \in Channels
  BY <1>2, PacedTypes, Basics, Numbers
<1>4. /\ pc' = [pc EXCEPT ![M] = "count"]
      /\ data' = [data EXCEPT ![A][ch] = Append(@, no)]
      /\ work' = [work EXCEPT ![M].ch = 0]
      /\ app' = app /\ sem' = sem /\ ctrl' = ctrl
  BY <1>2, Basics DEF Tx, Goto
<1>5. pc'[M] = "count" /\ pc'[A] = pc[A] /\ work'[A] = work[A]
  BY <1>4, Basics DEF PacedInv, IpcInv, Types
<1>6. Carries(A, Plus1(app[M].rx_count))' /\ ~Idle(A)'
  <2>1. PICK n \in Count : n = Plus1(app[M].rx_count) /\ ch = ChannelOf(n)
    <3>1. app[M].rx_count = Plus1(no)
      BY <1>1 DEF PacedInv, Counting, Owed
    <3>2. Plus1(no) \in Count /\ Plus1(Plus1(no)) \in Count /\ no % 2 # Plus1(no) % 2
      BY <1>3, Numbers
    <3>3. Plus1(Plus1(no)) % 2 = no % 2
      BY <1>3, <3>2, Numbers
    <3>4. ChannelOf(Plus1(Plus1(no))) = ch
      BY <1>2, <1>3, <3>2, <3>3, Numbers
    <3>5. QED
      BY <3>1, <3>2, <3>4
  <2>2. Idle(A) /\ A \in Cores
    BY <1>1, Basics DEF Coming
  <2>3. Carries(A, n)' /\ ~Idle(A)'
    BY <1>2, <1>3, <1>4, <2>1, <2>2, Sent
  <2>4. QED
    BY <1>4, <2>1, <2>3 DEF Carries, Plus1
<1>7. Idle(M)' = Idle(M)
  BY <1>3, <1>4, Basics DEF Idle
<1>8. Coming' /\ ~Echoing' /\ ~Going' /\ ~Sending' /\ SentA' = SentA /\ Owed /\ Owed'
  BY <1>1, <1>4, <1>5, <1>6, <1>7 DEF Going, Echoing, Coming, Sending, SentA, Owed, A, M
<1>9. OneMessage' /\ NeverStops'
  BY <1>1, <1>4, <1>5, <1>8 DEF PacedInv, OneMessage, NeverStops
<1>10. Start'
  BY <1>1, <1>4, <1>5 DEF PacedInv, Start
<1>11. Counting'
  BY <1>1, <1>4, <1>5, <1>8 DEF PacedInv, Counting
<1>12. Parity'
  <2>2. QED
    BY <1>1, <1>4, <1>5, <1>6, <1>8 DEF PacedInv, Parity, Sending
<1>13. Echoes
  BY <1>1, <1>8 DEF Echoes
<1>14. QED
  BY <1>9, <1>10, <1>11, <1>12, <1>13 DEF PacedInv

LEMMA CountStoresM ==
  ASSUME PacedInv, Timely, IpcInv', CountStore(M, "check")
  PROVE  PacedInv' /\ Stays
<1>1. /\ pc[M] = "count_store" /\ pc' = [pc EXCEPT ![M] = "check"]
      /\ app' = [app EXCEPT ![M].tx_count = (work[M].val + 1) % UINT16]
      /\ work' = work /\ sem' = sem /\ data' = data /\ ctrl' = ctrl
  BY DEF CountStore, Goto
<1>2. /\ pc'[M] = "check" /\ pc'[A] = pc[A]
      /\ app'[M].tx_count = Plus1(app[M].tx_count) /\ app'[M].rx_count = app[M].rx_count
      /\ app'[M].expected_msgs = app[M].expected_msgs /\ app'[A] = app[A]
  <2>1. work[M].val = app[M].tx_count
    BY <1>1 DEF PacedInv, Counting
  <2>2. QED
    BY <1>1, <2>1, Basics, CoreTypes DEF PacedInv, IpcInv, Types, Plus1
<1>3. Idle(A)' = Idle(A) /\ Idle(M)' = Idle(M)
  BY <1>1 DEF Idle
<1>4. ~Sending /\ ~Going /\ sem[M] = 0 /\ ctrl[M] = None /\ pc[A] # "send_ctrl" /\ ctrl[A] = None
  BY <1>1 DEF PacedInv, OneMessage, Start
<1>5. /\ ~Sending' /\ ~Going' /\ ~Echoing' /\ ~Echoing
      /\ (Coming' <=> Coming) /\ SentA' = SentA /\ Owed /\ ~Owed'
  BY <1>1, <1>2, <1>3, <1>4 DEF Sending, Going, Echoing, Coming, SentA, Owed, A, M
<1>6. OneMessage' /\ NeverStops'
  BY <1>1, <1>2, <1>4, <1>5 DEF PacedInv, OneMessage, NeverStops
<1>7. Start'
  BY <1>1, <1>2, <1>4 DEF PacedInv, Start
<1>8. Counting'
  BY <1>1, <1>2, <1>4, <1>5 DEF PacedInv, Counting
<1>9. Parity'
  <2>1. Coming' => Carries(A, Plus1(app[M].rx_count))'
    BY <1>1, <1>5 DEF PacedInv, Parity, Carries
  <2>2. SentA' % 2 = app'[M].rx_count % 2
    BY <1>2, <1>4, <1>5 DEF PacedInv, Parity
  <2>3. QED
    BY <1>1, <1>2, <1>4, <1>5, <2>1, <2>2 DEF Parity, Sending
<1>10. Stays
  BY <1>4, <1>5 DEF Stays
<1>11. QED
  BY <1>6, <1>7, <1>8, <1>9, <1>10 DEF PacedInv

(* The answer goes out on the message announced, which is even.             *)
LEMMA Answers ==
  ASSUME PacedInv, Timely, IpcInv', CheckExpected \/ reply_ctrl_msg
  PROVE  PacedInv' /\ Stays
<1>1. /\ pc[M] \in {"check", "reply"}
      /\ app' = app /\ work' = work /\ sem' = sem /\ data' = data
  BY DEF CheckExpected, reply_ctrl_msg, M
<1>2. ~Sending /\ ~Going /\ ~Echoing /\ sem[M] = 0 /\ ctrl[M] = None /\ pc[A] # "send_ctrl"
      /\ ctrl[A] = None /\ app[M].expected_msgs = SAMPLE_NUM_MSGS /\ ~Owed
  BY <1>1 DEF PacedInv, OneMessage, Start, Echoing, Owed, A, M
<1>3. /\ pc'[A] = pc[A] /\ pc'[M] \in {"reply", "take"} /\ ctrl'[M] = ctrl[M]
      /\ pc'[M] = "reply" => ctrl'[A] = None
      /\ pc'[M] = "reply" \/ ctrl'[A] # None => app[M].rx_count % 2 = 0
  <2>1. CASE CheckExpected
    <3>1. /\ pc' = [pc EXCEPT ![M] = IF app[M].rx_count = app[M].expected_msgs THEN "reply" ELSE "take"]
          /\ ctrl' = ctrl
      BY <2>1 DEF CheckExpected, Goto, M
    <3>2. SAMPLE_NUM_MSGS % 2 = 0
      BY Numbers
    <3>3. pc'[A] = pc[A] /\ pc'[M] = IF app[M].rx_count = app[M].expected_msgs THEN "reply" ELSE "take"
      BY <3>1, Basics DEF PacedInv, IpcInv, Types
    <3>4. QED
      BY <1>2, <3>1, <3>2, <3>3
  <2>2. CASE reply_ctrl_msg
    <3>1. /\ pc[M] = "reply" /\ pc' = [pc EXCEPT ![M] = "take"]
          /\ ctrl' = [ctrl EXCEPT ![A] = app[M].rx_count]
      BY <2>2 DEF reply_ctrl_msg, Goto, A, M
    <3>2. app[M].rx_count % 2 = 0
      BY <3>1 DEF PacedInv, Parity
    <3>3. QED
      BY <3>1, <3>2, Basics DEF PacedInv, IpcInv, Types
  <2>3. QED
    BY <2>1, <2>2
<1>4. Idle(A)' = Idle(A) /\ Idle(M)' = Idle(M)
  BY <1>1 DEF Idle
<1>5. ~Sending' /\ ~Going' /\ ~Echoing' /\ (Coming' <=> Coming) /\ SentA' = SentA /\ ~Owed'
  BY <1>1, <1>2, <1>3, <1>4 DEF Sending, Going, Echoing, Coming, SentA, Owed, A, M
<1>6. OneMessage' /\ NeverStops'
  <2>1. pc[A] \in {"count", "count_store"} => Coming
    BY <1>2 DEF PacedInv, OneMessage
  <2>2. OneMessage'
    BY <1>1, <1>2, <1>3, <1>5, <2>1 DEF OneMessage
  <2>3. QED
    BY <1>3, <2>2, Basics DEF PacedInv, NeverStops
<1>7. Start'
  BY <1>1, <1>2, <1>3 DEF PacedInv, Start
<1>8. Counting'
  BY <1>1, <1>2, <1>3, <1>5 DEF PacedInv, Counting
<1>9. Parity'
  <2>1. Coming' => Carries(A, Plus1(app[M].rx_count))'
    BY <1>1, <1>5 DEF PacedInv, Parity, Carries
  <2>2. SentA' % 2 = app'[M].rx_count % 2
    BY <1>1, <1>2, <1>5 DEF PacedInv, Parity
  <2>3. QED
    BY <1>1, <1>2, <1>3, <1>5, <2>1, <2>2 DEF Parity, Sending
<1>10. Stays
  BY <1>2, <1>5 DEF Stays
<1>11. QED
  BY <1>6, <1>7, <1>8, <1>9, <1>10 DEF PacedInv

LEMMA PacedInitial == Timely /\ Init => PacedInv
<1> SUFFICES ASSUME Timely, Init PROVE PacedInv
  OBVIOUS
<1>1. IpcInv
  BY IpcInitial
<1>2. /\ pc[A] = "send_ctrl" /\ pc[M] = "take" /\ sem[M] = 0 /\ Idle(A) /\ Idle(M)
      /\ ctrl[A] = None /\ ctrl[M] = None
      /\ app[A].rx_count = 0 /\ app[A].tx_count = 0
      /\ app[M].rx_count = 0 /\ app[M].tx_count = 0
  BY Basics DEF Init, Idle, A
<1>3. ~Sending /\ ~Going /\ ~Echoing /\ ~Coming /\ SentA = 0 /\ ~Owed
  BY <1>2 DEF Sending, Going, Echoing, Coming, SentA, Owed, A, M
<1>4. OneMessage /\ NeverStops /\ Start
  BY <1>2, <1>3, Basics DEF OneMessage, NeverStops, Start
<1>5. Counting
  BY <1>2, <1>3 DEF Counting
<1>6. Parity
  <2>1. 0 % 2 = 0
    BY Numbers
  <2>2. QED
    BY <1>2, <1>3, <2>1 DEF Parity
<1>7. QED
  BY <1>1, <1>4, <1>5, <1>6 DEF PacedInv

LEMMA PacedStep ==
  Timely /\ PacedInv /\ [Next]_vars => PacedInv' /\ (Stays \/ Sends \/ Receives \/ Echoes \/ Returns)
<1> SUFFICES ASSUME Timely, PacedInv, [Next]_vars
               PROVE  PacedInv' /\ (Stays \/ Sends \/ Receives \/ Echoes \/ Returns)
  OBVIOUS
<1>0. IpcInv'
  BY IpcStep DEF PacedInv
<1>1. CASE send_ctrl_msg
  BY <1>0, <1>1, SendsCtrl
<1>2. CASE Ipcf_Send_Task
  <2>1. Wake \/ Fill(A) \/ Tx(A, work[A].ch) \/ CountLoad(A) \/ CountStore(A, "delay")
    BY <1>2 DEF Ipcf_Send_Task, A
  <2>2. QED
    BY <1>0, <2>1, Basics, Wakes, FillsA, TxA, CountLoads, CountStoresA
<1>3. CASE shm_demo
  <2>1. \/ SemaphoreWait \/ SemaphoreLoad \/ SemaphoreStore \/ AcquireEcho \/ Fill(M)
        \/ Tx(M, app[M].last_rx_ch) \/ CountLoad(M) \/ CountStore(M, "check")
        \/ CheckExpected \/ reply_ctrl_msg
    BY <1>3 DEF shm_demo, M
  <2>2. QED
    BY <1>0, <2>1, Basics, Takes, AcquiresEcho, FillsM, TxM, CountLoads, CountStoresM, Answers
<1>4. ASSUME NEW core \in Cores, Interrupt(core)
      PROVE  PacedInv' /\ (Stays \/ Receives \/ Returns)
  <2>1. core = A \/ core = M
    BY Basics
  <2>2. ctrl_chan_rx_cb(core) \/ \E ch \in Channels : data_chan_rx_cb(core, ch)
    BY <1>4 DEF Interrupt
  <2>3. QED
    BY <1>0, <2>1, <2>2, CtrlToA, CtrlToM, DataToA, DataToM
<1>5. CASE UNCHANGED vars
  <2>1. /\ (Echoing' <=> Echoing) /\ SentA' = SentA /\ Idle(A)' = Idle(A) /\ Idle(M)' = Idle(M)
        /\ \A n : Carries(A, n)' = Carries(A, n) /\ Carries(M, n)' = Carries(M, n)
    BY <1>5 DEF vars, Echoing, SentA, Idle, Carries
  <2>2. (Sending' <=> Sending) /\ (Going' <=> Going) /\ (Coming' <=> Coming) /\ (Owed' <=> Owed)
    BY <1>5, <2>1 DEF vars, Sending, Going, Coming, Owed
  <2>3. NeverStops' /\ OneMessage' /\ Start' /\ Counting'
    BY <1>5, <2>1, <2>2 DEF vars, PacedInv, NeverStops, OneMessage, Start, Counting
  <2>4. Parity'
    BY <1>5, <2>1, <2>2 DEF vars, PacedInv, Parity
  <2>5. Stays
    BY <2>1, <2>2 DEF Stays
  <2>6. QED
    BY <1>0, <2>3, <2>4, <2>5 DEF PacedInv
<1>6. QED
  BY <1>1, <1>2, <1>3, <1>4, <1>5 DEF Next, A53Step

(* When one message at a time is under way and the A53 ends its round before  *)
(* it is interrupted, message, counters, channel and semaphore stay together. *)
THEOREM PacedInvariant == Timely => (Spec => []PacedInv)
<1> SUFFICES ASSUME Timely PROVE Spec => []PacedInv
  OBVIOUS
<1>1. Init => PacedInv
  BY PacedInitial
<1>2. PacedInv /\ [Next]_vars => PacedInv'
  BY PacedStep
<1> QED
  BY <1>1, <1>2, PTL DEF Spec

(* AllEchoed: between two messages each one sent has come back exactly once,  *)
(* the counters wrapping together, on any number of buffers.                  *)
THEOREM EachMessageEchoedOnce == Timely => (Spec => []AllEchoed)
<1> SUFFICES ASSUME Timely PROVE Spec => []AllEchoed
  OBVIOUS
<1>1. PacedInv => AllEchoed
  <2> SUFFICES ASSUME PacedInv, Quiet, pc[A] = "delay"
               PROVE  /\ app[M].tx_count = app[M].rx_count
                      /\ app[A].rx_count \in {app[A].tx_count, Plus1(app[A].tx_count)}
    BY DEF AllEchoed, A, M, Plus1
  <2>1. ~Going /\ ~Echoing /\ ~Coming /\ ~Owed /\ SentA = app[A].tx_count
    BY Basics DEF Quiet, Going, Echoing, Coming, Idle, Owed, SentA, M, A
  <2> QED
    BY <2>1 DEF PacedInv, Counting
<1>2. Spec => []PacedInv
  BY PacedInvariant
<1> QED
  BY <1>1, <1>2, PTL

(* Neither core ever stops: no message is taken for one of the other channel, *)
(* no acquisition fails, and each buffer goes out on the channel it is for.   *)
THEOREM DemoNeverStops == Timely => (Spec => []NeverStops)
<1> SUFFICES ASSUME Timely PROVE Spec => []NeverStops
  OBVIOUS
<1>1. PacedInv => NeverStops
  BY DEF PacedInv
<1>2. Spec => []PacedInv
  BY PacedInvariant
<1> QED
  BY <1>1, <1>2, PTL

(* ChannelInSync, which the run ipc_in_sync refutes for an A53 that its own   *)
(* answers interrupt, holds when they do not.                                 *)
THEOREM InSyncWhenPrompt == Timely => (Spec => []ChannelInSync)
<1> SUFFICES ASSUME Timely PROVE Spec => []ChannelInSync
  OBVIOUS
<1>1. NeverStops => ChannelInSync
  BY Basics DEF NeverStops, ChannelInSync
<1>2. Spec => []NeverStops
  BY DemoNeverStops
<1> QED
  BY <1>1, <1>2, PTL

(* What EchoTurns sees of a state *)
Last == ChannelOf(SentA + 1)
Seen ==
  /\ UnderWay(M) = IF Going THEN Turns!Only(Last) ELSE Turns!None
  /\ UnderWay(A) = IF Coming THEN Turns!Only(Last) ELSE Turns!None
  /\ Last \in Channels
  /\ ~(Going /\ Echoing) /\ ~(Going /\ Coming) /\ ~(Echoing /\ Coming)

(* The channel of the last message, in terms of the parity of the next.     *)
LEMMA LastChannel ==
  ASSUME NEW m \in Count, NEW n \in Count
  PROVE  /\ ChannelOf(m + 1) \in Channels
         /\ m % 2 # n % 2 <=> ChannelOf(m + 1) = ChannelOf(n)
         /\ m % 2 = n % 2 <=> ChannelOf(m + 1) = ChannelOf(n + 1)
         /\ ChannelOf(n + 1) = ChannelOf(Plus1(n))
<1>1. m \in Nat /\ n \in Nat
  BY CountWidth
<1>2. UINT16 \in Nat /\ UINT16 % 2 = 0 /\ Count = 0 .. UINT16 - 1
  BY IpcAssumption DEF Count
<1>3. Plus1(n) % 2 = (n + 1) % 2
  <2>1. CASE n = UINT16 - 1
    <3>1. Plus1(n) = 0
      BY <1>1, <1>2, <2>1 DEF Plus1
    <3>2. QED
      BY <1>1, <1>2, <2>1, <3>1
  <2>2. CASE n # UINT16 - 1
    <3>1. Plus1(n) = n + 1
      BY <1>1, <1>2, <2>2 DEF Plus1
    <3>2. QED
      BY <3>1
  <2>3. QED
    BY <2>1, <2>2
<1>4. ChannelOf(n + 1) = ChannelOf(Plus1(n))
  BY <1>3 DEF ChannelOf
<1>5. QED
  BY <1>1, <1>4 DEF ChannelOf, Channels

(* Exactly one message is under way or none. *)
LEMMA StateSeen == Timely /\ PacedInv => Seen
<1> SUFFICES ASSUME Timely, PacedInv PROVE Seen
  OBVIOUS
<1>1. SentA \in Count /\ app[M].rx_count \in Count /\ data \in [Cores -> [Channels -> Seq(Count)]]
  BY PacedTypes, Basics
<1>2. ~(Going /\ Echoing) /\ ~(Going /\ Coming) /\ ~(Echoing /\ Coming)
  BY DEF PacedInv, OneMessage
<1>3. Last \in Channels
  BY <1>1, LastChannel DEF Last
<1>4. Going => Carries(M, app[M].rx_count) /\ ChannelOf(app[M].rx_count) = Last
  BY <1>1, LastChannel DEF PacedInv, Parity, Last
<1>5. Coming => Carries(A, Plus1(app[M].rx_count)) /\ ChannelOf(Plus1(app[M].rx_count)) = Last
  <2>1. Coming => SentA % 2 = app[M].rx_count % 2
    BY <1>2 DEF PacedInv, Parity
  <2>2. SentA % 2 = app[M].rx_count % 2 =>
          ChannelOf(SentA + 1) = ChannelOf(app[M].rx_count + 1)
    BY <1>1, LastChannel
  <2>3. ChannelOf(app[M].rx_count + 1) = ChannelOf(Plus1(app[M].rx_count))
    BY <1>1, LastChannel
  <2>4. QED
    BY <2>1, <2>2, <2>3 DEF PacedInv, Parity, Last
<1>6. ASSUME NEW c \in Cores, NEW n, Carries(c, n), ChannelOf(n) = Last
      PROVE  UnderWay(c) = Turns!Only(Last)
  <2>1. PICK ch \in Channels, no \in Count :
          ch = ChannelOf(n) /\ data[c] = [k \in Channels |-> IF k = ch THEN <<no>> ELSE <<>>]
    BY <1>6 DEF Carries
  <2>2. Len(<<no>>) = 1 /\ Len(<<>>) = 0
    OBVIOUS
  <2>3. QED
    BY <1>3, <1>6, <2>1, <2>2 DEF UnderWay, Turns!Only, Turns!None
<1>7. ASSUME NEW c \in Cores, Idle(c) PROVE UnderWay(c) = Turns!None
  <2>1. Len(<<>>) = 0
    OBVIOUS
  <2>2. QED
    BY <1>7, <2>1 DEF Idle, UnderWay, Turns!None
<1>8. QED
  BY <1>2, <1>3, <1>4, <1>5, <1>6, <1>7, Basics DEF Seen, Going, Coming

LEMMA TurnStep ==
  ASSUME Seen, Seen', SentA \in Count, SentA' \in Count,
         Stays \/ Sends \/ Receives \/ Echoes \/ Returns
  PROVE  [Turns!Send \/ Turns!Receive \/ Turns!Echo \/ Turns!Return]_(Turns!vars)
<1>1. /\ UnderWay("M7_0") = IF Going THEN Turns!Only(Last) ELSE Turns!None
      /\ UnderWay("A53") = IF Coming THEN Turns!Only(Last) ELSE Turns!None
      /\ UnderWay("M7_0")' = IF Going' THEN Turns!Only(Last') ELSE Turns!None
      /\ UnderWay("A53")' = IF Coming' THEN Turns!Only(Last') ELSE Turns!None
  BY DEF Seen, A, M, Turns!Only, Turns!None
<1>2. Last = ChannelOf(SentA + 1) /\ Last' = ChannelOf(SentA + 1)' /\ Last \in Channels /\ Last' \in Channels
  BY DEF Last, Seen
<1>3. (Last' = Last <=> SentA' % 2 = SentA % 2) /\ (SentA' = SentA => Last' = Last)
  BY LastChannel DEF Last, ChannelOf
<1>0. /\ (Echoing' <=> Echoing) => Echoing' = Echoing
      /\ Echoing' => Echoing' = TRUE
      /\ ~Echoing' => Echoing' = FALSE
  BY DEF Echoing
<1>4. CASE Stays
  BY <1>0, <1>1, <1>2, <1>3, <1>4 DEF Stays, Turns!vars, Last
<1>5. CASE Sends
  <2>1. ~Echoing' /\ ~Coming'
    BY <1>5 DEF Sends, Seen
  <2>2. Turns!Send
    <3>1. Last' # Last /\ Echoing' = Echoing
      BY <1>0, <1>3, <1>5, <2>1 DEF Sends
    <3>2. /\ UnderWay("M7_0") = Turns!None /\ UnderWay("A53") = Turns!None
          /\ UnderWay("M7_0")' = Turns!Only(Last') /\ UnderWay("A53")' = Turns!None
      BY <1>1, <1>5, <2>1 DEF Sends
    <3>3. QED
      BY <1>2, <1>5, <3>1, <3>2 DEF Sends, Turns!Send
  <2>3. QED
    BY <2>2
<1>6. CASE Receives
  <2>1. ~Coming /\ ~Going' /\ ~Coming'
    BY <1>6 DEF Receives, Seen
  <2>2. Turns!Receive
    BY <1>1, <1>2, <1>3, <1>6, <2>1, <1>0 DEF Receives, Turns!Receive
  <2>3. QED
    BY <2>2
<1>7. CASE Echoes
  <2>1. ~Going /\ ~Going' /\ ~Echoing'
    BY <1>7 DEF Echoes, Seen
  <2>2. Turns!Echo
    BY <1>1, <1>2, <1>3, <1>7, <2>1, <1>0 DEF Echoes, Turns!Echo
  <2>3. QED
    BY <2>2
<1>8. CASE Returns
  <2>1. ~Going /\ ~Echoing
    BY <1>8 DEF Returns, Seen
  <2>2. Turns!Return
    BY <1>1, <1>2, <1>3, <1>8, <2>1, <1>0 DEF Returns, Turns!Return
  <2>3. QED
    BY <2>2
<1>9. QED
  BY <1>4, <1>5, <1>6, <1>7, <1>8

(* With that timing the demo implements EchoTurns: the channels take turns, *)
(* across the wrap of the counters and across their reset.                  *)
THEOREM ChannelsTakeTurns == Timely => (Spec => TurnsSpec)
<1> SUFFICES ASSUME Timely PROVE Spec => TurnsSpec
  OBVIOUS
<1>1. Init => Turns!Init
  <2> SUFFICES ASSUME Init PROVE Turns!Init
    OBVIOUS
  <2>1. Seen /\ ~Going /\ ~Echoing /\ ~Coming
    <3>1. Seen
      BY PacedInitial, StateSeen
    <3>2. Idle(A) /\ Idle(M) /\ pc[M] = "take" /\ sem[M] = 0
      BY Basics DEF Init, Idle, A
    <3>3. QED
      BY <3>1, <3>2 DEF Going, Coming, Echoing, A, M
  <2>2. QED
    BY <2>1 DEF Seen, Turns!Init, A, M, Last
<1>2. PacedInv => Seen /\ SentA \in Count
  BY StateSeen, PacedTypes
<1>3. PacedInv' => Seen' /\ (SentA \in Count)'
  BY <1>2, PTL
<1>4. PacedInv /\ PacedInv' /\ [Next]_vars =>
        [Turns!Send \/ Turns!Receive \/ Turns!Echo \/ Turns!Return]_(Turns!vars)
  BY <1>2, <1>3, PacedStep, TurnStep
<1>5. Spec => []PacedInv
  BY PacedInvariant
<1>6. QED
  BY <1>1, <1>4, <1>5, PTL DEF Spec, TurnsSpec, Turns!TurnsSpec
=============================================================================
