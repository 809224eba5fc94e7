----------------------------- MODULE MemDalProofs -----------------------------
(* Proofs about the job ring of the storage layer, for every number of blocks and *)
(* slots, any mix of memories and any answers of the drivers. *)
EXTENDS MemDal, FiniteSetTheorems, TLAPS

N == MEMDAL_JOB_QUEUE_SIZE
Waiting == [k \in 1 .. u16Counter |-> pJobs[Slot(k - 1)]]

-----------------------------------------------------------------------------
(* Slots of a ring *)

LEMMA RingSize == N \in Nat /\ N > 0 /\ Slots = 0 .. N - 1 /\ Blocks \subseteq Nat \ {0}
BY MemAssumption DEF N, Slots, Blocks

LEMMA ModUnique ==
  ASSUME NEW m \in Int, NEW q \in Int, NEW r \in 0 .. N - 1, m = (N * q) + r
  PROVE  m % N = r
<1>1. N \in Nat /\ N > 0
  BY RingSize
<1> DEFINE d == (m \div N) - q
<1>2. d \in Int /\ m = (N * (m \div N)) + (m % N) /\ m % N \in 0 .. N - 1
  BY <1>1
<1>3. r - (m % N) = N * d
  BY <1>1, <1>2
<1>4. CASE d >= 1
  BY <1>1, <1>2, <1>3, <1>4
<1>5. CASE d <= -1
  BY <1>1, <1>2, <1>3, <1>5
<1>6. CASE d = 0
  BY <1>1, <1>2, <1>3, <1>6
<1>7. QED
  BY <1>2, <1>4, <1>5, <1>6

\* A position at most one round ahead wraps once.
LEMMA OneRound ==
  ASSUME NEW m \in Nat, m < N + N
  PROVE  m % N = IF m < N THEN m ELSE m - N
<1>1. N \in Nat /\ N > 0
  BY RingSize
<1>2. CASE m < N
  <2> DEFINE q == 0
  <2>1. m = (N * q) + m /\ m \in 0 .. N - 1 /\ m \in Int /\ q \in Int
    BY <1>1, <1>2
  <2> HIDE DEF q
  <2>2. QED
    BY <1>2, <2>1, ModUnique
<1>3. CASE m >= N
  <2> DEFINE q == 1
             r == m - N
  <2>1. m = (N * q) + r /\ r \in 0 .. N - 1 /\ m \in Int /\ q \in Int
    BY <1>1, <1>3
  <2> HIDE DEF q, r
  <2>2. m % N = r
    BY <2>1, ModUnique
  <2>3. QED
    BY <1>1, <1>3, <2>2 DEF r
<1>4. QED
  BY <1>1, <1>2, <1>3

LEMMA SlotForm ==
  ASSUME NEW h \in Slots, NEW k \in 0 .. N - 1
  PROVE  (h + k) % N = (IF h + k < N THEN h + k ELSE h + k - N) /\ (h + k) % N \in Slots
<1>1. N \in Nat /\ N > 0 /\ Slots = 0 .. N - 1
  BY RingSize
<1> DEFINE m == h + k
<1>2. m \in Nat /\ m < N + N
  BY <1>1
<1>3. m % N = IF m < N THEN m ELSE m - N
  <2> HIDE DEF m
  <2>1. QED
    BY <1>2, OneRound
<1>4. QED
  BY <1>1, <1>3

\* Different positions of the ring are different slots.
LEMMA SlotsDiffer ==
  ASSUME NEW h \in Slots, NEW k \in 0 .. N - 1, NEW l \in 0 .. N - 1, k # l
  PROVE  (h + k) % N # (h + l) % N
<1>1. N \in Nat /\ N > 0 /\ Slots = 0 .. N - 1
  BY RingSize
<1> DEFINE a == (h + k) % N
           b == (h + l) % N
<1>2. a = (IF h + k < N THEN h + k ELSE h + k - N) /\ b = (IF h + l < N THEN h + l ELSE h + l - N)
  BY SlotForm
<1> HIDE DEF a, b
<1>3. a # b
  BY <1>1, <1>2
<1>4. QED
  BY <1>3 DEF a, b

\* Seen from the next slot, every position is one nearer.
LEMMA NextHead ==
  ASSUME NEW h \in Slots, NEW k \in 0 .. N - 1
  PROVE  /\ (h + 1) % N \in Slots
         /\ (((h + 1) % N) + k) % N = (h + (k + 1)) % N
<1>1. N \in Nat /\ N > 0 /\ Slots = 0 .. N - 1
  BY RingSize
<1> DEFINE g == (h + 1) % N
           m == h + 1
           a == (g + k) % N
           p == h + (k + 1)
           b == p % N
<1>2. g = IF m < N THEN m ELSE m - N
  <2>1. m \in Nat /\ m < N + N
    BY <1>1
  <2> HIDE DEF m
  <2>2. m % N = IF m < N THEN m ELSE m - N
    BY <2>1, OneRound
  <2>3. QED
    BY <2>2 DEF m
<1>3. g \in Slots
  <2> HIDE DEF g
  <2>1. QED
    BY <1>1, <1>2
<1>4. a = IF g + k < N THEN g + k ELSE g + k - N
  <2> HIDE DEF g
  <2>1. QED
    BY <1>3, SlotForm
<1>5. b = IF p < N THEN p ELSE p - N
  <2>1. p \in Nat /\ p < N + N
    BY <1>1
  <2> HIDE DEF p
  <2>2. QED
    BY <2>1, OneRound
<1>6. a = b
  <2> HIDE DEF g, a, b
  <2>1. QED
    BY <1>1, <1>2, <1>3, <1>4, <1>5
<1>7. QED
  BY <1>3, <1>6
\* The free slot moves with the number of jobs.
LEMMA Successor ==
  ASSUME NEW h \in Slots, NEW k \in 0 .. N - 1
  PROVE  (((h + k) % N) + 1) % N = (h + (k + 1)) % N
<1>1. N \in Nat /\ N > 0 /\ Slots = 0 .. N - 1
  BY RingSize
<1> DEFINE g == (h + k) % N
           m == g + 1
           a == m % N
           p == h + (k + 1)
           b == p % N
<1>2. g = (IF h + k < N THEN h + k ELSE h + k - N) /\ g \in Slots
  BY SlotForm
<1> HIDE DEF g
<1>3. a = IF m < N THEN m ELSE m - N
  <2>1. m \in Nat /\ m < N + N
    BY <1>1, <1>2
  <2> HIDE DEF m
  <2>2. QED
    BY <2>1, OneRound
<1>4. b = IF p < N THEN p ELSE p - N
  <2>1. p \in Nat /\ p < N + N
    BY <1>1
  <2> HIDE DEF p
  <2>2. QED
    BY <2>1, OneRound
<1>5. a = b
  <2> HIDE DEF a, b
  <2>1. QED
    BY <1>1, <1>2, <1>3, <1>4
<1>6. QED
  BY <1>5 DEF g

\* Append and Tail of a sequence that is given as a function
LEMMA AppendForm ==
  ASSUME NEW n \in Nat, NEW F(_), NEW x
  PROVE  Append([k \in 1 .. n |-> F(k)], x) =
           [k \in 1 .. n + 1 |-> IF k = n + 1 THEN x ELSE [j \in 1 .. n |-> F(j)][k]]
OBVIOUS

LEMMA TailForm ==
  ASSUME NEW n \in Nat \ {0}, NEW F(_)
  PROVE  /\ Tail([k \in 1 .. n |-> F(k)]) = [k \in 1 .. n - 1 |-> [j \in 1 .. n |-> F(j)][k + 1]]
         /\ Head([k \in 1 .. n |-> F(k)]) = F(1) /\ [k \in 1 .. n |-> F(k)] # << >>
OBVIOUS

-----------------------------------------------------------------------------
(* The inductive invariant *)

Statuses == {"PENDING", "ONGOING", "COMPLETED"}
Verdicts == {"UNINIT", "READY", "BUSY", "ERROR"}
Positions == 0 .. u16Counter - 1

\* TypeOK in two parts
RingTypes ==
  /\ pJobs \in [Slots -> Jobs \cup {NoJob}]
  /\ eJobStatus \in [Slots -> Statuses]
  /\ u16Head \in Slots /\ u16Tail \in Slots /\ u16Counter \in 0 .. N
  /\ u16Tail = (u16Head + u16Counter) % N

OtherTypes ==
  /\ bIsUpdated \in [Blocks -> BOOLEAN]
  /\ eLastEcuMode \in {"RUN", "SLEEP"} /\ EcuMode \in {"RUN", "SLEEP"}
  /\ u16Idx \in 1 .. MEMDAL_BLOCKS_NUMBER + 1
  /\ pc \in {"client", "flush", "process"}

\* Every position of the ring holds a job.
JobsWait == \A k \in Positions : pJobs[Slot(k)] \in Jobs

\* What MemDal_AddJob and the job processor change between them
RingInv ==
  /\ RingTypes /\ JobsWait /\ BusyHasJob /\ FeeServesHead
  /\ eBlockStatus \in [Blocks -> Verdicts]
  /\ fee \in {"idle", "busy"} /\ done \in Jobs \cup {NoJob}

\* There is room for what is still to be written before the ECU sleeps.
OnClosing(i) == {b \in Blocks : b >= i /\ eWrite[b] = "ONCLOSING"}

RoomInv ==
  /\ \A b \in Blocks : bIsUpdated[b] => eWrite[b] = "ONCLOSING"
  /\ pc = "client" /\ eLastEcuMode = "RUN" /\ EcuMode = "SLEEP" => RoomFor(0)
  /\ pc # "client" => eLastEcuMode = EcuMode
  /\ pc = "flush" => u16Counter + Cardinality(OnClosing(u16Idx)) <= N

Inv == RingInv /\ OtherTypes /\ RoomInv

LEMMA TypeParts == Inv => TypeOK
BY DEF Inv, RingInv, RingTypes, OtherTypes, TypeOK, N, Statuses, Verdicts

LEMMA InvInit == Init => Inv
<1> SUFFICES ASSUME Init PROVE Inv
  OBVIOUS
<1>1. RingTypes
  <2>1. 0 \in Slots /\ u16Head = 0 /\ u16Tail = 0 /\ u16Counter = 0
    BY RingSize DEF Init
  <2>2. (0 + 0) % N = 0
    BY RingSize, <2>1, SlotForm
  <2>3. QED
    BY <2>1, <2>2, RingSize DEF Init, RingTypes, Statuses
<1>2. Positions = {}
  BY DEF Init, Positions
<1>3. RingInv
  BY <1>1, <1>2 DEF Init, RingInv, JobsWait, BusyHasJob, FeeServesHead, Positions, Verdicts
<1>4. OtherTypes
  BY MemAssumption DEF Init, OtherTypes
<1>5. RoomInv
  BY DEF Init, RoomInv
<1>6. QED
  BY <1>3, <1>4, <1>5 DEF Inv

-----------------------------------------------------------------------------
(* The two ways in which the ring changes *)

\* The slots of the waiting jobs are pairwise different, and different from the free one.
LEMMA Places ==
  ASSUME RingTypes
  PROVE  /\ \A k \in Positions : k \in 0 .. N - 1 /\ Slot(k) \in Slots
         /\ \A k, l \in Positions : k # l => Slot(k) # Slot(l)
         /\ u16Counter < N => \A k \in Positions : Slot(k) # u16Tail
         /\ u16Counter > 0 => 0 \in Positions /\ Slot(0) = u16Head
<1>1. N \in Nat /\ N > 0 /\ Slots = 0 .. N - 1 /\ u16Counter \in 0 .. N /\ u16Head \in Slots
  BY RingSize DEF RingTypes
<1>2. \A k \in Positions : k \in 0 .. N - 1
  BY <1>1 DEF Positions
<1>3. \A k \in Positions : Slot(k) \in Slots
  BY <1>1, <1>2, SlotForm DEF Slot, N
<1>4. \A k, l \in 0 .. N - 1 : k # l => Slot(k) # Slot(l)
  BY <1>1, SlotsDiffer DEF Slot, N
<1>5. u16Counter < N => \A k \in Positions : Slot(k) # u16Tail
  <2>1. u16Tail = Slot(u16Counter)
    BY DEF RingTypes, Slot, N
  <2>2. \A k \in Positions : k # u16Counter
    BY <1>1 DEF Positions
  <2>3. u16Counter < N => u16Counter \in 0 .. N - 1
    BY <1>1
  <2>4. QED
    BY <1>2, <1>4, <2>1, <2>2, <2>3
<1>6. u16Counter > 0 => 0 \in Positions /\ Slot(0) = u16Head
  <2>1. 0 \in 0 .. N - 1 /\ u16Head + 0 = u16Head
    BY <1>1
  <2>2. (u16Head + 0) % N = u16Head
    BY <1>1, <2>1, SlotForm
  <2>3. QED
    BY <1>1, <2>2 DEF Positions, Slot, N
<1>7. QED
  BY <1>2, <1>3, <1>4, <1>5, <1>6

\* A job is appended, and its block is busy (MemDal_AddJob).
LEMMA AddStep ==
  ASSUME RingInv, u16Counter < N, NEW b \in Blocks, NEW op \in {"READ", "WRITE", "ERASE"},
         MemDal_AddJob(b, op), fee' = fee, done' = done
  PROVE  RingInv' /\ Waiting' = Append(Waiting, [block |-> b, op |-> op])
<1> DEFINE job == [block |-> b, op |-> op]
<1>0. N \in Nat /\ N > 0 /\ Slots = 0 .. N - 1 /\ u16Counter \in 0 .. N - 1 /\ u16Counter + 1 \in 0 .. N
  BY RingSize DEF RingInv, RingTypes
<1>1. /\ u16Head \in Slots /\ u16Tail \in Slots
      /\ pJobs \in [Slots -> Jobs \cup {NoJob}] /\ eJobStatus \in [Slots -> Statuses]
      /\ eBlockStatus \in [Blocks -> Verdicts]
  BY DEF RingInv, RingTypes
<1>2. /\ u16Head' = u16Head /\ u16Counter' = u16Counter + 1 /\ u16Tail' = (u16Tail + 1) % N
      /\ pJobs' = [pJobs EXCEPT ![u16Tail] = job]
      /\ eJobStatus' = [eJobStatus EXCEPT ![u16Tail] = "PENDING"]
      /\ eBlockStatus' = [eBlockStatus EXCEPT ![b] = "BUSY"]
  BY DEF MemDal_AddJob, N
<1>3. job \in Jobs
  BY DEF Jobs
<1> HIDE DEF job
<1>4. Positions' = Positions \cup {u16Counter} /\ u16Counter \notin Positions
  BY <1>0, <1>2 DEF Positions
<1>5. /\ \A k : Slot(k)' = Slot(k)
      /\ Slot(u16Counter) = u16Tail
  BY <1>2 DEF Slot, RingInv, RingTypes, N
<1>6. /\ \A k \in Positions : Slot(k) \in Slots /\ Slot(k) # u16Tail
      /\ u16Counter > 0 => 0 \in Positions /\ Slot(0) = u16Head
  BY <1>0, Places DEF RingInv
<1>7. /\ \A k \in Positions : pJobs'[Slot(k)] = pJobs[Slot(k)] /\ eJobStatus'[Slot(k)] = eJobStatus[Slot(k)]
      /\ pJobs'[u16Tail] = job /\ eJobStatus'[u16Tail] = "PENDING"
  BY <1>1, <1>2, <1>6
<1>8. RingTypes'
  <2>1. pJobs' \in [Slots -> Jobs \cup {NoJob}] /\ eJobStatus' \in [Slots -> Statuses]
    BY <1>1, <1>2, <1>3 DEF Statuses
  <2>2. u16Tail' \in Slots
    BY <1>0, <1>1, <1>2, NextHead
  <2>3. u16Tail' = (u16Head' + u16Counter') % N
    <3>1. u16Tail = (u16Head + u16Counter) % N
      BY DEF RingInv, RingTypes
    <3>2. (((u16Head + u16Counter) % N) + 1) % N = (u16Head + (u16Counter + 1)) % N
      BY <1>0, <1>1, Successor
    <3>3. QED
      BY <1>2, <3>1, <3>2
  <2>4. QED
    BY <1>0, <1>1, <1>2, <2>1, <2>2, <2>3 DEF RingTypes
<1>9. JobsWait'
  BY <1>3, <1>4, <1>5, <1>7 DEF RingInv, JobsWait
<1>10. BusyHasJob'
  <2> SUFFICES ASSUME NEW c \in Blocks, eBlockStatus'[c] = "BUSY"
               PROVE  \E k \in Positions' : pJobs'[Slot(k)].block = c
    BY <1>5 DEF BusyHasJob, Positions
  <2>1. CASE c = b
    BY <1>4, <1>5, <1>7, <2>1 DEF job
  <2>2. CASE c # b
    <3>1. eBlockStatus[c] = "BUSY"
      BY <1>1, <1>2, <2>2
    <3>2. PICK k \in Positions : pJobs[Slot(k)].block = c
      BY <3>1 DEF RingInv, BusyHasJob, Positions
    <3>3. QED
      BY <1>4, <1>7, <3>2
  <2>3. QED
    BY <2>1, <2>2
<1>11. FeeServesHead'
  <2>1. fee = "busy" => u16Counter > 0 /\ eJobStatus[u16Head] = "ONGOING" /\ eMemory[pJobs[u16Head].block] = "FLASH"
    BY DEF RingInv, FeeServesHead, Memory, Job
  <2>2. \A k \in Positions : eJobStatus[Slot(k)] = "PENDING" \/ (k = 0 /\ eJobStatus[Slot(k)] = "ONGOING" /\ eMemory[pJobs[u16Head].block] = "FLASH")
    BY DEF RingInv, FeeServesHead, Memory, Job, Positions
  <2>3. u16Counter > 0 => pJobs'[u16Head] = pJobs[u16Head] /\ eJobStatus'[u16Head] = eJobStatus[u16Head]
    BY <1>6, <1>7
  <2>4. fee' = "busy" => u16Counter' > 0 /\ eJobStatus'[u16Head'] = "ONGOING" /\ eMemory[pJobs'[u16Head'].block] = "FLASH"
    BY <1>0, <1>2, <2>1, <2>3
  <2>5. \A k \in Positions : k = 0 => u16Counter > 0
    BY <1>0 DEF Positions
  <2>6. \A k \in Positions' : eJobStatus'[Slot(k)] = "PENDING" \/ (k = 0 /\ eJobStatus'[Slot(k)] = "ONGOING" /\ eMemory[pJobs'[u16Head].block] = "FLASH")
    BY <1>4, <1>5, <1>7, <2>2, <2>3, <2>5
  <2>7. QED
    BY <1>2, <1>5, <2>4, <2>6 DEF FeeServesHead, Memory, Job, Positions
<1>12. eBlockStatus' \in [Blocks -> Verdicts]
  BY <1>1, <1>2 DEF Verdicts
<1>13. Waiting' = Append(Waiting, job)
  <2>1. Waiting' = [k \in 1 .. u16Counter + 1 |-> pJobs'[Slot(k - 1)]]
    BY <1>2, <1>5 DEF Waiting
  <2>2. \A k \in 1 .. u16Counter : k - 1 \in Positions
    BY <1>0 DEF Positions
  <2>3. \A k \in 1 .. u16Counter : pJobs'[Slot(k - 1)] = pJobs[Slot(k - 1)]
    BY <1>7, <2>2
  <2>4. pJobs'[Slot((u16Counter + 1) - 1)] = job
    BY <1>0, <1>5, <1>7
  <2>5. Append(Waiting, job) = [k \in 1 .. u16Counter + 1 |-> IF k = u16Counter + 1 THEN job ELSE Waiting[k]]
    BY <1>0, AppendForm DEF Waiting
  <2>6. \A k \in 1 .. u16Counter + 1 : pJobs'[Slot(k - 1)] = IF k = u16Counter + 1 THEN job ELSE Waiting[k]
    BY <1>0, <2>3, <2>4 DEF Waiting
  <2>7. QED
    BY <2>1, <2>5, <2>6
<1>14. QED
  BY <1>8, <1>9, <1>10, <1>11, <1>12, <1>13 DEF RingInv, job

\* The job at the head leaves with a verdict on its block.
LEMMA CompleteStep ==
  ASSUME RingInv, u16Counter > 0, fee = "idle", NEW result \in {"READY", "ERROR"}, Complete(result)
  PROVE  /\ RingInv'
         /\ Waiting # << >> /\ done' = Head(Waiting) /\ Waiting' = Tail(Waiting)
<1>0. /\ N \in Nat /\ N > 0 /\ Slots = 0 .. N - 1
      /\ u16Counter \in 1 .. N /\ u16Counter - 1 \in 0 .. N /\ u16Counter - 1 \in 0 .. N - 1
  BY RingSize DEF RingInv, RingTypes
<1>1. /\ u16Head \in Slots /\ u16Tail \in Slots
      /\ pJobs \in [Slots -> Jobs \cup {NoJob}] /\ eJobStatus \in [Slots -> Statuses]
      /\ eBlockStatus \in [Blocks -> Verdicts]
  BY DEF RingInv, RingTypes
<1>2. /\ u16Head' = (u16Head + 1) % N /\ u16Counter' = u16Counter - 1 /\ u16Tail' = u16Tail
      /\ pJobs' = pJobs /\ fee' = fee /\ done' = Job
      /\ eJobStatus' = [eJobStatus EXCEPT ![u16Head] = "COMPLETED"]
      /\ eBlockStatus' = [eBlockStatus EXCEPT ![Job.block] = result]
  BY DEF Complete, N
<1>3. 0 \in Positions /\ Slot(0) = u16Head /\ Job \in Jobs /\ Job.block \in Blocks
  <2>1. 0 \in Positions /\ Slot(0) = u16Head
    BY Places DEF RingInv
  <2>2. Job \in Jobs
    BY <2>1 DEF RingInv, JobsWait, Job
  <2>3. QED
    BY <2>1, <2>2 DEF Jobs
<1>4. \A k \in Positions' : k + 1 \in Positions /\ k + 1 # 0
  BY <1>0, <1>2 DEF Positions
<1>5. \A k \in Positions' : Slot(k)' = Slot(k + 1)
  <2> SUFFICES ASSUME NEW k \in Positions' PROVE Slot(k)' = Slot(k + 1)
    OBVIOUS
  <2>1. k \in 0 .. N - 1
    BY <1>0, <1>2 DEF Positions
  <2>2. (((u16Head + 1) % N) + k) % N = (u16Head + (k + 1)) % N
    BY <1>1, <2>1, NextHead
  <2>3. QED
    BY <1>2, <2>2 DEF Slot, N
<1>6. \A k \in Positions : k # 0 => eJobStatus'[Slot(k)] = "PENDING"
  <2>1. \A k \in Positions : k # 0 => Slot(k) # u16Head /\ Slot(k) \in Slots
    BY <1>3, Places DEF RingInv
  <2>2. \A k \in Positions : k # 0 => eJobStatus[Slot(k)] = "PENDING"
    BY DEF RingInv, FeeServesHead, Positions
  <2>3. QED
    BY <1>1, <1>2, <2>1, <2>2
<1>7. RingTypes'
  <2>1. u16Head' \in Slots
    BY <1>0, <1>1, <1>2, NextHead
  <2>2. u16Tail' = (u16Head' + u16Counter') % N
    <3> DEFINE n == u16Counter - 1
    <3>1. u16Tail = (u16Head + u16Counter) % N /\ n + 1 = u16Counter
      BY <1>0 DEF RingInv, RingTypes
    <3>2. n \in 0 .. N - 1
      BY <1>0
    <3> HIDE DEF n
    <3>3. (((u16Head + 1) % N) + n) % N = (u16Head + (n + 1)) % N
      BY <1>1, <3>2, NextHead
    <3>4. QED
      BY <1>2, <3>1, <3>3 DEF n
  <2>3. eJobStatus' \in [Slots -> Statuses]
    BY <1>1, <1>2 DEF Statuses
  <2>4. QED
    BY <1>0, <1>1, <1>2, <2>1, <2>2, <2>3 DEF RingTypes
<1>8. JobsWait'
  BY <1>2, <1>4, <1>5 DEF RingInv, JobsWait
<1>9. BusyHasJob'
  <2> SUFFICES ASSUME NEW c \in Blocks, eBlockStatus'[c] = "BUSY"
               PROVE  \E k \in Positions' : pJobs'[Slot(k)'].block = c
    BY DEF BusyHasJob, Positions
  <2>1. c # Job.block /\ eBlockStatus[c] = "BUSY"
    BY <1>1, <1>2, <1>3
  <2>2. PICK k \in Positions : pJobs[Slot(k)].block = c
    BY <2>1 DEF RingInv, BusyHasJob, Positions
  <2>3. k # 0
    BY <1>3, <2>1, <2>2 DEF Job
  <2>4. k - 1 \in Positions' /\ (k - 1) + 1 = k
    BY <1>0, <1>2, <2>2, <2>3 DEF Positions
  <2>5. QED
    BY <1>2, <1>5, <2>2, <2>4
<1>10. FeeServesHead'
  BY <1>2, <1>4, <1>5, <1>6 DEF FeeServesHead, Positions
<1>11. eBlockStatus' \in [Blocks -> Verdicts]
  BY <1>1, <1>2, <1>3 DEF Verdicts
<1>12. Waiting # << >> /\ done' = Head(Waiting) /\ Waiting' = Tail(Waiting)
  <2>1. u16Counter \in Nat \ {0}
    BY <1>0
  <2>2. /\ Tail(Waiting) = [k \in 1 .. u16Counter - 1 |-> Waiting[k + 1]]
        /\ Head(Waiting) = pJobs[Slot(1 - 1)] /\ Waiting # << >>
    BY <2>1, TailForm DEF Waiting
  <2>3. Head(Waiting) = Job
    BY <1>3, <2>2 DEF Job
  <2>4. Waiting' = [k \in 1 .. u16Counter - 1 |-> pJobs[Slot(k - 1)']]
    BY <1>2 DEF Waiting
  <2>5. \A k \in 1 .. u16Counter - 1 : k - 1 \in Positions' /\ (k - 1) + 1 = (k + 1) - 1 /\ k + 1 \in 1 .. u16Counter
    BY <1>0, <1>2 DEF Positions
  <2>6. \A k \in 1 .. u16Counter - 1 : pJobs[Slot(k - 1)'] = Waiting[k + 1]
    BY <1>5, <2>5 DEF Waiting
  <2>7. QED
    BY <1>2, <2>2, <2>3, <2>4, <2>6
<1>13. QED
  BY <1>2, <1>3, <1>7, <1>8, <1>9, <1>10, <1>11, <1>12 DEF RingInv

\* The job at the head is launched (MemDal_Fee_Read, MemDal_Fee_Write, MemDal_Fee_Erase).
LEMMA LaunchStep ==
  ASSUME RingInv, u16Counter > 0, ExecuteOnFee
  PROVE  RingInv' /\ Waiting' = Waiting /\ done' = done
<1>1. /\ u16Head \in Slots /\ eJobStatus \in [Slots -> Statuses]
      /\ eBlockStatus \in [Blocks -> Verdicts]
  BY DEF RingInv, RingTypes
<1>2. /\ u16Head' = u16Head /\ u16Counter' = u16Counter /\ u16Tail' = u16Tail
      /\ pJobs' = pJobs /\ done' = done /\ fee' = "busy"
      /\ eJobStatus' = [eJobStatus EXCEPT ![u16Head] = "ONGOING"]
      /\ eBlockStatus' = [eBlockStatus EXCEPT ![Job.block] = "BUSY"]
      /\ Memory = "FLASH"
  BY DEF ExecuteOnFee
<1>3. 0 \in Positions /\ Slot(0) = u16Head
  BY Places DEF RingInv
<1>4. Positions' = Positions /\ (\A k : Slot(k)' = Slot(k)) /\ Job' = Job /\ Memory' = Memory
  BY <1>2 DEF Positions, Slot, Job, Memory
<1>5. RingTypes'
  BY <1>1, <1>2 DEF RingInv, RingTypes, Statuses
<1>6. JobsWait'
  BY <1>2, <1>4 DEF RingInv, JobsWait
<1>7. BusyHasJob'
  <2> SUFFICES ASSUME NEW c \in Blocks, eBlockStatus'[c] = "BUSY"
               PROVE  \E k \in Positions : pJobs[Slot(k)].block = c
    BY <1>2, <1>4 DEF BusyHasJob, Positions
  <2>1. CASE c = Job.block
    BY <1>3, <2>1 DEF Job
  <2>2. CASE c # Job.block
    BY <1>1, <1>2, <2>2 DEF RingInv, BusyHasJob, Positions
  <2>3. QED
    BY <2>1, <2>2
<1>8. FeeServesHead'
  <2>1. \A k \in Positions : k # 0 => Slot(k) # u16Head /\ Slot(k) \in Slots
    BY <1>3, Places DEF RingInv
  <2>2. \A k \in Positions : k # 0 => eJobStatus[Slot(k)] = "PENDING"
    BY DEF RingInv, FeeServesHead, Positions
  <2>3. \A k \in Positions : k # 0 => eJobStatus'[Slot(k)] = "PENDING"
    BY <1>1, <1>2, <2>1, <2>2
  <2>4. eJobStatus'[u16Head] = "ONGOING"
    BY <1>1, <1>2
  <2>5. QED
    BY <1>2, <1>3, <1>4, <2>3, <2>4 DEF FeeServesHead, Positions
<1>9. eBlockStatus' \in [Blocks -> Verdicts]
  BY <1>1, <1>2 DEF Verdicts
<1>10. Waiting' = Waiting
  BY <1>2, <1>4 DEF Waiting
<1>11. QED
  BY <1>2, <1>5, <1>6, <1>7, <1>8, <1>9, <1>10 DEF RingInv

\* Nothing in the ring, and in the FEE driver at most the end of its job.
LEMMA QuietStep ==
  ASSUME RingInv, UNCHANGED <<queue, eBlockStatus, done>>, fee' \in {fee, "idle"}
  PROVE  RingInv' /\ Waiting' = Waiting /\ done' = done
<1>1. /\ pJobs' = pJobs /\ u16Head' = u16Head /\ u16Tail' = u16Tail /\ u16Counter' = u16Counter
      /\ eJobStatus' = eJobStatus /\ eBlockStatus' = eBlockStatus /\ done' = done
  BY DEF queue
<1>2. Positions' = Positions /\ (\A k : Slot(k)' = Slot(k)) /\ Memory' = Memory
  BY <1>1 DEF Positions, Slot, Job, Memory
<1>3. RingTypes' /\ JobsWait' /\ BusyHasJob'
  BY <1>1, <1>2 DEF RingInv, RingTypes, JobsWait, BusyHasJob, Positions
<1>4. FeeServesHead'
  BY <1>1, <1>2 DEF RingInv, FeeServesHead, Positions
<1>5. Waiting' = Waiting
  BY <1>1, <1>2 DEF Waiting
<1>6. QED
  BY <1>1, <1>3, <1>4, <1>5 DEF RingInv

-----------------------------------------------------------------------------
(* Room in the ring *)

LEMMA ClosingBlocks ==
  /\ \A i \in Nat : IsFiniteSet(OnClosing(i)) /\ Cardinality(OnClosing(i)) \in Nat
  /\ Closing = Cardinality(OnClosing(1)) /\ Closing \in Nat
<1>1. IsFiniteSet(Blocks)
  BY MemAssumption, FS_Interval DEF Blocks
<1>2. \A i \in Nat : OnClosing(i) \in SUBSET Blocks
  BY DEF OnClosing
<1>3. \A i \in Nat : IsFiniteSet(OnClosing(i))
  BY <1>1, <1>2, FS_Subset
<1>4. \A i \in Nat : Cardinality(OnClosing(i)) \in Nat
  BY <1>3, FS_CardinalityType
<1>5. OnClosing(1) = {b \in Blocks : eWrite[b] = "ONCLOSING"}
  BY MemAssumption DEF OnClosing, Blocks
<1>6. QED
  BY <1>3, <1>4, <1>5 DEF Closing

\* A round of MemDal_WriteAllBlocks leaves one block less to write.
LEMMA ClosingNext ==
  ASSUME NEW i \in Blocks
  PROVE  /\ eWrite[i] = "ONCLOSING" =>
              Cardinality(OnClosing(i)) = Cardinality(OnClosing(i + 1)) + 1
         /\ Cardinality(OnClosing(i + 1)) <= Cardinality(OnClosing(i))
<1>1. i \in Nat /\ i + 1 \in Nat
  BY MemAssumption DEF Blocks
<1>2. IsFiniteSet(OnClosing(i)) /\ IsFiniteSet(OnClosing(i + 1)) /\ Cardinality(OnClosing(i + 1)) \in Nat
  BY <1>1, ClosingBlocks
<1>3. ASSUME eWrite[i] = "ONCLOSING"
      PROVE  OnClosing(i) = OnClosing(i + 1) \cup {i} /\ i \notin OnClosing(i + 1)
  <2>1. \A b \in Blocks : b >= i <=> b >= i + 1 \/ b = i
    BY MemAssumption DEF Blocks
  <2>2. ~(i >= i + 1)
    BY <1>1
  <2>3. QED
    BY <1>3, <2>1, <2>2 DEF OnClosing
<1>4. OnClosing(i + 1) \in SUBSET OnClosing(i)
  BY MemAssumption DEF OnClosing, Blocks
<1>5. QED
  BY <1>2, <1>3, <1>4, FS_AddElement, FS_Subset

-----------------------------------------------------------------------------
(* Every step keeps the invariant, and is one of the queue or none *)

QueueStep == [Queue!Next]_<<Waiting, done>>

LEMMA QueueSteps ==
  ASSUME RingInv
  PROVE  /\ UNCHANGED <<Waiting, done>> => QueueStep
         /\ \A job \in Jobs : u16Counter < N /\ Waiting' = Append(Waiting, job) /\ done' = done => QueueStep
         /\ Waiting # << >> /\ done' = Head(Waiting) /\ Waiting' = Tail(Waiting) => QueueStep
<1>1. Len(Waiting) = u16Counter
  BY DEF Waiting, RingInv, RingTypes
<1>2. QED
  BY <1>1 DEF QueueStep, Queue!Next, Queue!Take, Queue!Accept, Waiting, N

LEMMA ReadStep == ASSUME Inv, NEW b \in Blocks, MemDal_ReadBlock(b) PROVE Inv' /\ QueueStep
<1>1. u16Counter < N /\ MemDal_AddJob(b, "READ") /\ u16Counter' = u16Counter + 1 /\ u16Counter \in Nat /\ N \in Nat
  BY ClosingBlocks, RingSize DEF MemDal_ReadBlock, RoomFor, N, Inv, RingInv, RingTypes,
     MemDal_AddJob
<1>2. RingInv' /\ QueueStep
  <2>1. fee' = fee /\ done' = done /\ [block |-> b, op |-> "READ"] \in Jobs
    BY DEF MemDal_ReadBlock, Others, Jobs
  <2>2. RingInv' /\ Waiting' = Append(Waiting, [block |-> b, op |-> "READ"])
    BY <1>1, <2>1, AddStep DEF Inv
  <2>3. QED
    BY <1>1, <2>1, <2>2, QueueSteps DEF Inv
<1>3. OtherTypes'
  BY DEF Inv, OtherTypes, MemDal_ReadBlock, Others
<1>4. RoomInv'
  BY <1>1, ClosingBlocks DEF Inv, RoomInv, MemDal_ReadBlock, Others, RoomFor, Closing, N
<1>5. QED
  BY <1>2, <1>3, <1>4 DEF Inv

LEMMA EraseStep == ASSUME Inv, NEW b \in Blocks, MemDal_EraseBlock(b) PROVE Inv' /\ QueueStep
<1>1. u16Counter < N /\ MemDal_AddJob(b, "ERASE") /\ u16Counter' = u16Counter + 1 /\ u16Counter \in Nat /\ N \in Nat
  BY ClosingBlocks, RingSize DEF MemDal_EraseBlock, RoomFor, N, Inv, RingInv, RingTypes,
     MemDal_AddJob
<1>2. RingInv' /\ QueueStep
  <2>1. fee' = fee /\ done' = done /\ [block |-> b, op |-> "ERASE"] \in Jobs
    BY DEF MemDal_EraseBlock, Others, Jobs
  <2>2. RingInv' /\ Waiting' = Append(Waiting, [block |-> b, op |-> "ERASE"])
    BY <1>1, <2>1, AddStep DEF Inv
  <2>3. QED
    BY <1>1, <2>1, <2>2, QueueSteps DEF Inv
<1>3. OtherTypes'
  BY DEF Inv, OtherTypes, MemDal_EraseBlock, Others
<1>4. RoomInv'
  BY <1>1, ClosingBlocks DEF Inv, RoomInv, MemDal_EraseBlock, Others, RoomFor, Closing, N
<1>5. QED
  BY <1>2, <1>3, <1>4 DEF Inv

LEMMA WriteStep == ASSUME Inv, NEW b \in Blocks, MemDal_WriteBlock(b) PROVE Inv' /\ QueueStep
<1>1. CASE eWrite[b] = "ONREQUEST"
  <2>1. /\ u16Counter < N /\ MemDal_AddJob(b, "WRITE") /\ u16Counter' = u16Counter + 1
        /\ u16Counter \in Nat /\ N \in Nat /\ bIsUpdated' = bIsUpdated
    <3>1. MemDal_AddJob(b, "WRITE") /\ bIsUpdated' = bIsUpdated /\ RoomFor(1)
      BY <1>1 DEF MemDal_WriteBlock
    <3>2. u16Counter' = u16Counter + 1
      BY <3>1 DEF MemDal_AddJob
    <3>3. QED
      BY <3>1, <3>2, ClosingBlocks, RingSize DEF RoomFor, N, Inv, RingInv, RingTypes
  <2>2. RingInv' /\ QueueStep
    <3>1. fee' = fee /\ done' = done /\ [block |-> b, op |-> "WRITE"] \in Jobs
      BY DEF MemDal_WriteBlock, Jobs
    <3>2. RingInv' /\ Waiting' = Append(Waiting, [block |-> b, op |-> "WRITE"])
      BY <2>1, <3>1, AddStep DEF Inv
    <3>3. QED
      BY <2>1, <3>1, <3>2, QueueSteps DEF Inv
  <2>3. OtherTypes'
    BY <2>1 DEF Inv, OtherTypes, MemDal_WriteBlock
  <2>4. RoomInv'
    BY <2>1, ClosingBlocks DEF Inv, RoomInv, MemDal_WriteBlock, RoomFor, Closing, N
  <2>5. QED
    BY <2>2, <2>3, <2>4 DEF Inv
<1>2. CASE eWrite[b] # "ONREQUEST"
  <2>1. /\ bIsUpdated' = [bIsUpdated EXCEPT ![b] = TRUE] /\ eWrite[b] = "ONCLOSING"
        /\ UNCHANGED <<queue, eBlockStatus, done>> /\ fee' = fee /\ u16Counter' = u16Counter
    BY <1>2, MemAssumption DEF MemDal_WriteBlock, queue
  <2>2. RingInv' /\ QueueStep
    BY <2>1, QuietStep, QueueSteps DEF Inv
  <2>3. OtherTypes'
    BY <2>1 DEF Inv, OtherTypes, MemDal_WriteBlock
  <2>4. RoomInv'
    BY <2>1 DEF Inv, RoomInv, OtherTypes, MemDal_WriteBlock, RoomFor, Closing
  <2>5. QED
    BY <2>2, <2>3, <2>4 DEF Inv
<1>3. QED
  BY <1>1, <1>2

LEMMA MainStep == ASSUME Inv, MemDal_Main PROVE Inv' /\ QueueStep
<1>1. /\ UNCHANGED <<queue, eBlockStatus, done>> /\ fee' = fee /\ u16Counter' = u16Counter
      /\ u16Idx' = 1 /\ pc' \in {"flush", "process"} /\ eLastEcuMode' = EcuMode' /\ EcuMode' = EcuMode
      /\ bIsUpdated' = bIsUpdated
  BY DEF MemDal_Main, queue
<1>2. RingInv' /\ QueueStep
  BY <1>1, QuietStep, QueueSteps DEF Inv
<1>3. OtherTypes'
  BY <1>1, MemAssumption DEF Inv, OtherTypes
<1>4. RoomInv'
  <2>1. pc' = "flush" => RoomFor(0)
    BY DEF Inv, RoomInv, MemDal_Main
  <2>2. pc' = "flush" => u16Counter' + Cardinality(OnClosing(u16Idx')) <= N
    BY <1>1, <2>1, ClosingBlocks DEF RoomFor, N, Inv, RingInv, RingTypes
  <2>3. QED
    BY <1>1, <2>2 DEF Inv, RoomInv, OnClosing
<1>5. QED
  BY <1>2, <1>3, <1>4 DEF Inv

LEMMA FlushStep == ASSUME Inv, MemDal_WriteAllBlocks PROVE Inv' /\ QueueStep
<1>1. /\ pc = "flush" /\ eLastEcuMode = EcuMode /\ u16Counter + Cardinality(OnClosing(u16Idx)) <= N
      /\ u16Idx \in 1 .. MEMDAL_BLOCKS_NUMBER + 1 /\ u16Counter \in Nat /\ N \in Nat
      /\ UNCHANGED <<bIsUpdated, eLastEcuMode, EcuMode, fee, done>>
  BY RingSize DEF Inv, RoomInv, OtherTypes, RingInv, RingTypes, MemDal_WriteAllBlocks
<1>2. CASE u16Idx \in Blocks /\ bIsUpdated[u16Idx]
  <2>1. MemDal_AddJob(u16Idx, "WRITE") /\ u16Counter' = u16Counter + 1 /\ u16Idx' = u16Idx + 1 /\ pc' = pc
    BY <1>2 DEF MemDal_WriteAllBlocks, MemDal_AddJob
  <2>2. u16Idx + 1 \in Nat /\ u16Idx + 1 \in 1 .. MEMDAL_BLOCKS_NUMBER + 1
    BY <1>2, MemAssumption DEF Blocks
  <2>3. /\ Cardinality(OnClosing(u16Idx)) = Cardinality(OnClosing(u16Idx + 1)) + 1
        /\ Cardinality(OnClosing(u16Idx + 1)) \in Nat
    BY <1>2, <2>2, ClosingNext, ClosingBlocks DEF Inv, RoomInv
  <2>4. u16Counter < N /\ u16Counter' + Cardinality(OnClosing(u16Idx')) <= N
    BY <1>1, <2>1, <2>3
  <2>5. RingInv' /\ QueueStep
    <3>1. [block |-> u16Idx, op |-> "WRITE"] \in Jobs
      BY <1>2 DEF Jobs
    <3>2. RingInv' /\ Waiting' = Append(Waiting, [block |-> u16Idx, op |-> "WRITE"])
      BY <1>1, <1>2, <2>1, <2>4, AddStep DEF Inv
    <3>3. QED
      BY <1>1, <2>4, <3>1, <3>2, QueueSteps DEF Inv
  <2>6. OtherTypes'
    BY <1>1, <2>1, <2>2 DEF Inv, OtherTypes
  <2>7. RoomInv'
    BY <1>1, <2>1, <2>4 DEF Inv, RoomInv, OnClosing
  <2>8. QED
    BY <2>5, <2>6, <2>7 DEF Inv
<1>3. CASE u16Idx \in Blocks /\ ~bIsUpdated[u16Idx]
  <2>1. UNCHANGED <<queue, eBlockStatus>> /\ u16Counter' = u16Counter /\ u16Idx' = u16Idx + 1 /\ pc' = pc
    BY <1>3 DEF MemDal_WriteAllBlocks, queue
  <2>2. u16Idx \in Nat /\ u16Idx + 1 \in Nat /\ u16Idx + 1 \in 1 .. MEMDAL_BLOCKS_NUMBER + 1
    BY <1>3, MemAssumption DEF Blocks
  <2>3. /\ Cardinality(OnClosing(u16Idx + 1)) <= Cardinality(OnClosing(u16Idx))
        /\ Cardinality(OnClosing(u16Idx + 1)) \in Nat /\ Cardinality(OnClosing(u16Idx)) \in Nat
    BY <1>3, <2>2, ClosingNext, ClosingBlocks
  <2>4. u16Counter' + Cardinality(OnClosing(u16Idx')) <= N
    BY <1>1, <2>1, <2>3
  <2>5. RingInv' /\ QueueStep
    BY <1>1, <2>1, QuietStep, QueueSteps DEF Inv
  <2>6. OtherTypes'
    BY <1>1, <2>1, <2>2 DEF Inv, OtherTypes
  <2>7. RoomInv'
    BY <1>1, <2>1, <2>4 DEF Inv, RoomInv, OnClosing
  <2>8. QED
    BY <2>5, <2>6, <2>7 DEF Inv
<1>4. CASE u16Idx \notin Blocks
  <2>1. UNCHANGED <<queue, eBlockStatus, u16Idx>> /\ pc' = "process" /\ u16Counter' = u16Counter
    BY <1>4 DEF MemDal_WriteAllBlocks, queue
  <2>2. RingInv' /\ QueueStep
    BY <1>1, <2>1, QuietStep, QueueSteps DEF Inv
  <2>3. OtherTypes' /\ RoomInv'
    BY <1>1, <2>1 DEF Inv, OtherTypes, RoomInv
  <2>4. QED
    BY <2>2, <2>3 DEF Inv
<1>5. QED
  BY <1>2, <1>3, <1>4

LEMMA ProcessorStep == ASSUME Inv, MemDal_JobProcessor PROVE Inv' /\ QueueStep
<1>1. /\ pc = "process" /\ pc' = "client" /\ eLastEcuMode = EcuMode
      /\ UNCHANGED <<bIsUpdated, eLastEcuMode, EcuMode, u16Idx>>
  BY DEF MemDal_JobProcessor, Inv, RoomInv
<1>2. OtherTypes' /\ RoomInv'
  BY <1>1 DEF Inv, OtherTypes, RoomInv
<1>3. RingInv' /\ QueueStep
  <2>1. CASE UNCHANGED <<queue, eBlockStatus, fee, done>>
    BY <2>1, QuietStep, QueueSteps DEF Inv
  <2>2. CASE u16Counter > 0 /\ ExecuteOnFee
    BY <2>2, LaunchStep, QueueSteps DEF Inv
  <2>3. CASE u16Counter > 0 /\ FeeJobDone
    <3>1. PICK result \in {"READY", "ERROR"} : Complete(result)
      BY <2>3 DEF FeeJobDone, Fee_GetJobResult
    <3>2. fee = "idle"
      BY <2>3 DEF FeeJobDone
    <3>3. QED
      BY <2>3, <3>1, <3>2, CompleteStep, QueueSteps DEF Inv
  <2>4. CASE u16Counter > 0 /\ ExecuteOnSdhc
    <3>1. PICK result \in {"READY", "ERROR"} : Complete(result)
      BY <2>4 DEF ExecuteOnSdhc
    <3>2. fee = "idle"
      BY <2>4 DEF ExecuteOnSdhc, Inv, RingInv, FeeServesHead
    <3>3. QED
      BY <2>4, <3>1, <3>2, CompleteStep, QueueSteps DEF Inv
  <2>5. QED
    BY <2>1, <2>2, <2>3, <2>4 DEF MemDal_JobProcessor, LaunchFails, FeeJobRuns
<1>4. QED
  BY <1>2, <1>3 DEF Inv

LEMMA FeeStep == ASSUME Inv, FeeWorks PROVE Inv' /\ QueueStep
<1>1. UNCHANGED <<queue, eBlockStatus, done>> /\ fee' = "idle" /\ u16Counter' = u16Counter
  BY DEF FeeWorks, queue
<1>2. RingInv' /\ QueueStep
  BY <1>1, QuietStep, QueueSteps DEF Inv
<1>3. OtherTypes' /\ RoomInv'
  BY <1>1 DEF FeeWorks, Inv, OtherTypes, RoomInv, RoomFor, Closing, OnClosing
<1>4. QED
  BY <1>2, <1>3 DEF Inv

LEMMA SysStep == ASSUME Inv, SysDal_Main PROVE Inv' /\ QueueStep
<1>1. UNCHANGED <<queue, eBlockStatus, done>> /\ fee' = fee /\ u16Counter' = u16Counter
  BY DEF SysDal_Main, queue
<1>2. RingInv' /\ QueueStep
  BY <1>1, QuietStep, QueueSteps DEF Inv
<1>3. OtherTypes'
  BY DEF SysDal_Main, Inv, OtherTypes
<1>4. RoomInv'
  BY <1>1 DEF SysDal_Main, Inv, RoomInv, OtherTypes, RoomFor, Closing
<1>5. QED
  BY <1>2, <1>3, <1>4 DEF Inv

LEMMA InvStep == Inv /\ [Next]_vars => Inv' /\ QueueStep
<1> SUFFICES ASSUME Inv, [Next]_vars PROVE Inv' /\ QueueStep
  OBVIOUS
<1>1. CASE MemDal_Main
  BY <1>1, MainStep
<1>2. CASE MemDal_WriteAllBlocks
  BY <1>2, FlushStep
<1>3. CASE MemDal_JobProcessor
  BY <1>3, ProcessorStep
<1>4. CASE FeeWorks
  BY <1>4, FeeStep
<1>5. CASE SysDal_Main
  BY <1>5, SysStep
<1>6. ASSUME NEW b \in Blocks, MemDal_ReadBlock(b) \/ MemDal_WriteBlock(b) \/ MemDal_EraseBlock(b)
      PROVE  Inv' /\ QueueStep
  BY <1>6, ReadStep, WriteStep, EraseStep
<1>7. CASE UNCHANGED vars
  <2>1. UNCHANGED <<queue, eBlockStatus, done>> /\ fee' = fee
    BY <1>7 DEF vars, queue
  <2>2. RingInv' /\ QueueStep
    BY <2>1, QuietStep, QueueSteps DEF Inv
  <2>3. OtherTypes' /\ RoomInv'
    BY <1>7 DEF vars, queue, Inv, OtherTypes, RoomInv, RoomFor, Closing, OnClosing
  <2>4. QED
    BY <2>2, <2>3 DEF Inv
<1>8. QED
  BY <1>1, <1>2, <1>3, <1>4, <1>5, <1>6, <1>7 DEF Next, Main

LEMMA InvAlways == Spec => []Inv
BY InvInit, InvStep, PTL DEF Spec

-----------------------------------------------------------------------------
(* Theorems *)

\* Types, and that head, tail and counter of MemDal_Queue agree, if the clients leave the
\* room that MemDal_AddJob does not check for.
THEOREM MemDalTypes == Spec => []TypeOK
BY TypeParts, InvAlways, PTL

\* A block refuses its clients only while a job of it waits in the ring or runs
\* (MemDal_ReadBlock, MemDal_WriteBlock), for every ring, set of blocks and sequence of
\* failing launches.  Nothing is said of when that job ends.
THEOREM BusyBlocksHaveJobs == Spec => []BusyHasJob
<1>1. Inv => BusyHasJob
  BY DEF Inv, RingInv
<1>2. QED
  BY <1>1, InvAlways, PTL

\* The FEE driver works for the job at the head and no other (MemDal_JobProcessor).
THEOREM FeeAndHead == Spec => []FeeServesHead
<1>1. Inv => FeeServesHead
  BY DEF Inv, RingInv
<1>2. QED
  BY <1>1, InvAlways, PTL

\* The safety part of QueueSpec: the ring of jobs implements the bounded queue of
\* BoundedFifo, so that jobs are done in order and each once.
THEOREM RingIsQueue == Spec => Queue!SafeSpec
<1>1. Init => Queue!Init
  BY DEF Init, Queue!Init
<1>2. Inv /\ [Next]_vars => [Queue!Next]_<<Waiting, done>>
  BY InvStep DEF QueueStep
<1>3. QED
  BY <1>1, <1>2, InvAlways, PTL DEF Spec, Queue!SafeSpec, Waiting
=============================================================================
