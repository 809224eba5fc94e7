--------------------------- MODULE EthQueueProofs ---------------------------
(***************************************************************************)
(* Proofs about the ring of replies, for every capacity and set of         *)
(* replies.  That its indices stay inside holds whatever the interrupt     *)
(* does; that it counts its frames and is a queue holds as long as no      *)
(* frame takes the last slot during the wrap of queue_pop.                 *)
(***************************************************************************)
EXTENDS EthQueue, Sequences, FiniteSetTheorems, TLAPS

C == QUEUE_CAPACITY

LEMMA Capacity == C \in Nat /\ C > 0 /\ Slots = 0 .. C - 1 /\ NoFrame \notin Frames
BY QueueAssumption DEF C, Slots

-----------------------------------------------------------------------------
(* Types *)

LEMMA TypesStep == ASSUME TypeOK, [Next]_vars PROVE TypeOK'
<1>0. C \in Nat /\ C > 0 /\ Slots = 0 .. C - 1
  BY Capacity
<1>1. CASE \E f \in Frames : rx_process(f)
  <2>1. PICK f \in Frames : rx_process(f)
    BY <1>1
  <2>2. queue' \in [Slots -> Frames \cup {NoFrame}]
    BY <2>1 DEF rx_process, queue_push, TypeOK
  <2>3. queue_push_ptr' \in Slots
    BY <1>0, <2>1 DEF rx_process, queue_push, TypeOK, Wraps, C
  <2>4. queueIndexIsOutOfBound' \in {0, 1}
    BY <2>1 DEF rx_process, queue_push, TypeOK
  <2>5. QED
    BY <2>1, <2>2, <2>3, <2>4 DEF rx_process, TypeOK
<1>2. CASE ReadPush
  BY <1>0, <1>2 DEF ReadPush, ring, TypeOK, C
<1>3. CASE ReadBound
  BY <1>0, <1>3 DEF ReadBound, ring, TypeOK, C
<1>4. CASE TestEmpty
  BY <1>0, <1>4 DEF TestEmpty, ring, TypeOK, C
<1>5. CASE Copy
  <2>1. queue_pop_ptr \in Slots
    BY <1>5 DEF Copy, TypeOK
  <2>2. QED
    BY <1>5, <2>1 DEF Copy, ring, TypeOK
<1>6. CASE queue_clear_elm
  BY <1>6 DEF queue_clear_elm, TypeOK
<1>7. CASE Advance
  <2>1. queue_pop_ptr \in Slots
    BY <1>7 DEF Advance, TypeOK
  <2>2. queue_pop_ptr' \in Slots \cup {C}
    BY <1>0, <1>7, <2>1 DEF Advance
  <2>3. QED
    BY <1>7, <2>2 DEF Advance, TypeOK, C
<1>8. CASE NoWrap
  <2>1. queue_pop_ptr \in Slots
    BY <1>0, <1>8 DEF NoWrap, TypeOK, Wraps, C
  <2>2. queue_pop_ptr # C
    BY <1>0, <2>1
  <2>3. QED
    BY <1>8, <2>1, <2>2 DEF NoWrap, ring, TypeOK, C
<1>9. CASE ResetPop
  BY <1>0, <1>9 DEF ResetPop, TypeOK, C
<1>10. CASE ClearBound
  <2>1. pc = "unflag" => queue_pop_ptr # C
    BY DEF TypeOK, C
  <2>2. QED
    BY <1>0, <1>10, <2>1 DEF ClearBound, TypeOK, C
<1>11. CASE send_frame
  BY <1>11 DEF send_frame, ring, TypeOK
<1>12. CASE UNCHANGED vars
  BY <1>12 DEF vars, ring, TypeOK
<1>13. QED
  BY <1>1, <1>2, <1>3, <1>4, <1>5, <1>6, <1>7, <1>8, <1>9, <1>10, <1>11, <1>12 DEF Next, Main

\* Both indices stay inside the ring where they are used, also when the flag of a wrap is
\* lost (queue_push, queue_pop).
THEOREM EthTypes == Spec => []TypeOK
<1>1. Init => TypeOK
  BY Capacity DEF Init, TypeOK, C
<1>2. TypeOK /\ [Next]_vars => TypeOK'
  BY TypesStep
<1>3. QED
  BY <1>1, <1>2, PTL DEF Spec

-----------------------------------------------------------------------------
(* Slots of a ring *)

LEMMA ModUnique ==
  ASSUME NEW m \in Int, NEW q \in Int, NEW r \in 0 .. C - 1, m = (C * q) + r
  PROVE  m % C = r
<1>1. C \in Nat /\ C > 0
  BY Capacity
<1> DEFINE d == (m \div C) - q
<1>2. d \in Int /\ m = (C * (m \div C)) + (m % C) /\ m % C \in 0 .. C - 1
  BY <1>1
<1>3. r - (m % C) = C * d
  BY <1>1, <1>2
<1>4. CASE d >= 1
  BY <1>1, <1>2, <1>3, <1>4
<1>5. CASE d <= -1
  BY <1>1, <1>2, <1>3, <1>5
<1>6. CASE d = 0
  BY <1>1, <1>2, <1>3, <1>6
<1>7. QED
  BY <1>2, <1>4, <1>5, <1>6

\* The slot j places behind an index, which may be just past the end
LEMMA Place ==
  ASSUME NEW f \in 0 .. C, NEW j \in 0 .. C - 1
  PROVE  /\ (f + j) % C = IF f + j < C THEN f + j ELSE f + j - C
         /\ (f + j) % C \in Slots
<1>1. C \in Nat /\ C > 0 /\ Slots = 0 .. C - 1
  BY Capacity
<1> DEFINE m == f + j
           q == IF m < C THEN 0 ELSE 1
           r == IF m < C THEN m ELSE m - C
<1>2. m \in Int /\ q \in Int /\ r \in 0 .. C - 1
  BY <1>1
<1>3. m = (C * q) + r
  <2>1. CASE m < C
    BY <1>1, <2>1
  <2>2. CASE ~(m < C)
    BY <1>1, <2>2
  <2>3. QED
    BY <2>1, <2>2
<1>4. m % C = r
  <2> HIDE DEF m, q, r
  <2>1. QED
    BY <1>2, <1>3, ModUnique
<1>5. QED
  BY <1>1, <1>2, <1>4

\* The slots from index f to index p, t being the number of wraps between them
Span(f, p, t) == IF t = 0 THEN f .. p - 1 ELSE (0 .. p - 1) \cup (f .. C - 1)
Inside(f, p, t) ==
  /\ f \in 0 .. C /\ p \in Slots /\ t \in {0, 1}
  /\ IF t = 0 THEN f <= p ELSE p <= f

LEMMA SpanCount ==
  ASSUME NEW f, NEW p, NEW t, Inside(f, p, t)
  PROVE  /\ Cardinality(Span(f, p, t)) = p + C * t - f
         /\ p + C * t - f \in 0 .. C
<1>1. C \in Nat /\ C > 0 /\ Slots = 0 .. C - 1 /\ f \in 0 .. C /\ p \in 0 .. C - 1
  BY Capacity DEF Inside
<1>2. CASE t = 0
  <2>1. f <= p /\ f \in Int /\ p - 1 \in Int
    BY <1>1, <1>2 DEF Inside
  <2>2. Cardinality(f .. p - 1) = IF f > p - 1 THEN 0 ELSE (p - 1) - f + 1
    BY <2>1, FS_Interval
  <2>3. C * t = 0
    BY <1>1, <1>2
  <2>4. QED
    BY <1>1, <1>2, <2>1, <2>2, <2>3 DEF Span
<1>3. CASE t = 1
  <2>1. p <= f /\ f \in Int /\ p - 1 \in Int /\ C - 1 \in Int /\ 0 \in Int
    BY <1>1, <1>3 DEF Inside
  <2>2. /\ IsFiniteSet(0 .. p - 1) /\ Cardinality(0 .. p - 1) = IF 0 > p - 1 THEN 0 ELSE (p - 1) - 0 + 1
        /\ IsFiniteSet(f .. C - 1) /\ Cardinality(f .. C - 1) = IF f > C - 1 THEN 0 ELSE (C - 1) - f + 1
    BY <2>1, FS_Interval
  <2>3. (0 .. p - 1) \cap (f .. C - 1) = {}
    BY <1>1, <2>1
  <2>4. Cardinality((0 .. p - 1) \cup (f .. C - 1)) = Cardinality(0 .. p - 1) + Cardinality(f .. C - 1)
    <3> DEFINE L == 0 .. p - 1
               R == f .. C - 1
    <3>1. IsFiniteSet(L) /\ IsFiniteSet(R) /\ L \cap R = {} /\ Cardinality(L) \in Int /\ Cardinality(R) \in Int
      BY <1>1, <2>2, <2>3
    <3> HIDE DEF L, R
    <3>2. Cardinality(L \cup R) = Cardinality(L) + Cardinality(R) - Cardinality(L \cap R)
      BY <3>1, FS_Union
    <3>3. Cardinality(L \cap R) = 0
      BY <3>1, FS_EmptySet
    <3>4. Cardinality(L \cup R) = Cardinality(L) + Cardinality(R)
      BY <3>1, <3>2, <3>3
    <3>5. QED
      BY <3>4 DEF L, R
  <2>5. C * t = C
    BY <1>1, <1>3
  <2>6. Span(f, p, t) = (0 .. p - 1) \cup (f .. C - 1)
    BY <1>3 DEF Span
  <2>7. QED
    BY <1>1, <2>1, <2>2, <2>4, <2>5, <2>6
<1>4. QED
  BY <1>2, <1>3 DEF Inside

-----------------------------------------------------------------------------
(* The inductive invariant *)

\* Where the waiting frames begin, and whether push has wrapped since.  While the two
\* variables of a wrap disagree both stand for the start of the ring.
Wrapping == pc \in {"unflag", "reset"}
Base == IF Wrapping THEN 0 ELSE first
Turn == IF Wrapping THEN 0 ELSE queueIndexIsOutOfBound

\* The frames that wait fill the slots from Base to queue_push_ptr and no others.
FillInv ==
  /\ Inside(Base, queue_push_ptr, Turn)
  /\ occupied \ copied = Span(Base, queue_push_ptr, Turn)

\* Where main() is: in front of a frame, in the middle of a wrap, or with what it has read
\* of a ring that was empty if it still is.
MainInv ==
  /\ pc \in {"pop", "clear", "advance"} =>
       IF queueIndexIsOutOfBound = 0 THEN queue_pop_ptr < queue_push_ptr
                                     ELSE queue_push_ptr <= queue_pop_ptr
  /\ pc = "unflag" => queue_pop_ptr = 0 /\ queueIndexIsOutOfBound = 1
  /\ pc = "reset" => queue_pop_ptr = C /\ queueIndexIsOutOfBound = 0
  /\ queueIndexIsOutOfBound = 0 /\ queue_pop_ptr = queue_push_ptr =>
       /\ pc = "push_read" => seen = queue_push_ptr
       /\ pc = "bound_read" => seen = 0

Inv == TypeOK /\ FillInv /\ MainInv

\* What waits, by its first slot
Count == queue_push_ptr + C * Turn - Base
View(Q, f, n) == [k \in 1 .. n |-> Q[(f + (k - 1)) % C]]

LEMMA Facts ==
  ASSUME TypeOK
  PROVE  /\ C \in Nat /\ C > 0 /\ Slots = 0 .. C - 1
         /\ queue_push_ptr \in 0 .. C - 1 /\ queue_pop_ptr \in 0 .. C
         /\ queueIndexIsOutOfBound \in {0, 1} /\ queue \in [Slots -> Frames \cup {NoFrame}]
         /\ pc \notin {"wrap", "reset"} => queue_pop_ptr \in 0 .. C - 1
BY Capacity DEF TypeOK, C

\* The two variables of a wrap: the same slot one round later
LEMMA WholeRound == ASSUME NEW j \in 0 .. C - 1 PROVE (C + j) % C = (0 + j) % C
<1>1. C \in 0 .. C /\ 0 \in 0 .. C /\ C \in Nat
  BY Capacity
<1>2. (C + j) % C = IF C + j < C THEN C + j ELSE C + j - C
  BY <1>1, Place
<1>3. (0 + j) % C = IF 0 + j < C THEN 0 + j ELSE 0 + j - C
  BY <1>1, Place
<1>4. QED
  BY <1>1, <1>2, <1>3

WaitsFrom ==
  /\ Waiting = View(queue, Base, Count)
  /\ Count \in 0 .. C /\ Count = Cardinality(occupied \ copied)

LEMMA WaitingForm == ASSUME Inv PROVE WaitsFrom
<1>0. /\ C \in Nat /\ C > 0 /\ queue_pop_ptr \in 0 .. C
      /\ Count \in 0 .. C /\ Count = Cardinality(occupied \ copied)
  BY Facts, SpanCount DEF Inv, FillInv, Count
<1>1. \A k \in 1 .. Count : (first + k - 1) % C = (Base + (k - 1)) % C
  <2> SUFFICES ASSUME NEW k \in 1 .. Count PROVE (first + k - 1) % C = (Base + (k - 1)) % C
    OBVIOUS
  <2>1. k - 1 \in 0 .. C - 1 /\ first \in Int
    BY <1>0, Facts DEF Inv, first
  <2>2. first + k - 1 = first + (k - 1)
    BY <2>1
  <2>3. CASE pc = "reset"
    <3>1. first = C /\ Base = 0
      BY <2>3 DEF Inv, MainInv, first, Base, Wrapping
    <3>2. QED
      BY <2>1, <2>2, <3>1, WholeRound
  <2>4. CASE pc # "reset"
    <3>1. first = Base
      BY <2>4 DEF Inv, MainInv, first, Base, Wrapping
    <3>2. QED
      BY <2>2, <3>1
  <2>5. QED
    BY <2>3, <2>4
<1>2. QED
  BY <1>0, <1>1 DEF WaitsFrom, Waiting, View, C

LEMMA WaitingAlways == Inv => WaitsFrom
BY WaitingForm

LEMMA WaitingNext == Inv' => WaitsFrom'
BY WaitingAlways, PTL

-----------------------------------------------------------------------------
(* Steps of the queue *)

FifoStep == [Fifo!Next]_<<Waiting, ret>>

\* Append and Tail of a view of the ring
SameFrom(Q, R, f, n) == \A k \in 1 .. n : R[(f + (k - 1)) % C] = Q[(f + (k - 1)) % C]
EndsWith(R, f, n, x) == R[(f + n) % C] = x

LEMMA ViewAppend ==
  ASSUME NEW Q, NEW R, NEW f \in Int, NEW n \in Nat, NEW x,
         SameFrom(Q, R, f, n), EndsWith(R, f, n, x)
  PROVE  View(R, f, n + 1) = Append(View(Q, f, n), x)
<1> USE DEF SameFrom, EndsWith
<1> DEFINE F(k) == Q[(f + (k - 1)) % C]
           V == [k \in 1 .. n |-> F(k)]
           W == [k \in 1 .. n + 1 |-> R[(f + (k - 1)) % C]]
<1>1. Append(V, x) = [k \in 1 .. n + 1 |-> IF k = n + 1 THEN x ELSE V[k]]
  <2> HIDE DEF F
  <2>1. QED
    OBVIOUS
<1>2. \A k \in 1 .. n + 1 : W[k] = IF k = n + 1 THEN x ELSE V[k]
  <2> SUFFICES ASSUME NEW k \in 1 .. n + 1
               PROVE  R[(f + (k - 1)) % C] = IF k = n + 1 THEN x ELSE V[k]
    OBVIOUS
  <2>1. CASE k = n + 1
    <3>1. k - 1 = n
      BY <2>1
    <3>2. QED
      BY <2>1, <3>1
  <2>2. CASE k # n + 1
    <3>1. k \in 1 .. n
      BY <2>2
    <3>2. QED
      BY <2>2, <3>1
  <2>3. QED
    BY <2>1, <2>2
<1>3. W = [k \in 1 .. n + 1 |-> IF k = n + 1 THEN x ELSE V[k]]
  <2> HIDE DEF V, F
  <2>1. QED
    BY <1>2
<1>4. QED
  BY <1>1, <1>3 DEF View

LEMMA ViewTail ==
  ASSUME NEW Q, NEW f \in 0 .. C - 1, NEW n \in 1 .. C
  PROVE  /\ View(Q, f, n) # << >> /\ Head(View(Q, f, n)) = Q[f]
         /\ Tail(View(Q, f, n)) = View(Q, f + 1, n - 1)
<1>0. C \in Nat /\ C > 0
  BY Capacity
<1> DEFINE F(k) == Q[(f + (k - 1)) % C]
           V == [k \in 1 .. n |-> F(k)]
<1>1. (f + (1 - 1)) % C = f
  <2>1. f \in 0 .. C /\ 0 \in 0 .. C - 1 /\ 1 - 1 = 0
    BY <1>0
  <2>2. (f + 0) % C = IF f + 0 < C THEN f + 0 ELSE f + 0 - C
    BY <2>1, Place
  <2>3. QED
    BY <1>0, <2>1, <2>2
<1>2. V # << >> /\ Head(V) = F(1) /\ Tail(V) = [k \in 1 .. n - 1 |-> V[k + 1]]
  <2> HIDE DEF F
  <2>1. QED
    BY <1>0
<1>3. \A k \in 1 .. n - 1 : V[k + 1] = Q[((f + 1) + (k - 1)) % C]
  <2> SUFFICES ASSUME NEW k \in 1 .. n - 1 PROVE V[k + 1] = Q[((f + 1) + (k - 1)) % C]
    OBVIOUS
  <2>1. k + 1 \in 1 .. n /\ f + ((k + 1) - 1) = (f + 1) + (k - 1)
    BY <1>0
  <2>2. QED
    BY <2>1
<1>4. QED
  BY <1>1, <1>2, <1>3 DEF View

\* A step that leaves the view as it is, adds to it or takes its head
LEMMA QueueSteps ==
  ASSUME Inv
  PROVE  /\ Waiting' = Waiting /\ ret' = ret => FifoStep
         /\ \A f \in Frames : Count < C /\ Waiting' = Append(Waiting, f) /\ ret' = ret => FifoStep
         /\ Waiting # << >> /\ ret' = Head(Waiting) /\ Waiting' = Tail(Waiting) => FifoStep
<1>1. Len(Waiting) = Count
  BY WaitingForm DEF WaitsFrom, Waiting
<1>2. QED
  BY <1>1 DEF FifoStep, Fifo!Next, Fifo!Take, Fifo!Accept, Waiting, C

\* The indices and the ring are left alone, outside queue_pop.
LEMMA QuietStep ==
  ASSUME Inv, TypeOK', MainInv', UNCHANGED <<ring, ret>>,
         pc \notin {"clear", "advance", "unflag", "reset"},
         pc' \notin {"clear", "advance", "unflag", "reset"}
  PROVE  Inv' /\ FifoStep
<1>1. occupied' = occupied /\ copied' = copied /\ first' = first
  BY DEF ring, occupied, copied, first
<1>2. Base' = Base /\ Turn' = Turn /\ queue_push_ptr' = queue_push_ptr /\ queue_pop_ptr' = queue_pop_ptr
  BY <1>1 DEF ring, Base, Turn, Wrapping
<1>3. FillInv'
  BY <1>1, <1>2 DEF Inv, FillInv
<1>4. Waiting' = Waiting
  BY <1>1 DEF ring, Waiting
<1>5. QED
  BY <1>3, <1>4, QueueSteps DEF Inv

\* The waiting frames are the same, seen from the same slot.
LEMMA SameView ==
  ASSUME Inv, Inv', ret' = ret, Count' = Count,
         \A k \in 1 .. Count :
           queue'[(Base' + (k - 1)) % C] = queue[(Base + (k - 1)) % C]
  PROVE  FifoStep
<1>1. Waiting = View(queue, Base, Count) /\ Waiting' = View(queue', Base', Count')
  BY WaitingForm, WaitingNext DEF WaitsFrom
<1>2. View(queue', Base', Count') = View(queue, Base, Count)
  BY DEF View
<1>3. QED
  BY <1>1, <1>2, QueueSteps

-----------------------------------------------------------------------------
(* The receive interrupt *)

LEMMA PushStep ==
  ASSUME Inv, TypeOK', ~FillsInWindow, NEW f \in Frames, rx_process(f)
  PROVE  Inv' /\ FifoStep
<1> DEFINE p == queue_push_ptr
           q == queue_pop_ptr
           b == queueIndexIsOutOfBound
<1>0. /\ C \in Nat /\ C > 0 /\ Slots = 0 .. C - 1
      /\ p \in 0 .. C - 1 /\ q \in 0 .. C /\ b \in {0, 1}
      /\ pc \notin {"wrap", "reset"} => q \in 0 .. C - 1
      /\ queue \in [Slots -> Frames \cup {NoFrame}]
  BY Facts DEF Inv
<1>1. /\ queue' = [queue EXCEPT ![p] = f] /\ q' = q /\ pc' = pc /\ seen' = seen /\ ret' = ret
      /\ IF p = C - 1 THEN p' = 0 /\ b' = 1 ELSE p' = p + 1 /\ b' = b
      /\ p = C - 1 => q # C /\ pc # "unflag"
  BY <1>0 DEF rx_process, queue_push, Wraps, InWindow, C
<1>2. /\ f # NoFrame /\ queue'[p] = f
      /\ \A s \in Slots : s # p => queue'[s] = queue[s]
  BY <1>0, <1>1, Capacity
<1>3. Inside(Base, p, Turn) /\ Base \in 0 .. C /\ Turn \in {0, 1}
  BY DEF Inv, FillInv, Inside
<1>4. b = 1 => p # q
  <2>1. p + C * b - q # C
    BY DEF rx_process, queue_is_full, how_many, HowMany, C
  <2>2. QED
    BY <1>0, <2>1
<1>5. Turn = 1 => b = 1 /\ ~Wrapping /\ Base = first /\ p < Base
  <2> SUFFICES ASSUME Turn = 1 PROVE b = 1 /\ ~Wrapping /\ Base = first /\ p < Base
    OBVIOUS
  <2>1. b = 1 /\ ~Wrapping /\ Base = first
    BY DEF Turn, Base
  <2>2. CASE pc \in {"clear", "advance"}
    BY <1>0, <1>4, <2>1, <2>2 DEF Inv, MainInv, first
  <2>3. CASE pc \notin {"clear", "advance"}
    BY <1>0, <1>3, <1>4, <2>1, <2>3 DEF first, Inside
  <2>4. QED
    BY <2>1, <2>2, <2>3
<1>6. Turn = 0 => Base <= p
  BY <1>3 DEF Inside
<1>7. p = C - 1 => ~Wrapping /\ Turn = 0
  <2> SUFFICES ASSUME p = C - 1 PROVE ~Wrapping /\ Turn = 0
    OBVIOUS
  <2>1. ~Wrapping
    BY <1>1 DEF Inv, MainInv, Wrapping
  <2>2. Turn # 1
    <3> SUFFICES ASSUME Turn = 1 PROVE FALSE
      OBVIOUS
    <3>1. first = C /\ b = 1 /\ p # q
      BY <1>0, <1>3, <1>4, <1>5
    <3>2. CASE pc \in {"clear", "advance"}
      <4>1. p <= q /\ first = q + 1
        BY <3>1, <3>2 DEF Inv, MainInv, first
      <4>2. QED
        BY <1>0, <3>1, <4>1
    <3>3. CASE pc \notin {"clear", "advance"}
      BY <1>0, <1>1, <3>1, <3>3 DEF first
    <3>4. QED
      BY <3>2, <3>3
  <2>3. QED
    BY <1>3, <2>1, <2>2
<1>8. Base' = Base /\ copied' = copied /\ (Turn' = IF p = C - 1 THEN 1 ELSE Turn)
  BY <1>1, <1>7 DEF Base, Turn, Wrapping, first, copied
<1>9. Inside(Base', p', Turn')
  BY <1>0, <1>1, <1>3, <1>5, <1>6, <1>7, <1>8 DEF Inside
<1>10. Span(Base', p', Turn') = Span(Base, p, Turn) \cup {p}
  <2>1. CASE p = C - 1
    <3>1. Span(Base', p', Turn') = (0 .. 0 - 1) \cup (Base .. C - 1)
      BY <1>1, <1>8, <2>1 DEF Span
    <3>2. Span(Base, p, Turn) = Base .. p - 1
      BY <1>7, <2>1 DEF Span
    <3>3. (0 .. 0 - 1) \cup (Base .. C - 1) = (Base .. p - 1) \cup {p}
      BY <1>0, <1>3, <1>6, <1>7, <2>1
    <3>4. QED
      BY <3>1, <3>2, <3>3
  <2>2. CASE p # C - 1
    <3>1. p' = p + 1 /\ Turn' = Turn
      BY <1>1, <1>8, <2>2
    <3>2. CASE Turn = 0
      <4>1. Base .. (p + 1) - 1 = (Base .. p - 1) \cup {p}
        BY <1>0, <1>3, <1>6, <3>2
      <4>2. QED
        BY <1>8, <3>1, <3>2, <4>1 DEF Span
    <3>3. CASE Turn = 1
      <4>1. 0 .. (p + 1) - 1 = (0 .. p - 1) \cup {p}
        BY <1>0
      <4>2. QED
        BY <1>8, <3>1, <3>3, <4>1 DEF Span
    <3>4. QED
      BY <1>3, <3>2, <3>3
  <2>3. QED
    BY <2>1, <2>2
<1>11. p \notin copied
  BY <1>0, <1>4 DEF Inv, MainInv, copied
<1>12. occupied' \ copied' = (occupied \ copied) \cup {p}
  <2>1. occupied' = occupied \cup {p}
    BY <1>0, <1>2 DEF occupied
  <2>2. QED
    BY <1>8, <1>11, <2>1
<1>13. FillInv'
  BY <1>9, <1>10, <1>12 DEF Inv, FillInv
<1>14. MainInv'
  <2>1. ASSUME pc' \in {"pop", "clear", "advance"}
        PROVE  IF b' = 0 THEN q' < p' ELSE p' <= q'
    <3>1. IF b = 0 THEN q < p ELSE p <= q
      BY <1>1, <2>1 DEF Inv, MainInv
    <3>2. QED
      BY <1>0, <1>1, <1>4, <3>1
  <2>2. ASSUME pc' = "unflag" PROVE q' = 0 /\ b' = 1
    <3>1. q = 0 /\ b = 1
      BY <1>1, <2>2 DEF Inv, MainInv
    <3>2. QED
      BY <1>1, <3>1
  <2>3. ASSUME pc' = "reset" PROVE q' = C /\ b' = 0
    <3>1. q = C /\ b = 0
      BY <1>1, <2>3 DEF Inv, MainInv
    <3>2. QED
      BY <1>1, <3>1
  <2>4. ASSUME b' = 0, q' = p' PROVE pc' \notin {"push_read", "bound_read"}
    <3>1. b = 0 /\ q = p + 1
      BY <1>1, <2>4
    <3>2. SUFFICES ASSUME pc \in {"push_read", "bound_read"} PROVE FALSE
      BY <1>1
    <3>3. Base = q /\ Turn = 0
      BY <3>1, <3>2 DEF Base, Turn, Wrapping, first
    <3>4. QED
      BY <1>0, <1>6, <3>1, <3>3
  <2>5. QED
    BY <2>1, <2>2, <2>3, <2>4 DEF MainInv
<1>15. Inv'
  BY <1>13, <1>14 DEF Inv
<1>16. Count \in 0 .. C - 1 /\ Count' = Count + 1 /\ Base + Count = p + C * Turn
  BY <1>0, <1>1, <1>3, <1>5, <1>6, <1>7, <1>8 DEF Count
<1>17. (Base + Count) % C = p
  <2>1. (Base + Count) % C = IF Base + Count < C THEN Base + Count ELSE Base + Count - C
    BY <1>3, <1>16, Place
  <2>2. QED
    BY <1>0, <1>3, <1>16, <2>1
<1>18. \A k \in 1 .. Count : queue'[(Base + (k - 1)) % C] = queue[(Base + (k - 1)) % C]
  <2> SUFFICES ASSUME NEW k \in 1 .. Count
               PROVE  (Base + (k - 1)) % C \in Slots /\ (Base + (k - 1)) % C # p
    BY <1>2
  <2> DEFINE s == (Base + (k - 1)) % C
  <2>1. k - 1 \in 0 .. C - 1 /\ k \in Nat
    BY <1>0, <1>16
  <2>2. s \in Slots /\ s = IF Base + (k - 1) < C THEN Base + (k - 1) ELSE Base + (k - 1) - C
    BY <1>3, <2>1, Place
  <2> HIDE DEF s
  <2>3. s # p
    BY <1>0, <1>3, <1>5, <1>6, <1>16, <2>1, <2>2
  <2>4. QED
    BY <2>2, <2>3 DEF s
<1>19. Waiting' = Append(Waiting, f)
  <2>1. Waiting = View(queue, Base, Count) /\ Waiting' = View(queue', Base, Count + 1)
    BY <1>8, <1>15, <1>16, WaitingForm, WaitingNext DEF WaitsFrom
  <2>2. queue'[(Base + Count) % C] = f /\ Count \in Nat /\ Base \in Int
    BY <1>2, <1>3, <1>16, <1>17
  <2>3. View(queue', Base, Count + 1) = Append(View(queue, Base, Count), f)
    <3>1. SameFrom(queue, queue', Base, Count) /\ EndsWith(queue', Base, Count, f)
      BY <1>18, <2>2 DEF SameFrom, EndsWith
    <3>2. QED
      BY <2>2, <3>1, ViewAppend
  <2>4. QED
    BY <2>1, <2>3
<1>20. Count < C
  BY <1>0, <1>16
<1>21. QED
  BY <1>1, <1>15, <1>19, <1>20, QueueSteps


-----------------------------------------------------------------------------
(* The loop of main() *)

\* A step that moves neither the frames nor, but for a whole round, their first slot
LEMMA IndexStep ==
  ASSUME Inv, TypeOK', MainInv', queue' = queue, queue_push_ptr' = queue_push_ptr, ret' = ret,
         copied = {}, copied' = {},
         \/ Base' = Base /\ Turn' = Turn
         \/ Base = C /\ Turn = 1 /\ Base' = 0 /\ Turn' = 0
  PROVE  Inv' /\ FifoStep
<1>0. C \in Nat /\ C > 0 /\ queue_push_ptr \in 0 .. C - 1 /\ Slots = 0 .. C - 1 /\ Base \in 0 .. C
  BY Facts DEF Inv, FillInv, Inside
<1>1. occupied' \ copied' = occupied \ copied
  BY DEF occupied
<1>2. /\ Inside(Base', queue_push_ptr, Turn') /\ Count' = Count
      /\ Span(Base', queue_push_ptr, Turn') = Span(Base, queue_push_ptr, Turn)
  <2>1. CASE Base' = Base /\ Turn' = Turn
    BY <2>1 DEF Inv, FillInv, Count
  <2>2. CASE Base = C /\ Turn = 1 /\ Base' = 0 /\ Turn' = 0
    <3>1. C .. C - 1 = {}
      BY <1>0
    <3>2. Span(Base, queue_push_ptr, Turn) = 0 .. queue_push_ptr - 1
      BY <2>2, <3>1 DEF Span
    <3>3. QED
      BY <1>0, <2>2, <3>2 DEF Span, Inside, Count
  <2>3. QED
    BY <2>1, <2>2
<1>3. Inv'
  BY <1>1, <1>2 DEF Inv, FillInv
<1>4. \A k \in 1 .. Count : (Base' + (k - 1)) % C = (Base + (k - 1)) % C
  <2> SUFFICES ASSUME NEW k \in 1 .. Count PROVE (Base' + (k - 1)) % C = (Base + (k - 1)) % C
    OBVIOUS
  <2>1. k - 1 \in 0 .. C - 1
    BY <1>0, WaitingForm DEF WaitsFrom
  <2>2. QED
    BY <2>1, WholeRound
<1>5. QED
  BY <1>2, <1>3, <1>4, SameView

LEMMA ReadStep ==
  ASSUME Inv, TypeOK', ReadPush \/ ReadBound \/ TestEmpty \/ NoWrap \/ send_frame
  PROVE  Inv' /\ FifoStep
<1>0. /\ C \in Nat /\ C > 0 /\ queue_push_ptr \in 0 .. C - 1 /\ queue_pop_ptr \in 0 .. C
      /\ queueIndexIsOutOfBound \in {0, 1}
  BY Facts DEF Inv
<1>1. UNCHANGED <<ring, ret>>
  BY DEF ReadPush, ReadBound, TestEmpty, NoWrap, send_frame
<1>2. /\ pc \notin {"clear", "advance", "unflag", "reset"}
      /\ pc' \notin {"clear", "advance", "unflag", "reset"}
  BY DEF ReadPush, ReadBound, TestEmpty, NoWrap, send_frame
<1>3. MainInv'
  <2>1. CASE ReadPush
    BY <1>1, <2>1 DEF ReadPush, ring, MainInv
  <2>2. CASE ReadBound
    BY <1>1, <2>2 DEF ReadBound, ring, MainInv
  <2>3. CASE TestEmpty
    <3>1. Base = queue_pop_ptr /\ Turn = queueIndexIsOutOfBound
      BY <2>3 DEF TestEmpty, Base, Turn, Wrapping, first
    <3>2. IF queueIndexIsOutOfBound = 0 THEN queue_pop_ptr <= queue_push_ptr
                                        ELSE queue_push_ptr <= queue_pop_ptr
      BY <3>1 DEF Inv, FillInv, Inside
    <3>3. queueIndexIsOutOfBound = 0 /\ queue_pop_ptr = queue_push_ptr => queue_is_empty
      BY <1>0, <2>3 DEF TestEmpty, Inv, MainInv, queue_is_empty, HowMany, C
    <3>4. pc' = "pop" => IF queueIndexIsOutOfBound = 0 THEN queue_pop_ptr < queue_push_ptr
                                                       ELSE queue_push_ptr <= queue_pop_ptr
      BY <1>0, <2>3, <3>2, <3>3 DEF TestEmpty
    <3>5. pc' \in {"loop", "pop"}
      BY <2>3 DEF TestEmpty
    <3>6. QED
      BY <1>1, <3>4, <3>5 DEF ring, MainInv
  <2>4. CASE NoWrap \/ send_frame
    BY <2>4 DEF NoWrap, send_frame, MainInv
  <2>5. QED
    BY <2>1, <2>2, <2>3, <2>4
<1>4. QED
  BY <1>1, <1>2, <1>3, QuietStep

LEMMA WrapStep ==
  ASSUME Inv, TypeOK', ResetPop \/ ClearBound
  PROVE  Inv' /\ FifoStep
<1>0. /\ C \in Nat /\ C > 0 /\ queue_push_ptr \in 0 .. C - 1 /\ queue_pop_ptr \in 0 .. C
      /\ queueIndexIsOutOfBound \in {0, 1}
  BY Facts DEF Inv
<1>1. copied = {} /\ copied' = {}
  BY DEF ResetPop, ClearBound, copied
<1>2. ASSUME pc = "wrap", Wraps(queue_pop_ptr)
      PROVE  queue_pop_ptr = C /\ queueIndexIsOutOfBound = 1 /\ Base = C /\ Turn = 1
  <2>1. queue_pop_ptr = C
    BY <1>0, <1>2 DEF Wraps, C
  <2>2. Base = C /\ Turn = queueIndexIsOutOfBound
    BY <1>2, <2>1 DEF Base, Turn, Wrapping, first
  <2>3. Turn # 0
    BY <1>0, <2>2 DEF Inv, FillInv, Inside
  <2>4. QED
    BY <1>0, <2>1, <2>2, <2>3
<1>3. ASSUME pc = "unflag" PROVE queue_pop_ptr = 0 /\ Base = 0 /\ Turn = 0
  BY <1>3 DEF Inv, MainInv, Base, Turn, Wrapping
<1>4. ASSUME pc = "reset" PROVE queueIndexIsOutOfBound = 0 /\ Base = 0 /\ Turn = 0
  BY <1>4 DEF Inv, MainInv, Base, Turn, Wrapping
<1>5. CASE ResetPop
  <2>1. queue' = queue /\ queue_push_ptr' = queue_push_ptr /\ ret' = ret
        /\ queue_pop_ptr' = 0 /\ queueIndexIsOutOfBound' = queueIndexIsOutOfBound
    BY <1>5 DEF ResetPop
  <2>2. CASE pc = "wrap" /\ Wraps(queue_pop_ptr) /\ pc' = "unflag"
    <3>1. Base' = 0 /\ Turn' = 0
      BY <2>2 DEF Base, Turn, Wrapping
    <3>2. MainInv'
      BY <1>2, <2>1, <2>2 DEF MainInv
    <3>3. QED
      BY <1>1, <1>2, <2>1, <2>2, <3>1, <3>2, IndexStep
  <2>3. CASE pc = "reset" /\ pc' = "send"
    <3>1. Base' = 0 /\ Turn' = 0
      BY <1>4, <2>1, <2>3 DEF Base, Turn, Wrapping, first
    <3>2. MainInv'
      BY <2>3 DEF MainInv
    <3>3. QED
      BY <1>1, <1>4, <2>1, <2>3, <3>1, <3>2, IndexStep
  <2>4. QED
    BY <1>5, <2>2, <2>3 DEF ResetPop
<1>6. CASE ClearBound
  <2>1. queue' = queue /\ queue_push_ptr' = queue_push_ptr /\ ret' = ret
        /\ queue_pop_ptr' = queue_pop_ptr /\ queueIndexIsOutOfBound' = 0
    BY <1>6 DEF ClearBound
  <2>2. CASE pc = "wrap" /\ Wraps(queue_pop_ptr) /\ pc' = "reset"
    <3>1. Base' = 0 /\ Turn' = 0
      BY <2>2 DEF Base, Turn, Wrapping
    <3>2. MainInv'
      BY <1>2, <2>1, <2>2 DEF MainInv
    <3>3. QED
      BY <1>1, <1>2, <2>1, <2>2, <3>1, <3>2, IndexStep
  <2>3. CASE pc = "unflag" /\ pc' = "send"
    <3>1. Base' = 0 /\ Turn' = 0
      BY <1>3, <2>1, <2>3 DEF Base, Turn, Wrapping, first
    <3>2. MainInv'
      BY <2>3 DEF MainInv
    <3>3. QED
      BY <1>1, <1>3, <2>1, <2>3, <3>1, <3>2, IndexStep
  <2>4. QED
    BY <1>6, <2>2, <2>3 DEF ClearBound
<1>7. QED
  BY <1>5, <1>6

LEMMA AdvanceStep == ASSUME Inv, TypeOK', Advance PROVE Inv' /\ FifoStep
<1>1. /\ queue' = queue /\ queue_push_ptr' = queue_push_ptr /\ ret' = ret
      /\ queueIndexIsOutOfBound' = queueIndexIsOutOfBound /\ queue_pop_ptr' = queue_pop_ptr + 1
      /\ pc = "advance" /\ pc' = "wrap"
  BY DEF Advance
<1>2. copied = {} /\ copied' = {} /\ Base' = Base /\ Turn' = Turn
  BY <1>1 DEF copied, Base, Turn, Wrapping, first
<1>3. MainInv'
  BY <1>1 DEF MainInv
<1>4. QED
  BY <1>1, <1>2, <1>3, IndexStep

LEMMA CopyStep == ASSUME Inv, TypeOK', Copy PROVE Inv' /\ FifoStep
<1> DEFINE p == queue_push_ptr
           q == queue_pop_ptr
           b == queueIndexIsOutOfBound
<1>1. /\ ring' = ring /\ pc = "pop" /\ pc' = "clear" /\ ret' = queue[q]
      /\ queue' = queue /\ p' = p /\ q' = q /\ b' = b
  BY DEF Copy, ring
<1>2. /\ C \in Nat /\ C > 0 /\ p \in 0 .. C - 1 /\ q \in 0 .. C - 1 /\ b \in {0, 1}
      /\ IF b = 0 THEN q < p ELSE p <= q
  BY <1>1, Facts DEF Inv, MainInv
<1>3. /\ copied = {} /\ copied' = {q} /\ occupied' = occupied
      /\ Base = q /\ Base' = q + 1 /\ Turn = b /\ Turn' = b
  BY <1>1 DEF copied, occupied, Base, Turn, Wrapping, first
<1>4. Inside(q + 1, p, b)
  BY <1>2, Facts DEF Inside, Inv
<1>5. Span(q + 1, p, b) = Span(q, p, b) \ {q}
  <2>1. CASE b = 0
    <3>1. (q + 1) .. p - 1 = (q .. p - 1) \ {q}
      BY <1>2
    <3>2. QED
      BY <2>1, <3>1 DEF Span
  <2>2. CASE b = 1
    <3>1. (0 .. p - 1) \cup ((q + 1) .. C - 1) = ((0 .. p - 1) \cup (q .. C - 1)) \ {q}
      BY <1>2, <2>2
    <3>2. QED
      BY <2>2, <3>1 DEF Span
  <2>3. QED
    BY <1>2, <2>1, <2>2
<1>6. occupied = Span(q, p, b)
  BY <1>3 DEF Inv, FillInv
<1>7. FillInv'
  BY <1>1, <1>3, <1>4, <1>5, <1>6 DEF FillInv
<1>8. MainInv'
  BY <1>1, <1>2 DEF MainInv
<1>9. Inv'
  BY <1>7, <1>8 DEF Inv
<1>10. Count = p + C * b - q /\ Count' = Count - 1 /\ Count \in 1 .. C
  BY <1>1, <1>2, <1>3, WaitingForm DEF Count, WaitsFrom
<1>11. Waiting = View(queue, q, Count) /\ Waiting' = View(queue, q + 1, Count - 1)
  BY <1>1, <1>3, <1>9, <1>10, WaitingForm, WaitingNext DEF WaitsFrom
<1>12. Waiting # << >> /\ ret' = Head(Waiting) /\ Waiting' = Tail(Waiting)
  BY <1>1, <1>2, <1>10, <1>11, ViewTail
<1>13. QED
  BY <1>9, <1>12, QueueSteps

LEMMA ClearStep == ASSUME Inv, TypeOK', queue_clear_elm PROVE Inv' /\ FifoStep
<1> DEFINE p == queue_push_ptr
           q == queue_pop_ptr
           b == queueIndexIsOutOfBound
<1>1. /\ pc = "clear" /\ pc' = "advance" /\ queue' = [queue EXCEPT ![q] = NoFrame]
      /\ p' = p /\ q' = q /\ b' = b /\ ret' = ret
  BY DEF queue_clear_elm
<1>2. /\ C \in Nat /\ C > 0 /\ Slots = 0 .. C - 1
      /\ p \in 0 .. C - 1 /\ q \in 0 .. C - 1 /\ b \in {0, 1}
      /\ queue \in [Slots -> Frames \cup {NoFrame}]
      /\ IF b = 0 THEN q < p ELSE p <= q
  BY <1>1, Facts DEF Inv, MainInv
<1>3. queue'[q] = NoFrame /\ \A s \in Slots : s # q => queue'[s] = queue[s]
  BY <1>1, <1>2
<1>4. /\ copied = {q} /\ copied' = {} /\ Base = q + 1 /\ Base' = q + 1 /\ Turn = b /\ Turn' = b
  BY <1>1 DEF copied, Base, Turn, Wrapping, first
<1>5. occupied' \ copied' = occupied \ copied
  BY <1>3, <1>4 DEF occupied
<1>6. FillInv'
  BY <1>1, <1>4, <1>5 DEF Inv, FillInv
<1>7. MainInv'
  BY <1>1, <1>2 DEF MainInv
<1>8. Inv'
  BY <1>6, <1>7 DEF Inv
<1>9. Count' = Count /\ Count \in 0 .. C - 1
  BY <1>1, <1>2, <1>4 DEF Count
<1>10. \A k \in 1 .. Count : queue'[(Base' + (k - 1)) % C] = queue[(Base + (k - 1)) % C]
  <2> SUFFICES ASSUME NEW k \in 1 .. Count
               PROVE  ((q + 1) + (k - 1)) % C \in Slots /\ ((q + 1) + (k - 1)) % C # q
    BY <1>3, <1>4
  <2> DEFINE s == ((q + 1) + (k - 1)) % C
  <2>1. q + 1 \in 0 .. C /\ k - 1 \in 0 .. C - 1 /\ k \in 1 .. C - 1
    BY <1>2, <1>9
  <2>2. s \in Slots /\ s = IF (q + 1) + (k - 1) < C THEN (q + 1) + (k - 1) ELSE (q + 1) + (k - 1) - C
    BY <2>1, Place
  <2> HIDE DEF s
  <2>3. s # q
    BY <1>2, <2>1, <2>2
  <2>4. QED
    BY <2>2, <2>3 DEF s
<1>11. QED
  BY <1>1, <1>8, <1>9, <1>10, SameView

-----------------------------------------------------------------------------
(* Results *)

LEMMA InvInit == Init => Inv
<1> SUFFICES ASSUME Init PROVE Inv
  OBVIOUS
<1>0. C \in Nat /\ C > 0 /\ Slots = 0 .. C - 1
  BY Capacity
<1>1. TypeOK
  BY Capacity DEF Init, TypeOK, C
<1>2. occupied = {} /\ Base = 0 /\ Turn = 0 /\ queue_push_ptr = 0
  BY DEF Init, occupied, Base, Turn, Wrapping, first
<1>3. Span(0, 0, 0) = {} /\ Inside(0, 0, 0)
  BY <1>0 DEF Span, Inside
<1>4. FillInv
  BY <1>2, <1>3 DEF FillInv
<1>5. QED
  BY <1>1, <1>4 DEF Inv, MainInv, Init

LEMMA InvStep ==
  ASSUME Inv, [Next]_vars, ~FillsInWindow
  PROVE  Inv' /\ FifoStep
<1>1. TypeOK'
  BY TypesStep DEF Inv
<1>2. CASE \E f \in Frames : rx_process(f)
  BY <1>1, <1>2, PushStep
<1>3. CASE ReadPush \/ ReadBound \/ TestEmpty \/ NoWrap \/ send_frame
  BY <1>1, <1>3, ReadStep
<1>4. CASE Copy
  BY <1>1, <1>4, CopyStep
<1>5. CASE queue_clear_elm
  BY <1>1, <1>5, ClearStep
<1>6. CASE Advance
  BY <1>1, <1>6, AdvanceStep
<1>7. CASE ResetPop \/ ClearBound
  BY <1>1, <1>7, WrapStep
<1>8. CASE UNCHANGED vars
  <2>1. /\ UNCHANGED <<queue, queue_push_ptr, queue_pop_ptr, queueIndexIsOutOfBound, pc, seen, ret>>
    BY <1>8 DEF vars, ring
  <2>2. /\ occupied' = occupied /\ copied' = copied /\ first' = first /\ Base' = Base /\ Turn' = Turn
    BY <2>1 DEF occupied, copied, first, Base, Turn, Wrapping
  <2>3. Inv'
    BY <1>1, <2>1, <2>2 DEF Inv, FillInv, MainInv
  <2>4. Waiting' = Waiting
    BY <2>1, <2>2 DEF Waiting
  <2>5. QED
    BY <2>1, <2>3, <2>4, QueueSteps
<1>9. QED
  BY <1>2, <1>3, <1>4, <1>5, <1>6, <1>7, <1>8 DEF Next, Main

\* Between two pops how_many() is the number of frames in the ring, if no frame takes the
\* last slot during a wrap (queue.c, how_many).
THEOREM HowManyRight == ~FillsInWindow => (Spec => []HowManyCounts)
<1> SUFFICES ASSUME ~FillsInWindow PROVE Spec => []HowManyCounts
  OBVIOUS
<1>1. Inv /\ [Next]_vars => Inv'
  BY InvStep
<1>2. Inv => HowManyCounts
  <2> SUFFICES ASSUME Inv, ~InQueuePop PROVE how_many = Cardinality(occupied)
    BY DEF HowManyCounts
  <2>1. Base = queue_pop_ptr /\ Turn = queueIndexIsOutOfBound /\ copied = {}
    BY DEF InQueuePop, Base, Turn, Wrapping, first, copied
  <2>2. Count = Cardinality(occupied)
    BY <2>1, WaitingForm DEF WaitsFrom
  <2>3. QED
    BY <2>1, <2>2 DEF Count, how_many, HowMany, C
<1>3. QED
  BY InvInit, <1>1, <1>2, PTL DEF Spec

\* Every step of the two users is a step of the queue of BoundedFifo or none, under the
\* same condition: a frame is taken once, in its turn (queue_push, queue_pop).
THEOREM RingIsFifo ==
  ~FillsInWindow => (Spec => Fifo!Init /\ [][Fifo!Next]_<<Waiting, ret>>)
<1> SUFFICES ASSUME ~FillsInWindow PROVE Spec => Fifo!Init /\ [][Fifo!Next]_<<Waiting, ret>>
  OBVIOUS
<1>1. Init => Fifo!Init
  <2> SUFFICES ASSUME Init PROVE Waiting = << >> /\ ret = NoFrame
    BY DEF Fifo!Init
  <2>1. occupied \ copied = {}
    BY DEF Init, occupied
  <2>2. Cardinality(occupied \ copied) = 0
    BY <2>1, FS_EmptySet
  <2>3. Waiting = << >>
    <3> DEFINE F(k) == queue[(first + k - 1) % QUEUE_CAPACITY]
    <3>1. Waiting = [k \in 1 .. 0 |-> F(k)]
      BY <2>2 DEF Waiting
    <3> HIDE DEF F
    <3>2. QED
      BY <3>1
  <2>4. QED
    BY <2>3 DEF Init
<1>2. Inv /\ [Next]_vars => Inv' /\ [Fifo!Next]_<<Waiting, ret>>
  BY InvStep DEF FifoStep
<1>3. QED
  BY InvInit, <1>1, <1>2, PTL DEF Spec
=============================================================================
