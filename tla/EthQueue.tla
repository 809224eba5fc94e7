------------------------------ MODULE EthQueue ------------------------------
(***************************************************************************)
(* The ring of reply frames of the M7_1 demo (queue.c) between its two     *)
(* users: the interrupt that receives an Ethernet frame and queues the     *)
(* reply (EthIf_Cbk.c, rx_process in main.c), and the loop of main() that  *)
(* pops and sends the replies.  There is no lock: the interrupt runs to    *)
(* its end between any two memory accesses of main().                      *)
(*                                                                         *)
(* Abstractions:                                                           *)
(*  - An element of the queue is a value; a cleared one is NoFrame.        *)
(*  - Only frames that get a reply are received; building the reply and    *)
(*    handing it to the Ethernet driver (send_frame) change no variable    *)
(*    of the queue.                                                        *)
(*  - The model starts after queue_init().                                 *)
(***************************************************************************)
EXTENDS Integers, FiniteSets

CONSTANTS
  Frames,          \* replies that may be queued
  NoFrame,         \* a cleared element
  QUEUE_CAPACITY,  \* elements of the ring (1000)
  FillsInWindow    \* may a frame take the last slot while queue_pop is wrapping
                   \* from that slot to the first?

ASSUME QueueAssumption ==
  /\ QUEUE_CAPACITY \in Nat \ {0}
  /\ NoFrame \notin Frames
  /\ FillsInWindow \in BOOLEAN

Slots == 0 .. QUEUE_CAPACITY - 1

VARIABLES
  queue,                   \* the ring
  queue_push_ptr,          \* next slot to push to
  queue_pop_ptr,           \* next slot to pop from
  queueIndexIsOutOfBound,  \* 1 when push has wrapped and pop has not
  pc,                      \* where main() is
  seen,                    \* what main() has read of how_many() so far
  ret                      \* the element popped last

ring == <<queue, queue_push_ptr, queue_pop_ptr, queueIndexIsOutOfBound>>
vars == <<ring, pc, seen, ret>>

Init ==
  /\ queue = [i \in Slots |-> NoFrame]
  /\ queue_push_ptr = 0
  /\ queue_pop_ptr = 0
  /\ queueIndexIsOutOfBound = 0
  /\ pc = "loop"
  /\ seen = 0
  /\ ret = NoFrame

HowMany(push, bound) == push + QUEUE_CAPACITY * bound - queue_pop_ptr

how_many == HowMany(queue_push_ptr, queueIndexIsOutOfBound)

-----------------------------------------------------------------------------
(* The receive interrupt *)

\* Mutant: the index runs one slot too far.
Wraps_Late(ptr) == ptr > QUEUE_CAPACITY

Wraps(ptr) == ptr > QUEUE_CAPACITY - 1

queue_is_full == how_many = QUEUE_CAPACITY

queue_push(f) ==
  /\ queue' = [queue EXCEPT ![queue_push_ptr] = f]
  /\ IF Wraps(queue_push_ptr + 1)
     THEN queue_push_ptr' = 0 /\ queueIndexIsOutOfBound' = 1
     ELSE queue_push_ptr' = queue_push_ptr + 1 /\ UNCHANGED queueIndexIsOutOfBound

\* main() is in queue_pop, has popped the last slot, and one of the two
\* variables of the wrap is not stored yet.
InWindow == queue_pop_ptr = QUEUE_CAPACITY \/ pc = "unflag"

\* A frame for which there is no room is dropped: nothing changes.
rx_process(f) ==
  /\ ~queue_is_full
  /\ FillsInWindow \/ ~(InWindow /\ Wraps(queue_push_ptr + 1))
  /\ queue_push(f)
  /\ UNCHANGED <<queue_pop_ptr, pc, seen, ret>>

-----------------------------------------------------------------------------
(* The loop of main(): queue_is_empty, queue_pop, send_frame.  how_many()  *)
(* reads two variables the interrupt writes, in either order.              *)

ReadPush ==
  /\ pc = "loop"
  /\ seen' = queue_push_ptr
  /\ pc' = "push_read"
  /\ UNCHANGED <<ring, ret>>

ReadBound ==
  /\ pc = "loop"
  /\ seen' = queueIndexIsOutOfBound
  /\ pc' = "bound_read"
  /\ UNCHANGED <<ring, ret>>

\* Mutant: only the indices are compared.
queue_is_empty_Pointers ==
  LET push == IF pc = "push_read" THEN seen ELSE queue_push_ptr
  IN  push = queue_pop_ptr

queue_is_empty ==
  IF pc = "push_read" THEN HowMany(seen, queueIndexIsOutOfBound) = 0
                      ELSE HowMany(queue_push_ptr, seen) = 0

TestEmpty ==
  /\ pc \in {"push_read", "bound_read"}
  /\ pc' = IF queue_is_empty THEN "loop" ELSE "pop"
  /\ seen' = 0
  /\ UNCHANGED <<ring, ret>>

\* ret = queue[queue_pop_ptr]
Copy ==
  /\ pc = "pop"
  /\ ret' = queue[queue_pop_ptr]
  /\ pc' = "clear"
  /\ UNCHANGED <<ring, seen>>

\* queue_clear_elm(queue_pop_ptr)
queue_clear_elm ==
  /\ pc = "clear"
  /\ queue' = [queue EXCEPT ![queue_pop_ptr] = NoFrame]
  /\ pc' = "advance"
  /\ UNCHANGED <<queue_push_ptr, queue_pop_ptr, queueIndexIsOutOfBound, seen, ret>>

Advance ==
  /\ pc = "advance"
  /\ queue_pop_ptr' = queue_pop_ptr + 1
  /\ pc' = "wrap"
  /\ UNCHANGED <<queue, queue_push_ptr, queueIndexIsOutOfBound, seen, ret>>

NoWrap ==
  /\ pc = "wrap" /\ ~Wraps(queue_pop_ptr)
  /\ pc' = "send"
  /\ UNCHANGED <<ring, seen, ret>>

\* The two stores of the wrap are independent and neither variable is
\* volatile: the build may have them in either order.
ResetPop ==
  /\ \/ pc = "wrap" /\ Wraps(queue_pop_ptr) /\ pc' = "unflag"
     \/ pc = "reset" /\ pc' = "send"
  /\ queue_pop_ptr' = 0
  /\ UNCHANGED <<queue, queue_push_ptr, queueIndexIsOutOfBound, seen, ret>>

\* Mutant: the flag stays set.
ClearBound_Keeps ==
  /\ \/ pc = "wrap" /\ Wraps(queue_pop_ptr) /\ pc' = "reset"
     \/ pc = "unflag" /\ pc' = "send"
  /\ UNCHANGED <<ring, seen, ret>>

ClearBound ==
  /\ \/ pc = "wrap" /\ Wraps(queue_pop_ptr) /\ pc' = "reset"
     \/ pc = "unflag" /\ pc' = "send"
  /\ queueIndexIsOutOfBound' = 0
  /\ UNCHANGED <<queue, queue_push_ptr, queue_pop_ptr, seen, ret>>

send_frame ==
  /\ pc = "send"
  /\ pc' = "loop"
  /\ UNCHANGED <<ring, seen, ret>>

-----------------------------------------------------------------------------
Main ==
  \/ ReadPush \/ ReadBound \/ TestEmpty
  \/ Copy \/ queue_clear_elm \/ Advance \/ NoWrap \/ ResetPop \/ ClearBound
  \/ send_frame

Next == Main \/ \E f \in Frames : rx_process(f)

\* main() goes on when the interrupt returns; frames need not come.
Spec == Init /\ [][Next]_vars /\ WF_vars(Main)

-----------------------------------------------------------------------------
(* Properties *)

\* Both indices stay inside the ring whenever they are used as one, for the
\* accesses queue[queue_push_ptr] and queue[queue_pop_ptr] have no check.
TypeOK ==
  /\ queue \in [Slots -> Frames \cup {NoFrame}]
  /\ queue_push_ptr \in Slots
  /\ queue_pop_ptr \in Slots \cup {QUEUE_CAPACITY}
  /\ queue_pop_ptr = QUEUE_CAPACITY => pc \in {"wrap", "reset"}
  /\ queueIndexIsOutOfBound \in {0, 1}
  /\ pc \in {"loop", "push_read", "bound_read", "pop", "clear", "advance",
             "wrap", "unflag", "reset", "send"}
  /\ seen \in 0 .. QUEUE_CAPACITY
  /\ ret \in Frames \cup {NoFrame}

occupied == {i \in Slots : queue[i] # NoFrame}

InQueuePop == pc \in {"clear", "advance", "wrap", "unflag", "reset"}

\* how_many() is the number of frames in the ring whenever main() is not
\* inside queue_pop: an empty ring is not taken for a full one, nor a full
\* one for an empty one.
HowManyCounts == ~InQueuePop => how_many = Cardinality(occupied)

\* A frame that ends up in the ring is sent, in its turn and once, however the
\* interrupt falls into queue_is_empty and queue_pop: the ring implements a
\* FIFO whose head is taken when queue_pop has copied it.
first == IF pc \in {"clear", "advance"} THEN queue_pop_ptr + 1 ELSE queue_pop_ptr
copied == IF pc = "clear" THEN {queue_pop_ptr} ELSE {}

Waiting == [k \in 1 .. Cardinality(occupied \ copied) |->
              queue[(first + k - 1) % QUEUE_CAPACITY]]

Fifo == INSTANCE BoundedFifo WITH
  Capacity <- QUEUE_CAPACITY, taken <- ret, waiting <- Waiting

FifoSpec == Fifo!Spec
=============================================================================
