---------------------------- MODULE BoundedFifo ----------------------------
(***************************************************************************)
(* What the ring of queue.c promises to the two that use it: frames leave  *)
(* in the order in which they came, each once, there are never more than   *)
(* Capacity of them, and none stays for ever.                              *)
(***************************************************************************)
EXTENDS Naturals, Sequences

CONSTANTS Frames, Capacity, NoFrame

VARIABLES
  waiting,  \* the frames accepted and not yet taken, oldest first
  taken     \* the frame taken last

Init == waiting = <<>> /\ taken = NoFrame

Accept(f) ==
  /\ Len(waiting) < Capacity
  /\ waiting' = Append(waiting, f)
  /\ UNCHANGED taken

Take ==
  /\ waiting # <<>>
  /\ taken' = Head(waiting)
  /\ waiting' = Tail(waiting)

Next == Take \/ \E f \in Frames : Accept(f)

SafeSpec == Init /\ [][Next]_<<waiting, taken>>

\* No frame stays for ever.
Served == WF_<<waiting, taken>>(Take)

Spec == SafeSpec /\ Served

=============================================================================
