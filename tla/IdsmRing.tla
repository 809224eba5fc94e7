------------------------------ MODULE IdsmRing ------------------------------
(***************************************************************************)
(* What the secure region of the IdsM log promises its reader, as a ring:  *)
(* entries go in at the head, the head moves by one for every event        *)
(* whether or not its entry got in, a power-up starts again at slot 0, and *)
(* an event can cost the ring the entry at its head or at the slot after   *)
(* it, and no other.                                                       *)
(***************************************************************************)
EXTENDS Integers

CONSTANTS
  Size,     \* number of slots, at least one
  Entries,  \* what a slot can hold
  Empty     \* an unused or spoilt slot, not an entry

VARIABLES slots, head

ringVars == <<slots, head>>

Index == 0 .. Size - 1
Succ(i) == (i + 1) % Size

RingInit == slots = [i \in Index |-> Empty] /\ head = 0

Advance == head' = Succ(head)

Append ==
  /\ slots'[head] \in Entries
  /\ slots' = [slots EXCEPT ![head] = slots'[head]]
  /\ Advance

Miss == Advance /\ UNCHANGED slots

Spoil ==
  /\ \E i \in {head, head + 1} \cap Index : slots' = [slots EXCEPT ![i] = Empty]
  /\ Advance \/ UNCHANGED head

Restart == head' = 0 /\ UNCHANGED slots

RingNext == Append \/ Miss \/ Spoil \/ Restart

RingSpec == RingInit /\ [][RingNext]_ringVars

=============================================================================
