----------------------------- MODULE AppendLog -----------------------------
(***************************************************************************)
(* What the NOR error log promises: entries are appended one at a time,    *)
(* never changed, and thrown away only all together, when the log is full. *)
(* While its device fails it keeps less of that: it can be thrown away     *)
(* early, can take up junk, and can lose its first entry, to which a log   *)
(* taken for an empty one goes back.                                       *)
(***************************************************************************)
EXTENDS Naturals, Sequences

CONSTANTS
  Capacity,  \* how many entries the log holds
  Entries,   \* the entries
  Junk       \* what a failing device leaves in place of one

VARIABLES
  entries,   \* what a reader finds
  failing    \* the device is failing

AppendInit == entries = <<>>

Append1 ==
  /\ Len(entries) < Capacity
  /\ \E e \in Entries : entries' = Append(entries, e)

Clear == Len(entries) >= Capacity /\ entries' = <<>>

Damage ==
  /\ failing'
  /\ \/ entries' = <<>>
     \/ \E e \in Junk :
          \/ entries' \in {<<e>>, Append(entries, e)}
          \/ entries # <<>> /\ entries' = [entries EXCEPT ![1] = e]

AppendNext == Append1 \/ Clear \/ Damage

AppendSpec == AppendInit /\ [][AppendNext]_entries

=============================================================================
