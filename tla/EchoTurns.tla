----------------------------- MODULE EchoTurns -----------------------------
(* What the IPC demo promises: one message at a time is under way, the      *)
(* channels take turns, and the echo comes back on the message's channel.   *)
EXTENDS Naturals

CONSTANT Channels

VARIABLES
  out,   \* how many messages are on their way to the echoing side, by channel
  held,  \* whether that side has one to echo
  back,  \* how many echoes are on their way back, by channel
  last   \* the channel of the last message sent

vars == <<out, held, back, last>>

None == [ch \in Channels |-> 0]
Only(ch) == [None EXCEPT ![ch] = 1]

Init ==
  /\ out = None /\ back = None /\ ~held
  /\ last \in Channels

Send ==
  /\ out = None /\ back = None /\ ~held
  /\ last' \in Channels \ {last}
  /\ out' = Only(last')
  /\ UNCHANGED <<held, back>>

Receive ==
  /\ out = Only(last)
  /\ out' = None /\ held' = TRUE
  /\ UNCHANGED <<back, last>>

Echo ==
  /\ held
  /\ held' = FALSE /\ back' = Only(last)
  /\ UNCHANGED <<out, last>>

Return ==
  /\ back = Only(last)
  /\ back' = None
  /\ UNCHANGED <<out, held, last>>

TurnsSpec == Init /\ [][Send \/ Receive \/ Echo \/ Return]_vars
=============================================================================
