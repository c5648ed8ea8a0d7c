------------------------------- MODULE DmxOutput -------------------------------
(***************************************************************************)
(* What a port promises of its DMX line, whatever happens to the buffer    *)
(* between the Art-Net loop and the DMX thread: each slot shows a frame    *)
(* that was received, and never goes back to an earlier one.  It does not  *)
(* promise that the slots of one transmission belong to the same frame.    *)
(***************************************************************************)
EXTENDS Integers

CONSTANT Slots

VARIABLES
  received,   \* Number of frames received; frame n is the n-th.
  line        \* The frame that each slot of the line shows, 0 for none yet.

Init == received = 0 /\ line = [s \in Slots |-> 0]

Receive == received' = received + 1 /\ UNCHANGED line

Transmit ==
  /\ line' \in [Slots -> 0 .. received]
  /\ \A s \in Slots : line'[s] >= line[s]
  /\ UNCHANGED received

Next == Receive \/ Transmit

Spec == Init /\ [][Next]_<<received, line>>

=============================================================================
