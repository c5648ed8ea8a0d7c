------------------------------- MODULE DmxBuffer -------------------------------
(***************************************************************************)
(* The buffer data_dmx of one port, between dmx_handler in the Art-Net     *)
(* loop and dmx_thread (src/src/artnet_openrdm_node.cpp).  The handler     *)
(* holds data_mutex and the thread dmx_mutex, so neither keeps the other   *)
(* out: every access to the buffer is a step of its own here, one step for *)
(* each slot a copy moves.                                                 *)
(*                                                                         *)
(* The compiler makes memory copies of the copy_n calls: the slots of one  *)
(* copy may move in any order.  The device is up and its writes succeed;   *)
(* module PortThreads has the failures.                                    *)
(***************************************************************************)
EXTENDS Integers

CONSTANTS
  MaxLength,   \* Slots of the longest frame (DMX_MAX_LENGTH).
  MaxFrames    \* Bound: frames received.

ASSUME LengthAssumption == MaxLength \in Nat \ {0}
ASSUME FramesAssumption == MaxFrames \in Nat

Slots == 1 .. MaxLength

VARIABLES
  received,   \* Frames received so far; frame n is the n-th.
  len,        \* The length of the latest frame.
  buffer,     \* data_dmx.data: the frame each slot belongs to.
  length,     \* data_dmx.length
  changed,    \* data_dmx.changed
  sema,       \* dmx_thread_sema
  main,       \* The Art-Net loop: "idle", or where it is in dmx_handler.
  thread,     \* Where dmx_thread is in its loop.
  uncopied,   \* Slots its copy_n has still to fetch.
  data,       \* dmx_thread's copy of the frame,
  dlength,    \* and of its length.
  floor,      \* The last frame that was complete when the copy began (history).
  line        \* The frame each slot of the DMX line shows.

handler == <<received, len, main>>
shared  == <<buffer, length, changed, sema>>
local   == <<thread, uncopied, data, dlength, floor>>
vars    == <<handler, shared, local, line>>

(***************************************************************************)
(* dmx_handler, under data_mutex.                                          *)
(***************************************************************************)
Packet ==
  /\ main = "idle" /\ received < MaxFrames
  /\ received' = received + 1
  /\ len' \in Slots
  /\ main' = "copy"
  /\ UNCHANGED <<shared, local, line>>

StoreSlot(s) ==
  /\ main = "copy" /\ s <= len /\ buffer[s] # received
  /\ buffer' = [buffer EXCEPT ![s] = received]
  /\ UNCHANGED <<handler, length, changed, sema, local, line>>

Stored == \A s \in 1 .. len : buffer[s] = received

\* Variant: the length is stored first.
StoreLengthFirst ==
  /\ main = "copy" /\ (Stored \/ length # len)
  /\ length' = len
  /\ main' = IF Stored THEN "changed" ELSE "copy"
  /\ UNCHANGED <<received, len, buffer, changed, sema, local, line>>

StoreLength ==
  /\ main = "copy" /\ Stored
  /\ length' = len
  /\ main' = "changed"
  /\ UNCHANGED <<received, len, buffer, changed, sema, local, line>>

StoreChanged ==
  /\ main = "changed"
  /\ changed' = TRUE
  /\ main' = "release"
  /\ UNCHANGED <<received, len, buffer, length, sema, local, line>>

Release ==
  /\ main = "release"
  /\ sema' = sema + 1
  /\ main' = "idle"
  /\ UNCHANGED <<received, len, buffer, length, changed, local, line>>

(***************************************************************************)
(* dmx_thread, under dmx_mutex: a fetch after a wake-up, or a refresh.     *)
(***************************************************************************)
Acquire ==
  /\ thread = "top" /\ sema > 0
  /\ sema' = sema - 1
  /\ thread' = "acquired"
  /\ UNCHANGED <<handler, buffer, length, changed, uncopied, data, dlength, floor, line>>

\* Variant: a refresh is skipped unless the frame has changed.
RefreshIfChanged == IF changed THEN "refresh" ELSE "top"
RefreshAlways    == "refresh"

\* try_acquire_for times out, or DMX_REFRESH_MS have passed in spite of the
\* wake-ups.
Refresh ==
  /\ \/ thread = "top" /\ sema = 0
     \/ thread = "sent"
  /\ thread' = RefreshAlways
  /\ UNCHANGED <<handler, shared, uncopied, data, dlength, floor, line>>

NoRefresh ==
  /\ thread = "sent"
  /\ thread' = "top"
  /\ UNCHANGED <<handler, shared, uncopied, data, dlength, floor, line>>

ReadChanged ==
  /\ thread = "acquired"
  /\ thread' = IF changed THEN "fetch" ELSE "sent"
  /\ UNCHANGED <<handler, shared, uncopied, data, dlength, floor, line>>

\* The last frame of which every slot, and the length, have been stored.
Complete == IF main = "copy" THEN received - 1 ELSE received

Copying == [fetch |-> "fetch_copy", refresh |-> "refresh_copy"]

\* Variants: the copy runs from slot 0; a refresh repeats the thread's own copy.
ToCopyFromZero == 0 .. length
ToCopyIfNew    == IF thread = "refresh" THEN {} ELSE 1 .. length
ToCopy         == 1 .. length

ReadLength ==
  /\ thread \in DOMAIN Copying
  /\ dlength' = length
  /\ uncopied' = ToCopy
  /\ floor' = Complete
  /\ thread' = Copying[thread]
  /\ UNCHANGED <<handler, shared, data, line>>

CopySlot(s) ==
  /\ thread \in {"fetch_copy", "refresh_copy"} /\ s \in uncopied
  /\ data' = [data EXCEPT ![s] = buffer[s]]
  /\ uncopied' = uncopied \ {s}
  /\ UNCHANGED <<handler, shared, thread, dlength, floor, line>>

\* The end of the copy.  A fetch takes the flag back, a refresh does not.
Copied ==
  /\ thread \in {"fetch_copy", "refresh_copy"} /\ uncopied = {}
  /\ changed' = (changed /\ thread # "fetch_copy")
  /\ thread' = IF thread = "fetch_copy" THEN "fetch_write" ELSE "refresh_write"
  /\ UNCHANGED <<handler, buffer, length, sema, uncopied, data, dlength, floor, line>>

\* Slots that are not transmitted stay as they are; variant: they are zeroed.
Zeroed(s) == 0
Kept(s)   == line[s]

\* writeDMX(): slots beyond the length are not transmitted.
WriteDMX ==
  /\ thread \in {"fetch_write", "refresh_write"}
  /\ line' = [s \in Slots |-> IF s <= dlength THEN data[s] ELSE Kept(s)]
  /\ thread' = IF thread = "fetch_write" THEN "sent" ELSE "top"
  /\ UNCHANGED <<handler, shared, uncopied, data, dlength, floor>>

-----------------------------------------------------------------------------
\* data_dmx is a global: zeros, nothing changed, and no length.
Init ==
  /\ received = 0 /\ len = 0 /\ main = "idle"
  /\ buffer = [s \in Slots |-> 0] /\ length = 0 /\ changed = FALSE /\ sema = 0
  /\ thread = "top" /\ uncopied = {} /\ floor = 0
  /\ data = [s \in Slots |-> 0] /\ dlength = 0
  /\ line = [s \in Slots |-> 0]

Handler ==
  (\E s \in Slots : StoreSlot(s)) \/ StoreLength \/ StoreChanged \/ Release

DmxThread ==
  \/ Acquire \/ Refresh \/ NoRefresh \/ ReadChanged \/ ReadLength
  \/ (\E s \in Slots : CopySlot(s)) \/ Copied \/ WriteDMX

Next == Packet \/ Handler \/ DmxThread

Spec == Init /\ [][Next]_vars

(***************************************************************************)
(* Both threads run on; a thread that is always awake sends a refresh now  *)
(* and then, because DMX_REFRESH_MS pass.                                  *)
(***************************************************************************)
Fairness == WF_vars(Handler) /\ WF_vars(DmxThread)

FairSpec == Spec /\ Fairness

-----------------------------------------------------------------------------
\* The values the variables may take.
TypeOK ==
  /\ received \in 0 .. MaxFrames /\ len \in 0 .. MaxLength
  /\ buffer \in [Slots -> 0 .. MaxFrames] /\ length \in 0 .. MaxLength
  /\ changed \in BOOLEAN /\ sema \in 0 .. MaxFrames
  /\ main \in {"idle", "copy", "changed", "release"}
  /\ thread \in {"top", "acquired", "sent", "fetch", "refresh", "fetch_copy",
                 "refresh_copy", "fetch_write", "refresh_write"}
  /\ uncopied \subseteq Slots
  /\ data \in [Slots -> 0 .. MaxFrames] /\ dlength \in 0 .. MaxLength
  /\ floor \in 0 .. MaxFrames /\ line \in [Slots -> 0 .. MaxFrames]

Writing == thread \in {"fetch_write", "refresh_write"}

(***************************************************************************)
(* A transmission has no slot that was never received: the length is       *)
(* stored after the slots, so that even without a common mutex the thread  *)
(* does not read past what the handler has filled in.                      *)
(***************************************************************************)
SentSlotsReceived == Writing => \A s \in 1 .. dlength : data[s] > 0

(***************************************************************************)
(* A transmission has no slot that is older than the last frame that was   *)
(* complete when its copy began, however many newer frames were stored, or *)
(* half stored, while the copy ran: the race costs the unity of a frame,   *)
(* never its freshness.  (The length the copy began with is that of the    *)
(* complete frame, so its slots are the ones transmitted.)                 *)
(***************************************************************************)
CompleteFrameSent == Writing => \A s \in 1 .. dlength : data[s] >= floor

(***************************************************************************)
(* The line keeps the promise of DmxOutput: no copy takes a slot back to   *)
(* an earlier frame, however it interleaves with the handler's.            *)
(***************************************************************************)
Output == INSTANCE DmxOutput
OutputSpec == Output!Spec

(***************************************************************************)
(* When the frames stop, the line comes to show the last one, in every     *)
(* slot, and shows it for ever: a torn transmission is repaired, and a     *)
(* `changed' that was cleared before its frame was fetched is made good.   *)
(***************************************************************************)
LastFrameOnLine == <>[](\A s \in 1 .. len : line[s] = received)

(***************************************************************************)
(* What a mutex for the DMX data is for: every transmission is one frame.  *)
(***************************************************************************)
WholeFrames == Writing => \E f \in 0 .. received : \A s \in 1 .. dlength : data[s] = f

=============================================================================
