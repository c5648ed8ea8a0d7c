----------------------------- MODULE PortThreads -----------------------------
(***************************************************************************)
(* One output port of the node (src/src/artnet_openrdm_node.cpp): the main *)
(* thread in artnet_read() running the Art-Net handlers, the port's        *)
(* dmx_thread and rdm_thread, the semaphores, the request queue and the    *)
(* DMX buffer they share, and the OpenRDMDevice both threads drive.        *)
(*                                                                         *)
(* A frame or a request is a number, its order of arrival.  A frame is     *)
(* stored and fetched in one step here; module DmxBuffer splits these      *)
(* copies.  A thread that is inside a device call (dmx or rdm # "out") has *)
(* its loop suspended.                                                     *)
(***************************************************************************)
EXTENDS Integers, Sequences

CONSTANTS
  MaxFrames,      \* Bound: DMX frames received.
  MaxRequests,    \* Bound: RDM requests and discovery requests received.
  MaxScans,       \* Bound: incremental discoveries.
  MaxExchanges,   \* Bound: driver calls made by one discovery.
  FlakyOpen,      \* May opening an attached dongle fail?
  Detachable      \* May the dongle be detached, or missing at startup?

ASSUME BoundsAssumption ==
  /\ MaxFrames \in Nat /\ MaxRequests \in Nat /\ MaxScans \in Nat
  /\ MaxExchanges \in Nat \ {0}
ASSUME SwitchAssumption == {FlakyOpen, Detachable} \subseteq BOOLEAN

VARIABLES plugged, usb, initialized, discovery_in_progress, dev_mutex, dmx, rdm, left

VARIABLES
  main,        \* The main thread: "idle" in artnet_read(), or inside a handler.
  frames,      \* Frames received so far; also the number of the latest one.
  requests,    \* Requests received so far.
  scans,       \* Incremental discoveries made so far.
  buffer,      \* data_dmx.data: the frame it holds, 0 at first.
  changed,     \* data_dmx.changed
  data_rdm,    \* The queue of requests, [id, kind].
  data_mutex,  \* "rdm" while rdm_thread holds data_mutex, else "free": the
               \* critical sections of the handlers are single steps.
  dmx_sema,    \* dmx_thread_sema
  rdm_sema,    \* rdm_thread_sema
  dloop,       \* Where dmx_thread is in its loop.
  rloop,       \* Where rdm_thread is in its loop.
  data,        \* dmx_thread's local copy of a frame.
  wire,        \* The frame last written to the DMX line.
  dropped      \* History: wake-ups used by rounds that found the device down.

device  == <<plugged, usb, initialized, discovery_in_progress, dev_mutex, dmx, rdm, left>>
bounds  == <<frames, requests, scans>>
dmxData == <<buffer, changed, dmx_sema>>
rdmData == <<data_rdm, rdm_sema, dropped>>
dmxLocal == <<dloop, data, wire>>
vars == <<device, bounds, main, dmxData, rdmData, data_mutex, dmxLocal, rloop>>

Device == INSTANCE OpenRDMDevice

Kinds == {"rdm", "discovery"}   \* discovery: a message of length 0

(***************************************************************************)
(* The main thread.                                                        *)
(***************************************************************************)

\* dmx_handler is called with the frame artnet_read_dmx returns.
DmxPacket ==
  /\ main = "idle" /\ frames < MaxFrames
  /\ frames' = frames + 1
  /\ main' = "dmx_wait"
  /\ UNCHANGED <<device, requests, scans, dmxData, rdmData, data_mutex, dmxLocal, rloop>>

\* Its critical section under data_mutex.
DmxStore ==
  /\ main = "dmx_wait" /\ data_mutex = "free"
  /\ buffer' = frames
  /\ changed' = TRUE
  /\ main' = "dmx_release"
  /\ UNCHANGED <<device, bounds, dmx_sema, rdmData, data_mutex, dmxLocal, rloop>>

\* The semaphore after release(); variant: the handler does not call it.
NotReleased(sema) == sema
Released(sema)    == sema + 1

DmxRelease ==
  /\ main = "dmx_release"
  /\ dmx_sema' = Released(dmx_sema)
  /\ main' = "idle"
  /\ UNCHANGED <<device, bounds, buffer, changed, rdmData, data_mutex, dmxLocal, rloop>>

\* rdm_handler or rdm_initiate is called.
RdmPacket ==
  /\ main = "idle" /\ requests < MaxRequests
  /\ requests' = requests + 1
  /\ main' = "rdm_wait"
  /\ UNCHANGED <<device, frames, scans, dmxData, rdmData, data_mutex, dmxLocal, rloop>>

\* data_rdm after push(); variant: as if it were a stack.
PushedOnTop(message) == <<message>> \o data_rdm
Pushed(message)      == Append(data_rdm, message)

RdmPush(kind) ==
  /\ main = "rdm_wait" /\ data_mutex = "free"
  /\ data_rdm' = Pushed([id |-> requests, kind |-> kind])
  /\ main' = "rdm_release"
  /\ UNCHANGED <<device, bounds, dmxData, rdm_sema, dropped, data_mutex, dmxLocal, rloop>>

RdmRelease ==
  /\ main = "rdm_release"
  /\ rdm_sema' = Released(rdm_sema)
  /\ main' = "idle"
  /\ UNCHANGED <<device, bounds, dmxData, data_rdm, dropped, data_mutex, dmxLocal, rloop>>

(***************************************************************************)
(* dmx_thread.                                                             *)
(***************************************************************************)
\* A thread returns at once when it finds its device down at the start.
DmxStart ==
  /\ dloop = "start"
  /\ dloop' = IF initialized THEN "top" ELSE "exited"
  /\ UNCHANGED <<device, bounds, main, dmxData, rdmData, data_mutex, data, wire, rloop>>

DmxAcquire ==
  /\ dloop = "top" /\ dmx = "out" /\ dmx_sema > 0
  /\ dmx_sema' = dmx_sema - 1
  /\ dloop' = "acquired"
  /\ UNCHANGED <<device, bounds, main, buffer, changed, rdmData, data_mutex, data, wire, rloop>>

DmxTimeout ==
  /\ dloop = "top" /\ dmx = "out" /\ dmx_sema = 0
  /\ dloop' = "timeout"
  /\ UNCHANGED <<device, bounds, main, dmxData, rdmData, data_mutex, data, wire, rloop>>

\* The device is down: init() it, whatever try_acquire_for returned.
DmxReinit ==
  /\ dloop \in {"acquired", "timeout"}
  /\ Device!InitDevice
  /\ dloop' = "top"
  /\ UNCHANGED <<bounds, main, dmxData, rdmData, data_mutex, data, wire, rloop>>

\* A wake-up: fetch the frame if it is new.
DmxFetch ==
  /\ dloop = "acquired" /\ initialized
  /\ IF changed
     THEN data' = buffer /\ changed' = FALSE /\ dloop' = "send"
     ELSE dloop' = "sent" /\ UNCHANGED <<data, changed>>
  /\ UNCHANGED <<device, bounds, main, buffer, dmx_sema, rdmData, data_mutex, wire, rloop>>

DmxSend ==
  /\ dloop = "send"
  /\ Device!WriteDMX
  /\ dloop' = "sent"
  /\ UNCHANGED <<bounds, main, dmxData, rdmData, data_mutex, data, wire, rloop>>

\* After a wake-up DMX_REFRESH_MS may have passed since the last write, or not.
DmxNoRefresh ==
  /\ dloop = "sent" /\ dmx = "out"
  /\ dloop' = "top"
  /\ UNCHANGED <<device, bounds, main, dmxData, rdmData, data_mutex, data, wire, rloop>>

\* What a refresh sends; variant: the thread's own copy again.
StaleData   == data
RefreshData == buffer

DmxRefresh ==
  /\ dmx = "out" /\ (dloop = "sent" \/ (dloop = "timeout" /\ initialized))
  /\ data' = RefreshData
  /\ dloop' = "refresh"
  /\ UNCHANGED <<device, bounds, main, dmxData, rdmData, data_mutex, wire, rloop>>

\* writeDMX() returns at once when the write before has deinitialised the device.
DmxSendRefresh ==
  /\ dloop = "refresh"
  /\ IF initialized THEN Device!WriteDMX ELSE UNCHANGED device
  /\ dloop' = "top"
  /\ UNCHANGED <<bounds, main, dmxData, rdmData, data_mutex, data, wire, rloop>>

\* Inside writeDMX(): a frame that is written without error is on the wire.
DmxWritten(ret) ==
  /\ Device!WriteDMXOpenRDM(ret)
  /\ wire' = IF ret = Device!OK THEN data ELSE wire
  /\ UNCHANGED <<bounds, main, dmxData, rdmData, data_mutex, dloop, data, rloop>>

\* The other steps it takes inside the device.
DmxEnter ==
  /\ Device!DmxLock
  /\ UNCHANGED <<bounds, main, dmxData, rdmData, data_mutex, dmxLocal, rloop>>

DmxDevice ==
  /\ \/ Device!DeinitOpenRDM
     \/ Device!DeinitDone
     \/ \E outcome \in {"live", "null"} : Device!InitOpenRDM(outcome)
     \/ Device!InitDone
  /\ UNCHANGED <<bounds, main, dmxData, rdmData, data_mutex, dmxLocal, rloop>>

(***************************************************************************)
(* rdm_thread.                                                             *)
(***************************************************************************)
RdmStart ==
  /\ rloop = "start"
  /\ rloop' = IF initialized THEN "top" ELSE "exited"
  /\ UNCHANGED <<device, bounds, main, dmxData, rdmData, data_mutex, dmxLocal>>

\* Variant: the result of try_acquire_for is ignored.
RdmAlwaysAwake == TRUE
RdmAwake       == rdm_sema > 0

RdmAcquire ==
  /\ rloop = "top" /\ rdm = "out" /\ RdmAwake
  /\ rdm_sema' = rdm_sema - 1
  /\ rloop' = "acquired"
  /\ UNCHANGED <<device, bounds, main, dmxData, data_rdm, dropped, data_mutex, dmxLocal>>

RdmTimeout ==
  /\ rloop = "top" /\ rdm = "out" /\ rdm_sema = 0
  /\ rloop' = "timeout"
  /\ UNCHANGED <<device, bounds, main, dmxData, rdmData, data_mutex, dmxLocal>>

\* The device is down: wait, and start the loop again.
RdmNotInitialized ==
  /\ rloop \in {"acquired", "timeout"} /\ ~initialized
  /\ dropped' = IF rloop = "acquired" THEN dropped + 1 ELSE dropped
  /\ rloop' = "top"
  /\ UNCHANGED <<device, bounds, main, dmxData, data_rdm, rdm_sema, data_mutex, dmxLocal>>

RdmInitialized ==
  /\ rloop \in {"acquired", "timeout"} /\ initialized
  /\ rloop' = IF rloop = "acquired" THEN "lock" ELSE "served"
  /\ UNCHANGED <<device, bounds, main, dmxData, rdmData, data_mutex, dmxLocal>>

\* data_mutex stays locked until the request has been carried out.
RdmTake ==
  /\ rloop = "lock" /\ data_mutex = "free"
  /\ data_mutex' = "rdm"
  /\ IF data_rdm # <<>>
     THEN data_rdm' = Tail(data_rdm) /\ rloop' = Head(data_rdm).kind
     ELSE rloop' = "serving" /\ UNCHANGED data_rdm
  /\ UNCHANGED <<device, bounds, main, dmxData, rdm_sema, dropped, dmxLocal>>

\* The request is passed to writeRDM(), which returns at once if the device
\* is down.
RdmServeRequest ==
  /\ rloop = "rdm"
  /\ IF initialized THEN Device!WriteRDM ELSE UNCHANGED device
  /\ rloop' = "serving"
  /\ UNCHANGED <<bounds, main, dmxData, rdmData, data_mutex, dmxLocal>>

\* A discovery method is called: it too may return at once.
Discover ==
  IF initialized /\ ~discovery_in_progress
  THEN \E n \in 1 .. MaxExchanges : Device!StartDiscovery(n)
  ELSE UNCHANGED device

RdmServeDiscovery ==
  /\ rloop = "discovery"
  /\ Discover
  /\ rloop' = "serving"
  /\ UNCHANGED <<bounds, main, dmxData, rdmData, data_mutex, dmxLocal>>

\* data_mutex after unlock(); variant: the call is forgotten.
StillLocked == data_mutex
Unlocked    == "free"

RdmUnlock ==
  /\ rloop = "serving" /\ rdm = "out"
  /\ data_mutex' = Unlocked
  /\ rloop' = "served"
  /\ UNCHANGED <<device, bounds, main, dmxData, rdmData, dmxLocal>>

\* The end of a round, with an incremental discovery or without.
RdmNoScan ==
  /\ rloop = "served"
  /\ rloop' = "top"
  /\ UNCHANGED <<device, bounds, main, dmxData, rdmData, data_mutex, dmxLocal>>

RdmScan ==
  /\ rloop = "served" /\ scans < MaxScans
  /\ scans' = scans + 1
  /\ Discover
  /\ rloop' = "top"
  /\ UNCHANGED <<frames, requests, main, dmxData, rdmData, data_mutex, dmxLocal>>

\* The steps it takes inside the device.
RdmEnter ==
  /\ Device!RdmLock
  /\ UNCHANGED <<bounds, main, dmxData, rdmData, data_mutex, dmxLocal, rloop>>

RdmDevice ==
  /\ \/ \E ret \in Device!Results :
          Device!WriteRDMOpenRDM(ret) \/ Device!DiscoveryExchange(ret)
     \/ Device!EndDiscovery
  /\ UNCHANGED <<bounds, main, dmxData, rdmData, data_mutex, dmxLocal, rloop>>

Dongle ==
  /\ Detachable
  /\ Device!Environment
  /\ UNCHANGED <<bounds, main, dmxData, rdmData, data_mutex, dmxLocal, rloop>>

-----------------------------------------------------------------------------
Init ==
  /\ Device!Init
  /\ ~Detachable => initialized
  /\ main = "idle"
  /\ frames = 0 /\ requests = 0 /\ scans = 0
  /\ buffer = 0 /\ changed = FALSE /\ data = 0 /\ wire = 0
  /\ data_rdm = <<>> /\ data_mutex = "free"
  /\ dmx_sema = 0 /\ rdm_sema = 0 /\ dropped = 0
  /\ dloop = "start" /\ rloop = "start"

MainHandler ==
  \/ DmxStore \/ DmxRelease
  \/ (\E kind \in Kinds : RdmPush(kind)) \/ RdmRelease

MainNext == DmxPacket \/ RdmPacket \/ MainHandler

DmxThread ==
  \/ DmxStart \/ DmxAcquire \/ DmxTimeout \/ DmxReinit \/ DmxFetch \/ DmxSend
  \/ DmxNoRefresh \/ DmxRefresh \/ DmxSendRefresh
  \/ (\E ret \in Device!Results : DmxWritten(ret)) \/ DmxEnter \/ DmxDevice

RdmThread ==
  \/ RdmStart \/ RdmAcquire \/ RdmTimeout \/ RdmNotInitialized \/ RdmInitialized
  \/ RdmTake \/ RdmServeRequest \/ RdmServeDiscovery \/ RdmUnlock
  \/ RdmNoScan \/ RdmScan \/ RdmEnter \/ RdmDevice

Next == MainNext \/ DmxThread \/ RdmThread \/ Dongle

Spec == Init /\ [][Next]_vars

(***************************************************************************)
(* Each thread goes on whenever it can, and one that waits for a mutex is  *)
(* let in sooner or later (strong fairness: the holder may take the mutex  *)
(* again in between).  The last conjunct is about the dongle: writes to a  *)
(* live handle do not fail for ever.  The arrival of packets and the       *)
(* dongle's attachment are free.                                           *)
(***************************************************************************)
Fairness ==
  /\ SF_vars(MainHandler) /\ SF_vars(DmxThread) /\ SF_vars(RdmThread)
  /\ SF_vars(DmxWritten(Device!OK))

FairSpec == Spec /\ Fairness

-----------------------------------------------------------------------------
\* The values the variables may take (the device's own: Device!TypeOK).
TypeOK ==
  /\ Device!TypeOK
  /\ main \in {"idle", "dmx_wait", "dmx_release", "rdm_wait", "rdm_release"}
  /\ frames \in 0 .. MaxFrames /\ requests \in 0 .. MaxRequests
  /\ scans \in 0 .. MaxScans
  /\ buffer \in Nat /\ data \in Nat /\ wire \in Nat
  /\ changed \in BOOLEAN
  /\ data_rdm \in Seq([id : Nat, kind : Kinds])
  /\ data_mutex \in {"free", "rdm"}
  /\ dmx_sema \in Nat /\ rdm_sema \in Nat /\ dropped \in Nat
  /\ dloop \in {"start", "exited", "top", "acquired", "timeout", "send", "sent", "refresh"}
  /\ rloop \in {"start", "exited", "top", "acquired", "timeout", "lock", "serving",
                "served"} \cup Kinds

(***************************************************************************)
(* Every wake-up, still in the semaphore or already acquired, has a        *)
(* message of its own in the queue: the handlers push before they release, *)
(* and a round pops at most one.  So rdm_thread never finds the queue      *)
(* empty and never takes a request whose wake-up is yet to come.           *)
(***************************************************************************)
Acquired == IF rloop \in {"acquired", "lock"} THEN 1 ELSE 0

TokensCovered == rdm_sema + Acquired <= Len(data_rdm)

(***************************************************************************)
(* Conversely every message has its wake-up, or is about to get it from    *)
(* the handler that pushed it, so that none stays behind until later ones  *)
(* arrive: requests are handled one per wake-up.                           *)
(***************************************************************************)
Releasing == IF main = "rdm_release" THEN 1 ELSE 0

OneMessagePerWakeup == rdm_sema + Acquired + Releasing = Len(data_rdm)

(***************************************************************************)
(* That fails when a round finds the device down, as it drops its wake-up  *)
(* and keeps the message, and for no other reason: the backlog of the      *)
(* queue is the number of such rounds, and never gets smaller.             *)
(***************************************************************************)
BacklogIsDropped == rdm_sema + Acquired + Releasing + dropped = Len(data_rdm)

(***************************************************************************)
(* Which request a wake-up serves: the n-th wake-up the n-th request, or,  *)
(* when k wake-ups have been dropped before, request n - k.  None is       *)
(* served twice, passed over or overtaken, and each answers late by as     *)
(* many requests as wake-ups were dropped.                                 *)
(***************************************************************************)
WakeupsUsed ==
  requests - (IF main \in {"rdm_wait", "rdm_release"} THEN 1 ELSE 0) - rdm_sema

ServedInOrder ==
  [][RdmTake => data_rdm # <<>> /\ Head(data_rdm).id = WakeupsUsed - dropped]_vars

(***************************************************************************)
(* Once the dongle stays attached, the last frame received ends up on the  *)
(* wire and stays there, whatever was lost before: failed writes, wake-ups *)
(* used up while the device was down, handles closed and reopened by       *)
(* either thread.                                                          *)
(***************************************************************************)
LastFrameOnWire == (<>[]plugged) => <>[](dloop = "exited" \/ wire = frames)

(***************************************************************************)
(* The Art-Net loop always comes back to artnet_read(): a handler may wait *)
(* for a whole discovery, never for ever.                                  *)
(***************************************************************************)
MainReturns == main # "idle" ~> main = "idle"

(***************************************************************************)
(* The queue is emptied, without later requests having to push the earlier *)
(* ones out, as long as no round drops a wake-up: whenever the device is   *)
(* up for good, whatever discoveries and failing writes came before.       *)
(***************************************************************************)
RequestsServed ==
  data_rdm # <<>> ~> data_rdm = <<>> \/ dropped > 0 \/ ~initialized \/ rloop = "exited"

=============================================================================
