-------------------------- MODULE PortThreads_proofs --------------------------
(***************************************************************************)
(* Proofs about module PortThreads: the request queue and its semaphore    *)
(* agree, wake-ups serve the requests in order, and what is proved of the  *)
(* device holds inside the port.                                           *)
(***************************************************************************)
EXTENDS PortThreads, SequenceTheorems, TLAPS

(***************************************************************************)
(* BacklogIsDropped is inductive once the types of what it counts are      *)
(* known; the inequality TokensCovered is not: it needs the count of the   *)
(* wake-up that a handler is about to release.                             *)
(***************************************************************************)
QueueInv ==
  /\ rdm_sema \in Nat /\ dropped \in Nat
  /\ data_rdm \in Seq([id : Nat, kind : Kinds])
  /\ requests \in Nat
  /\ BacklogIsDropped

LEMMA InitQueueInv == Init => QueueInv
  BY DEF Init, QueueInv, BacklogIsDropped, Acquired, Releasing

LEMMA StepQueueInv == QueueInv /\ [Next]_vars => QueueInv'
<1> SUFFICES ASSUME QueueInv, [Next]_vars PROVE QueueInv'
  OBVIOUS
<1> USE DEF QueueInv, BacklogIsDropped, Acquired, Releasing, bounds, rdmData
<1>1. CASE UNCHANGED <<rdmData, requests, main, rloop>>
  BY <1>1
<1>2. CASE DmxPacket \/ DmxStore \/ DmxRelease
  BY <1>2 DEF DmxPacket, DmxStore, DmxRelease
<1>3. CASE RdmPacket
  BY <1>3 DEF RdmPacket
<1>4. ASSUME NEW kind \in Kinds, RdmPush(kind) PROVE QueueInv'
  <2>1. /\ data_rdm' = Append(data_rdm, [id |-> requests, kind |-> kind])
        /\ [id |-> requests, kind |-> kind] \in [id : Nat, kind : Kinds]
    BY <1>4 DEF RdmPush, Pushed
  <2>2. /\ data_rdm' \in Seq([id : Nat, kind : Kinds])
        /\ Len(data_rdm') = Len(data_rdm) + 1
    BY <2>1
  <2> QED
    BY <1>4, <2>2 DEF RdmPush
<1>5. CASE RdmRelease
  BY <1>5 DEF RdmRelease, Released
<1>6. CASE DmxThread
  BY <1>1, <1>6
     DEF DmxThread, DmxStart, DmxAcquire, DmxTimeout, DmxReinit, DmxFetch, DmxSend, DmxNoRefresh,
         DmxRefresh, DmxSendRefresh, DmxWritten, DmxEnter, DmxDevice
<1>7. CASE RdmStart \/ RdmTimeout \/ RdmInitialized
  BY <1>7 DEF RdmStart, RdmTimeout, RdmInitialized
<1>12. CASE RdmAcquire
  BY <1>12 DEF RdmAcquire, RdmAwake
<1>13. CASE RdmNotInitialized
  BY <1>13 DEF RdmNotInitialized
<1>8. CASE RdmTake
  <2>1. rloop = "lock" /\ data_rdm # <<>>
    BY <1>8 DEF RdmTake
  <2>2. /\ data_rdm' = Tail(data_rdm) /\ rloop' = Head(data_rdm).kind
        /\ Head(data_rdm).kind \in Kinds
    <3>1. Head(data_rdm) \in [id : Nat, kind : Kinds]
      BY <2>1, HeadTailProperties
    <3> QED
      BY <1>8, <2>1, <3>1 DEF RdmTake
  <2>3. /\ data_rdm' \in Seq([id : Nat, kind : Kinds])
        /\ Len(data_rdm') = Len(data_rdm) - 1
    BY <2>1, <2>2
  <2>4. rloop' \in {"rdm", "discovery"} /\ UNCHANGED <<rdm_sema, dropped, requests, main>>
    BY <1>8, <2>2 DEF RdmTake, Kinds
  <2> QED
    BY <2>1, <2>3, <2>4
<1>9. CASE RdmServeRequest \/ RdmServeDiscovery \/ RdmUnlock \/ RdmNoScan \/ RdmScan
  BY <1>9 DEF RdmServeRequest, RdmServeDiscovery, RdmUnlock, Unlocked, RdmNoScan, RdmScan
<1>10. CASE RdmEnter \/ RdmDevice \/ Dongle
  BY <1>1, <1>10 DEF RdmEnter, RdmDevice, Dongle
<1>11. CASE UNCHANGED vars
  BY <1>1, <1>11 DEF vars
<1> QED
  BY <1>2, <1>3, <1>4, <1>5, <1>6, <1>7, <1>8, <1>9, <1>10, <1>11, <1>12,
     <1>13
     DEF Next, MainNext, MainHandler, RdmThread

(***************************************************************************)
(* However many frames, requests and discoveries arrive, and whatever      *)
(* happens to the device, a wake-up of rdm_thread finds a message in the   *)
(* queue (artnet_openrdm_node.cpp:112-127, 213-217 and 229-233).           *)
(***************************************************************************)
THEOREM WakeupsCovered == Spec => []TokensCovered
<1>1. QueueInv => TokensCovered
  BY DEF QueueInv, TokensCovered, BacklogIsDropped, Acquired, Releasing
<1> QED
  BY <1>1, InitQueueInv, StepQueueInv, PTL DEF Spec

(***************************************************************************)
(* The queue falls behind by exactly the rounds that found the device down *)
(* (artnet_openrdm_node.cpp:112-119), for any number of requests: nothing  *)
(* else loses a wake-up or a message, and nothing makes up for it.         *)
(***************************************************************************)
THEOREM BacklogExact == Spec => []BacklogIsDropped
<1>1. QueueInv => BacklogIsDropped
  BY DEF QueueInv
<1> QED
  BY <1>1, InitQueueInv, StepQueueInv, PTL DEF Spec

-----------------------------------------------------------------------------
(***************************************************************************)
(* The queue holds the latest requests pushed, in the order of arrival.    *)
(***************************************************************************)
LastPushed == IF main = "rdm_wait" THEN requests - 1 ELSE requests

OrderInv ==
  \A k \in 1 .. Len(data_rdm) : data_rdm[k].id = LastPushed - Len(data_rdm) + k

LEMMA PushOrder ==
  ASSUME QueueInv, OrderInv, NEW kind \in Kinds, RdmPush(kind)
  PROVE  OrderInv'
<1> DEFINE message == [id |-> requests, kind |-> kind]
<1>1. /\ main = "rdm_wait" /\ main' = "rdm_release" /\ requests' = requests
      /\ data_rdm' = Append(data_rdm, message)
  BY DEF RdmPush, Pushed, bounds
<1>2. message.id = requests
  OBVIOUS
<1> HIDE DEF message
<1>3. requests \in Nat /\ data_rdm \in Seq([id : Nat, kind : Kinds])
  BY DEF QueueInv
<1>4. /\ Len(data_rdm') = Len(data_rdm) + 1 /\ Len(data_rdm) \in Nat
      /\ data_rdm'[Len(data_rdm) + 1] = message
      /\ \A k \in 1 .. Len(data_rdm) : data_rdm'[k] = data_rdm[k]
  BY <1>1, <1>3
<1>5. LastPushed = requests - 1 /\ LastPushed' = requests
  BY <1>1 DEF LastPushed
<1>6. ASSUME NEW k \in 1 .. Len(data_rdm')
      PROVE  data_rdm'[k].id = LastPushed' - Len(data_rdm') + k
  <2>1. CASE k = Len(data_rdm) + 1
    BY <1>2, <1>3, <1>4, <1>5, <2>1
  <2>2. CASE k # Len(data_rdm) + 1
    <3>1. k \in 1 .. Len(data_rdm)
      BY <1>4, <2>2
    <3>2. data_rdm'[k].id = LastPushed - Len(data_rdm) + k
      BY <1>4, <3>1 DEF OrderInv
    <3> QED
      BY <1>3, <1>4, <1>5, <3>2
  <2> QED
    BY <2>1, <2>2
<1> QED
  BY <1>6 DEF OrderInv

LEMMA TakeOrder ==
  ASSUME QueueInv, OrderInv, RdmTake
  PROVE  OrderInv'
<1>1. data_rdm \in Seq([id : Nat, kind : Kinds]) /\ requests \in Nat /\ LastPushed \in Int
  BY DEF QueueInv, LastPushed
<1>2. LastPushed' = LastPushed
  BY DEF RdmTake, bounds, LastPushed
<1>3. CASE data_rdm = <<>>
  BY <1>2, <1>3 DEF RdmTake, OrderInv
<1>4. CASE data_rdm # <<>>
  <2>1. /\ data_rdm' = Tail(data_rdm)
        /\ Len(data_rdm') = Len(data_rdm) - 1 /\ Len(data_rdm) \in Nat
    BY <1>1, <1>4 DEF RdmTake
  <2>2. \A k \in 1 .. Len(data_rdm') :
          k + 1 \in 1 .. Len(data_rdm) /\ data_rdm'[k] = data_rdm[k + 1]
    BY <1>1, <1>4, <2>1
  <2>3. ASSUME NEW k \in 1 .. Len(data_rdm')
        PROVE  data_rdm'[k].id = LastPushed' - Len(data_rdm') + k
    <3>1. data_rdm'[k].id = LastPushed - Len(data_rdm) + (k + 1)
      BY <2>2 DEF OrderInv
    <3>2. \A p, n, m \in Int : m = n - 1 => p - n + (k + 1) = p - m + k
      BY <2>1
    <3>3. Len(data_rdm) \in Int /\ Len(data_rdm') \in Int
      BY <2>1
    <3>4. LastPushed - Len(data_rdm) + (k + 1) = LastPushed - Len(data_rdm') + k
      BY <1>1, <2>1, <3>2, <3>3
    <3> QED
      BY <1>2, <3>1, <3>4
  <2> QED
    BY <2>3 DEF OrderInv
<1> QED
  BY <1>3, <1>4

LEMMA StepOrderInv == QueueInv /\ OrderInv /\ [Next]_vars => OrderInv'
<1> SUFFICES ASSUME QueueInv, OrderInv, [Next]_vars PROVE OrderInv'
  OBVIOUS
<1>1. CASE UNCHANGED <<data_rdm, requests, main>>
  BY <1>1 DEF OrderInv, LastPushed
<1>2. CASE UNCHANGED <<data_rdm, requests>> /\ main # "rdm_wait" /\ main' # "rdm_wait"
  BY <1>2 DEF OrderInv, LastPushed
<1>3. CASE DmxPacket \/ DmxStore \/ DmxRelease \/ RdmRelease
  BY <1>2, <1>3 DEF DmxPacket, DmxStore, DmxRelease, RdmRelease, bounds, rdmData
<1>4. CASE RdmPacket
  BY <1>4 DEF RdmPacket, rdmData, OrderInv, LastPushed, QueueInv
<1>5. CASE \E kind \in Kinds : RdmPush(kind)
  BY <1>5, PushOrder
<1>6. CASE DmxThread
  BY <1>1, <1>6
     DEF DmxThread, DmxStart, DmxAcquire, DmxTimeout, DmxReinit, DmxFetch, DmxSend, DmxNoRefresh,
         DmxRefresh, DmxSendRefresh, DmxWritten, DmxEnter, DmxDevice, bounds, rdmData
<1>7. CASE RdmTake
  BY <1>7, TakeOrder
<1>8. CASE \/ RdmStart \/ RdmAcquire \/ RdmTimeout \/ RdmNotInitialized \/ RdmInitialized
           \/ RdmServeRequest \/ RdmServeDiscovery \/ RdmUnlock \/ RdmNoScan \/ RdmScan
           \/ RdmEnter \/ RdmDevice \/ Dongle
  BY <1>1, <1>8
     DEF RdmStart, RdmAcquire, RdmTimeout, RdmNotInitialized, RdmInitialized, RdmServeRequest,
         RdmServeDiscovery, RdmUnlock, RdmNoScan, RdmScan, RdmEnter, RdmDevice, Dongle, bounds,
         rdmData
<1>9. CASE UNCHANGED vars
  BY <1>1, <1>9 DEF vars, bounds, rdmData
<1> QED
  BY <1>3, <1>4, <1>5, <1>6, <1>7, <1>8, <1>9 DEF Next, MainNext, MainHandler, RdmThread

(***************************************************************************)
(* A wake-up serves the request it came with, or the one that is as many   *)
(* places before it as wake-ups have been dropped (artnet_openrdm_node.cpp *)
(* :112-127): for any number of requests none is overtaken, lost or served *)
(* twice, and after one dropped wake-up every answer is one request late.  *)
(***************************************************************************)
THEOREM RequestsInOrder == Spec => ServedInOrder
<1>1. Init => OrderInv
  BY DEF Init, OrderInv
<1>2. ASSUME QueueInv, OrderInv, RdmTake
      PROVE  data_rdm # <<>> /\ Head(data_rdm).id = WakeupsUsed - dropped
  <2>1. /\ rloop = "lock" /\ rdm_sema \in Nat /\ dropped \in Nat /\ requests \in Nat
        /\ data_rdm \in Seq([id : Nat, kind : Kinds])
    BY <1>2 DEF RdmTake, QueueInv
  <2>2. /\ Len(data_rdm) \in Nat
        /\ rdm_sema + 1 + Releasing + dropped = Len(data_rdm)
    BY <1>2, <2>1 DEF QueueInv, BacklogIsDropped, Acquired
  <2>3. Releasing \in {0, 1}
    BY DEF Releasing
  <2>4. data_rdm # <<>> /\ 1 \in 1 .. Len(data_rdm) /\ Head(data_rdm) = data_rdm[1]
    BY <2>1, <2>2, <2>3
  <2>5. Head(data_rdm).id = LastPushed - Len(data_rdm) + 1
    BY <1>2, <2>4 DEF OrderInv
  <2>6. LastPushed - Releasing - rdm_sema = WakeupsUsed /\ LastPushed \in Int
    BY <2>1 DEF LastPushed, Releasing, WakeupsUsed
  <2> QED
    BY <2>1, <2>2, <2>3, <2>4, <2>5, <2>6
<1> QED
  BY <1>1, <1>2, InitQueueInv, StepQueueInv, StepOrderInv, PTL DEF Spec, ServedInOrder

-----------------------------------------------------------------------------
\* What the threads do with the device is what module OpenRDMDevice lets them
\* do, by the way their steps are written.
LEMMA StepDevice == [Next]_vars => [Device!Next]_(Device!vars)
<1> SUFFICES ASSUME [Next]_vars PROVE Device!Next \/ UNCHANGED Device!vars
  OBVIOUS
<1>1. UNCHANGED device => UNCHANGED Device!vars
  BY DEF device, Device!vars, Device!flags
<1>2. CASE UNCHANGED device
  BY <1>1, <1>2
<1>3. CASE DmxReinit \/ DmxSend \/ DmxSendRefresh
  BY <1>1, <1>3 DEF DmxReinit, DmxSend, DmxSendRefresh, Device!Next, Device!DmxCall
<1>4. CASE \E ret \in Device!Results : DmxWritten(ret)
  BY <1>4 DEF DmxWritten, Device!Next, Device!DmxInside
<1>5. CASE DmxEnter \/ DmxDevice
  BY <1>5 DEF DmxEnter, DmxDevice, Device!Next, Device!DmxInside
<1>6. CASE RdmServeRequest
  BY <1>1, <1>6 DEF RdmServeRequest, Device!Next, Device!RdmCall
<1>7. CASE RdmServeDiscovery \/ RdmScan
  BY <1>1, <1>7 DEF RdmServeDiscovery, RdmScan, Discover, Device!Next, Device!RdmCall
<1>8. CASE RdmEnter \/ RdmDevice
  BY <1>8 DEF RdmEnter, RdmDevice, Device!Next, Device!RdmInside
<1>9. CASE Dongle
  BY <1>9 DEF Dongle, Device!Next
<1>10. CASE MainNext
  BY <1>2, <1>10
     DEF MainNext, MainHandler, DmxPacket, DmxStore, DmxRelease, RdmPacket, RdmPush, RdmRelease
<1>11. CASE DmxStart \/ DmxAcquire \/ DmxTimeout \/ DmxFetch \/ DmxNoRefresh \/ DmxRefresh
  BY <1>2, <1>11 DEF DmxStart, DmxAcquire, DmxTimeout, DmxFetch, DmxNoRefresh, DmxRefresh
<1>12. CASE \/ RdmStart \/ RdmAcquire \/ RdmTimeout \/ RdmNotInitialized \/ RdmInitialized
            \/ RdmTake \/ RdmUnlock \/ RdmNoScan
  BY <1>2, <1>12
     DEF RdmStart, RdmAcquire, RdmTimeout, RdmNotInitialized, RdmInitialized, RdmTake,
         RdmUnlock, RdmNoScan
<1>13. CASE UNCHANGED vars
  BY <1>2, <1>13 DEF vars
<1> QED
  BY <1>3, <1>4, <1>5, <1>6, <1>7, <1>8, <1>9, <1>10, <1>11, <1>12, <1>13
     DEF Next, DmxThread, RdmThread

-----------------------------------------------------------------------------
(***************************************************************************)
(* What is proved of the device holds of the device inside the port.       *)
(***************************************************************************)
Proved == INSTANCE OpenRDMDevice_proofs

\* Two instances of the same module with the same parameters.
LEMMA SameNext == Device!Next => Proved!Next
BY DEF
   Device!DmxLock, Device!RdmLock, Device!WriteDMX, Device!WriteDMXOpenRDM,
   Device!DeinitOpenRDM, Device!DeinitDone, Device!InitDevice, Device!InitOpenRDM,
   Device!InitDone, Device!WriteRDM, Device!WriteRDMOpenRDM, Device!StartDiscovery,
   Device!DiscoveryExchange, Device!EndDiscovery, Device!Plug, Device!Unplug, Device!DmxCall,
   Device!DmxInside, Device!RdmCall, Device!RdmInside, Device!Environment, Device!Next,
   Device!DmxEntered, Device!RdmEntered, Device!DriverWrite, Device!WriteResults,
   Device!InitOutcomes, Device!ReinitOutcomes, Device!FatalResults, Device!Results, Device!OK,
   Device!USB_UNAVAILABLE, Device!USB_NO_DEVICE, Device!USB_WRITE_FAILED, Device!USB_OTHER,
   Device!FreeAfterDeinit, Device!LastExchange, Device!NotInProgress, Device!flags,
   Proved!DmxLock, Proved!RdmLock, Proved!WriteDMX, Proved!WriteDMXOpenRDM,
   Proved!DeinitOpenRDM, Proved!DeinitDone, Proved!InitDevice, Proved!InitOpenRDM,
   Proved!InitDone, Proved!WriteRDM, Proved!WriteRDMOpenRDM, Proved!StartDiscovery,
   Proved!DiscoveryExchange, Proved!EndDiscovery, Proved!Plug, Proved!Unplug, Proved!DmxCall,
   Proved!DmxInside, Proved!RdmCall, Proved!RdmInside, Proved!Environment, Proved!Next,
   Proved!DmxEntered, Proved!RdmEntered, Proved!DriverWrite, Proved!WriteResults,
   Proved!InitOutcomes, Proved!ReinitOutcomes, Proved!FatalResults, Proved!Results, Proved!OK,
   Proved!USB_UNAVAILABLE, Proved!USB_NO_DEVICE, Proved!USB_WRITE_FAILED, Proved!USB_OTHER,
   Proved!FreeAfterDeinit, Proved!LastExchange, Proved!NotInProgress, Proved!flags

LEMMA DeviceInvariance == Spec => []Proved!IInv
<1>1. Init => Proved!Init
  BY DEF Init, Device!Init, Proved!Init
<1>2. [Next]_vars => [Proved!Next]_(Proved!vars)
  <2>1. UNCHANGED Device!vars => UNCHANGED Proved!vars
    BY DEF Device!vars, Device!flags, Proved!vars, Proved!flags
  <2> QED
    BY <2>1, StepDevice, SameNext
<1>3. Proved!MaxExchangesAssumption /\ Proved!FlakyOpenAssumption
  BY BoundsAssumption, SwitchAssumption
     DEF BoundsAssumption, SwitchAssumption, Proved!MaxExchangesAssumption,
         Proved!FlakyOpenAssumption
<1> QED
  BY <1>1, <1>2, <1>3, Proved!InitIInv, Proved!StepIInv, PTL DEF Spec

\* The types of the port's own variables.
PortTypeOK ==
  /\ main \in {"idle", "dmx_wait", "dmx_release", "rdm_wait", "rdm_release"}
  /\ frames \in 0 .. MaxFrames /\ requests \in 0 .. MaxRequests
  /\ scans \in 0 .. MaxScans
  /\ buffer \in Nat /\ data \in Nat /\ wire \in Nat
  /\ changed \in BOOLEAN
  /\ data_mutex \in {"free", "rdm"}
  /\ dmx_sema \in Nat
  /\ dloop \in {"start", "exited", "top", "acquired", "timeout", "send", "sent", "refresh"}
  /\ rloop \in {"start", "exited", "top", "acquired", "timeout", "lock", "serving",
                "served"} \cup Kinds

LEMMA InitPortTypeOK == Init => PortTypeOK
<1> SUFFICES ASSUME Init PROVE PortTypeOK
  OBVIOUS
<1>1. changed \in BOOLEAN
  BY DEF Init
<1>2. frames \in 0 .. MaxFrames /\ requests \in 0 .. MaxRequests /\ scans \in 0 .. MaxScans
  BY BoundsAssumption DEF BoundsAssumption, Init
<1>3. buffer \in Nat /\ data \in Nat /\ wire \in Nat /\ dmx_sema \in Nat
  BY DEF Init
<1> QED
  BY <1>1, <1>2, <1>3 DEF Init, PortTypeOK

LEMMA StepPortTypeOK == QueueInv /\ PortTypeOK /\ [Next]_vars => PortTypeOK'
<1> SUFFICES ASSUME QueueInv, PortTypeOK, [Next]_vars PROVE PortTypeOK'
  OBVIOUS
<1> USE DEF PortTypeOK, Kinds, bounds, dmxData, dmxLocal
<1>1. CASE UNCHANGED <<bounds, main, dmxData, data_mutex, dmxLocal, rloop>>
  BY <1>1
<1>2. CASE DmxPacket \/ RdmPacket
  BY <1>2, BoundsAssumption DEF BoundsAssumption, DmxPacket, RdmPacket
<1>3. CASE DmxStore
  <2>1. buffer' \in Nat
    BY <1>3, BoundsAssumption DEF BoundsAssumption, DmxStore
  <2>2. changed' \in BOOLEAN
    BY <1>3 DEF DmxStore
  <2> QED
    BY <1>3, <2>1, <2>2 DEF DmxStore
<1>14. CASE DmxRelease
  BY <1>14 DEF DmxRelease, Released
<1>4. CASE (\E kind \in Kinds : RdmPush(kind)) \/ RdmRelease
  BY <1>4 DEF RdmPush, RdmRelease
<1>5. CASE DmxStart \/ DmxTimeout \/ DmxReinit \/ DmxSend \/ DmxNoRefresh \/ DmxSendRefresh
  BY <1>5 DEF DmxStart, DmxTimeout, DmxReinit, DmxSend, DmxNoRefresh, DmxSendRefresh
<1>6. CASE DmxAcquire \/ DmxRefresh
  BY <1>6 DEF DmxAcquire, DmxRefresh, RefreshData
<1>15. CASE DmxFetch
  <2>1. changed' \in BOOLEAN
    BY <1>15 DEF DmxFetch
  <2>2. data' \in Nat /\ dloop' \in {"send", "sent"}
    BY <1>15 DEF DmxFetch
  <2> QED
    BY <1>15, <2>1, <2>2 DEF DmxFetch
<1>7. CASE \E ret \in Device!Results : DmxWritten(ret)
  BY <1>7 DEF DmxWritten
<1>8. CASE DmxEnter \/ DmxDevice \/ RdmEnter \/ RdmDevice \/ Dongle
  BY <1>1, <1>8 DEF DmxEnter, DmxDevice, RdmEnter, RdmDevice, Dongle
<1>9. CASE RdmStart \/ RdmAcquire \/ RdmTimeout \/ RdmNotInitialized \/ RdmInitialized
  BY <1>9 DEF RdmStart, RdmAcquire, RdmTimeout, RdmNotInitialized, RdmInitialized
<1>10. CASE RdmTake
  <2>1. data_rdm # <<>> => Head(data_rdm).kind \in Kinds
    <3>1. data_rdm # <<>> => Head(data_rdm) \in [id : Nat, kind : Kinds]
      BY HeadTailProperties DEF QueueInv
    <3> QED
      BY <3>1
  <2> QED
    BY <1>10, <2>1 DEF RdmTake
<1>11. CASE RdmServeRequest \/ RdmServeDiscovery \/ RdmUnlock \/ RdmNoScan
  BY <1>11 DEF RdmServeRequest, RdmServeDiscovery, RdmUnlock, Unlocked, RdmNoScan
<1>12. CASE RdmScan
  BY <1>12, BoundsAssumption DEF BoundsAssumption, RdmScan
<1>13. CASE UNCHANGED vars
  BY <1>1, <1>13 DEF vars
<1> QED
  BY <1>2, <1>3, <1>4, <1>5, <1>6, <1>7, <1>8, <1>9, <1>10, <1>11, <1>12, <1>13, <1>14, <1>15
     DEF Next, MainNext, MainHandler, DmxThread, RdmThread

(***************************************************************************)
(* Every variable of the port and of its device keeps to its values:       *)
(* whatever the two threads and the handlers interleave, no semaphore is   *)
(* taken below zero and no discovery goes on past its last exchange.       *)
(***************************************************************************)
THEOREM TypeCorrect == Spec => []TypeOK
<1>1. Proved!IInv /\ QueueInv /\ PortTypeOK => TypeOK
  BY DEF Proved!IInv, Proved!TypeOK, Device!TypeOK, QueueInv, PortTypeOK, TypeOK
<1> QED
  BY <1>1, DeviceInvariance, InitQueueInv, StepQueueInv, InitPortTypeOK, StepPortTypeOK, PTL
     DEF Spec

-----------------------------------------------------------------------------
\* What rdm_thread holds, or does not hold, where it is in its loop.
LoopInv ==
  /\ data_mutex = "rdm" => rloop \in Kinds \cup {"serving"}
  /\ rloop \in {"start", "acquired", "timeout", "lock"} \cup Kinds => rdm \in {"out", "exited"}

LEMMA StepLoopInv == QueueInv /\ LoopInv /\ [Next]_vars => LoopInv'
<1> SUFFICES ASSUME QueueInv, LoopInv, [Next]_vars PROVE LoopInv'
  OBVIOUS
<1> USE DEF LoopInv, Kinds
<1>1. CASE UNCHANGED <<data_mutex, rloop, rdm>>
  BY <1>1
<1>2. CASE MainNext
  BY <1>1, <1>2
     DEF MainNext, MainHandler, DmxPacket, DmxStore, DmxRelease, RdmPacket, RdmPush, RdmRelease, device
<1>3. CASE \/ DmxStart \/ DmxAcquire \/ DmxTimeout \/ DmxFetch \/ DmxNoRefresh \/ DmxRefresh
  BY <1>1, <1>3 DEF DmxStart, DmxAcquire, DmxTimeout, DmxFetch, DmxNoRefresh, DmxRefresh, device
<1>4. CASE DmxReinit \/ DmxSend \/ DmxSendRefresh
  BY <1>1, <1>4 DEF DmxReinit, DmxSend, DmxSendRefresh, Device!InitDevice, Device!WriteDMX, device
<1>5. CASE (\E ret \in Device!Results : DmxWritten(ret)) \/ DmxEnter \/ DmxDevice \/ Dongle
  BY <1>1, <1>5
     DEF DmxWritten, DmxEnter, DmxDevice, Dongle, Device!WriteDMXOpenRDM, Device!DmxLock,
         Device!DeinitOpenRDM, Device!DeinitDone, Device!InitOpenRDM, Device!InitDone,
         Device!Environment, Device!Plug, Device!Unplug
<1>6. CASE RdmStart \/ RdmAcquire \/ RdmTimeout \/ RdmNotInitialized \/ RdmInitialized
  BY <1>6 DEF RdmStart, RdmAcquire, RdmTimeout, RdmNotInitialized, RdmInitialized, device
<1>7. CASE RdmTake
  <2>1. data_rdm # <<>> => Head(data_rdm).kind \in Kinds
    <3>1. data_rdm # <<>> => Head(data_rdm) \in [id : Nat, kind : Kinds]
      BY HeadTailProperties DEF QueueInv
    <3> QED
      BY <3>1
  <2> QED
    BY <1>7, <2>1 DEF RdmTake, device
<1>8. CASE RdmServeRequest \/ RdmServeDiscovery
  BY <1>8 DEF RdmServeRequest, RdmServeDiscovery
<1>9. CASE RdmUnlock \/ RdmNoScan \/ RdmScan
  BY <1>9 DEF RdmUnlock, Unlocked, RdmNoScan, RdmScan
<1>10. CASE RdmEnter \/ RdmDevice
  BY <1>10
     DEF RdmEnter, RdmDevice, Device!RdmLock, Device!RdmEntered, Device!WriteRDMOpenRDM,
         Device!DiscoveryExchange, Device!EndDiscovery
<1>11. CASE UNCHANGED vars
  BY <1>1, <1>11 DEF vars, device
<1> QED
  BY <1>2, <1>3, <1>4, <1>5, <1>6, <1>7, <1>8, <1>9, <1>10, <1>11 DEF Next, DmxThread, RdmThread

(***************************************************************************)
(* The two mutexes are never waited for in a circle: the one who has       *)
(* data_mutex is serving a request, and does not ask for it again; the one *)
(* who has dev_mutex is in a driver call, and waits for neither.           *)
(***************************************************************************)
NoCircularWait ==
  /\ data_mutex = "rdm" => rloop \in Kinds \cup {"serving"}
  /\ dev_mutex = "rdm" => rdm \in {"request", "scan"} /\ rloop # "lock"
  /\ dev_mutex = "dmx" => dmx \in {"write", "deinit", "init"}

(***************************************************************************)
(* Nobody waits in a circle for data_mutex and dev_mutex: rdm_thread holds *)
(* the first while it waits for the second, and whoever holds the second   *)
(* is in a driver call and waits for neither (artnet_openrdm_node.cpp      *)
(* :123-162, openrdm_device.cpp 50-110).                                   *)
(***************************************************************************)
THEOREM MutexesOrdered == Spec => []NoCircularWait
<1>1. Init => LoopInv
  BY DEF Init, LoopInv, Kinds, Device!Init
<1>2. Proved!IInv /\ LoopInv => NoCircularWait
  BY DEF Proved!IInv, Proved!MutexInv, LoopInv, NoCircularWait
<1> QED
  BY <1>1, <1>2, DeviceInvariance, InitQueueInv, StepQueueInv, StepLoopInv, PTL DEF Spec

(***************************************************************************)
(* Inside the port, too, no handle is left behind and no discovery is      *)
(* refused for the sake of an earlier one, for any number of requests and  *)
(* discoveries and whatever becomes of the dongle.                         *)
(***************************************************************************)
THEOREM DeviceSafeInPort == Spec => [](Device!NoZombieHandle /\ Device!DiscoveryNotStuck)
<1>1. Proved!IInv => Device!NoZombieHandle /\ Device!DiscoveryNotStuck
  BY DEF Proved!IInv, Proved!HandleInv, Proved!NoZombieHandle, Device!NoZombieHandle,
         Device!DiscoveryNotStuck
<1> QED
  BY <1>1, DeviceInvariance, PTL

=============================================================================
