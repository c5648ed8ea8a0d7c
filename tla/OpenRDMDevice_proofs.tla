------------------------- MODULE OpenRDMDevice_proofs -------------------------
(***************************************************************************)
(* Proofs about module OpenRDMDevice: its safety invariants hold for every *)
(* MaxExchanges, whether opening the dongle is reliable or not.            *)
(***************************************************************************)
EXTENDS OpenRDMDevice, TLAPS

(***************************************************************************)
(* The inductive invariant.  None of the three facts below is inductive by *)
(* itself: that no handle is left behind rests on where the two threads    *)
(* may be while the device is down, and on who holds dev_mutex.            *)
(***************************************************************************)

\* dev_mutex is held exactly by the thread that is in a critical section.
MutexInv ==
  /\ dev_mutex = "dmx" <=> dmx \in {"write", "deinit", "init"}
  /\ dev_mutex = "rdm" <=> rdm \in {"request", "scan"}

\* The DMX thread alone writes initialized, so it knows its value.
OwnerInv ==
  /\ dmx \in {"write_wait", "write", "deinit_wait", "deinit", "deinit_done"}
       => initialized
  /\ dmx \in {"init_wait", "init", "init_done", "exited"} => ~initialized

\* What the flags say of the handle and of the RDM thread.
HandleInv ==
  /\ NoZombieHandle
  /\ dmx = "deinit_done" => usb = "null"
  /\ dmx = "exited" <=> rdm = "exited"
  /\ discovery_in_progress => rdm \in {"scan_wait", "scan", "scan_end"}

IInv == TypeOK /\ MutexInv /\ OwnerInv /\ HandleInv

-----------------------------------------------------------------------------
(***************************************************************************)
(* What ftdi_write_data and reinitOpenRDM may do to the handle: it stays a *)
(* handle or none, and a context without a handle never gets one.          *)
(***************************************************************************)
LEMMA DriverWriteKeepsHandle ==
  ASSUME NEW ret, usb \in {"null", "live", "dead"}, DriverWrite(ret)
  PROVE  /\ usb' \in {"null", "live", "dead"}
         /\ usb = "null" => usb' = "null"
  BY DEF DriverWrite, WriteResults, ReinitOutcomes, InitOutcomes,
         OK, USB_UNAVAILABLE, USB_NO_DEVICE, USB_WRITE_FAILED, USB_OTHER

LEMMA InitIInv == Init => IInv
<1> SUFFICES ASSUME Init PROVE IInv
  OBVIOUS
<1> USE DEF Init
<1>1. TypeOK
  <2>1. left \in 0 .. MaxExchanges
    BY MaxExchangesAssumption DEF MaxExchangesAssumption
  <2>2. /\ initialized \in BOOLEAN
        /\ discovery_in_progress \in BOOLEAN
        /\ plugged \in BOOLEAN
    OBVIOUS
  <2> QED
    BY <2>1, <2>2 DEF TypeOK
<1>2. MutexInv
  BY DEF MutexInv
<1>3. OwnerInv
  BY DEF OwnerInv
<1>4. HandleInv
  BY DEF HandleInv, NoZombieHandle
<1> QED
  BY <1>1, <1>2, <1>3, <1>4 DEF IInv


LEMMA StepIInv == IInv /\ [Next]_vars => IInv'
<1> SUFFICES ASSUME IInv, [Next]_vars PROVE IInv'
  OBVIOUS
<1> USE DEF IInv, TypeOK, MutexInv, OwnerInv, HandleInv, NoZombieHandle, flags
<1>1. CASE DmxLock
  BY <1>1 DEF DmxLock, DmxEntered
<1>2. CASE RdmLock
  BY <1>2 DEF RdmLock, RdmEntered
<1>3. CASE WriteDMX
  BY <1>3 DEF WriteDMX
<1>4. ASSUME NEW ret \in Results, WriteDMXOpenRDM(ret) PROVE IInv'
  BY <1>4, DriverWriteKeepsHandle DEF WriteDMXOpenRDM
<1>5. CASE DeinitOpenRDM
  BY <1>5 DEF DeinitOpenRDM, FreeAfterDeinit
<1>6. CASE DeinitDone
  BY <1>6 DEF DeinitDone
<1>7. CASE InitDevice
  BY <1>7 DEF InitDevice
<1>8. ASSUME NEW outcome \in {"live", "null"}, InitOpenRDM(outcome) PROVE IInv'
  BY <1>8 DEF InitOpenRDM
<1>9. CASE InitDone
  BY <1>9 DEF InitDone
<1>10. CASE WriteRDM
  BY <1>10 DEF WriteRDM
<1>11. ASSUME NEW ret \in Results, WriteRDMOpenRDM(ret) PROVE IInv'
  BY <1>11, DriverWriteKeepsHandle DEF WriteRDMOpenRDM
<1>12. ASSUME NEW n \in 1 .. MaxExchanges, StartDiscovery(n) PROVE IInv'
  BY <1>12 DEF StartDiscovery
<1>13. ASSUME NEW ret \in Results, DiscoveryExchange(ret) PROVE IInv'
  <2>1. left \in 1 .. MaxExchanges /\ left' = left - 1
    BY <1>13, MaxExchangesAssumption DEF MaxExchangesAssumption, DiscoveryExchange
  <2>2. left' \in 0 .. MaxExchanges /\ (rdm' \in {"scan_wait", "scan"} => left' > 0)
    BY <1>13, <2>1, MaxExchangesAssumption
       DEF MaxExchangesAssumption, DiscoveryExchange, LastExchange
  <2> QED
    BY <1>13, <2>2, DriverWriteKeepsHandle, SMTT(30) DEF DiscoveryExchange
<1>14. CASE EndDiscovery
  BY <1>14 DEF EndDiscovery, NotInProgress
<1>15. CASE Plug
  BY <1>15 DEF Plug
<1>16. CASE Unplug
  BY <1>16 DEF Unplug
<1>17. CASE UNCHANGED vars
  BY <1>17 DEF vars
<1> QED
  BY <1>1, <1>2, <1>3, <1>4, <1>5, <1>6, <1>7, <1>8, <1>9, <1>10, <1>11, <1>12, <1>13, <1>14, <1>15, <1>16, <1>17 DEF Next, DmxCall, DmxInside, RdmCall, RdmInside, Environment

\* The invariant that the theorems below read off.
LEMMA Invariance == Spec => []IInv
  BY InitIInv, StepIInv, PTL DEF Spec

(***************************************************************************)
(* Every variable keeps to its values; in particular a discovery never     *)
(* makes an exchange after its last (openrdm_device.cpp:92-207).           *)
(***************************************************************************)
THEOREM TypeCorrect == Spec => []TypeOK
  BY Invariance, PTL DEF IInv

(***************************************************************************)
(* No handle outlives the device object's claim to it: deinit() in one     *)
(* thread and a late reinitOpenRDM in the other never leave one behind for *)
(* init() to overwrite (openrdm.c:113-117, openrdm_device.cpp:43-49).      *)
(***************************************************************************)
THEOREM NoHandleLost == Spec => []NoZombieHandle
  BY Invariance, PTL DEF IInv, HandleInv

(***************************************************************************)
(* discovery_in_progress is clear whenever no discovery runs, so none is   *)
(* ever refused for the sake of an earlier one.                            *)
(***************************************************************************)
THEOREM DiscoveryAvailable == Spec => []DiscoveryNotStuck
<1>1. IInv => DiscoveryNotStuck
  BY DEF IInv, HandleInv, DiscoveryNotStuck
<1> QED
  BY <1>1, Invariance, PTL


=============================================================================
