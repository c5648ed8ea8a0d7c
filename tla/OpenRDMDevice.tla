---------------------------- MODULE OpenRDMDevice ----------------------------
(***************************************************************************)
(* One OpenRDMDevice object (src/src/openrdm_device.cpp) on top of the     *)
(* libftdi driver functions of src/src/openrdm.c, as its two clients use   *)
(* it: the DMX thread calls writeDMX(), deinit() and init(), the RDM       *)
(* thread calls writeRDM() and the two discovery methods.                  *)
(*                                                                         *)
(* dev_mutex covers each driver call but not the flag `initialized', the   *)
(* flag `discovery_in_progress' or the sequence of driver calls that makes *)
(* up a method, so the methods interleave at every lock and unlock.  What  *)
(* a discovery computes is module Discovery; here it is only a sequence of *)
(* exchanges on the wire.                                                  *)
(***************************************************************************)
EXTENDS Integers

CONSTANTS
  MaxExchanges,   \* Bound: driver calls made by one discovery.
  FlakyOpen       \* May opening an attached dongle fail?

ASSUME MaxExchangesAssumption == MaxExchanges \in Nat \ {0}
ASSUME FlakyOpenAssumption == FlakyOpen \in BOOLEAN

VARIABLES
  plugged,                \* Environment: the USB dongle is attached.
  usb,                    \* ftdi.usb_dev: "null", a "live" handle, or a "dead"
                          \* one, opened before the dongle was last detached.
  initialized,            \* OpenRDMDevice::initialized
  discovery_in_progress,  \* OpenRDMDevice::discovery_in_progress
  dev_mutex,              \* Who holds dev_mutex: "free", "dmx" or "rdm".
  dmx,                    \* Where the DMX thread is inside the device.
  rdm,                    \* Where the RDM thread is inside the device.
  left                    \* Exchanges left in the running discovery.

flags == <<initialized, discovery_in_progress>>
vars  == <<plugged, usb, flags, dev_mutex, dmx, rdm, left>>

(***************************************************************************)
(* The driver.                                                             *)
(***************************************************************************)
OK               == 0
USB_UNAVAILABLE  == -666   \* ftdi_write_data without a handle
USB_NO_DEVICE    == -19    \* the handle's device is gone
USB_WRITE_FAILED == -110   \* the bulk write timed out
USB_OTHER        == -5     \* any other failure: reported, not acted upon

\* The results after which writeDMX() gives the device up.
ForgetsNoDevice  == {USB_UNAVAILABLE}    \* variant: -19 is not treated as fatal
FatalResults     == {USB_UNAVAILABLE, USB_NO_DEVICE}

\* What ftdi_write_data can return on the present handle.
WriteResults == [ null |-> {USB_UNAVAILABLE},
                  dead |-> {USB_NO_DEVICE, USB_WRITE_FAILED},
                  live |-> {OK, USB_WRITE_FAILED, USB_OTHER} ] [usb]

\* What initOpenRDM makes of a context that has no handle.
InitOutcomes == (IF plugged THEN {"live"} ELSE {})
                \cup (IF plugged /\ ~FlakyOpen THEN {} ELSE {"null"})

\* reinitOpenRDM: closes and reopens, but only a context that has a handle.
ReinitOutcomes == IF usb = "null" THEN {"null"} ELSE InitOutcomes

\* The part writeDMXOpenRDM and writeRDMOpenRDM have in common.
DriverWrite(ret) ==
  /\ ret \in WriteResults
  /\ usb' \in IF ret \in {USB_WRITE_FAILED, USB_UNAVAILABLE}
              THEN ReinitOutcomes
              ELSE {usb}

(***************************************************************************)
(* dev_mutex.  A caller waits at "m_wait" and holds the mutex at "m".      *)
(***************************************************************************)
DmxEntered == [write_wait |-> "write", deinit_wait |-> "deinit", init_wait |-> "init"]
RdmEntered == [request_wait |-> "request", scan_wait |-> "scan"]

DmxLock ==
  /\ dmx \in DOMAIN DmxEntered
  /\ dev_mutex = "free"
  /\ dev_mutex' = "dmx"
  /\ dmx' = DmxEntered[dmx]
  /\ UNCHANGED <<plugged, usb, flags, rdm, left>>

RdmLock ==
  /\ rdm \in DOMAIN RdmEntered
  /\ dev_mutex = "free"
  /\ dev_mutex' = "rdm"
  /\ rdm' = RdmEntered[rdm]
  /\ UNCHANGED <<plugged, usb, flags, dmx, left>>

(***************************************************************************)
(* writeDMX() and the deinit() it calls when the device has gone.          *)
(***************************************************************************)
WriteDMX ==
  /\ dmx = "out" /\ initialized
  /\ dmx' = "write_wait"
  /\ UNCHANGED <<plugged, usb, flags, dev_mutex, rdm, left>>

WriteDMXOpenRDM(ret) ==
  /\ dmx = "write"
  /\ DriverWrite(ret)
  /\ dev_mutex' = "free"
  /\ dmx' = IF ret \in FatalResults /\ initialized
            THEN "deinit_wait"
            ELSE "out"
  /\ UNCHANGED <<plugged, flags, rdm, left>>

\* Who holds dev_mutex then; variant: deinit() does not unlock it.
HeldAfterDeinit == dev_mutex
FreeAfterDeinit == "free"

DeinitOpenRDM ==
  /\ dmx = "deinit"
  /\ usb' = "null"
  /\ dev_mutex' = FreeAfterDeinit
  /\ dmx' = "deinit_done"
  /\ UNCHANGED <<plugged, flags, rdm, left>>

DeinitDone ==
  /\ dmx = "deinit_done"
  /\ initialized' = FALSE
  /\ dmx' = "out"
  /\ UNCHANGED <<plugged, usb, discovery_in_progress, dev_mutex, rdm, left>>

(***************************************************************************)
(* init(), called by the DMX thread when it finds the device down.  On     *)
(* failure it calls deinit(), which returns at once: initialized is FALSE. *)
(***************************************************************************)
InitDevice ==
  /\ dmx = "out" /\ ~initialized
  /\ dmx' = "init_wait"
  /\ UNCHANGED <<plugged, usb, flags, dev_mutex, rdm, left>>

InitOpenRDM(outcome) ==
  /\ dmx = "init"
  /\ outcome \in InitOutcomes
  /\ usb' = outcome
  /\ dev_mutex' = "free"
  /\ dmx' = IF outcome = "live" THEN "init_done" ELSE "out"
  /\ UNCHANGED <<plugged, flags, rdm, left>>

InitDone ==
  /\ dmx = "init_done"
  /\ discovery_in_progress' = FALSE
  /\ initialized' = TRUE
  /\ dmx' = "out"
  /\ UNCHANGED <<plugged, usb, dev_mutex, rdm, left>>

(***************************************************************************)
(* writeRDM(): one exchange.  An error is never followed by deinit().      *)
(***************************************************************************)
WriteRDM ==
  /\ rdm = "out" /\ initialized
  /\ rdm' = "request_wait"
  /\ UNCHANGED <<plugged, usb, flags, dev_mutex, dmx, left>>

WriteRDMOpenRDM(ret) ==
  /\ rdm = "request"
  /\ DriverWrite(ret)
  /\ dev_mutex' = "free"
  /\ rdm' = "out"
  /\ UNCHANGED <<plugged, flags, dmx, left>>

(***************************************************************************)
(* fullRDMDiscovery() and incrementalRDMDiscovery(): n exchanges, between  *)
(* which dev_mutex is free.                                                *)
(***************************************************************************)
StartDiscovery(n) ==
  /\ rdm = "out" /\ initialized
  /\ ~discovery_in_progress
  /\ discovery_in_progress' = TRUE
  /\ left' = n
  /\ rdm' = "scan_wait"
  /\ UNCHANGED <<plugged, usb, initialized, dev_mutex, dmx>>

\* The search tree is done, or (variant) one exchange after it is done.
OneExchangeTooMany == left = 0
LastExchange == left = 1

DiscoveryExchange(ret) ==
  /\ rdm = "scan"
  /\ DriverWrite(ret)
  /\ dev_mutex' = "free"
  /\ left' = left - 1
  /\ rdm' = IF LastExchange THEN "scan_end" ELSE "scan_wait"
  /\ UNCHANGED <<plugged, flags, dmx>>

\* discovery_in_progress then; variant: an exit that leaves it set.
KeptInProgress == discovery_in_progress
NotInProgress  == FALSE

EndDiscovery ==
  /\ rdm = "scan_end"
  /\ discovery_in_progress' = NotInProgress
  /\ rdm' = "out"
  /\ UNCHANGED <<plugged, usb, initialized, dev_mutex, dmx, left>>

(***************************************************************************)
(* The environment attaches and detaches the dongle at any time.           *)
(***************************************************************************)
Plug ==
  /\ ~plugged
  /\ plugged' = TRUE
  /\ UNCHANGED <<usb, flags, dev_mutex, dmx, rdm, left>>

Unplug ==
  /\ plugged
  /\ plugged' = FALSE
  /\ usb' = IF usb = "live" THEN "dead" ELSE usb
  /\ UNCHANGED <<flags, dev_mutex, dmx, rdm, left>>

-----------------------------------------------------------------------------
(***************************************************************************)
(* main() has called init() before it starts the threads.  When that       *)
(* failed both threads return at once and nobody calls the device again.   *)
(***************************************************************************)
Init ==
  /\ dev_mutex = "free" /\ discovery_in_progress = FALSE /\ left = 0
  /\ \/ /\ initialized = TRUE
        /\ plugged = TRUE /\ usb = "live"
        /\ dmx = "out" /\ rdm = "out"
     \/ /\ initialized = FALSE
        /\ plugged \in BOOLEAN /\ usb = "null"
        /\ dmx = "exited" /\ rdm = "exited"

Results == {OK, USB_UNAVAILABLE, USB_NO_DEVICE, USB_WRITE_FAILED, USB_OTHER}

\* What the two threads do inside a call they have already entered.
DmxInside ==
  \/ DmxLock
  \/ \E ret \in Results : WriteDMXOpenRDM(ret)
  \/ DeinitOpenRDM
  \/ DeinitDone
  \/ \E outcome \in {"live", "null"} : InitOpenRDM(outcome)
  \/ InitDone

RdmInside ==
  \/ RdmLock
  \/ \E ret \in Results : WriteRDMOpenRDM(ret) \/ DiscoveryExchange(ret)
  \/ EndDiscovery

DmxCall == WriteDMX \/ InitDevice
RdmCall == WriteRDM \/ \E n \in 1 .. MaxExchanges : StartDiscovery(n)
Environment == Plug \/ Unplug

Next == DmxCall \/ DmxInside \/ RdmCall \/ RdmInside \/ Environment

Spec == Init /\ [][Next]_vars

(***************************************************************************)
(* The DMX thread never stops: it writes every DMX_REFRESH_MS and retries  *)
(* init() every THREAD_REINIT_TIMEOUT_MS.  A call once entered goes on.    *)
(* Both threads sleep between rounds, so a waiter is let into dev_mutex    *)
(* sooner or later (strong fairness).  Nothing obliges the RDM thread to   *)
(* call, or the environment to attach or detach the dongle.                *)
(***************************************************************************)
Fairness == SF_vars(DmxCall \/ DmxInside) /\ SF_vars(RdmInside)

FairSpec == Spec /\ Fairness

-----------------------------------------------------------------------------
\* The values the variables may take.
TypeOK ==
  /\ plugged \in BOOLEAN
  /\ usb \in {"null", "live", "dead"}
  /\ initialized \in BOOLEAN
  /\ discovery_in_progress \in BOOLEAN
  /\ dev_mutex \in {"free", "dmx", "rdm"}
  /\ dmx \in {"exited", "out", "write_wait", "write", "deinit_wait", "deinit",
              "deinit_done", "init_wait", "init", "init_done"}
  /\ rdm \in {"exited", "out", "request_wait", "request",
              "scan_wait", "scan", "scan_end"}
  /\ left \in 0 .. MaxExchanges
  /\ rdm \in {"scan_wait", "scan"} => left > 0

(***************************************************************************)
(* A handle is open only while the object owns one: it is initialized, or  *)
(* init() is about to say so.  A late RDM write that finds the device      *)
(* deinitialised must not reopen it (the usb_dev test in reinitOpenRDM):   *)
(* the next init() would overwrite, and lose, the reopened handle.         *)
(***************************************************************************)
NoZombieHandle == usb # "null" => initialized \/ dmx = "init_done"

(***************************************************************************)
(* Outside a discovery the flag is clear, whatever init() and deinit() did *)
(* meanwhile: a flag left set would make every later discovery return an   *)
(* empty list.                                                             *)
(***************************************************************************)
DiscoveryNotStuck == rdm = "out" => ~discovery_in_progress

(***************************************************************************)
(* A dongle that stays attached is brought back into service and stays     *)
(* there, provided that opening an attached dongle succeeds: the DMX       *)
(* thread notices the dead handle, closes it and retries init().  (A       *)
(* thread that found the device down at startup has returned, and the port *)
(* stays down for ever.)                                                   *)
(***************************************************************************)
Recovers ==
  (<>[]plugged) => <>[](dmx = "exited" \/ (initialized /\ usb = "live"))

(***************************************************************************)
(* No method of the RDM thread hangs in the device: writeRDM and the       *)
(* discoveries come back, even when the dongle is lost, deinitialised and  *)
(* reinitialised under them.                                               *)
(***************************************************************************)
RdmReturns == (rdm \notin {"out", "exited"}) ~> (rdm = "out")

=============================================================================
