----------------------------- MODULE NodeStartup -----------------------------
(***************************************************************************)
(* The start of the program (main() in src/src/artnet_openrdm_node.cpp):   *)
(* the device strings of the command line, the devices opened for them,    *)
(* the ports counted, their threads and the output ports of the Art-Net    *)
(* node.  The threads run while main() goes on.                            *)
(*                                                                         *)
(* argparse, libartnet and the dongles are external.  Positions and ports  *)
(* are numbered from 0, as in the code.                                    *)
(***************************************************************************)
EXTENDS Integers, Sequences, FiniteSets

CONSTANTS
  Strings,           \* Device strings a user may give.
  ARTNET_MAX_PORTS   \* The most ports a node can have.

Skip == "skip"       \* The empty device string.

VARIABLES
  at,            \* Where main() is.
  dev_strings,   \* The values of --devices.
  rdm_enabled,   \* Whether --rdm was given.
  i,             \* main()'s loop counter.
  initialized,   \* Positions of ordm_dev whose init() has succeeded.
  num_ports,
  semaphores,    \* Ports that have their semaphores.
  started,       \* Ports whose threads have been started,
  running,       \* and which of these threads are in their loops,
  returned,      \* or have returned at once.
  outputs,       \* Output ports of the Art-Net node, with their addresses.
  handlers       \* The Art-Net handlers set.

vars == <<at, dev_strings, rdm_enabled, i, initialized, num_ports, semaphores, started,
          running, returned, outputs, handlers>>

arguments == <<dev_strings, rdm_enabled>>
threads   == <<running, returned>>

Positions == 0 .. ARTNET_MAX_PORTS - 1
Given     == {p \in Positions : p < Len(dev_strings)}
String(p) == dev_strings[p + 1]
Kinds     == {"dmx", "rdm"}

\* Without --devices there are no strings.
Parse(strings, rdm) ==
  /\ at = "parse" /\ at' = "check"
  /\ dev_strings' = strings /\ rdm_enabled' = rdm
  /\ UNCHANGED <<i, initialized, num_ports, semaphores, started, threads, outputs, handlers>>

Repeated == \E p, q \in Given : p < q /\ String(p) = String(q) /\ String(p) # Skip

CheckUnique ==
  /\ at = "check"
  /\ at' = IF Repeated THEN "exited" ELSE "open"
  /\ UNCHANGED <<arguments, i, initialized, num_ports, semaphores, started, threads,
                 outputs, handlers>>

\* Its init() returns ok.
OpenDevice(ok) ==
  /\ at = "open" /\ i \in Given
  /\ String(i) # Skip
  /\ initialized' = IF ok THEN initialized \cup {i} ELSE initialized
  /\ num_ports' = num_ports + 1
  /\ i' = i + 1
  /\ UNCHANGED <<at, arguments, semaphores, started, threads, outputs, handlers>>

SkipPort ==
  /\ at = "open" /\ i \in Given
  /\ String(i) = Skip
  /\ i' = i + 1
  /\ UNCHANGED <<at, arguments, initialized, num_ports, semaphores, started, threads,
                 outputs, handlers>>

\* findDevices(), then return.
ListDevices ==
  /\ at = "open" /\ i \notin Given /\ initialized = {}
  /\ at' = "exited"
  /\ UNCHANGED <<arguments, i, initialized, num_ports, semaphores, started, threads,
                 outputs, handlers>>

MakeSemaphores ==
  /\ at = "open" /\ i \notin Given /\ initialized # {}
  /\ semaphores' = 0 .. num_ports - 1
  /\ at' = "threads" /\ i' = 0
  /\ UNCHANGED <<arguments, initialized, num_ports, started, threads, outputs, handlers>>

StartThreads ==
  /\ at = "threads" /\ i < num_ports
  /\ started' = started \cup {i}
  /\ i' = i + 1
  /\ UNCHANGED <<at, arguments, initialized, num_ports, semaphores, threads, outputs, handlers>>

\* A thread starts: it returns at once if its device is not initialised.
Thread(kind, p) ==
  /\ p \in started /\ <<kind, p>> \notin running \cup returned
  /\ IF p \in initialized
     THEN running' = running \cup {<<kind, p>>} /\ UNCHANGED returned
     ELSE returned' = returned \cup {<<kind, p>>} /\ UNCHANGED running
  /\ UNCHANGED <<at, arguments, i, initialized, num_ports, semaphores, started, outputs, handlers>>

StartNode ==
  /\ at = "threads" /\ i = num_ports
  /\ outputs' = {[port |-> p, address |-> p] : p \in 0 .. num_ports - 1}
  /\ handlers' = {"program", "dmx"} \cup (IF rdm_enabled THEN {"rdm_initiate", "rdm"} ELSE {})
  /\ at' = "reading"
  /\ UNCHANGED <<arguments, i, initialized, num_ports, semaphores, started, threads>>

Read ==
  /\ at = "reading"
  /\ UNCHANGED vars

-----------------------------------------------------------------------------
Init ==
  /\ at = "parse" /\ i = 0
  /\ dev_strings = <<>> /\ rdm_enabled = FALSE
  /\ initialized = {} /\ num_ports = 0
  /\ semaphores = {} /\ started = {} /\ running = {} /\ returned = {}
  /\ outputs = {} /\ handlers = {}

Next ==
  \/ \E n \in 0 .. ARTNET_MAX_PORTS, rdm \in BOOLEAN :
       \E strings \in [1 .. n -> Strings \cup {Skip}] : Parse(strings, rdm)
  \/ CheckUnique
  \/ (\E ok \in BOOLEAN : OpenDevice(ok)) \/ SkipPort
  \/ ListDevices \/ MakeSemaphores \/ StartThreads
  \/ (\E kind \in Kinds, p \in Positions : Thread(kind, p))
  \/ StartNode \/ Read

Spec == Init /\ [][Next]_vars

-----------------------------------------------------------------------------
(***************************************************************************)
(* Skipped ports do no harm to the others: once the node runs, every       *)
(* device that was opened has its threads and an output port, whichever    *)
(* positions before it were left empty.                                    *)
(***************************************************************************)
EveryDeviceDriven ==
  at = "reading" =>
    \A p \in initialized : p \in started /\ \E out \in outputs : out.port = p

=============================================================================
