-------------------------- MODULE NodeStartup_proofs --------------------------
(***************************************************************************)
(* Theorems about the start of the program, for any number of ports and    *)
(* any device strings: which of the opened devices are driven, that no     *)
(* device is opened twice, and what a running thread finds in place.       *)
(***************************************************************************)
EXTENDS NodeStartup, FiniteSetTheorems, TLAPS

\* Positions whose device string is not empty; those main() has come past.
Used          == {p \in Given : String(p) # Skip}
UsedBefore(n) == {p \in Used : p < n}

PlaceInv ==
  /\ dev_strings \in Seq(Strings \cup {Skip}) /\ Len(dev_strings) <= ARTNET_MAX_PORTS
  /\ i \in Nat
  /\ at \in {"parse", "check", "open", "threads", "reading", "exited"}
  /\ at \in {"parse", "check"} => i = 0 /\ num_ports = 0
  /\ at \in {"parse", "check", "exited"} => initialized = {}
  /\ at \in {"parse", "check", "open", "exited"} => started = {}
  /\ at \in {"open", "threads", "reading"} => ~Repeated

PortsInv ==
  /\ initialized \subseteq Used
  /\ at = "open" =>
       /\ i <= Len(dev_strings)
       /\ num_ports = Cardinality(UsedBefore(i))
       /\ initialized \subseteq UsedBefore(i)
  /\ at \in {"threads", "reading"} =>
       /\ num_ports = Cardinality(Used)
       /\ semaphores = 0 .. num_ports - 1
  /\ at = "threads" => i <= num_ports /\ started = 0 .. i - 1
  /\ at = "reading" =>
       /\ started = 0 .. num_ports - 1
       /\ outputs = {[port |-> p, address |-> p] : p \in 0 .. num_ports - 1}
  /\ \A thread \in running : thread[2] \in started \cap initialized

NodeInv == PlaceInv /\ PortsInv

LEMMA UsedFinite ==
  ASSUME ARTNET_MAX_PORTS \in Nat
  PROVE  /\ IsFiniteSet(Used) /\ Cardinality(Used) \in Nat
         /\ \A n : IsFiniteSet(UsedBefore(n)) /\ Cardinality(UsedBefore(n)) \in Nat
<1>1. IsFiniteSet(Positions)
  BY FS_Interval DEF Positions
<1>2. Used \subseteq Positions /\ \A n : UsedBefore(n) \subseteq Positions
  BY DEF Used, UsedBefore, Given
<1> QED
  BY <1>1, <1>2, FS_Subset, FS_CardinalityType

\* main() comes past one more position.
LEMMA UsedNext ==
  ASSUME ARTNET_MAX_PORTS \in Nat, i \in Given
  PROVE  /\ UsedBefore(i + 1) = UsedBefore(i) \cup (IF String(i) = Skip THEN {} ELSE {i})
         /\ i \notin UsedBefore(i)
<1>1. i \in Int /\ Used \subseteq Int
  BY DEF Used, Given, Positions
<1>2. \A p \in Used : p < i + 1 <=> p < i \/ p = i
  BY <1>1
<1>3. i \in Used <=> String(i) # Skip
  BY DEF Used
<1>4. \A p : p \in UsedBefore(i + 1) <=> p \in UsedBefore(i) \/ (p = i /\ String(i) # Skip)
  BY <1>2, <1>3 DEF UsedBefore
<1>5. i \notin UsedBefore(i)
  BY <1>1 DEF UsedBefore
<1> QED
  BY <1>4, <1>5

\* At the end of the strings it has come past all of them.
LEMMA UsedAll ==
  ASSUME PlaceInv, ARTNET_MAX_PORTS \in Nat, i \notin Given
  PROVE  UsedBefore(i) = Used
<1>1. i \in Nat /\ Len(dev_strings) \in Nat /\ Len(dev_strings) <= ARTNET_MAX_PORTS
  BY DEF PlaceInv
<1>2. i >= Len(dev_strings)
  BY <1>1 DEF Given, Positions
<1>3. \A p \in Used : p \in Int /\ p < Len(dev_strings)
  BY DEF Used, Given, Positions
<1> QED
  BY <1>1, <1>2, <1>3 DEF UsedBefore

LEMMA StepPlaceInv ==
  ASSUME ARTNET_MAX_PORTS \in Nat, PlaceInv, [Next]_vars
  PROVE  PlaceInv'
<1> USE DEF PlaceInv
<1>0. dev_strings' = dev_strings => Repeated' = Repeated
  BY DEF Repeated, Given, String
<1>1. ASSUME NEW n \in 0 .. ARTNET_MAX_PORTS, NEW rdm \in BOOLEAN,
             NEW strings \in [1 .. n -> Strings \cup {Skip}], Parse(strings, rdm)
      PROVE  PlaceInv'
  <2>1. strings \in Seq(Strings \cup {Skip}) /\ Len(strings) = n
    OBVIOUS
  <2> QED
    BY <1>1, <2>1 DEF Parse
<1>2. CASE CheckUnique
  BY <1>0, <1>2 DEF CheckUnique, arguments
<1>3. CASE (\E ok \in BOOLEAN : OpenDevice(ok)) \/ SkipPort
  BY <1>0, <1>3 DEF OpenDevice, SkipPort, arguments
<1>4. CASE ListDevices \/ MakeSemaphores \/ StartThreads \/ StartNode
  BY <1>0, <1>4 DEF ListDevices, MakeSemaphores, StartThreads, StartNode, arguments
<1>5. CASE \E kind \in Kinds, p \in Positions : Thread(kind, p)
  BY <1>0, <1>5 DEF Thread, arguments
<1>6. CASE Read \/ UNCHANGED vars
  BY <1>0, <1>6 DEF Read, vars, arguments
<1> QED
  BY <1>1, <1>2, <1>3, <1>4, <1>5, <1>6 DEF Next

LEMMA StepPortsInv ==
  ASSUME ARTNET_MAX_PORTS \in Nat, NodeInv, [Next]_vars
  PROVE  PortsInv'
<1>p. PlaceInv /\ PortsInv /\ PlaceInv'
  BY StepPlaceInv DEF NodeInv
<1>0. ASSUME dev_strings' = dev_strings
      PROVE  Used' = Used /\ UsedBefore(i)' = {p \in Used : p < i'}
  BY <1>0 DEF Used, UsedBefore, Given, String
<1>1. ASSUME NEW n \in 0 .. ARTNET_MAX_PORTS, NEW rdm \in BOOLEAN,
             NEW strings \in [1 .. n -> Strings \cup {Skip}], Parse(strings, rdm)
      PROVE  PortsInv'
  <2>1. at' = "check" /\ initialized' = {} /\ running' = running /\ running = {}
    BY <1>p, <1>1 DEF Parse, threads, PlaceInv, PortsInv
  <2> QED
    BY <2>1 DEF PortsInv
<1>2. CASE CheckUnique
  <2>1. /\ at' \in {"exited", "open"} /\ i' = 0 /\ num_ports' = 0 /\ initialized' = {}
        /\ running' = {} /\ dev_strings' = dev_strings
    BY <1>p, <1>2 DEF CheckUnique, threads, arguments, PlaceInv, PortsInv
  <2>2. UsedBefore(i)' = {}
    <3>1. \A p \in Used : p \in Nat
      BY DEF Used, Given, Positions
    <3> QED
      BY <1>0, <2>1, <3>1
  <2>3. Cardinality({}) = 0 /\ 0 <= Len(dev_strings')
    BY <1>p, FS_EmptySet DEF PlaceInv
  <2> QED
    BY <2>1, <2>2, <2>3 DEF PortsInv
<1>3. CASE (\E ok \in BOOLEAN : OpenDevice(ok)) \/ SkipPort
  <2>1. /\ at = "open" /\ at' = "open" /\ i \in Given /\ i' = i + 1
        /\ dev_strings' = dev_strings /\ UNCHANGED <<started, running>>
    BY <1>3 DEF OpenDevice, SkipPort, arguments, threads
  <2>2. /\ UsedBefore(i)' = UsedBefore(i + 1) /\ Used' = Used
        /\ i + 1 <= Len(dev_strings)
    BY <1>0, <1>p, <2>1 DEF UsedBefore, Given, Positions, PlaceInv
  <2>3. CASE \E ok \in BOOLEAN : OpenDevice(ok)
    <3>1. /\ String(i) # Skip /\ num_ports' = num_ports + 1
          /\ initialized \subseteq initialized' /\ initialized' \subseteq initialized \cup {i}
      BY <2>3 DEF OpenDevice
    <3>2. UsedBefore(i + 1) = UsedBefore(i) \cup {i} /\ i \notin UsedBefore(i)
      BY <2>1, <3>1, UsedNext
    <3>3. Cardinality(UsedBefore(i + 1)) = Cardinality(UsedBefore(i)) + 1
      BY <3>2, UsedFinite, FS_AddElement
    <3>4. UsedBefore(i + 1) \subseteq Used
      BY DEF UsedBefore
    <3> QED
      BY <1>p, <2>1, <2>2, <3>1, <3>2, <3>3, <3>4 DEF PortsInv, PlaceInv
  <2>4. CASE SkipPort
    <3>1. String(i) = Skip /\ UNCHANGED <<initialized, num_ports>>
      BY <2>4 DEF SkipPort
    <3>2. UsedBefore(i + 1) = UsedBefore(i)
      BY <2>1, <3>1, UsedNext
    <3> QED
      BY <1>p, <2>1, <2>2, <3>1, <3>2 DEF PortsInv
  <2> QED
    BY <1>3, <2>3, <2>4
<1>4. CASE ListDevices
  BY <1>0, <1>p, <1>4 DEF ListDevices, arguments, threads, PortsInv
<1>5. CASE MakeSemaphores
  <2>1. /\ at = "open" /\ at' = "threads" /\ i' = 0 /\ UsedBefore(i) = Used
        /\ semaphores' = 0 .. num_ports - 1
        /\ UNCHANGED <<dev_strings, initialized, num_ports, started, running>>
    BY <1>p, <1>5, UsedAll DEF MakeSemaphores, arguments, threads
  <2>2. started = {} /\ 0 .. 0 - 1 = {} /\ num_ports \in Nat
    BY <1>p, <2>1, UsedFinite DEF PlaceInv, PortsInv
  <2> QED
    BY <1>0, <1>p, <2>1, <2>2 DEF PortsInv
<1>6. CASE StartThreads
  <2>1. /\ at = "threads" /\ at' = "threads" /\ i < num_ports /\ i' = i + 1
        /\ started' = started \cup {i}
        /\ UNCHANGED <<dev_strings, initialized, num_ports, semaphores, running>>
    BY <1>6 DEF StartThreads, arguments, threads
  <2>2. /\ i \in Nat /\ num_ports \in Nat
        /\ started = 0 .. i - 1
    BY <1>p, <2>1, UsedFinite DEF PlaceInv, PortsInv
  <2>3. started' = 0 .. i' - 1 /\ i' <= num_ports'
    BY <2>1, <2>2
  <2> QED
    BY <1>0, <1>p, <2>1, <2>3 DEF PortsInv
<1>7. CASE StartNode
  <2>1. /\ at = "threads" /\ at' = "reading" /\ i = num_ports
        /\ outputs' = {[port |-> p, address |-> p] : p \in 0 .. num_ports - 1}
        /\ UNCHANGED <<dev_strings, initialized, num_ports, semaphores, started, running>>
    BY <1>7 DEF StartNode, arguments, threads
  <2> QED
    BY <1>0, <1>p, <2>1 DEF PortsInv
<1>8. ASSUME NEW kind \in Kinds, NEW p \in Positions, Thread(kind, p) PROVE PortsInv'
  <2>1. /\ \A thread \in running' : thread[2] \in started \cap initialized
        /\ UNCHANGED <<at, dev_strings, i, initialized, num_ports, semaphores, started, outputs>>
    BY <1>p, <1>8 DEF Thread, arguments, PortsInv
  <2> QED
    BY <1>0, <1>p, <2>1 DEF PortsInv, UsedBefore
<1>9. CASE Read \/ UNCHANGED vars
  <2>1. UNCHANGED vars
    BY <1>9 DEF Read
  <2> QED
    BY <1>0, <1>p, <2>1 DEF PortsInv, UsedBefore, vars, arguments, threads
<1> QED
  BY <1>1, <1>2, <1>3, <1>4, <1>5, <1>6, <1>7, <1>8, <1>9 DEF Next

LEMMA NodeInvariance == ARTNET_MAX_PORTS \in Nat => (Spec => []NodeInv)
<1> SUFFICES ASSUME ARTNET_MAX_PORTS \in Nat PROVE Spec => []NodeInv
  OBVIOUS
<1>1. Init => NodeInv
  BY DEF Init, NodeInv, PlaceInv, PortsInv
<1>2. NodeInv /\ [Next]_vars => NodeInv'
  BY StepPlaceInv, StepPortsInv DEF NodeInv
<1> QED
  BY <1>1, <1>2, PTL DEF Spec

-----------------------------------------------------------------------------
Driven(p) == p \in started /\ \E out \in outputs : out.port = p

\* Devices the command line asks for twice are told apart before any is opened.
NoDeviceTwice ==
  \A p, q \in initialized : p # q => String(p) # String(q)

\* A thread in its loop has its semaphores and an initialised device.
ThreadsEquipped ==
  \A thread \in running : thread[2] \in semaphores \cap initialized

DrivenExactly ==
  at = "reading" => \A p \in initialized : Driven(p) <=> p < Cardinality(Used)

(***************************************************************************)
(* However many ports there are and whichever strings are left empty, the  *)
(* program opens no dongle for two ports (the check at lines 308-316 of    *)
(* src/src/artnet_openrdm_node.cpp), and no thread waits on a semaphore or *)
(* talks to a device that has not been made ready.                         *)
(***************************************************************************)
THEOREM PortsAreSound ==
  ASSUME ARTNET_MAX_PORTS \in Nat
  PROVE  Spec => [](NoDeviceTwice /\ ThreadsEquipped)
<1>1. ASSUME NodeInv PROVE NoDeviceTwice
  <2>1. CASE initialized = {}
    BY <2>1 DEF NoDeviceTwice
  <2>2. CASE initialized # {}
    <3>1. ~Repeated /\ initialized \subseteq Used
      BY <1>1, <2>2 DEF NodeInv, PlaceInv, PortsInv
    <3>2. \A p \in Used : p \in Int /\ p \in Given /\ String(p) # Skip
      BY DEF Used, Given, Positions
    <3>3. \A p, q \in Used : p < q => String(p) # String(q)
      BY <3>1, <3>2 DEF Repeated
    <3>4. \A p, q \in Used : p # q => p < q \/ q < p
      BY <3>2
    <3> QED
      BY <3>1, <3>3, <3>4 DEF NoDeviceTwice
  <2> QED
    BY <2>1, <2>2
<1>2. ASSUME NodeInv PROVE ThreadsEquipped
  <2>1. \A thread \in running : thread[2] \in started \cap initialized
    BY <1>2 DEF NodeInv, PortsInv
  <2>2. started \subseteq semaphores
    <3>1. CASE at \in {"threads", "reading"}
      <4>1. /\ semaphores = 0 .. num_ports - 1 /\ i \in Nat /\ num_ports \in Nat
            /\ started = 0 .. num_ports - 1 \/ (i <= num_ports /\ started = 0 .. i - 1)
        BY <1>2, <3>1, UsedFinite DEF NodeInv, PlaceInv, PortsInv
      <4> QED
        BY <4>1
    <3>2. CASE at \notin {"threads", "reading"}
      BY <1>2, <3>2 DEF NodeInv, PlaceInv
    <3> QED
      BY <3>1, <3>2
  <2> QED
    BY <2>1, <2>2 DEF ThreadsEquipped
<1>3. NodeInv => NoDeviceTwice /\ ThreadsEquipped
  BY <1>1, <1>2
<1> QED
  BY <1>3, NodeInvariance, PTL

LEMMA WhoIsDriven ==
  ASSUME ARTNET_MAX_PORTS \in Nat, NodeInv
  PROVE  DrivenExactly
<1> SUFFICES ASSUME at = "reading", NEW p \in initialized
             PROVE  Driven(p) <=> p < Cardinality(Used)
  BY DEF DrivenExactly
<1>1. /\ num_ports = Cardinality(Used) /\ num_ports \in Nat
      /\ started = 0 .. num_ports - 1
      /\ outputs = {[port |-> q, address |-> q] : q \in 0 .. num_ports - 1}
      /\ p \in Used
  BY UsedFinite DEF NodeInv, PortsInv
<1>2. p \in Nat
  BY <1>1 DEF Used, Given, Positions
<1>3. p \in started <=> p < num_ports
  BY <1>1, <1>2
<1>4. ASSUME p \in started PROVE \E out \in outputs : out.port = p
  <2>1. [port |-> p, address |-> p] \in outputs
    BY <1>1, <1>4
  <2> QED
    BY <2>1
<1> QED
  BY <1>1, <1>3, <1>4 DEF Driven

(***************************************************************************)
(* Which devices are driven: those whose position is below the number of   *)
(* non-empty strings, no more and no fewer.  Hence all of them are if no   *)
(* string was left empty; run NodeStartup shows that otherwise one may be  *)
(* opened and then left without threads and port.                          *)
(***************************************************************************)
THEOREM WhichAreDriven ==
  ASSUME ARTNET_MAX_PORTS \in Nat
  PROVE  Spec => [](/\ DrivenExactly
                    /\ (\A p \in Given : String(p) # Skip) => EveryDeviceDriven)
<1>1. ASSUME NodeInv, DrivenExactly, \A p \in Given : String(p) # Skip, at = "reading",
             NEW p \in initialized
      PROVE  Driven(p)
  <2>1. dev_strings \in Seq(Strings \cup {Skip}) /\ Len(dev_strings) <= ARTNET_MAX_PORTS
    BY <1>1 DEF NodeInv, PlaceInv
  <2>2. Used = 0 .. Len(dev_strings) - 1
    BY <1>1, <2>1 DEF Used, Given, Positions
  <2>3. Cardinality(Used) = Len(dev_strings)
    <3>1. Len(dev_strings) \in Nat /\ 0 \in Int /\ Len(dev_strings) - 1 \in Int
      BY <2>1
    <3>2. Cardinality(0 .. Len(dev_strings) - 1) =
            IF 0 > Len(dev_strings) - 1 THEN 0 ELSE Len(dev_strings) - 1 - 0 + 1
      BY <3>1, FS_Interval
    <3> QED
      BY <2>2, <3>1, <3>2
  <2>4. p \in 0 .. Len(dev_strings) - 1
    BY <1>1, <2>2 DEF NodeInv, PortsInv
  <2>5. p < Cardinality(Used)
    BY <2>1, <2>3, <2>4
  <2> QED
    BY <1>1, <2>5 DEF DrivenExactly
<1>2. NodeInv => /\ DrivenExactly
                 /\ (\A p \in Given : String(p) # Skip) => EveryDeviceDriven
  BY <1>1, WhoIsDriven DEF EveryDeviceDriven, Driven
<1> QED
  BY <1>2, NodeInvariance, PTL

=============================================================================
