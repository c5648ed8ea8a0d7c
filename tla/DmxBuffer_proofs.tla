---------------------------- MODULE DmxBuffer_proofs ----------------------------
(***************************************************************************)
(* Theorems about module DmxBuffer, for frames of any length and any       *)
(* number of them: the race between dmx_handler and dmx_thread never sends *)
(* a slot that was not received, never costs the freshness of a complete   *)
(* frame, and implements DmxOutput.                                        *)
(***************************************************************************)
EXTENDS DmxBuffer, TLAPS

InCopy == thread \in {"fetch_copy", "refresh_copy"}

(***************************************************************************)
(* The inductive invariant.                                                *)
(***************************************************************************)
\* Each wake-up belongs to a frame; the handler releases at the end of one.
SemaInv == sema <= received /\ (main # "idle" => sema < received)

\* Frames only get newer on their way from the buffer to the line.
FreshInv ==
  \A s \in Slots : line[s] <= data[s] /\ data[s] <= buffer[s] /\ buffer[s] <= received

\* Outside of the handler's copy, the buffer holds the latest frame; during
\* it, the slots of the last complete one hold that frame or the new one.
StoredInv ==
  /\ main # "idle" => received > 0
  /\ main # "copy" => Stored
  /\ \A s \in 1 .. length : buffer[s] > 0 /\ buffer[s] >= Complete

\* The thread copies no slots but those below the length it has read, and no
\* transmission begins before it has copied them.
CopyInv ==
  /\ ~InCopy => uncopied = {}
  /\ uncopied \subseteq 1 .. dlength
  /\ \A s \in uncopied : buffer[s] > 0
  /\ InCopy \/ Writing => \A s \in 1 .. dlength : s \in uncopied \/ data[s] > 0

\* A slot the thread has copied, or is going to copy, is not older than the
\* frame that was complete when the copy began.
FloorInv ==
  /\ \A s \in uncopied : buffer[s] >= floor
  /\ InCopy \/ Writing => \A s \in 1 .. dlength : s \in uncopied \/ data[s] >= floor

IInv == TypeOK /\ SemaInv /\ FreshInv /\ StoredInv /\ CopyInv /\ FloorInv

-----------------------------------------------------------------------------
LEMMA InitIInv == Init => IInv
<1> SUFFICES ASSUME Init PROVE IInv
  OBVIOUS
<1> USE LengthAssumption, FramesAssumption DEF LengthAssumption, FramesAssumption, Init
<1>1. TypeOK
  <2>1. 0 \in 0 .. MaxFrames /\ 0 \in 0 .. MaxLength
    OBVIOUS
  <2> QED
    BY <2>1 DEF TypeOK
<1>2. SemaInv /\ FreshInv /\ StoredInv
  BY DEF SemaInv, FreshInv, StoredInv, Stored, Complete
<1>3. CopyInv /\ FloorInv
  BY DEF CopyInv, FloorInv, InCopy, Writing, Complete
<1> QED
  BY <1>1, <1>2, <1>3 DEF IInv

LEMMA PacketIInv == IInv /\ Packet => IInv'
<1> SUFFICES ASSUME IInv, Packet PROVE IInv'
  OBVIOUS
<1> USE LengthAssumption, FramesAssumption
    DEF LengthAssumption, FramesAssumption, Packet, IInv, TypeOK, Slots, shared, local
<1>1. TypeOK'
  <2>1. received' \in 0 .. MaxFrames /\ len' \in 0 .. MaxLength /\ main' = "copy"
    OBVIOUS
  <2>2. UNCHANGED <<buffer, length, changed, sema, thread, uncopied, data, dlength, floor, line>>
    OBVIOUS
  <2> QED
    BY <2>1, <2>2
<1>2. SemaInv'
  BY DEF SemaInv
<1>7. FreshInv'
  <2>1. received \in Nat /\ received' = received + 1 /\ UNCHANGED <<buffer, data, line>>
    OBVIOUS
  <2>2. \A s \in Slots : buffer[s] \in Nat /\ buffer[s] <= received
    BY DEF FreshInv
  <2> HIDE DEF IInv, TypeOK, Packet, shared, local
  <2>3. \A s \in Slots : buffer[s] <= received'
    BY <2>1, <2>2
  <2> QED
    BY <2>1, <2>3 DEF FreshInv, IInv
<1>3. StoredInv'
  <2>1. Complete' = received /\ main' = "copy" /\ received' > 0
    BY DEF Complete
  <2>2. UNCHANGED <<buffer, length>> /\ Complete = received
    BY DEF Complete
  <2> QED
    BY <2>1, <2>2 DEF StoredInv
<1>4. CopyInv'
  BY DEF CopyInv, InCopy, Writing
<1>5. FloorInv'
  BY DEF FloorInv, InCopy, Writing, Complete
<1> QED
  BY <1>1, <1>2, <1>3, <1>4, <1>5, <1>7

LEMMA StoreSlotIInv == ASSUME NEW s \in Slots, IInv, StoreSlot(s) PROVE IInv'
<1> USE LengthAssumption, FramesAssumption
    DEF LengthAssumption, FramesAssumption, StoreSlot, IInv, TypeOK, Slots, handler, local
<1>1. /\ received > 0 /\ received \in Nat
      /\ \A r \in Slots : buffer'[r] = IF r = s THEN received ELSE buffer[r]
      /\ \A r \in Slots : buffer'[r] >= buffer[r]
  <2>1. received > 0 /\ received \in Nat
    BY DEF StoredInv
  <2>2. \A r \in Slots : buffer'[r] = IF r = s THEN received ELSE buffer[r]
    OBVIOUS
  <2>3. \A r \in Slots : buffer[r] \in Nat /\ buffer[r] <= received
    BY DEF FreshInv
  <2> HIDE DEF StoreSlot, IInv, TypeOK, handler, local
  <2> QED
    BY <2>1, <2>2, <2>3
<1>2. TypeOK'
  OBVIOUS
<1>3. SemaInv'
  BY <1>1 DEF SemaInv
<1>7. FreshInv'
  <2> SUFFICES ASSUME NEW r \in Slots
               PROVE  line[r] <= data[r] /\ data[r] <= buffer'[r] /\ buffer'[r] <= received
    BY DEF FreshInv
  <2>1. /\ line[r] \in Nat /\ data[r] \in Nat /\ buffer[r] \in Nat /\ buffer'[r] \in Nat
        /\ line[r] <= data[r] /\ data[r] <= buffer[r] /\ buffer[r] <= received
    BY <1>1 DEF FreshInv
  <2>2. buffer'[r] >= buffer[r] /\ (buffer'[r] = received \/ buffer'[r] = buffer[r])
    BY <1>1
  <2> HIDE DEF StoreSlot, IInv, TypeOK, handler, local
  <2> QED
    BY <1>1, <2>1, <2>2
<1>4. StoredInv'
  <2>1. main = "copy" /\ main' = "copy" /\ received' = received /\ length' = length
    OBVIOUS
  <2>2. ASSUME NEW r \in 1 .. length PROVE buffer'[r] > 0 /\ buffer'[r] >= Complete
    <3>1. r \in Slots /\ buffer[r] > 0 /\ buffer[r] >= Complete
      BY DEF StoredInv
    <3>2. buffer'[r] >= buffer[r] /\ buffer[r] \in Nat /\ buffer'[r] \in Nat /\ Complete \in Int
      BY <1>1, <3>1 DEF Complete
    <3> HIDE DEF StoreSlot, IInv, TypeOK, handler, local
    <3> QED
      BY <3>1, <3>2
  <2>3. Complete' = Complete
    BY DEF Complete
  <2> QED
    BY <1>1, <2>1, <2>2, <2>3 DEF StoredInv
<1>5. CopyInv'
  BY <1>1 DEF CopyInv, InCopy, Writing
<1>6. FloorInv'
  <2>1. ASSUME NEW r \in uncopied PROVE buffer'[r] >= floor
    <3>1. r \in Slots /\ buffer[r] >= floor
      BY DEF FloorInv
    <3>2. buffer'[r] >= buffer[r] /\ buffer[r] \in Nat /\ buffer'[r] \in Nat /\ floor \in Nat
      BY <1>1, <3>1
    <3> HIDE DEF StoreSlot, IInv, TypeOK, handler, local
    <3> QED
      BY <3>1, <3>2
  <2> QED
    BY <2>1 DEF FloorInv, InCopy, Writing
<1> QED
  BY <1>2, <1>3, <1>4, <1>5, <1>6, <1>7

LEMMA HandlerIInv == IInv /\ (StoreLength \/ StoreChanged \/ Release) => IInv'
<1> SUFFICES ASSUME IInv, StoreLength \/ StoreChanged \/ Release PROVE IInv'
  OBVIOUS
<1> USE LengthAssumption, FramesAssumption
    DEF LengthAssumption, FramesAssumption, IInv, TypeOK, Slots, handler, local
<1>1. /\ UNCHANGED <<received, len, buffer, local, line>>
      /\ length' = length \/ (length' = len /\ Stored /\ main = "copy")
  <2>1. CASE StoreLength
    BY <2>1 DEF StoreLength
  <2>2. CASE StoreChanged
    BY <2>2 DEF StoreChanged
  <2>3. CASE Release
    BY <2>3 DEF Release
  <2> QED
    BY <2>1, <2>2, <2>3
<1>2. TypeOK' /\ SemaInv'
  <2>1. CASE StoreLength
    BY <1>1, <2>1 DEF StoreLength, SemaInv
  <2>2. CASE StoreChanged
    BY <1>1, <2>2 DEF StoreChanged, SemaInv
  <2>3. CASE Release
    <3>1. main = "release" /\ main' = "idle" /\ sema' = sema + 1 /\ received' = received
      BY <2>3 DEF Release
    <3>2. sema \in Nat /\ received \in 0 .. MaxFrames /\ sema < received
      BY <3>1 DEF SemaInv
    <3>3. sema' \in 0 .. MaxFrames /\ SemaInv'
      BY <3>1, <3>2 DEF SemaInv
    <3> QED
      BY <1>1, <2>3, <3>3 DEF Release
  <2> QED
    BY <2>1, <2>2, <2>3
<1>3. FreshInv'
  BY <1>1 DEF FreshInv
<1>4. StoredInv'
  <2>1. CASE StoreLength
    <3>1. /\ main' = "changed" /\ received > 0 /\ Stored /\ Stored'
          /\ length' = len /\ Complete' = received
      BY <1>1, <2>1 DEF StoreLength, StoredInv, Stored, Complete
    <3>2. \A s \in 1 .. len : buffer[s] = received
      BY <3>1 DEF Stored
    <3> QED
      BY <1>1, <3>1, <3>2 DEF StoredInv
  <2>2. CASE StoreChanged \/ Release
    <3>1. /\ main \in {"changed", "release"} /\ main' \in {"release", "idle"}
          /\ length' = length /\ Complete' = Complete
      BY <1>1, <2>2 DEF StoreChanged, Release, Complete
    <3> QED
      BY <1>1, <3>1 DEF StoredInv, Stored
  <2> QED
    BY <2>1, <2>2
<1>5. CopyInv'
  BY <1>1 DEF CopyInv, InCopy, Writing
<1>6. FloorInv'
  BY <1>1 DEF FloorInv, InCopy, Writing
<1> QED
  BY <1>2, <1>3, <1>4, <1>5, <1>6

\* The steps of the thread outside of its copies.
LEMMA LoopIInv ==
  IInv /\ (Acquire \/ Refresh \/ NoRefresh \/ ReadChanged) => IInv'
<1> SUFFICES ASSUME IInv, Acquire \/ Refresh \/ NoRefresh \/ ReadChanged PROVE IInv'
  OBVIOUS
<1> USE LengthAssumption, FramesAssumption
    DEF LengthAssumption, FramesAssumption, IInv, TypeOK, Slots, handler, shared
<1>1. /\ UNCHANGED <<handler, buffer, length, changed, uncopied, data, dlength, floor, line>>
      /\ ~InCopy /\ ~InCopy' /\ ~Writing'
  BY DEF Acquire, Refresh, RefreshAlways, NoRefresh, ReadChanged, InCopy, Writing
<1>2. sema' \in 0 .. MaxFrames /\ sema' <= sema
  <2>1. CASE Acquire
    BY <2>1 DEF Acquire
  <2>2. CASE Refresh \/ NoRefresh \/ ReadChanged
    BY <2>2 DEF Refresh, NoRefresh, ReadChanged
  <2> QED
    BY <2>1, <2>2
<1>3. TypeOK'
  BY <1>1, <1>2 DEF Acquire, Refresh, RefreshAlways, NoRefresh, ReadChanged
<1>4. SemaInv'
  <2>1. main' = main /\ received' = received
    BY <1>1
  <2> QED
    BY <1>2, <2>1 DEF SemaInv
<1>6. FreshInv' /\ StoredInv'
  BY <1>1 DEF FreshInv, StoredInv, Stored, Complete
<1>5. CopyInv' /\ FloorInv'
  BY <1>1 DEF CopyInv, FloorInv, Complete
<1> QED
  BY <1>3, <1>4, <1>5, <1>6

LEMMA ReadLengthIInv == IInv /\ ReadLength => IInv'
<1> SUFFICES ASSUME IInv, ReadLength PROVE IInv'
  OBVIOUS
<1> USE LengthAssumption, FramesAssumption
    DEF LengthAssumption, FramesAssumption, IInv, TypeOK, Slots, handler, shared
<1>1. /\ UNCHANGED <<handler, shared, data, line>>
      /\ dlength' = length /\ uncopied' = 1 .. length /\ floor' = Complete
      /\ InCopy'
  BY DEF ReadLength, ToCopy, Copying, InCopy
<1>2. TypeOK'
  BY <1>1 DEF InCopy, Complete, SemaInv, StoredInv
<1>3. SemaInv' /\ FreshInv' /\ StoredInv'
  BY <1>1 DEF SemaInv, FreshInv, StoredInv, Stored, Complete
<1>4. CopyInv'
  BY <1>1 DEF CopyInv, StoredInv
<1>5. FloorInv'
  BY <1>1 DEF FloorInv, StoredInv, InCopy, Writing
<1> QED
  BY <1>2, <1>3, <1>4, <1>5

LEMMA CopySlotIInv == ASSUME NEW s \in Slots, IInv, CopySlot(s) PROVE IInv'
<1> USE LengthAssumption, FramesAssumption
    DEF LengthAssumption, FramesAssumption, IInv, TypeOK, Slots, handler, shared
<1>1. /\ UNCHANGED <<handler, shared, thread, dlength, floor, line>>
      /\ InCopy /\ s \in uncopied /\ uncopied' = uncopied \ {s}
      /\ data' \in [Slots -> 0 .. MaxFrames]
      /\ \A r \in Slots : data'[r] = IF r = s THEN buffer[r] ELSE data[r]
  BY DEF CopySlot, InCopy
<1>2. TypeOK'
  BY <1>1
<1>3. SemaInv' /\ StoredInv'
  BY <1>1 DEF SemaInv, StoredInv, Stored, Complete
<1>6. FreshInv'
  <2> SUFFICES ASSUME NEW r \in Slots
               PROVE  line[r] <= data'[r] /\ data'[r] <= buffer[r] /\ buffer[r] <= received
    BY <1>1 DEF FreshInv
  <2>1. /\ line[r] \in Nat /\ data[r] \in Nat /\ buffer[r] \in Nat
        /\ line[r] <= data[r] /\ data[r] <= buffer[r] /\ buffer[r] <= received
    BY DEF FreshInv
  <2>2. data'[r] = data[r] \/ data'[r] = buffer[r]
    BY <1>1
  <2> HIDE DEF IInv, TypeOK, handler, shared
  <2> QED
    BY <2>1, <2>2
<1>4. CopyInv'
  <2>1. InCopy /\ InCopy' /\ uncopied' \subseteq 1 .. dlength'
    BY <1>1 DEF CopyInv, InCopy
  <2>2. \A r \in uncopied' : buffer'[r] > 0
    BY <1>1 DEF CopyInv
  <2>3. ASSUME NEW r \in 1 .. dlength', r \notin uncopied'
        PROVE  data'[r] > 0
    <3>1. CASE r = s
      <4>1. data'[s] = buffer[s] /\ buffer[s] > 0
        BY <1>1 DEF CopyInv
      <4> QED
        BY <3>1, <4>1
    <3>2. CASE r # s
      <4>1. r \in 1 .. dlength /\ r \in Slots
        BY <1>1
      <4>3. r \notin uncopied
        BY <1>1, <2>3, <3>2
      <4>2. data'[r] = data[r]
        BY <1>1, <3>2, <4>1
      <4> QED
        BY <2>1, <4>1, <4>2, <4>3 DEF CopyInv
    <3> QED
      BY <3>1, <3>2
  <2> QED
    BY <2>1, <2>2, <2>3 DEF CopyInv
<1>5. FloorInv'
  <2>1. InCopy /\ InCopy' /\ floor' = floor /\ buffer' = buffer /\ dlength' = dlength
    BY <1>1 DEF InCopy
  <2>2. \A r \in uncopied : buffer[r] >= floor
    BY DEF FloorInv
  <2>3. ASSUME NEW r \in 1 .. dlength', r \notin uncopied'
        PROVE  data'[r] >= floor
    <3>1. CASE r = s
      <4>1. data'[s] = buffer[s] /\ buffer[s] >= floor
        BY <1>1, <2>2
      <4> QED
        BY <3>1, <4>1
    <3>2. CASE r # s
      <4>1. r \in 1 .. dlength /\ r \in Slots /\ r \notin uncopied
        BY <1>1, <2>3, <3>2
      <4>2. data'[r] = data[r]
        BY <1>1, <3>2, <4>1
      <4> QED
        BY <2>1, <4>1, <4>2 DEF FloorInv
    <3> QED
      BY <3>1, <3>2
  <2>4. uncopied' \subseteq uncopied
    BY <1>1
  <2> HIDE DEF IInv, TypeOK
  <2> QED
    BY <2>1, <2>2, <2>3, <2>4 DEF FloorInv
<1> QED
  BY <1>2, <1>3, <1>4, <1>5, <1>6

LEMMA CopiedIInv == IInv /\ Copied => IInv'
<1> SUFFICES ASSUME IInv, Copied PROVE IInv'
  OBVIOUS
<1> USE LengthAssumption, FramesAssumption
    DEF LengthAssumption, FramesAssumption, IInv, TypeOK, Slots, handler
<1>1. /\ UNCHANGED <<handler, buffer, length, sema, uncopied, data, dlength, floor, line>>
      /\ InCopy /\ uncopied = {} /\ Writing' /\ ~InCopy'
      /\ changed' \in BOOLEAN
  BY DEF Copied, InCopy, Writing
<1>2. TypeOK'
  BY <1>1 DEF Writing
<1>3. SemaInv' /\ FreshInv' /\ StoredInv'
  BY <1>1 DEF SemaInv, FreshInv, StoredInv, Stored, Complete
<1>4. CopyInv' /\ FloorInv'
  BY <1>1 DEF CopyInv, FloorInv, Complete
<1> QED
  BY <1>2, <1>3, <1>4

LEMMA WriteIInv == IInv /\ WriteDMX => IInv'
<1> SUFFICES ASSUME IInv, WriteDMX PROVE IInv'
  OBVIOUS
<1> USE LengthAssumption, FramesAssumption
    DEF LengthAssumption, FramesAssumption, IInv, TypeOK, Slots, handler, shared
<1>1. /\ UNCHANGED <<handler, shared, uncopied, data, dlength, floor>>
      /\ Writing /\ ~InCopy /\ ~InCopy' /\ ~Writing'
      /\ line' = [s \in Slots |-> IF s <= dlength THEN data[s] ELSE line[s]]
  BY DEF WriteDMX, Kept, InCopy, Writing
<1>2. TypeOK'
  BY <1>1 DEF WriteDMX
<1>3. SemaInv' /\ FreshInv' /\ StoredInv'
  BY <1>1 DEF SemaInv, FreshInv, StoredInv, Stored, Complete
<1>4. CopyInv' /\ FloorInv'
  BY <1>1 DEF CopyInv, FloorInv, Complete
<1> QED
  BY <1>2, <1>3, <1>4

LEMMA StepIInv == IInv /\ [Next]_vars => IInv'
<1> SUFFICES ASSUME IInv, [Next]_vars PROVE IInv'
  OBVIOUS
<1>1. CASE Packet
  BY <1>1, PacketIInv
<1>2. CASE Handler
  BY <1>2, StoreSlotIInv, HandlerIInv DEF Handler
<1>3. CASE DmxThread
  BY <1>3, LoopIInv, ReadLengthIInv, CopySlotIInv, CopiedIInv, WriteIInv DEF DmxThread
<1>4. CASE UNCHANGED vars
  BY <1>4 DEF vars, handler, shared, local, IInv, TypeOK, SemaInv, FreshInv, StoredInv,
     Stored, CopyInv, FloorInv, InCopy, Writing, Complete
<1> QED
  BY <1>1, <1>2, <1>3, <1>4 DEF Next

LEMMA Invariance == Spec => []IInv
  BY InitIInv, StepIInv, PTL DEF Spec

-----------------------------------------------------------------------------
(***************************************************************************)
(* The variables keep to their types; no slot beyond MaxLength is copied   *)
(* and the semaphore never counts more wake-ups than frames.               *)
(***************************************************************************)
THEOREM TypeCorrect == Spec => []TypeOK
<1>1. IInv => TypeOK
  BY DEF IInv
<1> QED
  BY <1>1, Invariance, PTL

(***************************************************************************)
(* No transmission has a slot that was never received.                     *)
(***************************************************************************)
THEOREM NothingUnreceived == Spec => []SentSlotsReceived
<1>1. IInv => SentSlotsReceived
  BY DEF IInv, CopyInv, SentSlotsReceived, InCopy, Writing
<1> QED
  BY <1>1, Invariance, PTL

(***************************************************************************)
(* A transmission is nowhere older than the frame that was complete when   *)
(* its copy began, whatever the handler stored during the copy.            *)
(***************************************************************************)
THEOREM FreshnessKept == Spec => []CompleteFrameSent
<1>1. IInv => CompleteFrameSent
  BY DEF IInv, CopyInv, FloorInv, CompleteFrameSent, InCopy, Writing
<1> QED
  BY <1>1, Invariance, PTL

(***************************************************************************)
(* The port implements DmxOutput: Packet is Receive, WriteDMX is Transmit, *)
(* and no other step changes what can be seen of the port.                 *)
(***************************************************************************)
THEOREM BufferImplementsOutput == Spec => OutputSpec
<1>1. Init => Output!Init
  BY DEF Init, Output!Init
<1>2. ASSUME IInv, [Next]_vars PROVE [Output!Next]_<<received, line>>
  <2>1. CASE Packet
    BY <2>1 DEF Packet, Output!Next, Output!Receive
  <2>2. CASE WriteDMX
    <3>1. ASSUME NEW s \in Slots PROVE line'[s] \in 0 .. received /\ line'[s] >= line[s]
      <4>1. line'[s] = data[s] \/ line'[s] = line[s]
        BY <2>2 DEF WriteDMX, Kept
      <4>2. line[s] \in Nat /\ data[s] \in Nat /\ buffer[s] \in Nat /\ received \in Nat
        BY <1>2 DEF IInv, TypeOK
      <4>3. line[s] <= data[s] /\ data[s] <= buffer[s] /\ buffer[s] <= received
        BY <1>2 DEF IInv, FreshInv
      <4> QED
        BY <4>1, <4>2, <4>3
    <3> QED
      BY <2>2, <3>1 DEF WriteDMX, handler, Output!Next, Output!Transmit
  <2>3. CASE Handler
    BY <2>3 DEF Handler, StoreSlot, StoreLength, StoreChanged, Release, handler
  <2>4. CASE DmxThread /\ ~WriteDMX
    BY <2>4 DEF DmxThread, Acquire, Refresh, NoRefresh, ReadChanged, ReadLength, CopySlot,
       Copied, handler
  <2>5. CASE UNCHANGED vars
    BY <2>5 DEF vars, handler
  <2> QED
    BY <1>2, <2>1, <2>2, <2>3, <2>4, <2>5 DEF Next
<1> QED
  BY <1>1, <1>2, Invariance, PTL DEF Spec, OutputSpec, Output!Spec

=============================================================================
