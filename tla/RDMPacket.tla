------------------------------ MODULE RDMPacket ------------------------------
(***************************************************************************)
(* The RDM codec (src/src/rdm.cpp) and the decoding of proxied-device      *)
(* lists (getProxyTOD in src/src/openrdm_device.cpp), on frames that       *)
(* travel from a responder to this device: followed by other bytes,        *)
(* damaged, cut short or in collision.  And the trimming of a controller's *)
(* request (rdm_thread in src/src/artnet_openrdm_node.cpp).                *)
(*                                                                         *)
(* Responders are external: they use the format of writePacket(), and for  *)
(* DISC_UNIQUE_BRANCH the one DiscoveryResponseRDMPacket() decodes.        *)
(***************************************************************************)
EXTENDS RDMUID

CONSTANTS
  Words,    \* Bound: the words that UIDs are made of.
  Lists,    \* Bound: the numbers of devices in a proxy's list.
  Lengths   \* Bound: the lengths of other parameter data.

RDM_START_CODE     == 204   \* 0xcc
RDM_SUB_START_CODE == 1
RDM_MAX_PDL        == 231

ASSUME BoundsAssumption ==
  /\ Words \subseteq Word
  /\ Lists \subseteq 0 .. 38 /\ Lengths \subseteq 0 .. RDM_MAX_PDL

VARIABLES
  stage,  \* "idle", "line" or "received".
  kind,   \* What is sent: a "packet", a "branch" answer, or a controller's "request".
  sent,   \* The packet, or the UIDs of the responders, sent last.
  line,   \* The bytes on the line, or of the Art-Net message.
  fault,  \* What happened to them: "none", "trailed", "damaged", "cut", "collided".
  got     \* What was decoded or passed on: a set of at most one value.

vars == <<stage, kind, sent, line, fault, got>>

(***************************************************************************)
(* Buffers, with indices from 0 as in the code; they are zero beyond what  *)
(* was received.                                                           *)
(***************************************************************************)
At(data, i)       == IF i < Len(data) THEN data[i + 1] ELSE 0
Slice(data, i, n) == [k \in 1 .. n |-> At(data, i + k - 1)]

\* The sum of the first n bytes; sum[<<i, j>>] is that of the bytes from i up to j.
\* (By halves, for the sake of TLC's stack; lemma SumIsSum: the same as one by one.)
ByteSum(data, n) ==
  LET sum[r \in (0 .. n) \X (0 .. n)] ==
        LET middle == (r[1] + r[2]) \div 2
        IN  IF r[2] <= r[1] THEN 0
            ELSE IF r[2] = r[1] + 1 THEN At(data, r[1])
            ELSE sum[<<r[1], middle>>] + sum[<<middle, r[2]>>]
  IN  sum[<<0, n>>]

\* The 16-bit sum of n bytes, counted from `start'.
Checksum(start, data, n) == (start + ByteSum(data, n)) % 65536

Capped(pdl) == IF pdl < RDM_MAX_PDL THEN pdl ELSE RDM_MAX_PDL

(***************************************************************************)
(* Packets.                                                                *)
(***************************************************************************)
\* Variant: the checksum leaves out the start code.
ChecksumFromZero == 0
ChecksumStart == RDM_START_CODE

writePacket(p) ==
  LET pdl  == Capped(p.pdl)
      body == <<RDM_SUB_START_CODE, 24 + pdl>> \o writeUID(p.dest) \o writeUID(p.src)
              \o <<p.transaction_number, p.port_id_resp_type, p.message_count>>
              \o Bytes(p.sub_device) \o <<p.cc>> \o Bytes(p.pid)
              \o <<p.pdl>> \o SubSeq(p.pdata, 1, pdl)
  IN  body \o Bytes(Checksum(ChecksumStart, body, Len(body)))

\* What the driver puts on the line.
Frame(p) == <<RDM_START_CODE>> \o writePacket(p)

\* Variant: only the low byte of the checksum is compared.
LowByteMatches(data, n) == At(data, n + 1) = Low(Checksum(0, data, n))
ChecksumMatches(data, n) == Slice(data, n, 2) = Bytes(Checksum(0, data, n))

IsPacket(data, length) ==
  /\ length >= 26
  /\ Slice(data, 0, 2) = <<RDM_START_CODE, RDM_SUB_START_CODE>>
  /\ At(data, 2) <= length - 2
  /\ ChecksumMatches(data, At(data, 2))

Fields(data) ==
  [dest |-> getUID(Slice(data, 3, 6)), src |-> getUID(Slice(data, 9, 6)),
   transaction_number |-> At(data, 15), port_id_resp_type |-> At(data, 16),
   message_count |-> At(data, 17), sub_device |-> ToWord(At(data, 18), At(data, 19)),
   cc |-> At(data, 20), pid |-> ToWord(At(data, 21), At(data, 22)), pdl |-> At(data, 23),
   pdata |-> Slice(data, 24, Capped(At(data, 23)))]

Parse(uid, data, length) ==
  {p \in {Fields(data)} : IsPacket(data, length) /\ Accepts(uid, p.dest)}

(***************************************************************************)
(* Answers to DISC_UNIQUE_BRANCH: every byte is sent twice, with the even  *)
(* and with the odd bits set.                                              *)
(***************************************************************************)
\* The bits of a byte that are set, as their values; & and | of two bytes.
Bits    == {1, 2, 4, 8, 16, 32, 64, 128}
Ones(b) == {v \in Bits : (b \div v) % 2 = 1}

ByteOf(ones) ==
  LET bit(v) == IF v \in ones THEN v ELSE 0
  IN  bit(1) + bit(2) + bit(4) + bit(8) + bit(16) + bit(32) + bit(64) + bit(128)

BitAnd(a, b) == ByteOf(Ones(a) \cap Ones(b))
BitOr(a, b)  == ByteOf(Ones(a) \cup Ones(b))

Twice(data) ==
  [k \in 1 .. 2 * Len(data) |-> BitOr(data[(k + 1) \div 2], IF k % 2 = 1 THEN 170 ELSE 85)]

BranchAnswer(uid, preamble) ==
  LET euid == Twice(writeUID(uid))
  IN  [k \in 1 .. preamble |-> 254] \o <<170>> \o euid \o Twice(Bytes(Checksum(0, euid, 12)))

\* Variant: one preamble byte less is skipped.
ShortPreamble == 6
MaxPreamble == 7

Skipped(data) ==
  LET start == IF At(data, 0) = RDM_START_CODE THEN 1 ELSE 0
  IN  CHOOSE i \in start .. start + MaxPreamble :
        /\ \A k \in start .. i - 1 : At(data, k) = 254
        /\ i < start + MaxPreamble => At(data, i) # 254

Halved(data, i, n) ==
  [k \in 1 .. n |-> BitAnd(At(data, i + 2 * k - 2), At(data, i + 2 * k - 1))]

\* Variant: the checksum of the answer is not compared.
EncodedUnchecked(data, i) == TRUE
EncodedMatches(data, i) == Halved(data, i + 13, 2) = Bytes(Checksum(0, Slice(data, i + 1, 12), 12))

ParseBranch(data, length) ==
  LET i == Skipped(data)
  IN  {u \in {getUID(Halved(data, i + 1, 6))} :
         /\ length >= 17 /\ length - i >= 17
         /\ At(data, i) = 170
         /\ EncodedMatches(data, i)}

(***************************************************************************)
(* getProxyTOD(): the UIDs in an answer to GET PROXIED_DEVICES.            *)
(***************************************************************************)
\* Variant: the longest list is taken for too long.
ListTooShort == 227
MaxListLength == 228

ProxyTOD(p) ==
  IF p.pdl > MaxListLength
  THEN <<>>
  ELSE [k \in 1 .. (p.pdl + 5) \div 6 |-> getUID(Slice(p.pdata, 6 * (k - 1), 6))]

(***************************************************************************)
(* rdm_thread: how much of an Art-Net message goes to the line.            *)
(***************************************************************************)
\* Variant: the length byte does not count the second byte of the checksum.
LengthTooShort(data) == data[2]
PacketLength(data) == 1 + data[2]

PassedOn(data) ==
  IF Len(data) > 2 /\ data[1] = RDM_SUB_START_CODE /\ PacketLength(data) < Len(data)
  THEN SubSeq(data, 1, PacketLength(data))
  ELSE data

(***************************************************************************)
(* The responders, the controllers of the Art-Net network, and the line.   *)
(***************************************************************************)
SampleUIDs == {<<a, b, c>> : a, b, c \in Words}
Own        == generateUID(1, 258)
Listed(n)  == [k \in 1 .. n |-> <<RDM_UID_MFR, k, 65535 - k>>]

ListData(n) == [k \in 1 .. 6 * n |-> writeUID(Listed(n)[(k + 5) \div 6])[((k + 5) % 6) + 1]]

Payloads == {ListData(n) : n \in Lists} \cup {[k \in 1 .. n |-> 255 - k] : n \in Lengths}

Packet(dest, pdata) ==
  [dest |-> dest, src |-> <<65535, 257, 2>>, transaction_number |-> 255,
   port_id_resp_type |-> 3, message_count |-> 4, sub_device |-> 1286, cc |-> 33,
   pid |-> 16, pdl |-> Len(pdata), pdata |-> pdata]

SendPacket(dest, pdata) ==
  /\ stage = "idle" /\ stage' = "line" /\ kind' = "packet"
  /\ sent' = Packet(dest, pdata)
  /\ line' = Frame(sent')
  /\ fault' = "none" /\ got' = {}

\* An Art-Net message has no start code.
SendRequest(dest, pdata) ==
  /\ stage = "idle" /\ stage' = "line" /\ kind' = "request"
  /\ sent' = Packet(dest, pdata)
  /\ line' = writePacket(sent')
  /\ fault' = "none" /\ got' = {}

SendBranch(uid, preamble) ==
  /\ stage = "idle" /\ stage' = "line" /\ kind' = "branch"
  /\ sent' = {uid}
  /\ line' = BranchAnswer(uid, preamble)
  /\ fault' = "none" /\ got' = {}

Disturb(how, data) ==
  /\ stage = "line" /\ fault = "none"
  /\ fault' = how /\ line' = data
  /\ UNCHANGED <<stage, kind, got>>

\* Bytes of another answer, or of the DMX stream, or padding, follow.
Trail(byte) ==
  /\ Disturb("trailed", line \o <<byte, byte, byte>>)
  /\ UNCHANGED sent

\* One byte is damaged.  (Not the length byte: it moves the checksum.)
Damage(i, byte) ==
  /\ kind # "request" /\ i # 3 /\ byte # line[i]
  /\ Disturb("damaged", [line EXCEPT ![i] = byte])
  /\ UNCHANGED sent

Cut(n) ==
  /\ kind # "request"
  /\ Disturb("cut", SubSeq(line, 1, n))
  /\ UNCHANGED sent

\* Two answers at once, of other preambles maybe: each bit is set that one of
\* them sets.
Collide(uid, preamble) ==
  /\ kind = "branch" /\ uid \notin sent
  /\ LET other == BranchAnswer(uid, preamble)
         both  == [i \in DOMAIN line \cup DOMAIN other |-> BitOr(At(line, i - 1), At(other, i - 1))]
     IN  Disturb("collided", both)
  /\ sent' = sent \cup {uid}

Receive ==
  /\ stage = "line" /\ stage' = "received"
  /\ got' = CASE kind = "packet"  -> Parse(Own, line, Len(line))
              [] kind = "branch"  -> ParseBranch(line, Len(line))
              [] kind = "request" -> {PassedOn(line)}
  /\ UNCHANGED <<kind, sent, line, fault>>

Return ==
  /\ stage = "received" /\ stage' = "idle"
  /\ kind' = "none" /\ sent' = {} /\ line' = <<>> /\ fault' = "none" /\ got' = {}

-----------------------------------------------------------------------------
Init ==
  /\ stage = "idle" /\ kind = "none"
  /\ sent = {} /\ line = <<>> /\ fault = "none" /\ got = {}

Next ==
  \/ \E dest \in SampleUIDs \cup {Own}, pdata \in Payloads :
       SendPacket(dest, pdata) \/ SendRequest(dest, pdata)
  \/ \E uid \in SampleUIDs \ {RDM_UID_BROADCAST}, preamble \in 0 .. 7 : SendBranch(uid, preamble)
  \/ \E byte \in {0, 254} : Trail(byte)
  \/ \E i \in DOMAIN line, byte \in {0, 255} : Damage(i, byte)
  \/ \E n \in 0 .. Len(line) - 1 : Cut(n)
  \/ \E uid \in SampleUIDs, preamble \in {0, 1, 7} : Collide(uid, preamble)
  \/ Receive \/ Return

Spec == Init /\ [][Next]_vars

-----------------------------------------------------------------------------
\* The values the variables may take.
TypeOK ==
  /\ stage \in {"idle", "line", "received"}
  /\ kind \in {"none", "packet", "branch", "request"}
  /\ line \in Seq(Byte)
  /\ fault \in {"none", "trailed", "damaged", "cut", "collided"}
  /\ \A p, q \in got : p = q

Received(what) == stage = "received" /\ kind = what
Whole          == fault \in {"none", "trailed"}

(***************************************************************************)
(* What writePacket() makes of a packet, RDMPacket() reads back, whatever  *)
(* follows it on the line; a packet for another device is refused.         *)
(***************************************************************************)
PacketRoundTrip ==
  Received("packet") /\ Whole => got = IF Accepts(Own, sent.dest) THEN {sent} ELSE {}

(***************************************************************************)
(* What is cut short, or damaged in one byte, is not taken for something   *)
(* else that might have been sent.                                         *)
(***************************************************************************)
DamageDetected ==
  stage = "received" /\ fault \in {"damaged", "cut"} =>
    IF kind = "branch" THEN got \subseteq sent ELSE got = {}

(***************************************************************************)
(* The answer of a single device to DISC_UNIQUE_BRANCH is decoded to its   *)
(* UID, after any preamble, whatever follows it.                           *)
(***************************************************************************)
BranchRoundTrip ==
  Received("branch") /\ Whole => got = sent

(***************************************************************************)
(* A collision is noticed or decoded to the union of the two UIDs, also    *)
(* when the answers begin at different times, so that bytes of one meet    *)
(* different bytes of the other.  The union need not be the UID of either  *)
(* device: discover() then asks for one that does not exist (Phantom in    *)
(* module Discovery).                                                      *)
(***************************************************************************)
CollisionIsUnion ==
  Received("branch") /\ fault = "collided" =>
    \A u \in got, a, b \in sent :
      a # b => writeUID(u) = [k \in 1 .. 6 |-> BitOr(writeUID(a)[k], writeUID(b)[k])]

(***************************************************************************)
(* A proxy's list arrives as it was sent, also an empty one and the        *)
(* longest one that fits into a packet.                                    *)
(***************************************************************************)
ProxyListRead ==
  Received("packet") /\ Whole =>
    \A p \in got, n \in Lists : sent.pdata = ListData(n) => ProxyTOD(p) = Listed(n)

(***************************************************************************)
(* A controller's request goes to the line as it was written, checksum     *)
(* included and without the padding of its Art-Net message.                *)
(***************************************************************************)
RequestPassedOn == Received("request") => got = {writePacket(sent)}

=============================================================================
