--------------------------- MODULE RDMPacket_proofs ---------------------------
(***************************************************************************)
(* Theorems about module RDMPacket.  Those about the codec are for packets *)
(* of any content and UIDs of any value: what is written is read back,     *)
(* damage is noticed, and collided answers decode to a union.  Those about *)
(* the specification follow from them by an invariant that says how the    *)
(* bytes on the line have come about.                                      *)
(***************************************************************************)
EXTENDS RDMPacket, UIDList_proofs

-----------------------------------------------------------------------------
(***************************************************************************)
(* UIDs: theorems about module RDMUID, for all 2^48 of them.               *)
(***************************************************************************)
\* Bytes and words by their bounds.
LEMMA ByteBounds == \A b : b \in Byte <=> b \in Nat /\ b < 256
BY DEF Byte

LEMMA WordBounds == \A w : w \in Word <=> w \in Nat /\ w < 65536
<1>1. ASSUME NEW w \in Word PROVE w \in Nat /\ w < 65536
  <2>1. PICK high \in Byte, low \in Byte : w = 256 * high + low
    BY DEF Word, ToWord
  <2>2. high \in Nat /\ high < 256 /\ low \in Nat /\ low < 256
    BY ByteBounds
  <2> QED
    BY <2>1, <2>2
<1>2. ASSUME NEW w \in Nat, w < 65536 PROVE w \in Word
  <2>1. /\ w \div 256 \in Nat /\ w \div 256 < 256
        /\ w % 256 \in Nat /\ w % 256 < 256
        /\ w = 256 * (w \div 256) + (w % 256)
    BY <1>2
  <2>2. w \div 256 \in Byte /\ w % 256 \in Byte
    BY <2>1, ByteBounds
  <2> QED
    BY <2>1, <2>2 DEF Word, ToWord
<1> QED
  BY <1>1, <1>2

\* Any 16-bit word is put together again from its two bytes.
LEMMA WordRoundTrip ==
  ASSUME NEW w \in Word
  PROVE  High(w) \in Byte /\ Low(w) \in Byte /\ ToWord(High(w), Low(w)) = w
<1>1. w \in Nat /\ w < 65536
  BY WordBounds
<1>2. /\ w \div 256 \in Nat /\ w \div 256 < 256
      /\ w % 256 \in Nat /\ w % 256 < 256
      /\ 256 * (w \div 256) + (w % 256) = w
  BY <1>1
<1>3. High(w) = w \div 256 /\ Low(w) = w % 256
  BY DEF High, Low
<1>4. ToWord(High(w), Low(w)) = 256 * (w \div 256) + (w % 256)
  BY <1>3 DEF ToWord
<1> QED
  BY <1>2, <1>3, <1>4, ByteBounds

(***************************************************************************)
(* getUID() reads what writeUID() writes: six bytes, for every UID.        *)
(***************************************************************************)
THEOREM UIDRoundTrip ==
  ASSUME NEW m \in Word, NEW h \in Word, NEW l \in Word
  PROVE  /\ \A k \in 1 .. 6 : writeUID(<<m, h, l>>)[k] \in Byte
         /\ getUID(writeUID(<<m, h, l>>)) = <<m, h, l>>
<1>1. writeUID(<<m, h, l>>) = <<High(m), Low(m), High(h), Low(h), High(l), Low(l)>>
  BY DEF writeUID
<1>2. ASSUME NEW k \in 1 .. 6 PROVE writeUID(<<m, h, l>>)[k] \in Byte
  BY <1>1, WordRoundTrip
<1>3. getUID(writeUID(<<m, h, l>>))
        = <<ToWord(High(m), Low(m)), ToWord(High(h), Low(h)), ToWord(High(l), Low(l))>>
  BY <1>1 DEF getUID
<1> QED
  BY <1>2, <1>3, WordRoundTrip

(***************************************************************************)
(* The node's own UID is the address of a device for every hash but one:   *)
(* 0xFFFFFFFF gives the manufacturer's broadcast address, which the test   *)
(* for 0xFFFF in generateUID() means to exclude.                           *)
(***************************************************************************)
THEOREM GeneratedUID ==
  ASSUME NEW high \in Word, NEW low \in Word
  PROVE  hasRx(generateUID(high, low)) <=> ~(high = 65535 /\ low = 65535)
<1> DEFINE uid == generateUID(high, low)
<1>1. uid[1] # 65535 /\ uid[2] = high
  BY DEF generateUID, RDM_UID_MFR
<1>2. uid[3] = IF high = 0 /\ low = 65535 THEN 65534 ELSE low
  BY DEF generateUID
<1>3. uid # RDM_UID_BROADCAST
  BY <1>1 DEF RDM_UID_BROADCAST
<1> QED
  BY <1>1, <1>2, <1>3 DEF hasRx

-----------------------------------------------------------------------------
(***************************************************************************)
(* Buffers.                                                                *)
(***************************************************************************)
Buffer == Seq(Byte)

LEMMA AtByte ==
  ASSUME NEW s \in Buffer, NEW i \in Nat
  PROVE  At(s, i) \in Byte /\ At(s, i) \in Nat /\ At(s, i) < 256
<1> SUFFICES At(s, i) \in Byte
  BY ByteBounds
<1>1. CASE i < Len(s)
  <2>1. i + 1 \in 1 .. Len(s)
    BY <1>1 DEF Buffer
  <2> QED
    BY <1>1, <2>1, ElementOfSeq DEF At, Buffer
<1>2. CASE ~(i < Len(s))
  <2>1. At(s, i) = 0
    BY <1>2 DEF At
  <2> QED
    BY <2>1, ByteBounds
<1> QED
  BY <1>1, <1>2

LEMMA AtConcat ==
  ASSUME NEW s \in Buffer, NEW t \in Buffer, NEW i \in Nat
  PROVE  At(s \o t, i) = IF i < Len(s) THEN At(s, i) ELSE At(t, i - Len(s))
<1>1. /\ Len(s \o t) = Len(s) + Len(t) /\ Len(s) \in Nat /\ Len(t) \in Nat
      /\ \A k \in 1 .. Len(s) + Len(t) :
           (s \o t)[k] = IF k <= Len(s) THEN s[k] ELSE t[k - Len(s)]
  BY DEF Buffer
<1> QED
  BY <1>1 DEF At

\* The sums of the bytes one after the other.
IsSum(f, data, n) ==
  /\ f \in [0 .. n -> Nat]
  /\ f[0] = 0
  /\ \A k \in 1 .. n : f[k] = f[k - 1] + At(data, k - 1)

LEMMA SumExists ==
  ASSUME NEW data \in Buffer, NEW n \in Nat
  PROVE  \E f : IsSum(f, data, n)
<1> DEFINE g == [x \in Nat \X (1 .. n) |-> x[1] + At(data, x[2] - 1)]
<1>1. g \in [Nat \X (1 .. n) -> Nat]
  <2>1. ASSUME NEW x \in Nat \X (1 .. n) PROVE x[1] + At(data, x[2] - 1) \in Nat
    <3>1. x[1] \in Nat /\ x[2] - 1 \in Nat
      OBVIOUS
    <3>2. At(data, x[2] - 1) \in Nat
      BY <3>1, AtByte
    <3> QED
      BY <3>1, <3>2
  <2> QED
    BY <2>1
<1>2. \A a \in Nat, k \in 1 .. n : g[<<a, k>>] = a + At(data, k - 1)
  OBVIOUS
<1> HIDE DEF g
<1>3. PICK f \in [0 .. n -> Nat] : IsLoop(f, 0, n, g)
  BY <1>1, LoopExists
<1>4. ASSUME NEW k \in 1 .. n PROVE f[k] = f[k - 1] + At(data, k - 1)
  <2>1. k - 1 \in 0 .. n /\ f[k - 1] \in Nat
    BY <1>3
  <2> QED
    BY <1>2, <1>3, <2>1 DEF IsLoop
<1> QED
  BY <1>3, <1>4 DEF IsLoop, IsSum

\* By halves.
HalvesSum(h, data, n) ==
  h = [r \in (0 .. n) \X (0 .. n) |->
        LET middle == (r[1] + r[2]) \div 2
        IN  IF r[2] <= r[1] THEN 0
            ELSE IF r[2] = r[1] + 1 THEN At(data, r[1])
            ELSE h[<<r[1], middle>>] + h[<<middle, r[2]>>]]

LEMMA HalvesAgree ==
  ASSUME NEW data \in Buffer, NEW n \in Nat, NEW f, IsSum(f, data, n),
         NEW h, HalvesSum(h, data, n)
  PROVE  \A i, j \in 0 .. n : i <= j => h[<<i, j>>] = f[j] - f[i]
<1> DEFINE T == {d \in Nat : \A i, j \in 0 .. n : i <= j /\ j - i <= d => h[<<i, j>>] = f[j] - f[i]}
<1>0. \A i, j \in 0 .. n : 
        h[<<i, j>>] = IF j <= i THEN 0
                  ELSE IF j = i + 1 THEN At(data, i)
                  ELSE h[<<i, (i + j) \div 2>>] + h[<<(i + j) \div 2, j>>]
  BY DEF HalvesSum
<1>1. 0 \in T
  <2> SUFFICES ASSUME NEW i \in 0 .. n PROVE h[<<i, i>>] = f[i] - f[i]
    OBVIOUS
  <2> QED
    BY <1>0 DEF IsSum
<1>2. ASSUME NEW d \in Nat, d \in T PROVE d + 1 \in T
  <2> SUFFICES ASSUME NEW i \in 0 .. n, NEW j \in 0 .. n, i <= j, j - i <= d + 1
               PROVE  h[<<i, j>>] = f[j] - f[i]
    OBVIOUS
  <2>1. CASE j = i
    BY <1>1, <2>1
  <2>2. CASE j = i + 1
    <3>0. ~(j <= i)
      BY <2>2
    <3>1. h[<<i, j>>] = At(data, i)
      BY <1>0, <2>2, <3>0
    <3>2. j \in 1 .. n /\ j - 1 = i
      BY <2>2
    <3>3. f[j] = f[i] + At(data, i)
      BY <3>2 DEF IsSum
    <3>4. f[i] \in Nat /\ At(data, i) \in Nat
      BY AtByte DEF IsSum
    <3> QED
      BY <3>1, <3>3, <3>4
  <2>3. CASE j > i + 1
    <3> DEFINE m == (i + j) \div 2
    <3>1. m \in 0 .. n /\ i < m /\ m < j
      BY <2>3
    <3>2. h[<<i, j>>] = h[<<i, m>>] + h[<<m, j>>]
      BY <1>0, <2>3
    <3> HIDE DEF m
    <3>3. h[<<i, m>>] = f[m] - f[i] /\ h[<<m, j>>] = f[j] - f[m]
      BY <1>2, <3>1
    <3>4. f[i] \in Nat /\ f[m] \in Nat /\ f[j] \in Nat
      BY <3>1 DEF IsSum
    <3> QED
      BY <3>2, <3>3, <3>4
  <2> QED
    BY <2>1, <2>2, <2>3
<1>3. Nat \subseteq T
  <2> HIDE DEF T
  <2> QED
    BY <1>1, <1>2, SetInduction
<1> QED
  <2> SUFFICES ASSUME NEW i \in 0 .. n, NEW j \in 0 .. n, i <= j PROVE h[<<i, j>>] = f[j] - f[i]
    OBVIOUS
  <2>1. j - i \in T
    BY <1>3
  <2> QED
    BY <2>1

LEMMA HalvesExist ==
  ASSUME NEW data \in Buffer, NEW n \in Nat, NEW f, IsSum(f, data, n)
  PROVE  \E h : HalvesSum(h, data, n)
<1> DEFINE h == [r \in (0 .. n) \X (0 .. n) |-> IF r[2] <= r[1] THEN 0 ELSE f[r[2]] - f[r[1]]]
<1>1. \A i, j \in 0 .. n : h[<<i, j>>] = IF j <= i THEN 0 ELSE f[j] - f[i]
  OBVIOUS
<1>2. ASSUME NEW i \in 0 .. n, NEW j \in 0 .. n
      PROVE  h[<<i, j>>] = IF j <= i THEN 0
                       ELSE IF j = i + 1 THEN At(data, i)
                       ELSE h[<<i, (i + j) \div 2>>] + h[<<(i + j) \div 2, j>>]
  <2>1. CASE j <= i
    BY <1>1, <2>1
  <2>2. CASE j = i + 1
    <3>1. j \in 1 .. n /\ j - 1 = i /\ ~(j <= i)
      BY <2>2
    <3>2. f[j] = f[i] + At(data, i)
      BY <3>1 DEF IsSum
    <3>3. f[i] \in Nat /\ At(data, i) \in Nat
      BY AtByte DEF IsSum
    <3>4. h[<<i, j>>] = At(data, i)
      BY <1>1, <3>1, <3>2, <3>3
    <3> QED
      BY <2>2, <3>1, <3>4
  <2>3. CASE j > i + 1
    <3> DEFINE m == (i + j) \div 2
    <3>1. m \in 0 .. n /\ i < m /\ m < j
      BY <2>3
    <3>2. h[<<i, j>>] = f[j] - f[i] /\ h[<<i, m>>] = f[m] - f[i] /\ h[<<m, j>>] = f[j] - f[m]
      BY <1>1, <2>3, <3>1
    <3>3. f[i] \in Nat /\ f[m] \in Nat /\ f[j] \in Nat
      BY <3>1 DEF IsSum
    <3>4. h[<<i, j>>] = h[<<i, m>>] + h[<<m, j>>]
      <4> HIDE DEF h, m
      <4> QED
        BY <3>2, <3>3
    <3> QED
      BY <2>3, <3>4
  <2> QED
    BY <2>1, <2>2, <2>3
<1>3. h = [r \in (0 .. n) \X (0 .. n) |-> h[r]]
  OBVIOUS
<1>4. HalvesSum(h, data, n)
  <2> HIDE DEF h
  <2>1. ASSUME NEW r \in (0 .. n) \X (0 .. n)
        PROVE  h[r] = LET middle == (r[1] + r[2]) \div 2
                      IN  IF r[2] <= r[1] THEN 0
                          ELSE IF r[2] = r[1] + 1 THEN At(data, r[1])
                          ELSE h[<<r[1], middle>>] + h[<<middle, r[2]>>]
    <3>1. PICK i \in 0 .. n, j \in 0 .. n : r = <<i, j>>
      OBVIOUS
    <3>2. r[1] = i /\ r[2] = j
      BY <3>1
    <3> QED
      BY <1>2, <3>1, <3>2
  <2> QED
    BY <1>3, <2>1 DEF HalvesSum
<1> QED
  BY <1>4

LEMMA SumIsSum ==
  ASSUME NEW data \in Buffer, NEW n \in Nat
  PROVE  \E f : IsSum(f, data, n) /\ ByteSum(data, n) = f[n]
<1>1. PICK f : IsSum(f, data, n)
  BY SumExists
<1> DEFINE h == CHOOSE h : HalvesSum(h, data, n)
<1>2. HalvesSum(h, data, n)
  BY <1>1, HalvesExist
<1>3. ByteSum(data, n) = h[<<0, n>>]
  BY DEF ByteSum, HalvesSum
<1> HIDE DEF h
<1>4. h[<<0, n>>] = f[n] - f[0]
  BY <1>1, <1>2, HalvesAgree
<1>5. f[0] = 0 /\ f[n] \in Nat
  BY <1>1 DEF IsSum
<1> QED
  BY <1>1, <1>3, <1>4, <1>5

\* Buffers that differ in one byte at most.
LEMMA SumDifference ==
  ASSUME NEW d \in Buffer, NEW e \in Buffer, NEW n \in Nat, NEW i \in Nat,
         \A k \in 0 .. n - 1 : k # i => At(e, k) = At(d, k)
  PROVE  ByteSum(e, n) = ByteSum(d, n) + (IF i < n THEN At(e, i) - At(d, i) ELSE 0)
<1>1. PICK f : IsSum(f, d, n) /\ ByteSum(d, n) = f[n]
  BY SumIsSum
<1>2. PICK g : IsSum(g, e, n) /\ ByteSum(e, n) = g[n]
  BY SumIsSum
<1> DEFINE T == {k \in 0 .. n : g[k] = f[k] + (IF i < k THEN At(e, i) - At(d, i) ELSE 0)}
<1>3. 0 \in T
  BY <1>1, <1>2 DEF IsSum
<1>4. ASSUME NEW k \in 1 .. n, k - 1 \in T PROVE k \in T
  <2>1. k - 1 \in 0 .. n - 1 /\ k - 1 \in Nat
    OBVIOUS
  <2>2. f[k] = f[k - 1] + At(d, k - 1) /\ g[k] = g[k - 1] + At(e, k - 1)
    BY <1>1, <1>2 DEF IsSum
  <2>3. f[k - 1] \in Nat /\ g[k - 1] \in Nat
    BY <1>1, <1>2, <2>1 DEF IsSum
  <2>4. /\ At(d, k - 1) \in Int /\ At(e, k - 1) \in Int
        /\ At(d, i) \in Int /\ At(e, i) \in Int
    <3>1. \A m \in Nat : At(d, m) \in Nat /\ At(e, m) \in Nat
      BY AtByte
    <3> QED
      BY <2>1, <3>1
  <2>5. CASE i = k - 1
    BY <1>4, <2>2, <2>3, <2>4, <2>5
  <2>6. CASE i # k - 1
    <3>1. At(e, k - 1) = At(d, k - 1)
      BY <2>1, <2>6
    <3> QED
      BY <1>4, <2>2, <2>3, <2>4, <2>6, <3>1
  <2> QED
    BY <2>5, <2>6
<1>5. n \in T
  <2> HIDE DEF T
  <2> QED
    BY <1>3, <1>4, IntervalInduction
<1> QED
  BY <1>1, <1>2, <1>5

\* A byte in front of a buffer.
LEMMA SumShift ==
  ASSUME NEW d \in Buffer, NEW e \in Buffer, NEW n \in Nat,
         \A k \in 0 .. n - 1 : At(e, k + 1) = At(d, k)
  PROVE  ByteSum(e, n + 1) = At(e, 0) + ByteSum(d, n)
<1>1. PICK f : IsSum(f, d, n) /\ ByteSum(d, n) = f[n]
  BY SumIsSum
<1>2. PICK g : IsSum(g, e, n + 1) /\ ByteSum(e, n + 1) = g[n + 1]
  BY SumIsSum
<1> DEFINE T == {k \in 0 .. n : g[k + 1] = At(e, 0) + f[k]}
<1>3. 0 \in T
  <2>1. g[1] = g[0] + At(e, 0) /\ g[0] = 0 /\ f[0] = 0
    BY <1>1, <1>2 DEF IsSum
  <2>2. At(e, 0) \in Int
    BY AtByte
  <2> QED
    BY <2>1, <2>2
<1>4. ASSUME NEW k \in 1 .. n, k - 1 \in T PROVE k \in T
  <2>1. k - 1 \in 0 .. n - 1 /\ k - 1 \in Nat /\ k + 1 \in 1 .. n + 1 /\ k \in Nat
    OBVIOUS
  <2>2. f[k] = f[k - 1] + At(d, k - 1)
    BY <1>1 DEF IsSum
  <2>3. g[k + 1] = g[k] + At(e, k)
    BY <1>2, <2>1 DEF IsSum
  <2>4. At(e, k) = At(d, k - 1)
    BY <2>1
  <2>5. g[k] = At(e, 0) + f[k - 1]
    BY <1>4
  <2>6. f[k - 1] \in Nat /\ At(e, 0) \in Nat /\ At(d, k - 1) \in Nat
    <3>1. \A m \in Nat : At(d, m) \in Nat /\ At(e, m) \in Nat
      BY AtByte
    <3>2. f[k - 1] \in Nat
      <4>1. k - 1 \in 0 .. n
        OBVIOUS
      <4> QED
        BY <1>1, <4>1 DEF IsSum
    <3> QED
      BY <2>1, <3>1, <3>2
  <2> QED
    BY <2>2, <2>3, <2>4, <2>5, <2>6
<1>5. n \in T
  <2> HIDE DEF T
  <2> QED
    BY <1>3, <1>4, IntervalInduction
<1> QED
  BY <1>1, <1>2, <1>5

LEMMA SumNatural ==
  ASSUME NEW d \in Buffer, NEW n \in Nat
  PROVE  ByteSum(d, n) \in Nat
<1>1. PICK f : IsSum(f, d, n) /\ ByteSum(d, n) = f[n]
  BY SumIsSum
<1> QED
  BY <1>1 DEF IsSum

\* Some other byte makes the check sum another one.
LEMMA ChecksumDiffers ==
  ASSUME NEW d \in Buffer, NEW e \in Buffer, NEW n \in Nat, NEW i \in Nat, i < n,
         \A k \in 0 .. n - 1 : k # i => At(e, k) = At(d, k),
         At(e, i) # At(d, i)
  PROVE  Checksum(0, e, n) # Checksum(0, d, n)
<1>1. ByteSum(e, n) = ByteSum(d, n) + (At(e, i) - At(d, i))
  BY SumDifference
<1>2. ByteSum(d, n) \in Nat /\ ByteSum(e, n) \in Nat
  BY SumNatural
<1>3. At(e, i) \in Nat /\ At(e, i) < 256 /\ At(d, i) \in Nat /\ At(d, i) < 256
  BY AtByte
<1>4. \A a, b, x, y \in Nat : x < 256 /\ y < 256 /\ x # y /\ b = a + (x - y)
                               => (0 + b) % 65536 # (0 + a) % 65536
  OBVIOUS
<1> QED
  BY <1>1, <1>2, <1>3, <1>4 DEF Checksum

LEMMA ChecksumWord ==
  ASSUME NEW d \in Buffer, NEW n \in Nat, NEW start \in Nat
  PROVE  Checksum(start, d, n) \in Word
<1>1. start + ByteSum(d, n) \in Nat
  BY SumNatural
<1>2. \A a \in Nat : a % 65536 \in Nat /\ a % 65536 < 65536
  OBVIOUS
<1> QED
  BY <1>1, <1>2, WordBounds DEF Checksum

-----------------------------------------------------------------------------
(***************************************************************************)
(* The bytes of a packet.                                                  *)
(***************************************************************************)
UIDSet == Word \X Word \X Word

\* A packet of any content: pdata holds what the array of 231 bytes can.
PacketSet ==
  {p \in [dest : UIDSet, src : UIDSet, transaction_number : Byte, port_id_resp_type : Byte,
          message_count : Byte, sub_device : Word, cc : Byte, pid : Word, pdl : Byte,
          pdata : Buffer] :
     Len(p.pdata) = Capped(p.pdl)}

LEMMA BytesOfWord ==
  ASSUME NEW w \in Word
  PROVE  Bytes(w) \in Buffer /\ Len(Bytes(w)) = 2 /\ At(Bytes(w), 0) = High(w)
         /\ At(Bytes(w), 1) = Low(w)
<1>1. High(w) \in Byte /\ Low(w) \in Byte
  BY WordRoundTrip
<1> QED
  BY <1>1 DEF Bytes, Buffer, At

LEMMA BytesOfUID ==
  ASSUME NEW u \in UIDSet
  PROVE  writeUID(u) \in Buffer /\ Len(writeUID(u)) = 6
<1>1. u[1] \in Word /\ u[2] \in Word /\ u[3] \in Word
  BY DEF UIDSet
<1>2. /\ High(u[1]) \in Byte /\ Low(u[1]) \in Byte /\ High(u[2]) \in Byte
      /\ Low(u[2]) \in Byte /\ High(u[3]) \in Byte /\ Low(u[3]) \in Byte
  BY <1>1, WordRoundTrip
<1> QED
  BY <1>2 DEF writeUID, Buffer

LEMMA UIDRead ==
  ASSUME NEW u \in UIDSet, NEW data \in Buffer, NEW i \in Nat,
         \A k \in Nat : k < 6 => At(data, i + k) = At(writeUID(u), k)
  PROVE  getUID(Slice(data, i, 6)) = u
<1>1. PICK a \in Word, b \in Word, c \in Word : u = <<a, b, c>>
  BY DEF UIDSet
<1>2. ASSUME NEW k \in 1 .. 6 PROVE Slice(data, i, 6)[k] = writeUID(u)[k]
  <2>1. Slice(data, i, 6)[k] = At(data, i + (k - 1))
    <3>1. i + k - 1 = i + (k - 1)
      OBVIOUS
    <3> QED
      BY <3>1 DEF Slice
  <2>2. k - 1 \in Nat /\ k - 1 < 6
    OBVIOUS
  <2>3. At(writeUID(u), k - 1) = writeUID(u)[k]
    <3>1. Len(writeUID(u)) = 6 /\ (k - 1) + 1 = k
      BY BytesOfUID
    <3> QED
      BY <2>2, <3>1 DEF At
  <2> QED
    BY <2>1, <2>2, <2>3
<1>3. getUID(Slice(data, i, 6)) = getUID(writeUID(u))
  BY <1>2 DEF getUID
<1> QED
  BY <1>1, <1>3, UIDRoundTrip

\* r is a buffer of n bytes, those of s, and m more, those of t.
Joined(r, s, n, t, m) ==
  /\ r \in Buffer /\ Len(r) = n + m
  /\ \A i \in Nat : i < n => At(r, i) = At(s, i)
  /\ \A i \in Nat : At(r, n + i) = At(t, i)

LEMMA Appended ==
  ASSUME NEW s \in Buffer, NEW t \in Buffer
  PROVE  Joined(s \o t, s, Len(s), t, Len(t))
<1>1. s \o t \in Buffer /\ Len(s \o t) = Len(s) + Len(t) /\ Len(s) \in Nat
  BY DEF Buffer
<1>2. ASSUME NEW i \in Nat, i < Len(s) PROVE At(s \o t, i) = At(s, i)
  BY <1>2, AtConcat
<1>3. ASSUME NEW i \in Nat PROVE At(s \o t, Len(s) + i) = At(t, i)
  <2>1. Len(s) + i \in Nat /\ ~(Len(s) + i < Len(s)) /\ (Len(s) + i) - Len(s) = i
    BY <1>1
  <2> QED
    BY <2>1, AtConcat
<1> QED
  BY <1>1, <1>2, <1>3 DEF Joined

\* A packet without its check sum.
Body(p) ==
  <<RDM_SUB_START_CODE, 24 + Capped(p.pdl)>> \o writeUID(p.dest) \o writeUID(p.src)
  \o <<p.transaction_number, p.port_id_resp_type, p.message_count>>
  \o Bytes(p.sub_device) \o <<p.cc>> \o Bytes(p.pid)
  \o <<p.pdl>> \o SubSeq(p.pdata, 1, Capped(p.pdl))

LEMMA CappedLength ==
  ASSUME NEW n \in Byte
  PROVE  Capped(n) \in Nat /\ Capped(n) <= 231 /\ (n <= 231 => Capped(n) = n)
<1>1. n \in Nat
  BY ByteBounds
<1> QED
  BY <1>1 DEF Capped, RDM_MAX_PDL

LEMMA BodyBytes ==
  ASSUME NEW p \in PacketSet
  PROVE  LET b == Body(p)
             n == Capped(p.pdl)
         IN  /\ b \in Buffer /\ Len(b) = 23 + n
             /\ At(b, 0) = 1 /\ At(b, 1) = 24 + n
             /\ \A k \in Nat : k < 6 => At(b, 2 + k) = At(writeUID(p.dest), k)
             /\ \A k \in Nat : k < 6 => At(b, 8 + k) = At(writeUID(p.src), k)
             /\ At(b, 14) = p.transaction_number /\ At(b, 15) = p.port_id_resp_type
             /\ At(b, 16) = p.message_count
             /\ At(b, 17) = High(p.sub_device) /\ At(b, 18) = Low(p.sub_device)
             /\ At(b, 19) = p.cc
             /\ At(b, 20) = High(p.pid) /\ At(b, 21) = Low(p.pid)
             /\ At(b, 22) = p.pdl
             /\ \A k \in Nat : k < n => At(b, 23 + k) = At(p.pdata, k)
<1> DEFINE n   == Capped(p.pdl)
           s2  == <<RDM_SUB_START_CODE, 24 + n>>
           s8  == s2 \o writeUID(p.dest)
           s14 == s8 \o writeUID(p.src)
           t17 == <<p.transaction_number, p.port_id_resp_type, p.message_count>>
           s17 == s14 \o t17
           s19 == s17 \o Bytes(p.sub_device)
           s20 == s19 \o <<p.cc>>
           s22 == s20 \o Bytes(p.pid)
           s23 == s22 \o <<p.pdl>>
<1>1. /\ p.dest \in UIDSet /\ p.src \in UIDSet /\ p.sub_device \in Word /\ p.pid \in Word
      /\ p.transaction_number \in Byte /\ p.port_id_resp_type \in Byte
      /\ p.message_count \in Byte /\ p.cc \in Byte /\ p.pdl \in Byte
      /\ p.pdata \in Buffer /\ Len(p.pdata) = n
  BY DEF PacketSet
<1>2. n \in Nat /\ n <= 231
  BY <1>1, CappedLength
<1>3. SubSeq(p.pdata, 1, n) = p.pdata
  BY <1>1 DEF Buffer
<1>4. Body(p) = s23 \o p.pdata
  BY <1>3 DEF Body
<1> HIDE DEF n
<1>5. s2 \in Buffer /\ Len(s2) = 2 /\ At(s2, 0) = 1 /\ At(s2, 1) = 24 + n
  <2>1. 1 \in Byte /\ 24 + n \in Byte
    BY <1>2, ByteBounds
  <2> QED
    BY <2>1 DEF At, Buffer, RDM_SUB_START_CODE
<1>6. t17 \in Buffer /\ Len(t17) = 3
      /\ At(t17, 0) = p.transaction_number /\ At(t17, 1) = p.port_id_resp_type
      /\ At(t17, 2) = p.message_count
  BY <1>1 DEF At, Buffer
<1>7. <<p.cc>> \in Buffer /\ Len(<<p.cc>>) = 1 /\ At(<<p.cc>>, 0) = p.cc
  BY <1>1 DEF At, Buffer
<1>8. <<p.pdl>> \in Buffer /\ Len(<<p.pdl>>) = 1 /\ At(<<p.pdl>>, 0) = p.pdl
  BY <1>1 DEF At, Buffer
<1> HIDE DEF s2, t17
<1>9. /\ s8 \in Buffer /\ Len(s8) = 8
      /\ \A i \in Nat : i < 2 => At(s8, i) = At(s2, i)
      /\ \A i \in Nat : At(s8, 2 + i) = At(writeUID(p.dest), i)
  <2>1. writeUID(p.dest) \in Buffer /\ Len(writeUID(p.dest)) = 6
    BY <1>1, BytesOfUID
  <2>2. Joined(s8, s2, Len(s2), writeUID(p.dest), Len(writeUID(p.dest)))
    BY <1>5, <2>1, Appended
  <2> QED
    BY <1>5, <2>1, <2>2 DEF Joined
<1> HIDE DEF s8
<1>10. /\ s14 \in Buffer /\ Len(s14) = 14
       /\ \A i \in Nat : i < 8 => At(s14, i) = At(s8, i)
       /\ \A i \in Nat : At(s14, 8 + i) = At(writeUID(p.src), i)
  <2>1. writeUID(p.src) \in Buffer /\ Len(writeUID(p.src)) = 6
    BY <1>1, BytesOfUID
  <2>2. Joined(s14, s8, Len(s8), writeUID(p.src), Len(writeUID(p.src)))
    BY <1>9, <2>1, Appended
  <2> QED
    BY <1>9, <2>1, <2>2 DEF Joined
<1> HIDE DEF s14
<1>11. /\ s17 \in Buffer /\ Len(s17) = 17
       /\ \A i \in Nat : i < 14 => At(s17, i) = At(s14, i)
       /\ \A i \in Nat : At(s17, 14 + i) = At(t17, i)
  <2>2. Joined(s17, s14, Len(s14), t17, Len(t17))
    BY <1>10, <1>6, Appended
  <2> QED
    BY <1>10, <1>6, <2>2 DEF Joined
<1> HIDE DEF s17
<1>12. /\ s19 \in Buffer /\ Len(s19) = 19
       /\ \A i \in Nat : i < 17 => At(s19, i) = At(s17, i)
       /\ \A i \in Nat : At(s19, 17 + i) = At(Bytes(p.sub_device), i)
  <2>1. Bytes(p.sub_device) \in Buffer /\ Len(Bytes(p.sub_device)) = 2
    BY <1>1, BytesOfWord
  <2>2. Joined(s19, s17, Len(s17), Bytes(p.sub_device), Len(Bytes(p.sub_device)))
    BY <1>11, <2>1, Appended
  <2> QED
    BY <1>11, <2>1, <2>2 DEF Joined
<1> HIDE DEF s19
<1>13. /\ s20 \in Buffer /\ Len(s20) = 20
       /\ \A i \in Nat : i < 19 => At(s20, i) = At(s19, i)
       /\ \A i \in Nat : At(s20, 19 + i) = At(<<p.cc>>, i)
  <2>2. Joined(s20, s19, Len(s19), <<p.cc>>, Len(<<p.cc>>))
    BY <1>12, <1>7, Appended
  <2>3. Joined(s20, s19, 19, <<p.cc>>, 1)
    BY <1>12, <1>7, <2>2
  <2> HIDE DEF s20
  <2> QED
    BY <2>3 DEF Joined
<1> HIDE DEF s20
<1>14. /\ s22 \in Buffer /\ Len(s22) = 22
       /\ \A i \in Nat : i < 20 => At(s22, i) = At(s20, i)
       /\ \A i \in Nat : At(s22, 20 + i) = At(Bytes(p.pid), i)
  <2>1. Bytes(p.pid) \in Buffer /\ Len(Bytes(p.pid)) = 2
    BY <1>1, BytesOfWord
  <2>2. Joined(s22, s20, Len(s20), Bytes(p.pid), Len(Bytes(p.pid)))
    BY <1>13, <2>1, Appended
  <2> QED
    BY <1>13, <2>1, <2>2 DEF Joined
<1> HIDE DEF s22
<1>15. /\ s23 \in Buffer /\ Len(s23) = 23
       /\ \A i \in Nat : i < 22 => At(s23, i) = At(s22, i)
       /\ \A i \in Nat : At(s23, 22 + i) = At(<<p.pdl>>, i)
  <2>2. Joined(s23, s22, Len(s22), <<p.pdl>>, Len(<<p.pdl>>))
    BY <1>14, <1>8, Appended
  <2>3. Joined(s23, s22, 22, <<p.pdl>>, 1)
    BY <1>14, <1>8, <2>2
  <2> HIDE DEF s23
  <2> QED
    BY <2>3 DEF Joined
<1> HIDE DEF s23
<1>16. /\ Body(p) \in Buffer /\ Len(Body(p)) = 23 + n
       /\ \A i \in Nat : i < 23 => At(Body(p), i) = At(s23, i)
       /\ \A i \in Nat : At(Body(p), 23 + i) = At(p.pdata, i)
  <2>1. p.pdata \in Buffer /\ Len(p.pdata) = n
    BY <1>1
  <2>2. Joined(Body(p), s23, Len(s23), p.pdata, Len(p.pdata))
    BY <1>15, <1>4, <1>2, <2>1, Appended
  <2> QED
    BY <1>15, <1>4, <1>2, <2>1, <2>2 DEF Joined
<1>17. \A i \in Nat : i < 20 => At(Body(p), i) = At(s20, i)
  BY <1>14, <1>15, <1>16
<1>18. \A i \in Nat : i < 17 => At(Body(p), i) = At(s17, i)
  BY <1>12, <1>13, <1>17
<1>19. \A i \in Nat : i < 8 => At(Body(p), i) = At(s8, i)
  BY <1>10, <1>11, <1>18
<1>20. At(Body(p), 0) = 1 /\ At(Body(p), 1) = 24 + n
  BY <1>5, <1>9, <1>19
<1>21. ASSUME NEW k \in Nat, k < 6 PROVE At(Body(p), 2 + k) = At(writeUID(p.dest), k)
  <2>1. 2 + k \in Nat /\ 2 + k < 8
    BY <1>21
  <2> QED
    BY <1>9, <1>19, <2>1
<1>22. ASSUME NEW k \in Nat, k < 6 PROVE At(Body(p), 8 + k) = At(writeUID(p.src), k)
  <2>1. 8 + k \in Nat /\ 8 + k < 14 /\ 8 + k < 17
    BY <1>22
  <2> QED
    BY <1>10, <1>11, <1>18, <2>1
<1>23. /\ At(Body(p), 14) = p.transaction_number /\ At(Body(p), 15) = p.port_id_resp_type
       /\ At(Body(p), 16) = p.message_count
  <2>1. At(s17, 14 + 0) = At(t17, 0) /\ At(s17, 14 + 1) = At(t17, 1) /\ At(s17, 14 + 2) = At(t17, 2)
    BY <1>11
  <2> QED
    BY <1>6, <1>18, <2>1
<1>24. At(Body(p), 17) = High(p.sub_device) /\ At(Body(p), 18) = Low(p.sub_device)
  <2>1. /\ At(s19, 17 + 0) = At(Bytes(p.sub_device), 0)
        /\ At(s19, 17 + 1) = At(Bytes(p.sub_device), 1)
    BY <1>12
  <2>2. At(Body(p), 17) = At(s19, 17) /\ At(Body(p), 18) = At(s19, 18)
    BY <1>13, <1>17
  <2> QED
    BY <1>1, <2>1, <2>2, BytesOfWord
<1>25. At(Body(p), 19) = p.cc
  <2>1. At(s20, 19 + 0) = At(<<p.cc>>, 0)
    BY <1>13
  <2> QED
    BY <1>7, <1>17, <2>1
<1>26. At(Body(p), 20) = High(p.pid) /\ At(Body(p), 21) = Low(p.pid)
  <2>1. At(s22, 20 + 0) = At(Bytes(p.pid), 0) /\ At(s22, 20 + 1) = At(Bytes(p.pid), 1)
    BY <1>14
  <2>2. At(s23, 20) = At(s22, 20) /\ At(s23, 21) = At(s22, 21)
    BY <1>15
  <2>3. At(Body(p), 20) = At(s23, 20) /\ At(Body(p), 21) = At(s23, 21)
    <3>1. 20 \in Nat /\ 20 < 23 /\ 21 \in Nat /\ 21 < 23
      OBVIOUS
    <3> QED
      BY <1>16, <3>1
  <2> QED
    BY <1>1, <2>1, <2>2, <2>3, BytesOfWord
<1>27. At(Body(p), 22) = p.pdl
  <2>1. At(s23, 22 + 0) = At(<<p.pdl>>, 0)
    BY <1>15
  <2>2. At(Body(p), 22) = At(s23, 22)
    <3>1. 22 \in Nat /\ 22 < 23
      OBVIOUS
    <3> QED
      BY <1>16, <3>1
  <2> QED
    BY <1>8, <2>1, <2>2
<1> QED
  BY <1>16, <1>20, <1>21, <1>22, <1>23, <1>24, <1>25, <1>26, <1>27 DEF n

LEMMA WrittenBytes ==
  ASSUME NEW p \in PacketSet
  PROVE  LET w == writePacket(p)
             n == Capped(p.pdl)
             c == Checksum(RDM_START_CODE, Body(p), 23 + n)
         IN  /\ w \in Buffer /\ Len(w) = 25 + n
             /\ \A i \in Nat : i < 23 + n => At(w, i) = At(Body(p), i)
             /\ At(w, 23 + n) = High(c) /\ At(w, 24 + n) = Low(c)
<1> DEFINE n == Capped(p.pdl)
           c == Checksum(RDM_START_CODE, Body(p), 23 + n)
<1>1. Body(p) \in Buffer /\ Len(Body(p)) = 23 + n
  BY BodyBytes
<1>2. n \in Nat
  BY CappedLength DEF PacketSet
<1>3. writePacket(p) = Body(p) \o Bytes(c)
  BY <1>1 DEF writePacket, Body, ChecksumStart
<1>4. c \in Word
  <2>1. RDM_START_CODE \in Nat
    BY DEF RDM_START_CODE
  <2> QED
    BY <1>1, <1>2, <2>1, ChecksumWord
<1> HIDE DEF n, c
<1>5. /\ Bytes(c) \in Buffer /\ Len(Bytes(c)) = 2
      /\ At(Bytes(c), 0) = High(c) /\ At(Bytes(c), 1) = Low(c)
  BY <1>4, BytesOfWord
<1>6. Joined(writePacket(p), Body(p), Len(Body(p)), Bytes(c), Len(Bytes(c)))
  BY <1>1, <1>3, <1>5, Appended
<1>7. Joined(writePacket(p), Body(p), 23 + n, Bytes(c), 2)
  BY <1>1, <1>5, <1>6
<1>8. /\ At(writePacket(p), 23 + n + 0) = At(Bytes(c), 0)
      /\ At(writePacket(p), 23 + n + 1) = At(Bytes(c), 1)
  BY <1>7 DEF Joined
<1>9. 23 + n + 0 = 23 + n /\ 23 + n + 1 = 24 + n /\ 23 + n + 2 = 25 + n
  BY <1>2
<1>10. At(writePacket(p), 23 + n) = High(c) /\ At(writePacket(p), 24 + n) = Low(c)
  BY <1>5, <1>8, <1>9
<1>11. /\ writePacket(p) \in Buffer /\ Len(writePacket(p)) = 25 + n
       /\ \A i \in Nat : i < 23 + n => At(writePacket(p), i) = At(Body(p), i)
  BY <1>7, <1>9 DEF Joined
<1> QED
  BY <1>10, <1>11 DEF n, c

LEMMA FrameBytes ==
  ASSUME NEW p \in PacketSet
  PROVE  /\ Frame(p) \in Buffer /\ Len(Frame(p)) = 26 + Capped(p.pdl)
         /\ At(Frame(p), 0) = RDM_START_CODE
         /\ \A i \in Nat : At(Frame(p), 1 + i) = At(writePacket(p), i)
<1> DEFINE n == Capped(p.pdl)
<1>1. writePacket(p) \in Buffer /\ Len(writePacket(p)) = 25 + n
  BY WrittenBytes
<1>2. n \in Nat
  BY CappedLength DEF PacketSet
<1> HIDE DEF n
<1>3. /\ <<RDM_START_CODE>> \in Buffer /\ Len(<<RDM_START_CODE>>) = 1
      /\ At(<<RDM_START_CODE>>, 0) = RDM_START_CODE
  <2>1. RDM_START_CODE \in Byte
    BY ByteBounds DEF RDM_START_CODE
  <2> QED
    BY <2>1 DEF Buffer, At
<1>4. Joined(Frame(p), <<RDM_START_CODE>>, 1, writePacket(p), 25 + n)
  <2>1. Joined(Frame(p), <<RDM_START_CODE>>, Len(<<RDM_START_CODE>>), writePacket(p), Len(writePacket(p)))
    BY <1>1, <1>3, Appended DEF Frame
  <2> QED
    BY <1>1, <1>3, <2>1
<1>5. 0 \in Nat /\ 0 < 1 /\ 1 + (25 + n) = 26 + n
  BY <1>2
<1>6. /\ Frame(p) \in Buffer /\ Len(Frame(p)) = 26 + n
      /\ At(Frame(p), 0) = At(<<RDM_START_CODE>>, 0)
      /\ \A i \in Nat : At(Frame(p), 1 + i) = At(writePacket(p), i)
  BY <1>4, <1>5 DEF Joined
<1> QED
  BY <1>3, <1>6 DEF n

-----------------------------------------------------------------------------
(***************************************************************************)
(* What is read back.                                                      *)
(***************************************************************************)
\* data is s, or s and what follows it.
Begins(data, s) ==
  /\ data \in Buffer /\ s \in Buffer /\ Len(s) <= Len(data)
  /\ \A i \in Nat : i < Len(s) => At(data, i) = At(s, i)

LEMMA FrameRead ==
  ASSUME NEW p \in PacketSet, NEW data, Begins(data, Frame(p))
  PROVE  LET n == Capped(p.pdl)
         IN  /\ At(data, 0) = RDM_START_CODE
             /\ \A i \in Nat : i < 23 + n => At(data, 1 + i) = At(Body(p), i)
             /\ Slice(data, 24 + n, 2) = Bytes(Checksum(0, data, 24 + n))
<1> DEFINE n == Capped(p.pdl)
           w == writePacket(p)
           c == Checksum(RDM_START_CODE, Body(p), 23 + n)
<1>1. /\ w \in Buffer /\ Len(w) = 25 + n
      /\ \A i \in Nat : i < 23 + n => At(w, i) = At(Body(p), i)
      /\ At(w, 23 + n) = High(c) /\ At(w, 24 + n) = Low(c)
  BY WrittenBytes
<1>2. /\ Len(Frame(p)) = 26 + n
      /\ At(Frame(p), 0) = RDM_START_CODE
      /\ \A i \in Nat : At(Frame(p), 1 + i) = At(w, i)
  BY FrameBytes
<1>3. n \in Nat
  BY CappedLength DEF PacketSet
<1>4. Body(p) \in Buffer /\ data \in Buffer
  BY BodyBytes DEF Begins
<1>5. c = (RDM_START_CODE + ByteSum(Body(p), 23 + n)) % 65536
  BY DEF Checksum
<1> HIDE DEF n, w, c
<1>6. ASSUME NEW i \in Nat, i < 25 + n PROVE At(data, 1 + i) = At(w, i)
  <2>1. 1 + i \in Nat /\ 1 + i < 26 + n
    BY <1>3, <1>6
  <2> QED
    BY <1>2, <2>1 DEF Begins
<1>7. At(data, 0) = RDM_START_CODE
  <2>1. 0 \in Nat /\ 0 < 26 + n
    BY <1>3
  <2> QED
    BY <1>2, <2>1 DEF Begins
<1>8. ASSUME NEW i \in Nat, i < 23 + n PROVE At(data, 1 + i) = At(Body(p), i)
  <2>1. i < 25 + n
    BY <1>3, <1>8
  <2> QED
    BY <1>1, <1>6, <1>8, <2>1
<1>9. ByteSum(data, 24 + n) = RDM_START_CODE + ByteSum(Body(p), 23 + n)
  <2>1. 23 + n \in Nat /\ (23 + n) + 1 = 24 + n
    BY <1>3
  <2>2. \A k \in 0 .. (23 + n) - 1 : At(data, k + 1) = At(Body(p), k)
    <3>1. ASSUME NEW k \in 0 .. (23 + n) - 1 PROVE k \in Nat /\ k < 23 + n /\ k + 1 = 1 + k
      BY <1>3
    <3> QED
      BY <1>8, <3>1
  <2>3. ByteSum(data, (23 + n) + 1) = At(data, 0) + ByteSum(Body(p), 23 + n)
    BY <1>4, <2>1, <2>2, SumShift
  <2> QED
    BY <1>7, <2>1, <2>3
<1>10. Checksum(0, data, 24 + n) = c
  <2>1. ByteSum(data, 24 + n) \in Nat
    BY <1>3, <1>4, SumNatural
  <2>2. 0 + ByteSum(data, 24 + n) = ByteSum(data, 24 + n)
    BY <2>1
  <2> QED
    BY <1>5, <1>9, <2>2 DEF Checksum
<1>11. At(data, 24 + n) = High(c) /\ At(data, 25 + n) = Low(c)
  <2>1. /\ 23 + n \in Nat /\ 23 + n < 25 + n /\ 1 + (23 + n) = 24 + n
        /\ 24 + n \in Nat /\ 24 + n < 25 + n /\ 1 + (24 + n) = 25 + n
    BY <1>3
  <2>2. At(data, 1 + (23 + n)) = At(w, 23 + n) /\ At(data, 1 + (24 + n)) = At(w, 24 + n)
    BY <1>6, <2>1
  <2> QED
    BY <1>1, <2>1, <2>2
<1>12. Slice(data, 24 + n, 2) = <<At(data, 24 + n), At(data, 25 + n)>>
  <2>1. 24 + n + 1 - 1 = 24 + n /\ 24 + n + 2 - 1 = 25 + n
    BY <1>3
  <2> QED
    BY <2>1 DEF Slice
<1> QED
  BY <1>7, <1>8, <1>10, <1>11, <1>12 DEF n, Bytes

LEMMA FieldsRead ==
  ASSUME NEW p \in PacketSet, NEW data, Begins(data, Frame(p))
  PROVE  Fields(data) = p /\ At(data, 1) = 1 /\ At(data, 2) = 24 + Capped(p.pdl)
<1> DEFINE n == Capped(p.pdl)
           b == Body(p)
<1>1. /\ p.dest \in UIDSet /\ p.src \in UIDSet /\ p.sub_device \in Word /\ p.pid \in Word
      /\ p.pdata \in Buffer /\ Len(p.pdata) = n /\ p.pdl \in Byte
  BY DEF PacketSet
<1>2. n \in Nat
  BY <1>1, CappedLength
<1>3. \A i \in Nat : i < 23 + n => At(data, 1 + i) = At(b, i)
  BY FrameRead
<1>4. /\ At(b, 0) = 1 /\ At(b, 1) = 24 + n
      /\ \A k \in Nat : k < 6 => At(b, 2 + k) = At(writeUID(p.dest), k)
      /\ \A k \in Nat : k < 6 => At(b, 8 + k) = At(writeUID(p.src), k)
      /\ At(b, 14) = p.transaction_number /\ At(b, 15) = p.port_id_resp_type
      /\ At(b, 16) = p.message_count
      /\ At(b, 17) = High(p.sub_device) /\ At(b, 18) = Low(p.sub_device)
      /\ At(b, 19) = p.cc
      /\ At(b, 20) = High(p.pid) /\ At(b, 21) = Low(p.pid)
      /\ At(b, 22) = p.pdl
      /\ \A k \in Nat : k < n => At(b, 23 + k) = At(p.pdata, k)
  BY BodyBytes
<1>5. data \in Buffer
  BY DEF Begins
<1> HIDE DEF n, b
<1>7. ASSUME NEW i \in 0 .. 22 PROVE At(data, 1 + i) = At(b, i)
  <2>1. i \in Nat /\ i < 23 + n
    BY <1>2
  <2> QED
    BY <1>3, <2>1
<1>8. /\ At(data, 1) = 1 /\ At(data, 2) = 24 + n
      /\ At(data, 15) = p.transaction_number /\ At(data, 16) = p.port_id_resp_type
      /\ At(data, 17) = p.message_count /\ At(data, 18) = High(p.sub_device)
      /\ At(data, 19) = Low(p.sub_device) /\ At(data, 20) = p.cc
      /\ At(data, 21) = High(p.pid) /\ At(data, 22) = Low(p.pid) /\ At(data, 23) = p.pdl
  <2>1. /\ At(data, 1 + 0) = At(b, 0) /\ At(data, 1 + 1) = At(b, 1)
        /\ At(data, 1 + 14) = At(b, 14) /\ At(data, 1 + 15) = At(b, 15)
        /\ At(data, 1 + 16) = At(b, 16) /\ At(data, 1 + 17) = At(b, 17)
        /\ At(data, 1 + 18) = At(b, 18) /\ At(data, 1 + 19) = At(b, 19)
        /\ At(data, 1 + 20) = At(b, 20) /\ At(data, 1 + 21) = At(b, 21)
        /\ At(data, 1 + 22) = At(b, 22)
    BY <1>7
  <2> QED
    BY <1>4, <2>1
<1>9. getUID(Slice(data, 3, 6)) = p.dest
  <2>1. ASSUME NEW k \in Nat, k < 6 PROVE At(data, 3 + k) = At(writeUID(p.dest), k)
    <3>1. 2 + k \in 0 .. 22 /\ 1 + (2 + k) = 3 + k
      BY <2>1
    <3> QED
      BY <1>4, <1>7, <2>1, <3>1
  <2> QED
    BY <1>1, <1>5, <2>1, UIDRead
<1>10. getUID(Slice(data, 9, 6)) = p.src
  <2>1. ASSUME NEW k \in Nat, k < 6 PROVE At(data, 9 + k) = At(writeUID(p.src), k)
    <3>1. 8 + k \in 0 .. 22 /\ 1 + (8 + k) = 9 + k
      BY <2>1
    <3> QED
      BY <1>4, <1>7, <2>1, <3>1
  <2> QED
    BY <1>1, <1>5, <2>1, UIDRead
<1>11. ToWord(At(data, 18), At(data, 19)) = p.sub_device
  BY <1>1, <1>8, WordRoundTrip
<1>12. ToWord(At(data, 21), At(data, 22)) = p.pid
  BY <1>1, <1>8, WordRoundTrip
<1>13. Slice(data, 24, n) = p.pdata
  <2>1. ASSUME NEW k \in 1 .. n PROVE At(data, 24 + k - 1) = p.pdata[k]
    <3>1. /\ k - 1 \in Nat /\ k - 1 < n /\ 23 + (k - 1) \in Nat /\ 23 + (k - 1) < 23 + n
          /\ 1 + (23 + (k - 1)) = 24 + k - 1 /\ (k - 1) + 1 = k
      BY <1>2
    <3>2. At(data, 24 + k - 1) = At(b, 23 + (k - 1))
      BY <1>3, <3>1
    <3>3. At(b, 23 + (k - 1)) = At(p.pdata, k - 1)
      BY <1>4, <3>1
    <3>4. At(p.pdata, k - 1) = p.pdata[k]
      BY <1>1, <3>1 DEF At
    <3> QED
      BY <3>2, <3>3, <3>4
  <2>2. p.pdata = [k \in 1 .. n |-> p.pdata[k]]
    BY <1>1 DEF Buffer
  <2> QED
    BY <2>1, <2>2 DEF Slice
<1>14. Slice(data, 24, Capped(At(data, 23))) = p.pdata
  BY <1>8, <1>13 DEF n
<1>15. p = [dest |-> p.dest, src |-> p.src, transaction_number |-> p.transaction_number,
            port_id_resp_type |-> p.port_id_resp_type, message_count |-> p.message_count,
            sub_device |-> p.sub_device, cc |-> p.cc, pid |-> p.pid, pdl |-> p.pdl,
            pdata |-> p.pdata]
  BY DEF PacketSet
<1>16. Fields(data) = p
  BY <1>8, <1>9, <1>10, <1>11, <1>12, <1>14, <1>15 DEF Fields
<1> QED
  BY <1>8, <1>16 DEF n

(***************************************************************************)
(* Whatever the packet, and whatever follows it on the line: RDMPacket()   *)
(* reads what writePacket() has written, if it is for the device, and      *)
(* refuses it otherwise.                                                   *)
(***************************************************************************)
THEOREM ReadBack ==
  ASSUME NEW p \in PacketSet, NEW uid, NEW data, Begins(data, Frame(p))
  PROVE  Parse(uid, data, Len(data)) = IF Accepts(uid, p.dest) THEN {p} ELSE {}
<1> DEFINE n == Capped(p.pdl)
<1>1. Fields(data) = p /\ At(data, 1) = 1 /\ At(data, 2) = 24 + n
  BY FieldsRead
<1>2. At(data, 0) = RDM_START_CODE /\ Slice(data, 24 + n, 2) = Bytes(Checksum(0, data, 24 + n))
  BY FrameRead
<1>3. n \in Nat
  BY CappedLength DEF PacketSet
<1>4. Len(data) \in Nat /\ 26 + n <= Len(data)
  <2>1. Len(Frame(p)) = 26 + n
    BY FrameBytes
  <2> QED
    BY <2>1 DEF Begins, Buffer
<1> HIDE DEF n
<1>5. Slice(data, 0, 2) = <<RDM_START_CODE, RDM_SUB_START_CODE>>
  <2>1. 0 + 1 - 1 = 0 /\ 0 + 2 - 1 = 1
    OBVIOUS
  <2> QED
    BY <1>1, <1>2, <2>1 DEF Slice, RDM_SUB_START_CODE
<1>6. ChecksumMatches(data, At(data, 2))
  BY <1>1, <1>2 DEF ChecksumMatches
<1>7. Len(data) >= 26 /\ At(data, 2) <= Len(data) - 2
  BY <1>1, <1>3, <1>4
<1>8. IsPacket(data, Len(data))
  BY <1>5, <1>6, <1>7 DEF IsPacket
<1> QED
  BY <1>1, <1>8 DEF Parse

-----------------------------------------------------------------------------
(***************************************************************************)
(* Bytes and their bits.                                                   *)
(***************************************************************************)
LEMMA BitsOfByte ==
  ASSUME NEW b \in Byte
  PROVE  ByteOf(Ones(b)) = b
<1>1. b \in Nat /\ b < 256
  BY ByteBounds
<1> DEFINE q(v) == b \div v
           x(v) == (b \div v) % 2
<1>2. /\ x(1) \in {0, 1} /\ x(2) \in {0, 1} /\ x(4) \in {0, 1} /\ x(8) \in {0, 1}
      /\ x(16) \in {0, 1} /\ x(32) \in {0, 1} /\ x(64) \in {0, 1} /\ x(128) \in {0, 1}
      /\ b = x(1) + 2 * x(2) + 4 * x(4) + 8 * x(8) + 16 * x(16) + 32 * x(32) + 64 * x(64)
             + 128 * x(128)
  <2>1. q(1) = 2 * q(2) + x(1) /\ x(1) \in Nat /\ q(2) \in Nat
    BY <1>1
  <2>2. q(2) = 2 * q(4) + x(2) /\ x(2) \in Nat /\ q(4) \in Nat
    BY <1>1
  <2>3. q(4) = 2 * q(8) + x(4) /\ x(4) \in Nat /\ q(8) \in Nat
    BY <1>1
  <2>4. q(8) = 2 * q(16) + x(8) /\ x(8) \in Nat /\ q(16) \in Nat
    BY <1>1
  <2>5. q(16) = 2 * q(32) + x(16) /\ x(16) \in Nat /\ q(32) \in Nat
    BY <1>1
  <2>6. q(32) = 2 * q(64) + x(32) /\ x(32) \in Nat /\ q(64) \in Nat
    BY <1>1
  <2>7. q(64) = 2 * q(128) + x(64) /\ x(64) \in Nat /\ q(128) \in Nat
    BY <1>1
  <2>8. q(128) = 2 * q(256) + x(128) /\ x(128) \in Nat /\ q(256) \in Nat
    BY <1>1
  <2>9. q(1) = b /\ q(256) = 0
    BY <1>1
  <2>10. /\ x(1) \in {0, 1} /\ x(2) \in {0, 1} /\ x(4) \in {0, 1} /\ x(8) \in {0, 1}
         /\ x(16) \in {0, 1} /\ x(32) \in {0, 1} /\ x(64) \in {0, 1} /\ x(128) \in {0, 1}
    BY <1>1
  <2> HIDE DEF q, x
  <2>11. q(16) = x(16) + 2 * x(32) + 4 * x(64) + 8 * x(128)
    <3>1. q(32) = x(32) + 2 * x(64) + 4 * x(128)
      BY <2>6, <2>7, <2>8, <2>9
    <3> QED
      BY <2>5, <2>6, <2>7, <2>8, <3>1
  <2>12. b = x(1) + 2 * x(2) + 4 * x(4) + 8 * x(8) + 16 * q(16)
    <3>1. q(2) = x(2) + 2 * x(4) + 4 * x(8) + 8 * q(16)
      BY <2>2, <2>3, <2>4
    <3> QED
      BY <2>1, <2>2, <2>3, <2>4, <2>9, <3>1
  <2>13. b = x(1) + 2 * x(2) + 4 * x(4) + 8 * x(8) + 16 * x(16) + 32 * x(32) + 64 * x(64)
             + 128 * x(128)
    BY <2>1, <2>2, <2>3, <2>4, <2>5, <2>6, <2>7, <2>8, <2>11, <2>12
  <2> QED
    BY <2>10, <2>13
<1>3. \A v \in Bits : v \in Ones(b) <=> x(v) = 1
  BY DEF Ones
<1> HIDE DEF q, x
<1>4. ByteOf(Ones(b)) = x(1) + 2 * x(2) + 4 * x(4) + 8 * x(8) + 16 * x(16) + 32 * x(32)
                        + 64 * x(64) + 128 * x(128)
  BY <1>2, <1>3 DEF ByteOf, Bits
<1> QED
  BY <1>2, <1>4

LEMMA ByteOfBits ==
  ASSUME NEW S \in SUBSET Bits
  PROVE  ByteOf(S) \in Byte /\ Ones(ByteOf(S)) = S
<1> DEFINE y(v) == IF v \in S THEN 1 ELSE 0
           b == ByteOf(S)
<1>1. /\ y(1) \in {0, 1} /\ y(2) \in {0, 1} /\ y(4) \in {0, 1} /\ y(8) \in {0, 1}
      /\ y(16) \in {0, 1} /\ y(32) \in {0, 1} /\ y(64) \in {0, 1} /\ y(128) \in {0, 1}
      /\ \A v \in Bits : y(v) = 1 <=> v \in S
  OBVIOUS
<1>2. b = y(1) + 2 * y(2) + 4 * y(4) + 8 * y(8) + 16 * y(16) + 32 * y(32) + 64 * y(64)
          + 128 * y(128)
  BY DEF ByteOf
<1> HIDE DEF y, b
<1>3. b \in Nat /\ b < 256
  BY <1>1, <1>2
<1>4. /\ (b \div 1) % 2 = y(1) /\ (b \div 2) % 2 = y(2) /\ (b \div 4) % 2 = y(4)
      /\ (b \div 8) % 2 = y(8) /\ (b \div 16) % 2 = y(16) /\ (b \div 32) % 2 = y(32)
      /\ (b \div 64) % 2 = y(64) /\ (b \div 128) % 2 = y(128)
  <2>1. (b \div 1) % 2 = y(1)
    BY <1>1, <1>2
  <2>2. (b \div 2) % 2 = y(2)
    BY <1>1, <1>2
  <2>3. (b \div 4) % 2 = y(4)
    BY <1>1, <1>2
  <2>4. (b \div 8) % 2 = y(8)
    BY <1>1, <1>2
  <2>5. (b \div 16) % 2 = y(16)
    BY <1>1, <1>2
  <2>6. (b \div 32) % 2 = y(32)
    BY <1>1, <1>2
  <2>7. (b \div 64) % 2 = y(64)
    BY <1>1, <1>2
  <2>8. (b \div 128) % 2 = y(128)
    BY <1>1, <1>2
  <2> QED
    BY <2>1, <2>2, <2>3, <2>4, <2>5, <2>6, <2>7, <2>8
<1>5. \A v \in Bits : (b \div v) % 2 = y(v)
  BY <1>4 DEF Bits
<1>6. Ones(b) = S
  BY <1>1, <1>5 DEF Ones
<1> QED
  BY <1>3, <1>6, ByteBounds DEF b

LEMMA BitOrByte ==
  ASSUME NEW a \in Byte, NEW b \in Byte
  PROVE  BitOr(a, b) \in Byte /\ Ones(BitOr(a, b)) = Ones(a) \cup Ones(b)
<1>1. Ones(a) \cup Ones(b) \in SUBSET Bits
  BY DEF Ones
<1> QED
  BY <1>1, ByteOfBits DEF BitOr

\* A byte sent twice is read back from its even and its odd bits.
LEMMA TwiceRead ==
  ASSUME NEW b \in Byte
  PROVE  BitOr(b, 170) \in Byte /\ BitOr(b, 85) \in Byte
         /\ BitAnd(BitOr(b, 170), BitOr(b, 85)) = b
<1>1. 170 \in Byte /\ 85 \in Byte
  BY ByteBounds
<1>2. Ones(170) \cap Ones(85) = {}
  BY DEF Ones, Bits
<1>3. /\ BitOr(b, 170) \in Byte /\ Ones(BitOr(b, 170)) = Ones(b) \cup Ones(170)
      /\ BitOr(b, 85) \in Byte /\ Ones(BitOr(b, 85)) = Ones(b) \cup Ones(85)
  BY <1>1, BitOrByte
<1>4. Ones(BitOr(b, 170)) \cap Ones(BitOr(b, 85)) = Ones(b)
  BY <1>2, <1>3
<1> QED
  BY <1>3, <1>4, BitsOfByte DEF BitAnd

LEMMA TwiceBytes ==
  ASSUME NEW s \in Buffer
  PROVE  /\ Twice(s) \in Buffer /\ Len(Twice(s)) = 2 * Len(s)
         /\ \A k \in Nat : k < Len(s) => /\ At(Twice(s), 2 * k) = BitOr(At(s, k), 170)
                                         /\ At(Twice(s), 2 * k + 1) = BitOr(At(s, k), 85)
<1> DEFINE n == Len(s)
           x(k) == IF k % 2 = 1 THEN 170 ELSE 85
<1>1. n \in Nat /\ \A k \in 1 .. n : s[k] \in Byte
  BY ElementOfSeq DEF Buffer
<1>2. Twice(s) = [k \in 1 .. 2 * n |-> BitOr(s[(k + 1) \div 2], x(k))]
  BY DEF Twice
<1>3. \A k \in 1 .. 2 * n : (k + 1) \div 2 \in 1 .. n
  BY <1>1
<1>4. \A k \in Nat : x(k) \in Byte
  BY ByteBounds
<1> HIDE DEF n, x
<1>5. ASSUME NEW k \in 1 .. 2 * n PROVE BitOr(s[(k + 1) \div 2], x(k)) \in Byte
  <2>1. s[(k + 1) \div 2] \in Byte /\ x(k) \in Byte
    BY <1>1, <1>3, <1>4
  <2> QED
    BY <2>1, BitOrByte
<1>6. Twice(s) \in Buffer /\ Len(Twice(s)) = 2 * n
  <2>1. Twice(s) \in [1 .. 2 * n -> Byte]
    BY <1>2, <1>5
  <2>2. 2 * n \in Nat
    BY <1>1
  <2> QED
    BY <2>1, <2>2 DEF Buffer
<1>7. ASSUME NEW k \in Nat, k < n
      PROVE  /\ At(Twice(s), 2 * k) = BitOr(At(s, k), 170)
             /\ At(Twice(s), 2 * k + 1) = BitOr(At(s, k), 85)
  <2>1. At(s, k) = s[k + 1]
    BY <1>7 DEF At, n
  <2>2. /\ 2 * k < 2 * n /\ 2 * k + 1 < 2 * n
        /\ 2 * k + 1 \in 1 .. 2 * n /\ (2 * k + 1) + 1 \in 1 .. 2 * n
        /\ ((2 * k + 1) + 1) \div 2 = k + 1 /\ (((2 * k + 1) + 1) + 1) \div 2 = k + 1
    BY <1>1, <1>7
  <2>3. x(2 * k + 1) = 170 /\ x((2 * k + 1) + 1) = 85
    <3>1. (2 * k + 1) % 2 = 1 /\ ((2 * k + 1) + 1) % 2 = 0
      OBVIOUS
    <3> QED
      BY <3>1 DEF x
  <2>4. /\ At(Twice(s), 2 * k) = Twice(s)[2 * k + 1]
        /\ At(Twice(s), 2 * k + 1) = Twice(s)[(2 * k + 1) + 1]
    BY <1>6, <2>2 DEF At
  <2>5. /\ Twice(s)[2 * k + 1] = BitOr(s[k + 1], 170)
        /\ Twice(s)[(2 * k + 1) + 1] = BitOr(s[k + 1], 85)
    BY <1>2, <2>2, <2>3
  <2> QED
    BY <2>1, <2>4, <2>5
<1> QED
  BY <1>6, <1>7 DEF n

LEMMA HalvedRead ==
  ASSUME NEW s \in Buffer, NEW data, NEW i \in Nat,
         \A k \in Nat : k < 2 * Len(s) => At(data, i + k) = At(Twice(s), k)
  PROVE  Halved(data, i, Len(s)) = s
<1>1. Len(s) \in Nat /\ s = [k \in 1 .. Len(s) |-> s[k]]
  BY DEF Buffer
<1>2. ASSUME NEW k \in 1 .. Len(s)
      PROVE  BitAnd(At(data, i + 2 * k - 2), At(data, i + 2 * k - 1)) = s[k]
  <2>0. PICK m \in Nat : m = k - 1 /\ m < Len(s)
    BY <1>1
  <2>1. m + 1 = k /\ 2 * m \in Nat /\ 2 * m + 1 \in Nat
    BY <2>0
  <2>2. i + 2 * k - 2 = i + 2 * m /\ i + 2 * k - 1 = i + (2 * m + 1)
    BY <2>0
  <2>3. 2 * m < 2 * Len(s) /\ 2 * m + 1 < 2 * Len(s)
    BY <1>1, <2>0
  <2>4. At(s, m) = s[k] /\ At(s, m) \in Byte
    <3>1. At(s, m) = s[k]
      BY <2>0, <2>1 DEF At
    <3> QED
      BY <2>0, <3>1, AtByte
  <2>5. At(Twice(s), 2 * m) = BitOr(At(s, m), 170) /\ At(Twice(s), 2 * m + 1) = BitOr(At(s, m), 85)
    BY <2>0, TwiceBytes
  <2>6. /\ At(data, i + 2 * m) = At(Twice(s), 2 * m)
        /\ At(data, i + (2 * m + 1)) = At(Twice(s), 2 * m + 1)
    BY <2>1, <2>3
  <2>7. BitAnd(BitOr(At(s, m), 170), BitOr(At(s, m), 85)) = At(s, m)
    BY <2>4, TwiceRead
  <2> QED
    BY <2>2, <2>4, <2>5, <2>6, <2>7
<1>3. Halved(data, i, Len(s)) = [k \in 1 .. Len(s) |-> s[k]]
  BY <1>2 DEF Halved
<1> QED
  BY <1>1, <1>3

\* The encoded UID and its check sum.
Encoded(uid)   == Twice(writeUID(uid))
EncodedSum(uid) == Twice(Bytes(Checksum(0, Encoded(uid), 12)))

LEMMA EncodedBytes ==
  ASSUME NEW uid \in UIDSet
  PROVE  /\ Encoded(uid) \in Buffer /\ Len(Encoded(uid)) = 12
         /\ Checksum(0, Encoded(uid), 12) \in Word
         /\ EncodedSum(uid) \in Buffer /\ Len(EncodedSum(uid)) = 4
<1>1. Encoded(uid) \in Buffer /\ Len(Encoded(uid)) = 12
  <2>1. writeUID(uid) \in Buffer /\ Len(writeUID(uid)) = 6
    BY BytesOfUID
  <2>2. Encoded(uid) \in Buffer /\ Len(Encoded(uid)) = 2 * Len(writeUID(uid))
    BY <2>1, TwiceBytes DEF Encoded
  <2> QED
    BY <2>1, <2>2
<1>2. Checksum(0, Encoded(uid), 12) \in Word
  BY <1>1, ChecksumWord
<1>3. /\ Bytes(Checksum(0, Encoded(uid), 12)) \in Buffer
      /\ Len(Bytes(Checksum(0, Encoded(uid), 12))) = 2
  BY <1>2, BytesOfWord
<1>4. EncodedSum(uid) \in Buffer /\ Len(EncodedSum(uid)) = 4
  <2> DEFINE b == Bytes(Checksum(0, Encoded(uid), 12))
  <2>1. EncodedSum(uid) = Twice(b)
    BY DEF EncodedSum
  <2>2. b \in Buffer /\ Len(b) = 2
    BY <1>3
  <2> HIDE DEF b
  <2>3. Twice(b) \in Buffer /\ Len(Twice(b)) = 2 * Len(b)
    BY <2>2, TwiceBytes
  <2> QED
    BY <2>1, <2>2, <2>3
<1> QED
  BY <1>1, <1>2, <1>4

IsAnswer(a, uid, preamble) ==
  /\ a \in Buffer /\ Len(a) = preamble + 17
  /\ \A k \in Nat : k < preamble => At(a, k) = 254
  /\ At(a, preamble) = 170
  /\ \A k \in Nat : k < 12 => At(a, preamble + 1 + k) = At(Encoded(uid), k)
  /\ \A k \in Nat : k < 4 => At(a, preamble + 13 + k) = At(EncodedSum(uid), k)

LEMMA BranchBytes ==
  ASSUME NEW uid \in UIDSet, NEW preamble \in 0 .. 7
  PROVE  IsAnswer(BranchAnswer(uid, preamble), uid, preamble)
<1> DEFINE s0 == [k \in 1 .. preamble |-> 254]
           t1 == <<170>>
           s1 == s0 \o t1
           s13 == s1 \o Encoded(uid)
           a == s13 \o EncodedSum(uid)
<1>1. a = BranchAnswer(uid, preamble)
  BY DEF BranchAnswer, Encoded, EncodedSum
<1>2. /\ Encoded(uid) \in Buffer /\ Len(Encoded(uid)) = 12
      /\ EncodedSum(uid) \in Buffer /\ Len(EncodedSum(uid)) = 4
  BY EncodedBytes
<1>3. /\ s0 \in Buffer /\ Len(s0) = preamble
      /\ \A k \in Nat : k < preamble => At(s0, k) = 254
  <2>1. s0 \in [1 .. preamble -> Byte] /\ preamble \in Nat
    BY ByteBounds
  <2>2. s0 \in Buffer /\ Len(s0) = preamble
    BY <2>1 DEF Buffer
  <2> QED
    BY <2>1, <2>2 DEF At
<1>4. t1 \in Buffer /\ Len(t1) = 1 /\ At(t1, 0) = 170
  <2>1. 170 \in Byte
    BY ByteBounds
  <2> QED
    BY <2>1 DEF Buffer, At
<1> HIDE DEF s0, t1
<1>5. Joined(s1, s0, preamble, t1, 1)
  <2>1. s0 \in Buffer /\ t1 \in Buffer
    BY <1>3, <1>4
  <2>2. Joined(s1, s0, Len(s0), t1, Len(t1))
    BY <2>1, Appended
  <2> QED
    BY <1>3, <1>4, <2>2
<1> HIDE DEF s1
<1>6. Joined(s13, s1, preamble + 1, Encoded(uid), 12)
  <2>1. s1 \in Buffer /\ Len(s1) = preamble + 1
    BY <1>5 DEF Joined
  <2>2. Joined(s13, s1, Len(s1), Encoded(uid), Len(Encoded(uid)))
    BY <1>2, <2>1, Appended
  <2> QED
    BY <1>2, <2>1, <2>2
<1> HIDE DEF s13
<1>7. Joined(a, s13, preamble + 13, EncodedSum(uid), 4)
  <2>1. s13 \in Buffer /\ Len(s13) = preamble + 13
    <3>1. preamble + 1 + 12 = preamble + 13
      OBVIOUS
    <3> QED
      BY <1>6, <3>1 DEF Joined
  <2>2. Joined(a, s13, Len(s13), EncodedSum(uid), Len(EncodedSum(uid)))
    BY <1>2, <2>1, Appended
  <2> QED
    BY <1>2, <2>1, <2>2
<1> HIDE DEF a
<1>8. /\ a \in Buffer /\ Len(a) = preamble + 17
      /\ \A k \in Nat : k < 4 => At(a, preamble + 13 + k) = At(EncodedSum(uid), k)
      /\ \A k \in Nat : k < preamble + 13 => At(a, k) = At(s13, k)
  <2>1. preamble + 13 + 4 = preamble + 17
    OBVIOUS
  <2> QED
    BY <1>7, <2>1 DEF Joined
<1>9. ASSUME NEW k \in Nat, k < 12 PROVE At(a, preamble + 1 + k) = At(Encoded(uid), k)
  <2>1. preamble + 1 + k \in Nat /\ preamble + 1 + k < preamble + 13
    BY <1>9
  <2> QED
    BY <1>6, <1>8, <2>1 DEF Joined
<1>10. ASSUME NEW k \in Nat, k < preamble PROVE At(a, k) = 254
  <2>1. k < preamble + 1 /\ k < preamble + 13
    BY <1>10
  <2> QED
    BY <1>3, <1>5, <1>6, <1>8, <1>10, <2>1 DEF Joined
<1>11. At(a, preamble) = 170
  <2>1. preamble \in Nat /\ preamble < preamble + 1 /\ preamble < preamble + 13
        /\ preamble + 0 = preamble
    OBVIOUS
  <2>2. At(a, preamble) = At(s1, preamble)
    BY <1>6, <1>8, <2>1 DEF Joined
  <2>3. At(s1, preamble + 0) = At(t1, 0)
    BY <1>5 DEF Joined
  <2> QED
    BY <1>4, <2>1, <2>2, <2>3
<1> QED
  BY <1>1, <1>8, <1>9, <1>10, <1>11 DEF IsAnswer

LEMMA SkippedPreamble ==
  ASSUME NEW data, NEW j \in 0 .. 7,
         \A k \in Nat : k < j => At(data, k) = 254,
         At(data, j) # 254, At(data, 0) # RDM_START_CODE
  PROVE  Skipped(data) = j
<1> DEFINE P(i) == /\ \A k \in 0 .. i - 1 : At(data, k) = 254
                   /\ i < 7 => At(data, i) # 254
<1>1. P(j)
  OBVIOUS
<1>2. ASSUME NEW i \in 0 .. 7, P(i) PROVE i = j
  <2>1. CASE i < j
    BY <1>2, <2>1
  <2>2. CASE j < i
    <3>1. j \in 0 .. i - 1
      BY <2>2
    <3> QED
      BY <1>2, <3>1
  <2> QED
    BY <2>1, <2>2
<1>3. Skipped(data) = CHOOSE i \in 0 .. 7 : P(i)
  <2>1. 0 + 7 = 7
    OBVIOUS
  <2> QED
    BY <2>1 DEF Skipped, MaxPreamble
<1> HIDE DEF P
<1> QED
  BY <1>1, <1>2, <1>3

\* The UID in an answer whose encoded UID has arrived.
LEMMA EncodedUIDRead ==
  ASSUME NEW uid \in UIDSet, NEW data, NEW j \in Nat,
         \A k \in Nat : k < 12 => At(data, j + 1 + k) = At(Encoded(uid), k)
  PROVE  getUID(Halved(data, j + 1, 6)) = uid
<1>1. writeUID(uid) \in Buffer /\ Len(writeUID(uid)) = 6
  BY BytesOfUID
<1>2. PICK a \in Word, b \in Word, c \in Word : uid = <<a, b, c>>
  BY DEF UIDSet
<1>3. j + 1 \in Nat /\ 2 * 6 = 12
  OBVIOUS
<1>4. Halved(data, j + 1, Len(writeUID(uid))) = writeUID(uid)
  BY <1>1, <1>3, HalvedRead DEF Encoded
<1> QED
  BY <1>1, <1>2, <1>4, UIDRoundTrip

\* The check sum in an answer whose encoded check sum has arrived.
LEMMA EncodedSumRead ==
  ASSUME NEW uid \in UIDSet, NEW data, NEW j \in Nat,
         \A k \in Nat : k < 4 => At(data, j + 13 + k) = At(EncodedSum(uid), k)
  PROVE  Halved(data, j + 13, 2) = Bytes(Checksum(0, Encoded(uid), 12))
<1> DEFINE b == Bytes(Checksum(0, Encoded(uid), 12))
<1>1. Checksum(0, Encoded(uid), 12) \in Word
  BY EncodedBytes
<1>2. b \in Buffer /\ Len(b) = 2
  BY <1>1, BytesOfWord
<1>3. EncodedSum(uid) = Twice(b)
  BY DEF EncodedSum
<1> HIDE DEF b
<1>4. j + 13 \in Nat /\ 2 * 2 = 4
  OBVIOUS
<1>5. Halved(data, j + 13, Len(b)) = b
  BY <1>2, <1>3, <1>4, HalvedRead
<1> QED
  BY <1>2, <1>5 DEF b

LEMMA SliceBuffer ==
  ASSUME NEW data \in Buffer, NEW i \in Nat, NEW n \in Nat
  PROVE  /\ Slice(data, i, n) \in Buffer /\ Len(Slice(data, i, n)) = n
         /\ \A k \in Nat : k < n => At(Slice(data, i, n), k) = At(data, i + k)
<1>1. ASSUME NEW k \in 1 .. n PROVE At(data, i + k - 1) \in Byte
  <2>1. i + k - 1 \in Nat
    OBVIOUS
  <2> QED
    BY <2>1, AtByte
<1>2. Slice(data, i, n) \in [1 .. n -> Byte]
  BY <1>1 DEF Slice
<1>3. Slice(data, i, n) \in Buffer /\ Len(Slice(data, i, n)) = n
  BY <1>2 DEF Buffer
<1>4. ASSUME NEW k \in Nat, k < n PROVE At(Slice(data, i, n), k) = At(data, i + k)
  <2>1. k + 1 \in 1 .. n /\ i + (k + 1) - 1 = i + k
    BY <1>4
  <2> QED
    BY <1>3, <1>4, <2>1 DEF At, Slice
<1> QED
  BY <1>3, <1>4

LEMMA SameBuffers ==
  ASSUME NEW s \in Buffer, NEW t \in Buffer, Len(s) = Len(t),
         \A k \in Nat : k < Len(s) => At(s, k) = At(t, k)
  PROVE  s = t
<1>1. /\ s = [k \in 1 .. Len(s) |-> s[k]] /\ t = [k \in 1 .. Len(s) |-> t[k]]
      /\ Len(s) \in Nat
  BY DEF Buffer
<1>2. ASSUME NEW k \in 1 .. Len(s) PROVE s[k] = t[k]
  <2>1. k - 1 \in Nat /\ k - 1 < Len(s) /\ (k - 1) + 1 = k
    BY <1>1
  <2> QED
    BY <2>1 DEF At
<1> QED
  BY <1>1, <1>2

(***************************************************************************)
(* Whatever the UID, the preamble, and what follows on the line: the       *)
(* answer to DISC_UNIQUE_BRANCH is decoded to the UID of the device.       *)
(***************************************************************************)
THEOREM BranchReadBack ==
  ASSUME NEW uid \in UIDSet, NEW preamble \in 0 .. 7,
         NEW data, Begins(data, BranchAnswer(uid, preamble))
  PROVE  ParseBranch(data, Len(data)) = {uid}
<1> DEFINE a == BranchAnswer(uid, preamble)
<1>1. /\ a \in Buffer /\ Len(a) = preamble + 17
      /\ \A k \in Nat : k < preamble => At(a, k) = 254
      /\ At(a, preamble) = 170
      /\ \A k \in Nat : k < 12 => At(a, preamble + 1 + k) = At(Encoded(uid), k)
      /\ \A k \in Nat : k < 4 => At(a, preamble + 13 + k) = At(EncodedSum(uid), k)
  <2>1. IsAnswer(a, uid, preamble)
    BY BranchBytes
  <2> HIDE DEF a
  <2> QED
    BY <2>1 DEF IsAnswer
<1>2. /\ data \in Buffer /\ Len(data) \in Nat /\ Len(a) <= Len(data)
      /\ \A k \in Nat : k < Len(a) => At(data, k) = At(a, k)
  BY DEF Begins, Buffer
<1> HIDE DEF a
<1>3. \A k \in Nat : k < preamble + 17 => At(data, k) = At(a, k)
  BY <1>1, <1>2
<1>4. ASSUME NEW k \in Nat, k < preamble PROVE At(data, k) = 254
  BY <1>1, <1>3, <1>4
<1>5. At(data, preamble) = 170
  BY <1>1, <1>3
<1>6. ASSUME NEW k \in Nat, k < 12 PROVE At(data, preamble + 1 + k) = At(Encoded(uid), k)
  <2>1. preamble + 1 + k \in Nat /\ preamble + 1 + k < preamble + 17
    BY <1>6
  <2> QED
    BY <1>1, <1>3, <1>6, <2>1
<1>7. ASSUME NEW k \in Nat, k < 4 PROVE At(data, preamble + 13 + k) = At(EncodedSum(uid), k)
  <2>1. preamble + 13 + k \in Nat /\ preamble + 13 + k < preamble + 17
    BY <1>7
  <2> QED
    BY <1>1, <1>3, <1>7, <2>1
<1>8. Skipped(data) = preamble
  <2>1. At(data, 0) \in {254, 170}
    BY <1>4, <1>5
  <2>2. At(data, preamble) # 254 /\ At(data, 0) # RDM_START_CODE
    BY <1>5, <2>1 DEF RDM_START_CODE
  <2> QED
    BY <1>4, <2>2, SkippedPreamble
<1>9. preamble \in Nat /\ preamble + 1 \in Nat
  OBVIOUS
<1>10. getUID(Halved(data, preamble + 1, 6)) = uid
  BY <1>6, <1>9, EncodedUIDRead
<1>11. Halved(data, preamble + 13, 2) = Bytes(Checksum(0, Encoded(uid), 12))
  BY <1>7, <1>9, EncodedSumRead
<1>12. Slice(data, preamble + 1, 12) = Encoded(uid)
  <2> DEFINE s == Slice(data, preamble + 1, 12)
  <2>1. /\ s \in Buffer /\ Len(s) = 12
        /\ \A k \in Nat : k < 12 => At(s, k) = At(data, preamble + 1 + k)
    <3>1. PICK j \in Nat : j = preamble + 1
      BY <1>9
    <3>2. data \in Buffer /\ 12 \in Nat
      BY <1>2
    <3> QED
      BY <3>1, <3>2, SliceBuffer
  <2> HIDE DEF s
  <2>2. Encoded(uid) \in Buffer /\ Len(Encoded(uid)) = 12
    BY EncodedBytes
  <2>3. s = Encoded(uid)
    BY <1>6, <2>1, <2>2, SameBuffers
  <2> QED
    BY <2>3 DEF s
<1>13. EncodedMatches(data, preamble)
  BY <1>11, <1>12 DEF EncodedMatches
<1>14. Len(data) >= 17 /\ Len(data) - preamble >= 17
  BY <1>1, <1>2
<1> QED
  BY <1>5, <1>8, <1>10, <1>13, <1>14 DEF ParseBranch

-----------------------------------------------------------------------------
(***************************************************************************)
(* What is refused.                                                        *)
(***************************************************************************)
\* data is s with the byte at i replaced by another one.
Damaged(data, s, i) ==
  /\ data \in Buffer /\ s \in Buffer /\ Len(data) = Len(s)
  /\ i \in Nat /\ i < Len(s)
  /\ At(data, i) # At(s, i)
  /\ \A k \in Nat : k # i => At(data, k) = At(s, k)

\* data is what is left of s, which is longer.
Shortened(data, s) ==
  /\ data \in Buffer /\ s \in Buffer /\ Len(data) < Len(s)
  /\ \A k \in Nat : k < Len(data) => At(data, k) = At(s, k)

LEMMA BytesDiffer ==
  ASSUME NEW v \in Word, NEW w \in Word, v # w
  PROVE  Bytes(v) # Bytes(w)
<1>1. ToWord(High(v), Low(v)) = v /\ ToWord(High(w), Low(w)) = w
  BY WordRoundTrip
<1>2. ~(High(v) = High(w) /\ Low(v) = Low(w))
  BY <1>1
<1> QED
  BY <1>2 DEF Bytes

(***************************************************************************)
(* A packet with one byte damaged is refused, whichever byte it is (but    *)
(* for the length, which moves the check sum), and whatever it becomes.    *)
(***************************************************************************)
THEOREM DamagedRefused ==
  ASSUME NEW p \in PacketSet, NEW uid, NEW data, NEW i, Damaged(data, Frame(p), i), i # 2
  PROVE  Parse(uid, data, Len(data)) = {}
<1> DEFINE f == Frame(p)
           n == Capped(p.pdl)
<1>0. f \in Buffer /\ Len(f) = 26 + n
  BY FrameBytes
<1>1. n \in Nat
  BY CappedLength DEF PacketSet
<1>2. Begins(f, f)
  <2>1. Len(f) \in Nat
    BY <1>0, <1>1
  <2> QED
    BY <1>0, <2>1 DEF Begins
<1>3. /\ At(f, 0) = RDM_START_CODE /\ At(f, 1) = 1 /\ At(f, 2) = 24 + n
      /\ Slice(f, 24 + n, 2) = Bytes(Checksum(0, f, 24 + n))
  BY <1>2, FrameRead, FieldsRead
<1>4. /\ data \in Buffer /\ i \in Nat /\ i < 26 + n
      /\ At(data, i) # At(f, i)
      /\ \A k \in Nat : k # i => At(data, k) = At(f, k)
  BY <1>0 DEF Damaged
<1> HIDE DEF f, n
<1>5. ~IsPacket(data, Len(data))
  <2>1. At(data, 2) = 24 + n
    BY <1>3, <1>4
  <2>2. CASE i < 2
    <3>1. Slice(data, 0, 2)[1] = At(data, 0) /\ Slice(data, 0, 2)[2] = At(data, 1)
      <4>1. 0 + 1 - 1 = 0 /\ 0 + 2 - 1 = 1
        OBVIOUS
      <4> QED
        BY <4>1 DEF Slice
    <3>2. i = 0 \/ i = 1
      BY <1>4, <2>2
    <3>3. ~(At(data, 0) = RDM_START_CODE /\ At(data, 1) = RDM_SUB_START_CODE)
      BY <1>3, <1>4, <3>2 DEF RDM_SUB_START_CODE
    <3>4. Slice(data, 0, 2) # <<RDM_START_CODE, RDM_SUB_START_CODE>>
      BY <3>1, <3>3
    <3> QED
      BY <3>4 DEF IsPacket
  <2>3. CASE 2 < i /\ i < 24 + n
    <3>1. Checksum(0, data, 24 + n) # Checksum(0, f, 24 + n)
      <4>1. 24 + n \in Nat /\ \A k \in 0 .. (24 + n) - 1 : k \in Nat
        BY <1>1
      <4> QED
        BY <1>0, <1>4, <2>3, <4>1, ChecksumDiffers
    <3>2. Checksum(0, data, 24 + n) \in Word /\ Checksum(0, f, 24 + n) \in Word
      BY <1>0, <1>1, <1>4, ChecksumWord
    <3>3. Slice(data, 24 + n, 2) = Slice(f, 24 + n, 2)
      <4>1. ASSUME NEW k \in 1 .. 2 PROVE At(data, 24 + n + k - 1) = At(f, 24 + n + k - 1)
        <5>1. 24 + n + k - 1 \in Nat /\ 24 + n + k - 1 # i
          BY <1>1, <1>4, <2>3
        <5> QED
          BY <1>4, <5>1
      <4> QED
        BY <4>1 DEF Slice
    <3>4. Bytes(Checksum(0, data, 24 + n)) # Bytes(Checksum(0, f, 24 + n))
      BY <3>1, <3>2, BytesDiffer
    <3>5. ~ChecksumMatches(data, At(data, 2))
      BY <1>3, <2>1, <3>3, <3>4 DEF ChecksumMatches
    <3> QED
      BY <3>5 DEF IsPacket
  <2>4. CASE i = 24 + n \/ i = 25 + n
    <3>1. Checksum(0, data, 24 + n) = Checksum(0, f, 24 + n)
      <4>1. 24 + n \in Nat /\ ~(i < 24 + n) /\ \A k \in 0 .. (24 + n) - 1 : k \in Nat
        BY <1>1, <2>4
      <4>2. ByteSum(data, 24 + n) = ByteSum(f, 24 + n) + 0
        BY <1>0, <1>4, <4>1, SumDifference
      <4>3. ByteSum(f, 24 + n) \in Nat
        BY <1>0, <4>1, SumNatural
      <4>4. ByteSum(data, 24 + n) = ByteSum(f, 24 + n)
        BY <4>2, <4>3
      <4> QED
        BY <4>4 DEF Checksum
    <3>2. PICK k \in 1 .. 2 : 24 + n + k - 1 = i
      <4>1. 24 + n + 1 - 1 = 24 + n /\ 24 + n + 2 - 1 = 25 + n
        BY <1>1
      <4> QED
        BY <2>4, <4>1
    <3>3. Slice(data, 24 + n, 2)[k] = At(data, i) /\ Slice(f, 24 + n, 2)[k] = At(f, i)
      BY <3>2 DEF Slice
    <3>4. Slice(data, 24 + n, 2) # Slice(f, 24 + n, 2)
      BY <1>4, <3>3
    <3>5. ~ChecksumMatches(data, At(data, 2))
      BY <1>3, <2>1, <3>1, <3>4 DEF ChecksumMatches
    <3> QED
      BY <3>5 DEF IsPacket
  <2>5. i < 2 \/ (2 < i /\ i < 24 + n) \/ i = 24 + n \/ i = 25 + n
    BY <1>1, <1>4
  <2> QED
    BY <2>2, <2>3, <2>4, <2>5
<1> QED
  BY <1>5 DEF Parse

LEMMA ShortenedRefused ==
  ASSUME NEW p \in PacketSet, NEW uid, NEW data, Shortened(data, Frame(p))
  PROVE  Parse(uid, data, Len(data)) = {}
<1> DEFINE f == Frame(p)
           n == Capped(p.pdl)
<1>0. f \in Buffer /\ Len(f) = 26 + n
  BY FrameBytes
<1>1. n \in Nat
  BY CappedLength DEF PacketSet
<1>2. Begins(f, f)
  <2>1. Len(f) \in Nat
    BY <1>0, <1>1
  <2> QED
    BY <1>0, <2>1 DEF Begins
<1>3. At(f, 2) = 24 + n
  BY <1>2, FieldsRead
<1>4. /\ Len(data) \in Nat /\ Len(data) < 26 + n
      /\ \A k \in Nat : k < Len(data) => At(data, k) = At(f, k)
  BY <1>0 DEF Shortened, Buffer
<1> HIDE DEF f, n
<1>5. CASE Len(data) < 26
  BY <1>4, <1>5 DEF Parse, IsPacket
<1>6. CASE ~(Len(data) < 26)
  <2>1. At(data, 2) = 24 + n
    BY <1>3, <1>4, <1>6
  <2>2. ~(24 + n <= Len(data) - 2)
    BY <1>1, <1>4
  <2> QED
    BY <2>1, <2>2 DEF Parse, IsPacket
<1> QED
  BY <1>5, <1>6

(***************************************************************************)
(* An answer to DISC_UNIQUE_BRANCH with one byte stuck at 0 or 255 is      *)
(* refused, or decoded to the UID that was sent.                           *)
(***************************************************************************)
THEOREM DamagedAnswer ==
  ASSUME NEW uid \in UIDSet, NEW preamble \in 0 .. 7, NEW data, NEW i,
         Damaged(data, BranchAnswer(uid, preamble), i), At(data, i) \in {0, 255}
  PROVE  ParseBranch(data, Len(data)) \subseteq {uid}
<1> DEFINE a == BranchAnswer(uid, preamble)
<1>1. /\ a \in Buffer /\ Len(a) = preamble + 17
      /\ \A k \in Nat : k < preamble => At(a, k) = 254
      /\ At(a, preamble) = 170
      /\ \A k \in Nat : k < 12 => At(a, preamble + 1 + k) = At(Encoded(uid), k)
      /\ \A k \in Nat : k < 4 => At(a, preamble + 13 + k) = At(EncodedSum(uid), k)
  <2>1. IsAnswer(a, uid, preamble)
    BY BranchBytes
  <2> HIDE DEF a
  <2> QED
    BY <2>1 DEF IsAnswer
<1>2. /\ data \in Buffer /\ i \in Nat /\ i < preamble + 17
      /\ At(data, i) # At(a, i)
      /\ \A k \in Nat : k # i => At(data, k) = At(a, k)
  BY <1>1 DEF Damaged
<1> HIDE DEF a
<1>3. preamble \in Nat /\ preamble <= 7
  OBVIOUS
<1>4. At(data, 0) # RDM_START_CODE
  <2>1. CASE i = 0
    BY <2>1 DEF RDM_START_CODE
  <2>2. CASE i # 0
    <3>1. At(data, 0) = At(a, 0)
      BY <1>2, <2>2
    <3>2. At(a, 0) \in {254, 170}
      BY <1>1, <1>3
    <3> QED
      BY <3>1, <3>2 DEF RDM_START_CODE
  <2> QED
    BY <2>1, <2>2
<1>5. CASE i <= preamble
  <2>1. ASSUME NEW k \in Nat, k < i PROVE At(data, k) = 254
    BY <1>1, <1>2, <1>3, <1>5, <2>1
  <2>2. At(data, i) # 254 /\ At(data, i) # 170
    OBVIOUS
  <2>3. i \in 0 .. 7
    BY <1>2, <1>3, <1>5
  <2>4. Skipped(data) = i
    BY <1>4, <2>1, <2>2, <2>3, SkippedPreamble
  <2> QED
    BY <2>2, <2>4 DEF ParseBranch
<1>6. CASE preamble < i
  <2>1. Skipped(data) = preamble
    <3>1. ASSUME NEW k \in Nat, k < preamble PROVE At(data, k) = 254
      <4>1. k # i
        BY <1>2, <1>3, <1>6, <3>1
      <4> QED
        BY <1>1, <1>2, <3>1, <4>1
    <3>2. At(data, preamble) # 254
      <4>1. preamble # i
        BY <1>2, <1>3, <1>6
      <4> QED
        BY <1>1, <1>2, <1>3, <4>1
    <3> QED
      BY <1>4, <3>1, <3>2, SkippedPreamble
  <2>2. CASE i < preamble + 13
    <3>1. Halved(data, preamble + 13, 2) = Bytes(Checksum(0, Encoded(uid), 12))
      <4>1. ASSUME NEW k \in Nat, k < 4
            PROVE  At(data, preamble + 13 + k) = At(EncodedSum(uid), k)
        <5>1. preamble + 13 + k \in Nat /\ preamble + 13 + k # i
          BY <1>2, <1>3, <2>2
        <5> QED
          BY <1>1, <1>2, <4>1, <5>1
      <4> QED
        BY <1>3, <4>1, EncodedSumRead
    <3> DEFINE s == Slice(data, preamble + 1, 12)
    <3>2. /\ s \in Buffer
          /\ \A k \in Nat : k < 12 => At(s, k) = At(data, preamble + 1 + k)
      <4>1. PICK j \in Nat : j = preamble + 1
        BY <1>3
      <4>2. data \in Buffer /\ 12 \in Nat
        BY <1>2
      <4> QED
        BY <4>1, <4>2, SliceBuffer
    <3>3. EncodedMatches(data, preamble)
          => Halved(data, preamble + 13, 2) = Bytes(Checksum(0, s, 12))
      BY DEF EncodedMatches
    <3> HIDE DEF s
    <3>4. PICK m \in Nat : m < 12 /\ preamble + 1 + m = i
      <4>1. i - (preamble + 1) \in Nat /\ i - (preamble + 1) < 12
            /\ preamble + 1 + (i - (preamble + 1)) = i
        BY <1>2, <1>3, <1>6, <2>2
      <4> QED
        BY <4>1
    <3>5. At(s, m) # At(Encoded(uid), m)
      BY <1>1, <1>2, <3>2, <3>4
    <3>6. ASSUME NEW k \in Nat, k < 12, k # m PROVE At(s, k) = At(Encoded(uid), k)
      <4>1. preamble + 1 + k \in Nat /\ preamble + 1 + k # i
        BY <1>3, <3>4, <3>6
      <4> QED
        BY <1>1, <1>2, <3>2, <3>6, <4>1
    <3>7. Encoded(uid) \in Buffer /\ Checksum(0, Encoded(uid), 12) \in Word
      BY EncodedBytes
    <3>8. Checksum(0, s, 12) # Checksum(0, Encoded(uid), 12)
      <4>1. PICK n \in Nat : n = 12
        OBVIOUS
      <4>2. m < n /\ \A k \in 0 .. n - 1 : k # m => At(s, k) = At(Encoded(uid), k)
        BY <3>4, <3>6, <4>1
      <4>3. Checksum(0, s, n) # Checksum(0, Encoded(uid), n)
        BY <3>2, <3>5, <3>7, <4>2, ChecksumDiffers
      <4> QED
        BY <4>1, <4>3
    <3>9. Checksum(0, s, 12) \in Word
      BY <3>2, ChecksumWord
    <3>10. Bytes(Checksum(0, s, 12)) # Bytes(Checksum(0, Encoded(uid), 12))
      BY <3>7, <3>8, <3>9, BytesDiffer
    <3> QED
      BY <2>1, <3>1, <3>3, <3>10 DEF ParseBranch
  <2>3. CASE ~(i < preamble + 13)
    <3>1. ASSUME NEW k \in Nat, k < 12
          PROVE  At(data, preamble + 1 + k) = At(Encoded(uid), k)
      <4>1. preamble + 1 + k \in Nat /\ preamble + 1 + k # i
        BY <1>2, <1>3, <2>3, <3>1
      <4> QED
        BY <1>1, <1>2, <3>1, <4>1
    <3>2. getUID(Halved(data, preamble + 1, 6)) = uid
      BY <1>3, <3>1, EncodedUIDRead
    <3> QED
      BY <2>1, <3>2 DEF ParseBranch
  <2> QED
    BY <2>2, <2>3
<1> QED
  BY <1>2, <1>3, <1>5, <1>6

LEMMA ShortenedAnswer ==
  ASSUME NEW uid \in UIDSet, NEW preamble \in 0 .. 7, NEW data,
         Shortened(data, BranchAnswer(uid, preamble))
  PROVE  ParseBranch(data, Len(data)) = {}
<1> DEFINE a == BranchAnswer(uid, preamble)
<1>1. /\ Len(a) = preamble + 17
      /\ \A k \in Nat : k < preamble => At(a, k) = 254
      /\ At(a, preamble) = 170
  <2>1. IsAnswer(a, uid, preamble)
    BY BranchBytes
  <2> HIDE DEF a
  <2> QED
    BY <2>1 DEF IsAnswer
<1>2. /\ Len(data) \in Nat /\ Len(data) < preamble + 17
      /\ \A k \in Nat : k < Len(data) => At(data, k) = At(a, k)
  BY <1>1 DEF Shortened, Buffer
<1> HIDE DEF a
<1>3. preamble \in Nat /\ preamble <= 7
  OBVIOUS
<1>4. CASE Len(data) < 17
  BY <1>4 DEF ParseBranch
<1>5. CASE ~(Len(data) < 17)
  <2>1. \A k \in Nat : k <= preamble => At(data, k) = At(a, k)
    BY <1>2, <1>3, <1>5
  <2>2. ASSUME NEW k \in Nat, k < preamble PROVE At(data, k) = 254
    BY <1>1, <2>1, <2>2
  <2>3. At(data, preamble) = 170
    BY <1>1, <1>3, <2>1
  <2>4. At(data, 0) # RDM_START_CODE
    <3>1. At(data, 0) \in {254, 170}
      BY <1>3, <2>2, <2>3
    <3> QED
      BY <3>1 DEF RDM_START_CODE
  <2>5. Skipped(data) = preamble
    BY <2>2, <2>3, <2>4, SkippedPreamble
  <2>6. ~(Len(data) - preamble >= 17)
    BY <1>2, <1>3
  <2> QED
    BY <2>5, <2>6 DEF ParseBranch
<1> QED
  BY <1>4, <1>5

(***************************************************************************)
(* A controller's request of any content, padded or not, goes to the line  *)
(* as it was written.                                                      *)
(***************************************************************************)
THEOREM RequestForwarded ==
  ASSUME NEW p \in PacketSet, NEW data, Begins(data, writePacket(p))
  PROVE  PassedOn(data) = writePacket(p)
<1> DEFINE w == writePacket(p)
           n == Capped(p.pdl)
<1>1. /\ w \in Buffer /\ Len(w) = 25 + n
      /\ \A i \in Nat : i < 23 + n => At(w, i) = At(Body(p), i)
  BY WrittenBytes
<1>2. At(Body(p), 0) = 1 /\ At(Body(p), 1) = 24 + n
  BY BodyBytes
<1>3. n \in Nat
  BY CappedLength DEF PacketSet
<1>4. /\ data \in Buffer /\ Len(data) \in Nat /\ 25 + n <= Len(data)
      /\ \A i \in Nat : i < 25 + n => At(data, i) = At(w, i)
  BY <1>1 DEF Begins, Buffer
<1> HIDE DEF w, n
<1>5. data[1] = 1 /\ data[2] = 24 + n
  <2>1. At(data, 0) = 1 /\ At(data, 1) = 24 + n
    BY <1>1, <1>2, <1>3, <1>4
  <2>2. At(data, 0) = data[0 + 1] /\ At(data, 1) = data[1 + 1]
    BY <1>3, <1>4 DEF At
  <2> QED
    BY <2>1, <2>2
<1>6. PacketLength(data) = 25 + n
  BY <1>3, <1>5 DEF PacketLength
<1>7. CASE Len(data) = 25 + n
  <2>1. data = w
    BY <1>1, <1>4, <1>7, SameBuffers
  <2>2. ~(PacketLength(data) < Len(data))
    BY <1>3, <1>6, <1>7
  <2> QED
    BY <2>1, <2>2 DEF PassedOn, w
<1>8. CASE 25 + n < Len(data)
  <2>1. PassedOn(data) = SubSeq(data, 1, 25 + n)
    <3>1. Len(data) > 2
      BY <1>3, <1>8
    <3> QED
      BY <1>5, <1>6, <1>8, <3>1 DEF PassedOn, RDM_SUB_START_CODE
  <2> DEFINE s == SubSeq(data, 1, 25 + n)
  <2>2. s \in Buffer /\ Len(s) = 25 + n /\ \A k \in 1 .. 25 + n : s[k] = data[k]
    BY <1>3, <1>4, <1>8 DEF Buffer
  <2> HIDE DEF s
  <2>3. ASSUME NEW k \in Nat, k < 25 + n PROVE At(s, k) = At(w, k)
    <3>1. k + 1 \in 1 .. 25 + n /\ k < Len(data)
      BY <1>3, <1>8, <2>3
    <3>2. At(s, k) = At(data, k)
      BY <2>2, <2>3, <3>1 DEF At
    <3> QED
      BY <1>4, <2>3, <3>2
  <2>4. s = w
    BY <1>1, <2>2, <2>3, SameBuffers
  <2> QED
    BY <2>1, <2>4 DEF s, w
<1> QED
  BY <1>3, <1>4, <1>7, <1>8

-----------------------------------------------------------------------------
(***************************************************************************)
(* Collisions of answers that begin at the same time.                      *)
(***************************************************************************)
\* What is on the line when two answers are sent at once.
Together(s, t) == [i \in DOMAIN s \cup DOMAIN t |-> BitOr(At(s, i - 1), At(t, i - 1))]

LEMMA UnionRead ==
  ASSUME NEW x \in Byte, NEW y \in Byte
  PROVE  BitAnd(BitOr(BitOr(x, 170), BitOr(y, 170)), BitOr(BitOr(x, 85), BitOr(y, 85)))
         = BitOr(x, y)
<1>1. 170 \in Byte /\ 85 \in Byte
  BY ByteBounds
<1>2. Ones(170) \cap Ones(85) = {}
  BY DEF Ones, Bits
<1>3. /\ BitOr(x, 170) \in Byte /\ Ones(BitOr(x, 170)) = Ones(x) \cup Ones(170)
      /\ BitOr(y, 170) \in Byte /\ Ones(BitOr(y, 170)) = Ones(y) \cup Ones(170)
      /\ BitOr(x, 85) \in Byte /\ Ones(BitOr(x, 85)) = Ones(x) \cup Ones(85)
      /\ BitOr(y, 85) \in Byte /\ Ones(BitOr(y, 85)) = Ones(y) \cup Ones(85)
  BY <1>1, BitOrByte
<1>4. /\ Ones(BitOr(BitOr(x, 170), BitOr(y, 170))) = Ones(x) \cup Ones(y) \cup Ones(170)
      /\ Ones(BitOr(BitOr(x, 85), BitOr(y, 85))) = Ones(x) \cup Ones(y) \cup Ones(85)
  <2>1. /\ Ones(BitOr(BitOr(x, 170), BitOr(y, 170)))
             = Ones(BitOr(x, 170)) \cup Ones(BitOr(y, 170))
        /\ Ones(BitOr(BitOr(x, 85), BitOr(y, 85))) = Ones(BitOr(x, 85)) \cup Ones(BitOr(y, 85))
    BY <1>3, BitOrByte
  <2> QED
    BY <1>3, <2>1
<1>5. (Ones(x) \cup Ones(y) \cup Ones(170)) \cap (Ones(x) \cup Ones(y) \cup Ones(85))
      = Ones(x) \cup Ones(y)
  BY <1>2
<1> QED
  BY <1>4, <1>5 DEF BitAnd, BitOr

LEMMA SameBits ==
  ASSUME NEW b \in Byte
  PROVE  BitOr(b, b) = b
<1>1. Ones(b) \cup Ones(b) = Ones(b)
  OBVIOUS
<1> QED
  BY <1>1, BitsOfByte DEF BitOr

LEMMA WordOfBytes ==
  ASSUME NEW h \in Byte, NEW l \in Byte
  PROVE  High(ToWord(h, l)) = h /\ Low(ToWord(h, l)) = l
<1>1. h \in Nat /\ h < 256 /\ l \in Nat /\ l < 256
  BY ByteBounds
<1> QED
  BY <1>1 DEF High, Low, ToWord

(***************************************************************************)
(* The answers of two devices that collide byte by byte are decoded to the *)
(* union of their UIDs, if to anything, whatever the UIDs and the          *)
(* preamble: discover() never probes a UID that lacks a bit of either.     *)
(***************************************************************************)
THEOREM UnionDecoded ==
  ASSUME NEW a \in UIDSet, NEW b \in UIDSet, NEW preamble \in 0 .. 7, NEW data,
         data = Together(BranchAnswer(a, preamble), BranchAnswer(b, preamble)),
         NEW u \in ParseBranch(data, Len(data))
  PROVE  writeUID(u) = [k \in 1 .. 6 |-> BitOr(writeUID(a)[k], writeUID(b)[k])]
<1> DEFINE s == BranchAnswer(a, preamble)
           t == BranchAnswer(b, preamble)
<1>1. IsAnswer(s, a, preamble) /\ IsAnswer(t, b, preamble)
  BY BranchBytes
<1> HIDE DEF s, t
<1>2. preamble \in Nat /\ preamble <= 7
  OBVIOUS
<1>3. /\ s \in Buffer /\ Len(s) = preamble + 17 /\ t \in Buffer /\ Len(t) = preamble + 17
      /\ \A k \in Nat : k < preamble => At(s, k) = 254 /\ At(t, k) = 254
      /\ At(s, preamble) = 170 /\ At(t, preamble) = 170
      /\ \A k \in Nat : k < 12 => /\ At(s, preamble + 1 + k) = At(Encoded(a), k)
                                  /\ At(t, preamble + 1 + k) = At(Encoded(b), k)
  BY <1>1 DEF IsAnswer
<1>4. ASSUME NEW k \in Nat, k < preamble + 17 PROVE At(data, k) = BitOr(At(s, k), At(t, k))
  <2>1. data = [i \in 1 .. preamble + 17 |-> BitOr(At(s, i - 1), At(t, i - 1))]
    <3>1. DOMAIN s \cup DOMAIN t = 1 .. preamble + 17
      BY <1>3 DEF Buffer
    <3>2. data = Together(s, t)
      BY DEF s, t
    <3> QED
      BY <3>1, <3>2 DEF Together
  <2>2. Len(data) = preamble + 17
    BY <1>2, <2>1
  <2>3. k + 1 \in 1 .. preamble + 17 /\ (k + 1) - 1 = k
    BY <1>2, <1>4
  <2> QED
    BY <1>4, <2>1, <2>2, <2>3 DEF At
<1>5. ASSUME NEW k \in Nat, k < preamble PROVE At(data, k) = 254
  <2>1. 254 \in Byte /\ k < preamble + 17
    BY <1>5, ByteBounds
  <2> QED
    BY <1>3, <1>4, <1>5, <2>1, SameBits
<1>6. At(data, preamble) = 170
  <2>1. 170 \in Byte /\ preamble < preamble + 17
    BY <1>2, ByteBounds
  <2> QED
    BY <1>2, <1>3, <1>4, <2>1, SameBits
<1>7. Skipped(data) = preamble
  <2>1. At(data, 0) \in {254, 170}
    BY <1>2, <1>5, <1>6
  <2>2. At(data, preamble) # 254 /\ At(data, 0) # RDM_START_CODE
    BY <1>6, <2>1 DEF RDM_START_CODE
  <2> QED
    BY <1>5, <2>2, SkippedPreamble
<1> DEFINE h == Halved(data, preamble + 1, 6)
           x(k) == At(writeUID(a), k - 1)
           y(k) == At(writeUID(b), k - 1)
<1>8. u = getUID(h)
  BY <1>7 DEF ParseBranch
<1>9. /\ writeUID(a) \in Buffer /\ Len(writeUID(a)) = 6
      /\ writeUID(b) \in Buffer /\ Len(writeUID(b)) = 6
  BY BytesOfUID
<1>10. ASSUME NEW k \in 1 .. 6
       PROVE  /\ h[k] = BitOr(x(k), y(k)) /\ h[k] \in Byte
              /\ x(k) = writeUID(a)[k] /\ y(k) = writeUID(b)[k]
  <2> DEFINE m == k - 1
  <2>1. /\ m \in Nat /\ m < 6 /\ m + 1 = k /\ 2 * m \in Nat /\ 2 * m + 1 \in Nat
        /\ 2 * m < 12 /\ 2 * m + 1 < 12
        /\ preamble + 1 + 2 * k - 2 = preamble + 1 + 2 * m
        /\ preamble + 1 + 2 * k - 1 = preamble + 1 + (2 * m + 1)
        /\ preamble + 1 + 2 * m \in Nat /\ preamble + 1 + 2 * m < preamble + 17
        /\ preamble + 1 + (2 * m + 1) \in Nat /\ preamble + 1 + (2 * m + 1) < preamble + 17
    BY <1>2
  <2>2. h[k] = BitAnd(At(data, preamble + 1 + 2 * k - 2), At(data, preamble + 1 + 2 * k - 1))
    BY DEF Halved
  <2>3. x(k) = At(writeUID(a), m) /\ y(k) = At(writeUID(b), m)
    OBVIOUS
  <2> HIDE DEF m, h, x, y
  <2>4. /\ At(Encoded(a), 2 * m) = BitOr(x(k), 170) /\ At(Encoded(a), 2 * m + 1) = BitOr(x(k), 85)
        /\ At(Encoded(b), 2 * m) = BitOr(y(k), 170) /\ At(Encoded(b), 2 * m + 1) = BitOr(y(k), 85)
    <3>1. ASSUME NEW uid \in UIDSet
          PROVE  /\ At(Encoded(uid), 2 * m) = BitOr(At(writeUID(uid), m), 170)
                 /\ At(Encoded(uid), 2 * m + 1) = BitOr(At(writeUID(uid), m), 85)
      <4> DEFINE w == writeUID(uid)
      <4>1. w \in Buffer /\ Len(w) = 6
        BY BytesOfUID
      <4>2. Encoded(uid) = Twice(w)
        BY DEF Encoded
      <4> HIDE DEF w
      <4>3. \A q \in Nat : q < Len(w) => /\ At(Twice(w), 2 * q) = BitOr(At(w, q), 170)
                                         /\ At(Twice(w), 2 * q + 1) = BitOr(At(w, q), 85)
        <5>1. w \in Buffer
          BY <4>1
        <5> QED
          BY <5>1, TwiceBytes
      <4>4. /\ At(Encoded(uid), 2 * m) = BitOr(At(w, m), 170)
            /\ At(Encoded(uid), 2 * m + 1) = BitOr(At(w, m), 85)
        <5>1. m \in Nat /\ m < Len(w)
          BY <2>1, <4>1
        <5>2. At(Twice(w), 2 * m) = BitOr(At(w, m), 170) /\ At(Twice(w), 2 * m + 1) = BitOr(At(w, m), 85)
          BY <4>3, <5>1
        <5> QED
          BY <4>2, <5>2
      <4> QED
        BY <4>4 DEF w
    <3> QED
      BY <2>3, <3>1
  <2>5. At(data, preamble + 1 + 2 * m) = BitOr(BitOr(x(k), 170), BitOr(y(k), 170))
    <3>1. /\ At(s, preamble + 1 + 2 * m) = At(Encoded(a), 2 * m)
          /\ At(t, preamble + 1 + 2 * m) = At(Encoded(b), 2 * m)
      BY <1>3, <2>1
    <3> QED
      BY <1>4, <2>1, <2>4, <3>1
  <2>6. At(data, preamble + 1 + (2 * m + 1)) = BitOr(BitOr(x(k), 85), BitOr(y(k), 85))
    <3>1. /\ At(s, preamble + 1 + (2 * m + 1)) = At(Encoded(a), 2 * m + 1)
          /\ At(t, preamble + 1 + (2 * m + 1)) = At(Encoded(b), 2 * m + 1)
      BY <1>3, <2>1
    <3> QED
      BY <1>4, <2>1, <2>4, <3>1
  <2>7. x(k) \in Byte /\ y(k) \in Byte
    BY <1>9, <2>1, <2>3, AtByte
  <2>8. x(k) = writeUID(a)[k] /\ y(k) = writeUID(b)[k]
    BY <1>9, <2>1, <2>3 DEF At
  <2>9. h[k] = BitOr(x(k), y(k))
    BY <2>1, <2>2, <2>5, <2>6, <2>7, UnionRead
  <2>10. BitOr(x(k), y(k)) \in Byte
    BY <2>7, BitOrByte
  <2> QED
    BY <2>8, <2>9, <2>10
<1> HIDE DEF h, x, y
<1>11. writeUID(u) = <<h[1], h[2], h[3], h[4], h[5], h[6]>>
  <2>1. u = <<ToWord(h[1], h[2]), ToWord(h[3], h[4]), ToWord(h[5], h[6])>>
    BY <1>8 DEF getUID
  <2>2. /\ h[1] \in Byte /\ h[2] \in Byte /\ h[3] \in Byte /\ h[4] \in Byte
        /\ h[5] \in Byte /\ h[6] \in Byte
    BY <1>10
  <2>3. /\ High(ToWord(h[1], h[2])) = h[1] /\ Low(ToWord(h[1], h[2])) = h[2]
        /\ High(ToWord(h[3], h[4])) = h[3] /\ Low(ToWord(h[3], h[4])) = h[4]
        /\ High(ToWord(h[5], h[6])) = h[5] /\ Low(ToWord(h[5], h[6])) = h[6]
    BY <2>2, WordOfBytes
  <2> QED
    BY <2>1, <2>3 DEF writeUID
<1>12. \A k \in 1 .. 6 : h[k] = BitOr(writeUID(a)[k], writeUID(b)[k])
  BY <1>10
<1> DEFINE r == [k \in 1 .. 6 |-> BitOr(writeUID(a)[k], writeUID(b)[k])]
<1>13. /\ r[1] = h[1] /\ r[2] = h[2] /\ r[3] = h[3] /\ r[4] = h[4] /\ r[5] = h[5]
       /\ r[6] = h[6] /\ r = [k \in 1 .. 6 |-> r[k]]
  BY <1>12
<1> HIDE DEF r
<1>14. r = <<h[1], h[2], h[3], h[4], h[5], h[6]>>
  BY <1>13
<1> QED
  BY <1>11, <1>14 DEF r

-----------------------------------------------------------------------------
(***************************************************************************)
(* The packets of the model.                                               *)
(***************************************************************************)
LEMMA SampleUID ==
  SampleUIDs \cup {Own} \subseteq UIDSet
<1>1. Words \subseteq Word
  BY BoundsAssumption DEF BoundsAssumption
<1>2. Own \in UIDSet
  <2>1. 31344 \in Word /\ 1 \in Word /\ 258 \in Word
    BY WordBounds
  <2>2. Own = <<31344, 1, 258>>
    BY DEF Own, generateUID, RDM_UID_MFR
  <2> QED
    BY <2>1, <2>2 DEF UIDSet
<1> QED
  BY <1>1, <1>2 DEF SampleUIDs, UIDSet

LEMMA ListedUID ==
  ASSUME NEW n \in Lists
  PROVE  /\ n \in Nat /\ n <= 38 /\ Len(Listed(n)) = n
         /\ \A k \in 1 .. n : Listed(n)[k] \in UIDSet
<1>1. n \in Nat /\ n <= 38
  BY BoundsAssumption DEF BoundsAssumption
<1>2. ASSUME NEW k \in 1 .. n PROVE <<RDM_UID_MFR, k, 65535 - k>> \in UIDSet
  <2>1. RDM_UID_MFR \in Word /\ k \in Word /\ 65535 - k \in Word
    BY <1>1, WordBounds DEF RDM_UID_MFR
  <2> QED
    BY <2>1 DEF UIDSet
<1>3. Listed(n) \in [1 .. n -> UIDSet]
  BY <1>2 DEF Listed
<1>4. Listed(n) \in Seq(UIDSet) /\ Len(Listed(n)) = n
  BY <1>1, <1>3
<1> QED
  BY <1>1, <1>3, <1>4

LEMMA ListBytes ==
  ASSUME NEW n \in Lists
  PROVE  /\ ListData(n) \in Buffer /\ Len(ListData(n)) = 6 * n
         /\ \A k \in 1 .. n, j \in 1 .. 6 :
              ListData(n)[6 * (k - 1) + j] = writeUID(Listed(n)[k])[j]
<1>1. n \in Nat /\ \A k \in 1 .. n : Listed(n)[k] \in UIDSet
  BY ListedUID
<1>2. \A k \in 1 .. n, j \in 1 .. 6 : writeUID(Listed(n)[k])[j] \in Byte
  <2>1. ASSUME NEW k \in 1 .. n, NEW j \in 1 .. 6 PROVE writeUID(Listed(n)[k])[j] \in Byte
    <3>1. writeUID(Listed(n)[k]) \in Seq(Byte) /\ j \in 1 .. Len(writeUID(Listed(n)[k]))
      BY <1>1, BytesOfUID DEF Buffer
    <3> QED
      BY <3>1, ElementOfSeq
  <2> QED
    BY <2>1
<1> DEFINE b(m) == writeUID(Listed(n)[(m + 5) \div 6])[((m + 5) % 6) + 1]
<1>3. ASSUME NEW m \in 1 .. 6 * n PROVE b(m) \in Byte
  <2>1. (m + 5) \div 6 \in 1 .. n /\ ((m + 5) % 6) + 1 \in 1 .. 6
    BY <1>1
  <2> QED
    BY <1>2, <2>1
<1>4. ListData(n) = [m \in 1 .. 6 * n |-> b(m)]
  BY DEF ListData
<1>5. ASSUME NEW k \in 1 .. n, NEW j \in 1 .. 6
      PROVE  6 * (k - 1) + j \in 1 .. 6 * n /\ b(6 * (k - 1) + j) = writeUID(Listed(n)[k])[j]
  <2>1. /\ 6 * (k - 1) + j \in 1 .. 6 * n
        /\ ((6 * (k - 1) + j) + 5) \div 6 = k
        /\ ((6 * (k - 1) + j) + 5) % 6 = j - 1
        /\ (j - 1) + 1 = j
    BY <1>1
  <2> QED
    BY <2>1
<1> HIDE DEF b
<1>6. ListData(n) \in Buffer /\ Len(ListData(n)) = 6 * n
  <2>1. ListData(n) \in [1 .. 6 * n -> Byte] /\ 6 * n \in Nat
    BY <1>1, <1>3, <1>4
  <2> QED
    BY <2>1 DEF Buffer
<1>7. ASSUME NEW k \in 1 .. n, NEW j \in 1 .. 6
      PROVE  ListData(n)[6 * (k - 1) + j] = writeUID(Listed(n)[k])[j]
  BY <1>4, <1>5
<1> QED
  BY <1>6, <1>7

LEMMA PayloadBytes ==
  ASSUME NEW pdata \in Payloads
  PROVE  pdata \in Buffer /\ Len(pdata) \in Nat /\ Len(pdata) <= 231
<1>1. CASE \E n \in Lists : pdata = ListData(n)
  <2>1. PICK n \in Lists : pdata = ListData(n)
    BY <1>1
  <2>2. n \in Nat /\ n <= 38
    BY ListedUID
  <2>3. pdata \in Buffer /\ Len(pdata) = 6 * n
    BY <2>1, ListBytes
  <2> QED
    BY <2>2, <2>3
<1>2. CASE \E n \in Lengths : pdata = [k \in 1 .. n |-> 255 - k]
  <2>1. PICK n \in Lengths : pdata = [k \in 1 .. n |-> 255 - k]
    BY <1>2
  <2>2. n \in Nat /\ n <= 231
    BY BoundsAssumption DEF BoundsAssumption, RDM_MAX_PDL
  <2>3. \A k \in 1 .. n : 255 - k \in Byte
    BY <2>2, ByteBounds
  <2>4. pdata \in [1 .. n -> Byte]
    BY <2>1, <2>3
  <2>5. pdata \in Buffer /\ Len(pdata) = n
    BY <2>2, <2>4 DEF Buffer
  <2> QED
    BY <2>2, <2>5
<1> QED
  BY <1>1, <1>2 DEF Payloads

LEMMA PacketSent ==
  ASSUME NEW dest \in SampleUIDs \cup {Own}, NEW pdata \in Payloads
  PROVE  Packet(dest, pdata) \in PacketSet
<1>1. pdata \in Buffer /\ Len(pdata) \in Nat /\ Len(pdata) <= 231
  BY PayloadBytes
<1>2. dest \in UIDSet
  BY SampleUID
<1>3. <<65535, 257, 2>> \in UIDSet /\ 1286 \in Word /\ 16 \in Word
  <2>1. 65535 \in Word /\ 257 \in Word /\ 2 \in Word /\ 1286 \in Word /\ 16 \in Word
    BY WordBounds
  <2> QED
    BY <2>1 DEF UIDSet
<1>4. 255 \in Byte /\ 3 \in Byte /\ 4 \in Byte /\ 33 \in Byte /\ Len(pdata) \in Byte
  BY <1>1, ByteBounds
<1>5. Capped(Len(pdata)) = Len(pdata)
  BY <1>1, <1>4, CappedLength
<1> QED
  BY <1>1, <1>2, <1>3, <1>4, <1>5 DEF Packet, PacketSet

\* A list is decoded to the devices in it.
LEMMA ListRead ==
  ASSUME NEW n \in Lists, NEW p, p.pdata = ListData(n), p.pdl = Len(p.pdata)
  PROVE  ProxyTOD(p) = Listed(n)
<1>1. n \in Nat /\ n <= 38 /\ \A k \in 1 .. n : Listed(n)[k] \in UIDSet
  BY ListedUID
<1>2. /\ ListData(n) \in Buffer /\ Len(ListData(n)) = 6 * n
      /\ \A k \in 1 .. n, j \in 1 .. 6 :
           ListData(n)[6 * (k - 1) + j] = writeUID(Listed(n)[k])[j]
  BY ListBytes
<1>3. ASSUME NEW k \in 1 .. n PROVE getUID(Slice(p.pdata, 6 * (k - 1), 6)) = Listed(n)[k]
  <2>1. 6 * (k - 1) \in Nat
    BY <1>1
  <2>2. ASSUME NEW m \in Nat, m < 6
        PROVE  At(ListData(n), 6 * (k - 1) + m) = At(writeUID(Listed(n)[k]), m)
    <3>1. /\ m + 1 \in 1 .. 6 /\ 6 * (k - 1) + m < 6 * n
          /\ (6 * (k - 1) + m) + 1 = 6 * (k - 1) + (m + 1)
      BY <1>1, <2>2
    <3>2. Len(writeUID(Listed(n)[k])) = 6
      BY <1>1, BytesOfUID
    <3>3. At(writeUID(Listed(n)[k]), m) = writeUID(Listed(n)[k])[m + 1]
      BY <2>2, <3>2 DEF At
    <3>4. At(ListData(n), 6 * (k - 1) + m) = ListData(n)[6 * (k - 1) + (m + 1)]
      BY <1>2, <3>1 DEF At
    <3> QED
      BY <1>2, <3>1, <3>3, <3>4
  <2>3. Listed(n)[k] \in UIDSet
    BY <1>1
  <2> QED
    BY <1>2, <2>1, <2>2, <2>3, UIDRead
<1>4. /\ ~(p.pdl > MaxListLength)
      /\ (p.pdl + 5) \div 6 = n
  BY <1>1, <1>2 DEF MaxListLength
<1>5. ProxyTOD(p) = [k \in 1 .. n |-> getUID(Slice(p.pdata, 6 * (k - 1), 6))]
  BY <1>4 DEF ProxyTOD
<1>6. Listed(n) = [k \in 1 .. n |-> Listed(n)[k]]
  BY DEF Listed
<1>7. ProxyTOD(p) = [k \in 1 .. n |-> Listed(n)[k]]
  BY <1>3, <1>5
<1> QED
  BY <1>6, <1>7

-----------------------------------------------------------------------------
(***************************************************************************)
(* The invariant: what is on the line is what was sent, disturbed at most  *)
(* once, and what was decoded is what is on the line.                      *)
(***************************************************************************)
Arrived(s) ==
  /\ fault # "collided"
  /\ fault = "none" => line = s
  /\ fault = "trailed" => Begins(line, s)
  /\ fault = "damaged" =>
       \E i \in Nat : i # 2 /\ At(line, i) \in {0, 255} /\ Damaged(line, s, i)
  /\ fault = "cut" => Shortened(line, s)

Decoded ==
  /\ kind = "packet" => got = Parse(Own, line, Len(line))
  /\ kind = "branch" => got = ParseBranch(line, Len(line))
  /\ kind = "request" => got = {PassedOn(line)}

PacketIsSent ==
  \E dest \in SampleUIDs \cup {Own}, pdata \in Payloads : sent = Packet(dest, pdata)

LineInv ==
  /\ TypeOK
  /\ stage = "idle" <=> kind = "none"
  /\ kind \in {"packet", "request"} => PacketIsSent
  /\ kind = "packet" => Arrived(Frame(sent))
  /\ kind = "request" => Arrived(writePacket(sent)) /\ fault \in {"none", "trailed"}
  /\ kind = "branch" /\ fault # "collided" =>
       \E uid \in UIDSet, preamble \in 0 .. 7 :
         sent = {uid} /\ Arrived(BranchAnswer(uid, preamble))
  /\ stage = "received" => Decoded

LEMMA BeginsItself ==
  ASSUME NEW s \in Buffer
  PROVE  Begins(s, s)
<1>1. Len(s) \in Nat
  BY DEF Buffer
<1> QED
  BY <1>1 DEF Begins

LEMMA Disturbed ==
  ASSUME LineInv, stage = "line", fault = "none",
         UNCHANGED <<stage, kind, got, sent>>, line' \in Buffer,
         \/ fault' = "trailed" /\ Begins(line', line)
         \/ /\ fault' = "damaged" /\ kind # "request"
            /\ \E i \in Nat : i # 2 /\ At(line', i) \in {0, 255} /\ Damaged(line', line, i)
         \/ fault' = "cut" /\ kind # "request" /\ Shortened(line', line)
  PROVE  LineInv'
<1>1. TypeOK'
  BY DEF LineInv, TypeOK, Buffer
<1>2. (stage = "idle" <=> kind = "none")' /\ (stage = "received" => Decoded)'
  BY DEF LineInv
<1>3. (kind \in {"packet", "request"} => PacketIsSent)'
  BY DEF LineInv, PacketIsSent
<1>4. ASSUME NEW s, line = s
      PROVE  /\ fault' # "collided"
             /\ fault' = "none" => line' = s
             /\ fault' = "trailed" => Begins(line', s)
             /\ fault' = "damaged" =>
                  \E i \in Nat : i # 2 /\ At(line', i) \in {0, 255} /\ Damaged(line', s, i)
             /\ fault' = "cut" => Shortened(line', s)
  BY <1>4
<1>5. (kind = "packet" => Arrived(Frame(sent)))'
  <2> SUFFICES ASSUME kind' = "packet" PROVE Arrived(Frame(sent))'
    OBVIOUS
  <2>1. line = Frame(sent) /\ sent' = sent
    BY DEF LineInv, Arrived
  <2> QED
    BY <1>4, <2>1 DEF Arrived
<1>6. (kind = "request" => Arrived(writePacket(sent)) /\ fault \in {"none", "trailed"})'
  <2> SUFFICES ASSUME kind' = "request"
               PROVE  Arrived(writePacket(sent))' /\ fault' \in {"none", "trailed"}
    OBVIOUS
  <2>1. line = writePacket(sent) /\ sent' = sent
    BY DEF LineInv, Arrived
  <2>2. Arrived(writePacket(sent))'
    BY <1>4, <2>1 DEF Arrived
  <2>3. fault' \in {"none", "trailed"}
    OBVIOUS
  <2> QED
    BY <2>2, <2>3
<1>7. (kind = "branch" /\ fault # "collided" =>
         \E uid \in UIDSet, preamble \in 0 .. 7 :
           sent = {uid} /\ Arrived(BranchAnswer(uid, preamble)))'
  <2> SUFFICES ASSUME kind' = "branch"
               PROVE  \E uid \in UIDSet, preamble \in 0 .. 7 :
                        sent' = {uid} /\ Arrived(BranchAnswer(uid, preamble))'
    OBVIOUS
  <2>1. kind = "branch" /\ fault # "collided"
    OBVIOUS
  <2>2. PICK uid \in UIDSet, preamble \in 0 .. 7 :
          sent = {uid} /\ Arrived(BranchAnswer(uid, preamble))
    BY <2>1 DEF LineInv
  <2>3. line = BranchAnswer(uid, preamble) /\ sent' = {uid}
    BY <2>2 DEF Arrived
  <2>4. Arrived(BranchAnswer(uid, preamble))'
    BY <1>4, <2>3 DEF Arrived
  <2> QED
    BY <2>3, <2>4
<1> QED
  BY <1>1, <1>2, <1>3, <1>5, <1>6, <1>7 DEF LineInv

LEMMA StepLine ==
  LineInv /\ [Next]_vars => LineInv'
<1> SUFFICES ASSUME LineInv, [Next]_vars PROVE LineInv'
  OBVIOUS
<1>0. line \in Buffer
  BY DEF LineInv, TypeOK, Buffer
<1>1. ASSUME NEW dest \in SampleUIDs \cup {Own}, NEW pdata \in Payloads, SendPacket(dest, pdata)
      PROVE  LineInv'
  <2>1. sent' = Packet(dest, pdata) /\ sent' \in PacketSet
    BY <1>1, PacketSent DEF SendPacket
  <2>2. line' = Frame(sent') /\ line' \in Buffer
    BY <1>1, <2>1, FrameBytes DEF SendPacket
  <2>3. stage' = "line" /\ kind' = "packet" /\ fault' = "none" /\ got' = {}
    BY <1>1 DEF SendPacket
  <2>4. TypeOK'
    BY <2>2, <2>3 DEF TypeOK, Buffer
  <2>5. Arrived(Frame(sent))'
    BY <2>2, <2>3 DEF Arrived
  <2>6. PacketIsSent'
    BY <2>1 DEF PacketIsSent
  <2> QED
    BY <2>3, <2>4, <2>5, <2>6 DEF LineInv
<1>2. ASSUME NEW dest \in SampleUIDs \cup {Own}, NEW pdata \in Payloads, SendRequest(dest, pdata)
      PROVE  LineInv'
  <2>1. sent' = Packet(dest, pdata) /\ sent' \in PacketSet
    BY <1>2, PacketSent DEF SendRequest
  <2>2. line' = writePacket(sent') /\ line' \in Buffer
    BY <1>2, <2>1, WrittenBytes DEF SendRequest
  <2>3. stage' = "line" /\ kind' = "request" /\ fault' = "none" /\ got' = {}
    BY <1>2 DEF SendRequest
  <2>4. TypeOK'
    BY <2>2, <2>3 DEF TypeOK, Buffer
  <2>5. Arrived(writePacket(sent))'
    BY <2>2, <2>3 DEF Arrived
  <2>6. PacketIsSent'
    BY <2>1 DEF PacketIsSent
  <2> QED
    BY <2>3, <2>4, <2>5, <2>6 DEF LineInv
<1>3. ASSUME NEW uid \in SampleUIDs \ {RDM_UID_BROADCAST}, NEW preamble \in 0 .. 7,
             SendBranch(uid, preamble)
      PROVE  LineInv'
  <2>1. uid \in UIDSet
    BY SampleUID
  <2>2. IsAnswer(BranchAnswer(uid, preamble), uid, preamble)
    BY <2>1, BranchBytes
  <2>3. line' = BranchAnswer(uid, preamble) /\ line' \in Buffer
    BY <1>3, <2>2 DEF SendBranch, IsAnswer
  <2>4. stage' = "line" /\ kind' = "branch" /\ fault' = "none" /\ got' = {} /\ sent' = {uid}
    BY <1>3 DEF SendBranch
  <2>5. TypeOK'
    BY <2>3, <2>4 DEF TypeOK, Buffer
  <2>6. Arrived(BranchAnswer(uid, preamble))'
    BY <2>3, <2>4 DEF Arrived
  <2> QED
    BY <2>1, <2>4, <2>5, <2>6 DEF LineInv
<1>4. ASSUME NEW byte \in {0, 254}, Trail(byte) PROVE LineInv'
  <2> DEFINE t == <<byte, byte, byte>>
  <2>1. t \in Buffer /\ Len(t) = 3
    <3>1. byte \in Byte
      BY ByteBounds
    <3> QED
      BY <3>1 DEF Buffer
  <2>2. line' = line \o t
    BY <1>4 DEF Trail, Disturb
  <2> HIDE DEF t
  <2>3. Joined(line', line, Len(line), t, Len(t))
    <3>1. line \in Buffer /\ t \in Buffer
      BY <1>0, <2>1
    <3>2. Joined(line \o t, line, Len(line), t, Len(t))
      BY <3>1, Appended
    <3> QED
      BY <2>2, <3>2
  <2>4. Len(line) \in Nat
    BY <1>0 DEF Buffer
  <2>5. line' \in Buffer /\ Begins(line', line)
    BY <1>0, <2>1, <2>3, <2>4 DEF Joined, Begins
  <2>6. /\ stage = "line" /\ fault = "none" /\ fault' = "trailed"
        /\ UNCHANGED <<stage, kind, got, sent>>
    BY <1>4 DEF Trail, Disturb
  <2> QED
    BY <2>5, <2>6, Disturbed
<1>5. ASSUME NEW i \in DOMAIN line, NEW byte \in {0, 255}, Damage(i, byte) PROVE LineInv'
  <2>1. i \in 1 .. Len(line) /\ Len(line) \in Nat
    BY <1>0 DEF Buffer
  <2>2. line' = [line EXCEPT ![i] = byte] /\ byte # line[i] /\ i # 3 /\ kind # "request"
    BY <1>5 DEF Damage, Disturb
  <2>3. byte \in Byte
    BY ByteBounds
  <2>4. line' \in Buffer /\ Len(line') = Len(line)
    BY <1>0, <2>1, <2>2, <2>3 DEF Buffer
  <2>5. /\ i - 1 \in Nat /\ i - 1 < Len(line) /\ i - 1 # 2 /\ (i - 1) + 1 = i
    BY <2>1, <2>2
  <2>6. /\ line'[i] = byte /\ \A k \in 1 .. Len(line) : k # i => line'[k] = line[k]
    BY <1>0, <2>1, <2>2 DEF Buffer
  <2>7. At(line', i - 1) = byte /\ At(line, i - 1) = line[i]
    BY <2>4, <2>5, <2>6 DEF At
  <2>8. ASSUME NEW k \in Nat, k # i - 1 PROVE At(line', k) = At(line, k)
    <3>1. k + 1 # i /\ (k < Len(line) => k + 1 \in 1 .. Len(line))
      BY <2>1, <2>8
    <3> QED
      BY <2>4, <2>6, <3>1 DEF At
  <2>9. Damaged(line', line, i - 1)
    BY <1>0, <2>2, <2>4, <2>5, <2>7, <2>8 DEF Damaged
  <2>10. /\ stage = "line" /\ fault = "none" /\ fault' = "damaged"
         /\ UNCHANGED <<stage, kind, got, sent>>
    BY <1>5 DEF Damage, Disturb
  <2>11. \E j \in Nat : j # 2 /\ At(line', j) \in {0, 255} /\ Damaged(line', line, j)
    BY <2>5, <2>7, <2>9
  <2> QED
    BY <2>2, <2>4, <2>10, <2>11, Disturbed
<1>6. ASSUME NEW n \in 0 .. Len(line) - 1, Cut(n) PROVE LineInv'
  <2>1. Len(line) \in Nat /\ n \in Nat /\ n < Len(line)
    BY <1>0 DEF Buffer
  <2>2. line' = SubSeq(line, 1, n) /\ kind # "request"
    BY <1>6 DEF Cut, Disturb
  <2>3. line' \in Buffer /\ Len(line') = n /\ \A k \in 1 .. n : line'[k] = line[k]
    BY <1>0, <2>1, <2>2 DEF Buffer
  <2>4. ASSUME NEW k \in Nat, k < n PROVE At(line', k) = At(line, k)
    <3>1. k + 1 \in 1 .. n /\ k < Len(line)
      BY <2>1, <2>4
    <3> QED
      BY <2>3, <2>4, <3>1 DEF At
  <2>5. Shortened(line', line)
    BY <1>0, <2>1, <2>3, <2>4 DEF Shortened
  <2>6. /\ stage = "line" /\ fault = "none" /\ fault' = "cut"
        /\ UNCHANGED <<stage, kind, got, sent>>
    BY <1>6 DEF Cut, Disturb
  <2> QED
    BY <2>2, <2>3, <2>5, <2>6, Disturbed
<1>7. ASSUME NEW uid \in SampleUIDs, NEW preamble \in {0, 1, 7}, Collide(uid, preamble)
      PROVE  LineInv'
  <2> DEFINE other == BranchAnswer(uid, preamble)
             m == IF Len(line) < Len(other) THEN Len(other) ELSE Len(line)
             both == [i \in DOMAIN line \cup DOMAIN other |-> BitOr(At(line, i - 1), At(other, i - 1))]
  <2>1. other \in Buffer
    <3>1. uid \in UIDSet /\ preamble \in 0 .. 7
      BY SampleUID
    <3>2. IsAnswer(other, uid, preamble)
      BY <3>1, BranchBytes
    <3> QED
      BY <3>2 DEF IsAnswer
  <2>2. line' = both
    BY <1>7 DEF Collide, Disturb
  <2> HIDE DEF other
  <2>3. DOMAIN line \cup DOMAIN other = 1 .. m /\ m \in Nat
    BY <1>0, <2>1 DEF Buffer
  <2> HIDE DEF m
  <2>4. ASSUME NEW i \in 1 .. m PROVE BitOr(At(line, i - 1), At(other, i - 1)) \in Byte
    <3>1. i - 1 \in Nat
      OBVIOUS
    <3>2. At(line, i - 1) \in Byte /\ At(other, i - 1) \in Byte
      BY <1>0, <2>1, <3>1, AtByte
    <3> QED
      BY <3>2, BitOrByte
  <2>5. both \in [1 .. m -> Byte]
    BY <2>3, <2>4
  <2> HIDE DEF both
  <2>6. line' \in Buffer
    <3>1. line' \in [1 .. m -> Byte] /\ m \in Nat
      BY <2>2, <2>3, <2>5
    <3> QED
      BY <3>1 DEF Buffer
  <2>7. /\ stage = "line" /\ fault' = "collided" /\ kind = "branch"
        /\ UNCHANGED <<stage, kind, got>>
    BY <1>7 DEF Collide, Disturb
  <2>8. TypeOK'
    BY <2>6, <2>7 DEF LineInv, TypeOK, Buffer
  <2> QED
    BY <2>7, <2>8 DEF LineInv
<1>8. CASE Receive
  <2>1. /\ stage = "line" /\ stage' = "received" /\ UNCHANGED <<kind, sent, line, fault>>
        /\ kind \in {"packet", "branch", "request"}
    BY <1>8 DEF Receive, LineInv, TypeOK
  <2>2. Decoded'
    BY <1>8, <2>1 DEF Receive, Decoded
  <2>3. \A x, y \in got' : x = y
    BY <2>1, <2>2 DEF Decoded, Parse, ParseBranch
  <2>4. TypeOK'
    BY <2>1, <2>3 DEF LineInv, TypeOK
  <2>5. kind' # "none" /\ (kind' \in {"packet", "request"} => PacketIsSent')
    BY <2>1 DEF LineInv, PacketIsSent
  <2>6. /\ kind' = "packet" => Arrived(Frame(sent))'
        /\ kind' = "request" => Arrived(writePacket(sent))' /\ fault' \in {"none", "trailed"}
    BY <2>1 DEF LineInv, Arrived
  <2>7. kind' = "branch" /\ fault' # "collided" =>
          \E uid \in UIDSet, preamble \in 0 .. 7 :
            sent' = {uid} /\ Arrived(BranchAnswer(uid, preamble))'
    <3> SUFFICES ASSUME kind' = "branch", fault' # "collided"
                 PROVE  \E uid \in UIDSet, preamble \in 0 .. 7 :
                          sent' = {uid} /\ Arrived(BranchAnswer(uid, preamble))'
      OBVIOUS
    <3>1. PICK uid \in UIDSet, preamble \in 0 .. 7 :
            sent = {uid} /\ Arrived(BranchAnswer(uid, preamble))
      BY <2>1 DEF LineInv
    <3>2. sent' = {uid} /\ Arrived(BranchAnswer(uid, preamble))'
      BY <2>1, <3>1 DEF Arrived
    <3> QED
      BY <3>2
  <2> QED
    BY <2>1, <2>2, <2>4, <2>5, <2>6, <2>7 DEF LineInv
<1>9. CASE Return
  <2>1. stage' = "idle" /\ kind' = "none" /\ line' = <<>> /\ fault' = "none" /\ got' = {}
    BY <1>9 DEF Return
  <2>2. TypeOK'
    BY <2>1 DEF TypeOK
  <2> QED
    BY <2>1, <2>2 DEF LineInv
<1>10. CASE UNCHANGED vars
  <2>1. UNCHANGED <<stage, kind, sent, line, fault, got>>
    BY <1>10 DEF vars
  <2> QED
    BY <2>1 DEF LineInv, TypeOK, PacketIsSent, Arrived, Decoded
<1>11. (\E dest \in SampleUIDs \cup {Own}, pdata \in Payloads :
          SendPacket(dest, pdata) \/ SendRequest(dest, pdata)) => LineInv'
  BY <1>1, <1>2
<1>12. (\E uid \in SampleUIDs \ {RDM_UID_BROADCAST}, preamble \in 0 .. 7 :
          SendBranch(uid, preamble)) => LineInv'
  BY <1>3
<1>13. (\E i \in DOMAIN line, byte \in {0, 255} : Damage(i, byte)) => LineInv'
  BY <1>5
<1>14. (\E uid \in SampleUIDs, preamble \in {0, 1, 7} : Collide(uid, preamble)) => LineInv'
  BY <1>7
<1>15. (\E byte \in {0, 254} : Trail(byte)) \/ (\E n \in 0 .. Len(line) - 1 : Cut(n))
       => LineInv'
  BY <1>4, <1>6
<1> QED
  BY <1>8, <1>9, <1>10, <1>11, <1>12, <1>13, <1>14, <1>15, Zenon DEF Next

LEMMA InitLine == Init => LineInv
<1> SUFFICES ASSUME Init PROVE LineInv
  OBVIOUS
<1>1. TypeOK
  BY DEF Init, TypeOK
<1> QED
  BY <1>1 DEF Init, LineInv

LEMMA LineInvariant == Spec => []LineInv
BY InitLine, StepLine, PTL DEF Spec


-----------------------------------------------------------------------------
(***************************************************************************)
(* The theorems about the module.  The variables keep their types:         *)
(***************************************************************************)
THEOREM TypeCorrect == Spec => []TypeOK
BY LineInvariant, PTL DEF LineInv

LEMMA WholeLine ==
  ASSUME NEW s \in Buffer, Arrived(s), Whole
  PROVE  Begins(line, s)
BY BeginsItself DEF Arrived, Whole

LEMMA RoundTripOfLine == LineInv => PacketRoundTrip
<1> SUFFICES ASSUME LineInv, Received("packet"), Whole
             PROVE  got = IF Accepts(Own, sent.dest) THEN {sent} ELSE {}
  BY DEF PacketRoundTrip
<1>1. /\ PacketIsSent /\ Arrived(Frame(sent))
      /\ got = Parse(Own, line, Len(line))
  BY DEF LineInv, Received, Decoded
<1>2. sent \in PacketSet
  BY <1>1, PacketSent DEF PacketIsSent
<1>3. Begins(line, Frame(sent))
  BY <1>1, <1>2, FrameBytes, WholeLine
<1> QED
  BY <1>1, <1>2, <1>3, ReadBack

(***************************************************************************)
(* RDMPacket() reads back what writePacket() wrote, whatever follows it,   *)
(* and refuses a packet for another device:                                *)
(***************************************************************************)
THEOREM PacketsReadBack == Spec => []PacketRoundTrip
BY LineInvariant, RoundTripOfLine, PTL

LEMMA ListOfLine == LineInv => ProxyListRead
<1> SUFFICES ASSUME LineInv, Received("packet"), Whole, NEW p \in got, NEW n \in Lists,
                    sent.pdata = ListData(n)
             PROVE  ProxyTOD(p) = Listed(n)
  BY DEF ProxyListRead
<1>1. got = IF Accepts(Own, sent.dest) THEN {sent} ELSE {}
  BY RoundTripOfLine DEF PacketRoundTrip
<1>2. p = sent
  BY <1>1
<1>3. PacketIsSent
  BY DEF LineInv, Received
<1>4. sent.pdl = Len(sent.pdata)
  BY <1>3 DEF PacketIsSent, Packet
<1> QED
  BY <1>2, <1>4, ListRead

(***************************************************************************)
(* getProxyTOD() finds the devices of a proxy's list, those that were put  *)
(* into it and in their order, from none up to as many as a packet holds:  *)
(***************************************************************************)
THEOREM ProxyListsRead == Spec => []ProxyListRead
BY LineInvariant, ListOfLine, PTL

LEMMA RequestOfLine == LineInv => RequestPassedOn
<1> SUFFICES ASSUME LineInv, Received("request") PROVE got = {writePacket(sent)}
  BY DEF RequestPassedOn
<1>1. /\ PacketIsSent /\ Arrived(writePacket(sent)) /\ Whole
      /\ got = {PassedOn(line)}
  BY DEF LineInv, Received, Decoded, Whole
<1>2. sent \in PacketSet
  BY <1>1, PacketSent DEF PacketIsSent
<1>3. Begins(line, writePacket(sent))
  BY <1>1, <1>2, WrittenBytes, WholeLine
<1> QED
  BY <1>1, <1>2, <1>3, RequestForwarded

(***************************************************************************)
(* rdm_thread passes a controller's request on as it was written:          *)
(***************************************************************************)
THEOREM RequestsPassedOn == Spec => []RequestPassedOn
BY LineInvariant, RequestOfLine, PTL

LEMMA AnswerOfLine == LineInv => BranchRoundTrip
<1> SUFFICES ASSUME LineInv, Received("branch"), Whole PROVE got = sent
  BY DEF BranchRoundTrip
<1>1. got = ParseBranch(line, Len(line)) /\ fault # "collided"
  BY DEF LineInv, Received, Decoded, Whole
<1>2. PICK uid \in UIDSet, preamble \in 0 .. 7 :
        sent = {uid} /\ Arrived(BranchAnswer(uid, preamble))
  BY <1>1 DEF LineInv, Received
<1>3. IsAnswer(BranchAnswer(uid, preamble), uid, preamble)
  BY BranchBytes
<1>4. Begins(line, BranchAnswer(uid, preamble))
  BY <1>2, <1>3, WholeLine DEF IsAnswer
<1>5. ParseBranch(line, Len(line)) = {uid}
  BY <1>4, BranchReadBack
<1> QED
  BY <1>1, <1>2, <1>5

(***************************************************************************)
(* The answer of a single device to DISC_UNIQUE_BRANCH is decoded to its   *)
(* UID:                                                                    *)
(***************************************************************************)
THEOREM AnswersReadBack == Spec => []BranchRoundTrip
BY LineInvariant, AnswerOfLine, PTL

LEMMA DamageOfLine == LineInv => DamageDetected
<1> SUFFICES ASSUME LineInv, stage = "received", fault \in {"damaged", "cut"}
             PROVE  IF kind = "branch" THEN got \subseteq sent ELSE got = {}
  BY DEF DamageDetected
<1>1. kind \in {"packet", "branch"} /\ Decoded
  BY DEF LineInv, TypeOK
<1>2. CASE kind = "packet"
  <2>1. PacketIsSent /\ Arrived(Frame(sent)) /\ got = Parse(Own, line, Len(line))
    BY <1>1, <1>2 DEF LineInv, Decoded
  <2>2. sent \in PacketSet
    BY <2>1, PacketSent DEF PacketIsSent
  <2>3. CASE fault = "damaged"
    <3>1. PICK i \in Nat : i # 2 /\ Damaged(line, Frame(sent), i)
      BY <2>1, <2>3 DEF Arrived
    <3> QED
      BY <1>2, <2>1, <2>2, <3>1, DamagedRefused
  <2>4. CASE fault = "cut"
    <3>1. Shortened(line, Frame(sent))
      BY <2>1, <2>4 DEF Arrived
    <3> QED
      BY <1>2, <2>1, <2>2, <3>1, ShortenedRefused
  <2> QED
    BY <2>3, <2>4
<1>3. CASE kind = "branch"
  <2>1. PICK uid \in UIDSet, preamble \in 0 .. 7 :
          sent = {uid} /\ Arrived(BranchAnswer(uid, preamble))
    BY <1>3 DEF LineInv
  <2>2. got = ParseBranch(line, Len(line))
    BY <1>1, <1>3 DEF Decoded
  <2>3. CASE fault = "damaged"
    <3>1. PICK i \in Nat : At(line, i) \in {0, 255} /\ Damaged(line, BranchAnswer(uid, preamble), i)
      BY <2>1, <2>3 DEF Arrived
    <3>2. ParseBranch(line, Len(line)) \subseteq {uid}
      BY <3>1, DamagedAnswer
    <3> QED
      BY <1>3, <2>1, <2>2, <3>2
  <2>4. CASE fault = "cut"
    <3>1. Shortened(line, BranchAnswer(uid, preamble))
      BY <2>1, <2>4 DEF Arrived
    <3>2. ParseBranch(line, Len(line)) = {}
      BY <3>1, ShortenedAnswer
    <3> QED
      BY <1>3, <2>2, <3>2
  <2> QED
    BY <2>3, <2>4
<1> QED
  BY <1>1, <1>2, <1>3

(***************************************************************************)
(* What was cut short or damaged in one byte is refused, or it is an       *)
(* answer to DISC_UNIQUE_BRANCH whose UID is intact:                       *)
(***************************************************************************)
THEOREM DamageIsDetected == Spec => []DamageDetected
BY LineInvariant, DamageOfLine, PTL

=============================================================================
