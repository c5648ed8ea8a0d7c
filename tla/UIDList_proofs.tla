---------------------------- MODULE UIDList_proofs ----------------------------
(***************************************************************************)
(* What the operators of module UIDList do with lists of any length: the   *)
(* lemmas that the proofs about discovery rest on.                         *)
(*                                                                         *)
(* Induction is stated with sets (the k for which a fact holds) and not    *)
(* with predicates, so that it is first-order.                             *)
(***************************************************************************)
EXTENDS UIDList, FiniteSetTheorems, SequenceTheorems, TLAPS

-----------------------------------------------------------------------------
(***************************************************************************)
(* Induction over the natural numbers, from their well-foundedness.        *)
(***************************************************************************)
LEMMA SetInduction ==
  ASSUME NEW T, 0 \in T, \A n \in Nat : n \in T => n + 1 \in T
  PROVE  Nat \subseteq T
<1> DEFINE R == OpToRel(<, Nat)
           U == Nat \ T
<1> SUFFICES ASSUME U # {} PROVE FALSE
  OBVIOUS
<1>1. IsWellFoundedOn(R, Nat)
  BY NatLessThanWellFounded
<1>2. \A x, y \in Nat : <<x, y>> \in R <=> x < y
  BY DEF OpToRel
<1> HIDE DEF R
<1>3. U \subseteq Nat
  OBVIOUS
<1> HIDE DEF U
<1>4. PICK x \in U : \A y \in U : ~ (<<y, x>> \in R)
  BY <1>1, <1>3, WFMin
<1>5. x \in Nat /\ x \notin T /\ x # 0 /\ x - 1 \in Nat
  BY DEF U
<1>6. x - 1 \notin U
  <2>1. <<x - 1, x>> \in R
    BY <1>2, <1>5
  <2> QED
    BY <1>4, <2>1
<1> QED
  BY <1>5, <1>6 DEF U

\* A fact about the first k iterations of a loop of n.
LEMMA IntervalInduction ==
  ASSUME NEW n \in Nat, NEW T, 0 \in T, \A k \in 1 .. n : k - 1 \in T => k \in T
  PROVE  0 .. n \subseteq T
<1> DEFINE U == {k \in Nat : k <= n => k \in T}
<1>1. 0 \in U
  OBVIOUS
<1>2. ASSUME NEW k \in Nat, k \in U PROVE k + 1 \in U
  <2>1. CASE k + 1 <= n
    <3>1. k + 1 \in 1 .. n /\ (k + 1) - 1 = k
      BY <2>1
    <3>2. (k + 1) - 1 \in T
      BY <1>2, <2>1
    <3> QED
      BY <3>1, <3>2
  <2> QED
    BY <2>1
<1>3. Nat \subseteq U
  <2> HIDE DEF U
  <2> QED
    BY <1>1, <1>2, SetInduction
<1> QED
  BY <1>3

LEMMA MinOfNaturals ==
  ASSUME NEW I, I \subseteq Nat, I # {}
  PROVE  Min(I) \in I /\ \A k \in I : Min(I) <= k
<1> DEFINE R == OpToRel(<, Nat)
<1>1. IsWellFoundedOn(R, Nat)
  BY NatLessThanWellFounded
<1>2. \A x, y \in Nat : <<x, y>> \in R <=> x < y
  BY DEF OpToRel
<1> HIDE DEF R
<1>3. PICK x \in I : \A y \in I : ~ (<<y, x>> \in R)
  BY <1>1, WFMin
<1>4. \A y \in I : x <= y
  <2> SUFFICES ASSUME NEW y \in I PROVE ~(y < x)
    OBVIOUS
  <2> QED
    BY <1>2, <1>3
<1> QED
  BY <1>4 DEF Min

\* f[k] is the result of k iterations of g, from base on.
IsLoop(f, base, n, g) ==
  /\ f[0] = base
  /\ \A k \in 1 .. n : f[k] = g[<<f[k - 1], k>>]

\* A loop of any length has a result.
LEMMA LoopExists ==
  ASSUME NEW S, NEW base \in S, NEW n \in Nat, NEW g \in [S \X (1 .. n) -> S]
  PROVE  \E f \in [0 .. n -> S] : IsLoop(f, base, n, g)
<1> DEFINE T == {m \in 0 .. n : \E f \in [0 .. m -> S] : IsLoop(f, base, m, g)}
<1>1. 0 \in T
  <2>1. IsLoop([k \in 0 .. 0 |-> base], base, 0, g)
    BY DEF IsLoop
  <2> QED
    BY <2>1
<1>2. ASSUME NEW m \in 1 .. n, m - 1 \in T PROVE m \in T
  <2>1. PICK f \in [0 .. m - 1 -> S] : IsLoop(f, base, m - 1, g)
    BY <1>2
  <2> DEFINE h == [k \in 0 .. m |-> IF k = m THEN g[<<f[m - 1], m>>] ELSE f[k]]
  <2>2. g[<<f[m - 1], m>>] \in S
    OBVIOUS
  <2>3. h \in [0 .. m -> S]
    BY <2>2
  <2>4. h[0] = base
    BY <2>1 DEF IsLoop
  <2>5. ASSUME NEW k \in 1 .. m PROVE h[k] = g[<<h[k - 1], k>>]
    <3>1. CASE k = m
      <4>1. h[k] = g[<<f[m - 1], m>>] /\ h[m - 1] = f[m - 1]
        BY <3>1
      <4> HIDE DEF h
      <4> QED
        BY <3>1, <4>1
    <3>2. CASE k # m
      BY <3>2, <2>1 DEF IsLoop
    <3> QED
      BY <3>1, <3>2
  <2>6. IsLoop(h, base, m, g)
    BY <2>4, <2>5 DEF IsLoop
  <2> HIDE DEF h
  <2> QED
    BY <2>3, <2>6
<1> HIDE DEF T
<1>3. n \in T
  BY <1>1, <1>2, IntervalInduction
<1> QED
  BY <1>3 DEF T

-----------------------------------------------------------------------------
(***************************************************************************)
(* Lists and the sets of their elements.                                   *)
(***************************************************************************)
LEMMA ContainsIsMember ==
  ASSUME NEW S, NEW list \in Seq(S)
  PROVE  /\ ToSet(list) \subseteq S
         /\ \A u : Contains(list, u) <=> u \in ToSet(list)
BY DEF Contains, ToSet

LEMMA ToSetOfEmpty == ToSet(<<>>) = {}
BY DEF ToSet

LEMMA ToSetOfAppend ==
  ASSUME NEW S, NEW list \in Seq(S), NEW u \in S
  PROVE  /\ Append(list, u) \in Seq(S)
         /\ ToSet(Append(list, u)) = ToSet(list) \cup {u}
<1>1. /\ Append(list, u) \in Seq(S) /\ DOMAIN Append(list, u) = 1 .. Len(list) + 1
      /\ \A k \in 1 .. Len(list) : Append(list, u)[k] = list[k]
      /\ Append(list, u)[Len(list) + 1] = u
      /\ Len(list) \in Nat /\ DOMAIN list = 1 .. Len(list)
  OBVIOUS
<1>2. ToSet(Append(list, u)) \subseteq ToSet(list) \cup {u}
  BY <1>1 DEF ToSet
<1>3. ToSet(list) \subseteq ToSet(Append(list, u))
  BY <1>1 DEF ToSet
<1>4. u \in ToSet(Append(list, u))
  BY <1>1 DEF ToSet
<1> QED
  BY <1>1, <1>2, <1>3, <1>4

LEMMA ToSetOfConcat ==
  ASSUME NEW S, NEW a \in Seq(S), NEW b \in Seq(S)
  PROVE  /\ a \o b \in Seq(S)
         /\ ToSet(a \o b) = ToSet(a) \cup ToSet(b)
<1>1. /\ a \o b \in Seq(S) /\ DOMAIN (a \o b) = 1 .. Len(a) + Len(b)
      /\ \A k \in 1 .. Len(a) : (a \o b)[k] = a[k]
      /\ \A k \in Len(a) + 1 .. Len(a) + Len(b) : (a \o b)[k] = b[k - Len(a)]
      /\ Len(a) \in Nat /\ DOMAIN a = 1 .. Len(a)
      /\ Len(b) \in Nat /\ DOMAIN b = 1 .. Len(b)
  OBVIOUS
<1>2. ToSet(a \o b) \subseteq ToSet(a) \cup ToSet(b)
  <2> SUFFICES ASSUME NEW k \in 1 .. Len(a) + Len(b)
               PROVE  (a \o b)[k] \in ToSet(a) \cup ToSet(b)
    BY <1>1 DEF ToSet
  <2>1. CASE k <= Len(a)
    BY <1>1, <2>1 DEF ToSet
  <2>2. CASE k > Len(a)
    <3>1. k - Len(a) \in DOMAIN b /\ (a \o b)[k] = b[k - Len(a)]
      BY <1>1, <2>2
    <3> QED
      BY <3>1 DEF ToSet
  <2> QED
    BY <1>1, <2>1, <2>2
<1>3. ToSet(a) \subseteq ToSet(a \o b)
  BY <1>1 DEF ToSet
<1>4. ToSet(b) \subseteq ToSet(a \o b)
  <2> SUFFICES ASSUME NEW k \in DOMAIN b PROVE b[k] \in ToSet(a \o b)
    BY DEF ToSet
  <2>1. k + Len(a) \in DOMAIN (a \o b) /\ (a \o b)[k + Len(a)] = b[k]
    BY <1>1
  <2> QED
    BY <2>1 DEF ToSet
<1> QED
  BY <1>1, <1>2, <1>3, <1>4

-----------------------------------------------------------------------------
(***************************************************************************)
(* Lists without repetition.                                               *)
(***************************************************************************)
LEMMA DistinctIsInjective ==
  ASSUME NEW S, NEW list \in Seq(S)
  PROVE  Distinct(list) <=> \A j, k \in 1 .. Len(list) : list[j] = list[k] => j = k
<1> DEFINE D == 1 .. Len(list)
           T == ToSet(list)
<1>1. Len(list) \in Nat /\ DOMAIN list = D
  OBVIOUS
<1>2. IsFiniteSet(D) /\ Cardinality(D) = Len(list)
  BY <1>1, FS_Interval
<1>3. list \in Surjection(D, T)
  BY <1>1 DEF Surjection, ToSet
<1> HIDE DEF T, D
<1>4. Cardinality(T) = Cardinality(D) <=> list \in Injection(D, T)
  BY <1>2, <1>3, FS_Surjection
<1>5. list \in Injection(D, T) <=> \A j, k \in D : list[j] = list[k] => j = k
  BY <1>1, <1>3 DEF Injection, IsInjective, Surjection
<1> QED
  BY <1>2, <1>4, <1>5 DEF Distinct, T, D

LEMMA EmptyIsDistinct == Distinct(<<>>)
<1>1. Len(<<>>) = 0
  OBVIOUS
<1> QED
  BY <1>1, ToSetOfEmpty, FS_EmptySet DEF Distinct

LEMMA AppendDistinct ==
  ASSUME NEW S, NEW list \in Seq(S), NEW u \in S, Distinct(list), u \notin ToSet(list)
  PROVE  Distinct(Append(list, u))
<1> DEFINE new == Append(list, u)
<1>1. /\ new \in Seq(S) /\ Len(new) = Len(list) + 1
      /\ \A k \in 1 .. Len(list) : new[k] = list[k]
      /\ new[Len(list) + 1] = u
      /\ Len(list) \in Nat /\ DOMAIN list = 1 .. Len(list)
  OBVIOUS
<1>2. \A k \in 1 .. Len(list) : list[k] # u
  BY <1>1 DEF ToSet
<1>3. \A j, k \in 1 .. Len(list) : list[j] = list[k] => j = k
  BY DistinctIsInjective
<1> HIDE DEF new
<1>4. ASSUME NEW j \in 1 .. Len(new), NEW k \in 1 .. Len(new), new[j] = new[k]
      PROVE  j = k
  <2>1. CASE j <= Len(list) /\ k <= Len(list)
    BY <1>1, <1>3, <1>4, <2>1
  <2>2. CASE j <= Len(list) /\ k = Len(list) + 1
    BY <1>1, <1>2, <1>4, <2>2
  <2>3. CASE k <= Len(list) /\ j = Len(list) + 1
    BY <1>1, <1>2, <1>4, <2>3
  <2> QED
    BY <1>1, <2>1, <2>2, <2>3
<1>5. Distinct(new)
  BY <1>1, <1>4, DistinctIsInjective
<1> QED
  BY <1>5 DEF new

LEMMA ConcatDistinct ==
  ASSUME NEW S, NEW a \in Seq(S), NEW b \in Seq(S), Distinct(a), Distinct(b),
         ToSet(a) \cap ToSet(b) = {}
  PROVE  Distinct(a \o b)
<1> DEFINE ab == a \o b
<1>1. /\ ab \in Seq(S) /\ Len(ab) = Len(a) + Len(b)
      /\ \A k \in 1 .. Len(a) : ab[k] = a[k]
      /\ \A k \in Len(a) + 1 .. Len(a) + Len(b) : ab[k] = b[k - Len(a)]
      /\ Len(a) \in Nat /\ DOMAIN a = 1 .. Len(a)
      /\ Len(b) \in Nat /\ DOMAIN b = 1 .. Len(b)
  OBVIOUS
<1>2. \A j \in 1 .. Len(a), k \in 1 .. Len(b) : a[j] # b[k]
  BY <1>1 DEF ToSet
<1>3. /\ \A j, k \in 1 .. Len(a) : a[j] = a[k] => j = k
      /\ \A j, k \in 1 .. Len(b) : b[j] = b[k] => j = k
  BY DistinctIsInjective
<1> HIDE DEF ab
<1>4. ASSUME NEW j \in 1 .. Len(ab), NEW k \in 1 .. Len(ab), ab[j] = ab[k]
      PROVE  j = k
  <2>1. CASE j <= Len(a) /\ k <= Len(a)
    BY <1>1, <1>3, <1>4, <2>1
  <2>2. CASE j <= Len(a) /\ k > Len(a)
    <3>1. k - Len(a) \in 1 .. Len(b) /\ j \in 1 .. Len(a)
      BY <1>1, <2>2
    <3> QED
      BY <1>1, <1>2, <1>4, <2>2, <3>1
  <2>3. CASE k <= Len(a) /\ j > Len(a)
    <3>1. j - Len(a) \in 1 .. Len(b) /\ k \in 1 .. Len(a)
      BY <1>1, <2>3
    <3> QED
      BY <1>1, <1>2, <1>4, <2>3, <3>1
  <2>4. CASE j > Len(a) /\ k > Len(a)
    <3>1. j - Len(a) \in 1 .. Len(b) /\ k - Len(a) \in 1 .. Len(b)
      BY <1>1, <2>4
    <3>2. b[j - Len(a)] = b[k - Len(a)]
      BY <1>1, <1>4, <2>4
    <3>3. j - Len(a) = k - Len(a)
      BY <1>3, <3>1, <3>2
    <3> QED
      BY <1>1, <3>3
  <2> QED
    BY <1>1, <2>1, <2>2, <2>3, <2>4
<1>5. Distinct(ab)
  BY <1>1, <1>4, DistinctIsInjective
<1> QED
  BY <1>5 DEF ab

\* The first UID of a list, and those behind it.
LEMMA HeadAndTail ==
  ASSUME NEW S, NEW list \in Seq(S), list # <<>>
  PROVE  /\ Head(list) \in ToSet(list) /\ Head(list) \in S
         /\ Tail(list) \in Seq(S)
         /\ ToSet(list) = ToSet(Tail(list)) \cup {Head(list)}
         /\ Distinct(list) => Distinct(Tail(list)) /\ Head(list) \notin ToSet(Tail(list))
<1> DEFINE rest == Tail(list)
<1>1. /\ rest \in Seq(S) /\ Len(list) \in Nat \ {0} /\ Len(rest) = Len(list) - 1
      /\ DOMAIN rest = 1 .. Len(rest) /\ DOMAIN list = 1 .. Len(list)
      /\ \A k \in 1 .. Len(rest) : rest[k] = list[k + 1]
      /\ Head(list) = list[1] /\ list[1] \in S
  OBVIOUS
<1> HIDE DEF rest
<1>2. Head(list) \in ToSet(list)
  BY <1>1 DEF ToSet
<1>3. ToSet(rest) \subseteq ToSet(list)
  <2> SUFFICES ASSUME NEW k \in 1 .. Len(rest) PROVE rest[k] \in ToSet(list)
    BY <1>1 DEF ToSet
  <2>1. k + 1 \in DOMAIN list /\ rest[k] = list[k + 1]
    BY <1>1
  <2> QED
    BY <2>1 DEF ToSet
<1>4. ToSet(list) \subseteq ToSet(rest) \cup {Head(list)}
  <2> SUFFICES ASSUME NEW k \in 1 .. Len(list), k # 1 PROVE list[k] \in ToSet(rest)
    BY <1>1 DEF ToSet
  <2>1. k - 1 \in DOMAIN rest /\ rest[k - 1] = list[k]
    BY <1>1
  <2> QED
    BY <2>1 DEF ToSet
<1>5. ASSUME Distinct(list) PROVE Distinct(rest) /\ Head(list) \notin ToSet(rest)
  <2>1. \A j, k \in 1 .. Len(list) : list[j] = list[k] => j = k
    BY <1>5, DistinctIsInjective
  <2>2. \A k \in 1 .. Len(rest) : k + 1 \in 1 .. Len(list) /\ k + 1 # 1
    BY <1>1
  <2>3. \A j, k \in 1 .. Len(rest) : rest[j] = rest[k] => j = k
    <3> SUFFICES ASSUME NEW j \in 1 .. Len(rest), NEW k \in 1 .. Len(rest), rest[j] = rest[k]
                 PROVE  j = k
      OBVIOUS
    <3>1. j + 1 = k + 1
      BY <1>1, <2>1, <2>2
    <3> QED
      BY <3>1
  <2>4. Distinct(rest)
    BY <1>1, <2>3, DistinctIsInjective
  <2>5. \A k \in 1 .. Len(rest) : rest[k] # list[1]
    BY <1>1, <2>1, <2>2
  <2> QED
    BY <1>1, <2>4, <2>5 DEF ToSet
<1> QED
  BY <1>1, <1>2, <1>3, <1>4, <1>5 DEF rest

-----------------------------------------------------------------------------
(***************************************************************************)
(* The operators of module UIDList.                                        *)
(***************************************************************************)
LEMMA AddIfProperties ==
  ASSUME NEW S, NEW list \in Seq(S), NEW u \in S, NEW b \in BOOLEAN
  PROVE  /\ AddIf(list, u, b) \in Seq(S)
         /\ ToSet(AddIf(list, u, b)) = ToSet(list) \cup (IF b THEN {u} ELSE {})
         /\ Distinct(list) /\ (b => u \notin ToSet(list)) => Distinct(AddIf(list, u, b))
BY ToSetOfAppend, AppendDistinct DEF AddIf

LEMMA AddUniqueProperties ==
  ASSUME NEW S, NEW list \in Seq(S), NEW u \in S
  PROVE  /\ AddUnique(list, u) \in Seq(S)
         /\ ToSet(AddUnique(list, u)) = ToSet(list) \cup {u}
         /\ Distinct(list) => Distinct(AddUnique(list, u))
BY ContainsIsMember, ToSetOfAppend, AppendDistinct DEF AddUnique

LEMMA AddNewProperties ==
  ASSUME NEW S, NEW list \in Seq(S), NEW u \in S, NEW known \in Seq(S)
  PROVE  /\ AddNew(list, u, known) \in Seq(S)
         /\ ToSet(AddNew(list, u, known)) = ToSet(list) \cup ({u} \ ToSet(known))
         /\ Distinct(list) => Distinct(AddNew(list, u, known))
BY ContainsIsMember, AddUniqueProperties DEF AddNew

LEMMA RemoveFirstProperties ==
  ASSUME NEW S, NEW list \in Seq(S), NEW u
  PROVE  /\ RemoveFirst(list, u) \in Seq(S)
         /\ Distinct(list) => /\ Distinct(RemoveFirst(list, u))
                              /\ ToSet(RemoveFirst(list, u)) = ToSet(list) \ {u}
<1>1. CASE ~Contains(list, u)
  BY <1>1, ContainsIsMember DEF RemoveFirst, Contains
<1>2. CASE Contains(list, u)
  <2> DEFINE I == {k \in 1 .. Len(list) : list[k] = u}
             i == Min(I)
             before == SubSeq(list, 1, i - 1)
             after  == SubSeq(list, i + 1, Len(list))
  <2>1. I # {} /\ I \subseteq Nat
    BY <1>2 DEF Contains
  <2>2. RemoveFirst(list, u) = before \o after
    BY <1>2, <2>1 DEF RemoveFirst, RemoveAt, SelectInSeq, Contains
  <2>3. i \in 1 .. Len(list) /\ list[i] = u /\ Len(list) \in Nat /\ DOMAIN list = 1 .. Len(list)
    <3> HIDE DEF I
    <3>1. i \in I
      BY <2>1, MinOfNaturals
    <3> QED
      BY <3>1 DEF I
  <2> HIDE DEF i, I
  <2>4. /\ before \in Seq(S) /\ Len(before) = i - 1 /\ DOMAIN before = 1 .. i - 1
        /\ \A k \in 1 .. i - 1 : before[k] = list[k]
    <3>1. 1 \in Int /\ i - 1 \in Nat /\ (\A k \in 1 .. i - 1 : list[k] \in S)
      BY <2>3
    <3>2. /\ before \in Seq(S) /\ Len(before) = IF 1 <= i - 1 THEN (i - 1) - 1 + 1 ELSE 0
          /\ \A k \in 1 .. (i - 1) - 1 + 1 : before[k] = list[1 + k - 1]
      BY <3>1, SubSeqProperties
    <3>3. Len(before) = i - 1 /\ DOMAIN before = 1 .. Len(before)
      BY <3>1, <3>2
    <3>4. \A k \in 1 .. i - 1 : k \in 1 .. (i - 1) - 1 + 1 /\ 1 + k - 1 = k
      BY <3>1
    <3> QED
      BY <3>2, <3>3, <3>4
  <2>5. /\ after \in Seq(S) /\ Len(after) = Len(list) - i /\ DOMAIN after = 1 .. Len(list) - i
        /\ \A k \in 1 .. Len(list) - i : after[k] = list[k + i]
    <3>1. i + 1 \in Int /\ Len(list) \in Int /\ (\A k \in i + 1 .. Len(list) : list[k] \in S)
      BY <2>3
    <3>2. /\ after \in Seq(S)
          /\ Len(after) = IF i + 1 <= Len(list) THEN Len(list) - (i + 1) + 1 ELSE 0
          /\ \A k \in 1 .. Len(list) - (i + 1) + 1 : after[k] = list[i + 1 + k - 1]
      BY <3>1, SubSeqProperties
    <3>3. DOMAIN after = 1 .. Len(after)
      BY <3>2
    <3>5. Len(after) = Len(list) - i
      <4> DEFINE size == Len(after)
                 all  == Len(list)
      <4>1. i \in Int /\ all \in Int /\ i <= all
        BY <2>3
      <4>2. size = IF i + 1 <= all THEN all - (i + 1) + 1 ELSE 0
        BY <3>2
      <4> HIDE DEF size, all
      <4>3. size = all - i
        BY <4>1, <4>2
      <4> QED
        BY <4>3 DEF size, all
    <3>4. \A k \in 1 .. Len(list) - i :
            k \in 1 .. Len(list) - (i + 1) + 1 /\ i + 1 + k - 1 = k + i
      BY <2>3
    <3> QED
      BY <3>2, <3>3, <3>4, <3>5
  <2> HIDE DEF before, after
  <2>6. ASSUME Distinct(list)
        PROVE  /\ Distinct(before \o after)
               /\ ToSet(before \o after) = ToSet(list) \ {u}
    <3>1. \A j, k \in 1 .. Len(list) : list[j] = list[k] => j = k
      BY <2>6, DistinctIsInjective
    <3>2. Distinct(before)
      <4>1. \A j, k \in 1 .. Len(before) : before[j] = before[k] => j = k
        BY <2>3, <2>4, <3>1
      <4> QED
        BY <2>4, <4>1, DistinctIsInjective
    <3>3. Distinct(after)
      <4> SUFFICES ASSUME NEW j \in 1 .. Len(after), NEW k \in 1 .. Len(after),
                          after[j] = after[k]
                   PROVE  j = k
        BY <2>5, DistinctIsInjective
      <4>1. /\ j + i \in 1 .. Len(list) /\ k + i \in 1 .. Len(list)
            /\ after[j] = list[j + i] /\ after[k] = list[k + i]
        BY <2>3, <2>5
      <4>2. j + i = k + i
        BY <3>1, <4>1
      <4> QED
        BY <2>3, <4>2
    <3>4. ToSet(before) \cap ToSet(after) = {}
      <4> SUFFICES ASSUME NEW j \in 1 .. i - 1, NEW k \in 1 .. Len(list) - i
                   PROVE  before[j] # after[k]
        BY <2>4, <2>5 DEF ToSet
      <4>1. j \in 1 .. Len(list) /\ k + i \in 1 .. Len(list) /\ j # k + i
        BY <2>3
      <4> QED
        BY <2>4, <2>5, <3>1, <4>1
    <3>5. ToSet(before) \cup ToSet(after) \subseteq ToSet(list) \ {u}
      <4>1. ASSUME NEW k \in 1 .. i - 1 PROVE before[k] \in ToSet(list) \ {u}
        <5>1. k \in 1 .. Len(list) /\ k # i
          BY <2>3
        <5> QED
          BY <2>3, <2>4, <3>1, <5>1 DEF ToSet
      <4>2. ASSUME NEW k \in 1 .. Len(list) - i PROVE after[k] \in ToSet(list) \ {u}
        <5>1. k + i \in 1 .. Len(list) /\ k + i # i
          BY <2>3
        <5> QED
          BY <2>3, <2>5, <3>1, <5>1 DEF ToSet
      <4> QED
        BY <2>4, <2>5, <4>1, <4>2 DEF ToSet
    <3>6. ToSet(list) \ {u} \subseteq ToSet(before) \cup ToSet(after)
      <4> SUFFICES ASSUME NEW k \in 1 .. Len(list), k # i
                   PROVE  list[k] \in ToSet(before) \cup ToSet(after)
        BY <2>3 DEF ToSet
      <4>1. CASE k < i
        BY <2>3, <2>4, <4>1 DEF ToSet
      <4>2. CASE k > i
        <5>1. k - i \in DOMAIN after /\ after[k - i] = list[k]
          BY <2>3, <2>5, <4>2
        <5> QED
          BY <5>1 DEF ToSet
      <4> QED
        BY <2>3, <4>1, <4>2
    <3> QED
      BY <2>4, <2>5, <3>2, <3>3, <3>4, <3>5, <3>6, ConcatDistinct, ToSetOfConcat
  <2>7. before \o after \in Seq(S)
    BY <2>4, <2>5
  <2> QED
    BY <2>2, <2>6, <2>7
<1> QED
  BY <1>1, <1>2

\* m is the lists that the loop of MergeNew goes through.
Merges(m, list, more, known) ==
  /\ m[0] = list
  /\ \A k \in 1 .. Len(more) : m[k] = AddNew(m[k - 1], more[k], known)
  /\ MergeNew(list, more, known) = m[Len(more)]

LEMMA MergeLoop ==
  ASSUME NEW S, NEW list \in Seq(S), NEW more \in Seq(S), NEW known \in Seq(S)
  PROVE  \E m \in [0 .. Len(more) -> Seq(S)] : Merges(m, list, more, known)
<1> DEFINE n == Len(more)
           SS == Seq(S)
           g == [x \in SS \X (1 .. n) |-> AddNew(x[1], more[x[2]], known)]
           Rec(m) == m = [k \in 0 .. n |->
                            IF k = 0 THEN list ELSE AddNew(m[k - 1], more[k], known)]
           merged == CHOOSE m : Rec(m)
<1>1. MergeNew(list, more, known) = merged[n]
  BY DEF MergeNew
<1>2. ASSUME NEW l \in SS, NEW k \in 1 .. n PROVE AddNew(l, more[k], known) \in SS
  BY DEF AddNew, AddUnique
<1>3. n \in Nat /\ list \in SS
  OBVIOUS
<1> HIDE DEF n, SS
<1>4. g \in [SS \X (1 .. n) -> SS]
  BY <1>2
<1>5. PICK f \in [0 .. n -> SS] : IsLoop(f, list, n, g)
  <2> HIDE DEF g
  <2> QED
    BY <1>3, <1>4, LoopExists
<1>6. ASSUME NEW k \in 1 .. n PROVE f[k] = AddNew(f[k - 1], more[k], known)
  <2>1. f[k - 1] \in SS
    BY <1>3
  <2>2. g[<<f[k - 1], k>>] = AddNew(f[k - 1], more[k], known)
    BY <2>1
  <2> QED
    BY <1>5, <2>2 DEF IsLoop
<1>7. Rec(f)
  BY <1>3, <1>5, <1>6 DEF IsLoop
<1>8. Rec(merged)
  <2> HIDE DEF Rec
  <2> QED
    BY <1>7
<1> HIDE DEF merged
<1>9. merged = [k \in 0 .. n |-> IF k = 0 THEN list ELSE AddNew(merged[k - 1], more[k], known)]
  BY <1>8
<1>10. merged[0] = list
  BY <1>3, <1>9
<1>11. ASSUME NEW k \in 1 .. n PROVE merged[k] = AddNew(merged[k - 1], more[k], known)
  BY <1>3, <1>9
<1>12. ASSUME NEW k \in 0 .. n PROVE merged[k] \in SS
  <2> DEFINE T == {j \in 0 .. n : merged[j] \in SS}
  <2>1. 0 \in T
    BY <1>3, <1>10
  <2>2. ASSUME NEW j \in 1 .. n, j - 1 \in T PROVE j \in T
    BY <1>2, <1>11, <2>2
  <2>3. 0 .. n \subseteq T
    <3> HIDE DEF T
    <3> QED
      BY <1>3, <2>1, <2>2, IntervalInduction
  <2> QED
    BY <2>3
<1>13. merged \in [0 .. n -> SS]
  <2>1. DOMAIN merged = 0 .. n /\ merged = [k \in 0 .. n |-> merged[k]]
    BY <1>9
  <2> QED
    BY <1>12, <2>1
<1>14. Merges(merged, list, more, known)
  BY <1>1, <1>10, <1>11 DEF Merges, n
<1> QED
  BY <1>13, <1>14 DEF n, SS

\* e is the lists that the loop of EraseAll goes through.
Erases(e, list, us) ==
  /\ e[0] = list
  /\ \A k \in 1 .. Len(us) : e[k] = RemoveFirst(e[k - 1], us[k])
  /\ EraseAll(list, us) = e[Len(us)]

LEMMA EraseLoop ==
  ASSUME NEW S, NEW list \in Seq(S), NEW us \in Seq(S)
  PROVE  \E e \in [0 .. Len(us) -> Seq(S)] : Erases(e, list, us)
<1> DEFINE n == Len(us)
           SS == Seq(S)
           g == [x \in SS \X (1 .. n) |-> RemoveFirst(x[1], us[x[2]])]
           Rec(e) == e = [k \in 0 .. n |->
                            IF k = 0 THEN list ELSE RemoveFirst(e[k - 1], us[k])]
           erased == CHOOSE e : Rec(e)
<1>1. EraseAll(list, us) = erased[n]
  BY DEF EraseAll
<1>2. ASSUME NEW l \in SS, NEW k \in 1 .. n PROVE RemoveFirst(l, us[k]) \in SS
  BY RemoveFirstProperties
<1>3. n \in Nat /\ list \in SS
  OBVIOUS
<1> HIDE DEF n, SS
<1>4. g \in [SS \X (1 .. n) -> SS]
  BY <1>2
<1>5. PICK f \in [0 .. n -> SS] : IsLoop(f, list, n, g)
  <2> HIDE DEF g
  <2> QED
    BY <1>3, <1>4, LoopExists
<1>6. ASSUME NEW k \in 1 .. n PROVE f[k] = RemoveFirst(f[k - 1], us[k])
  <2>1. f[k - 1] \in SS
    BY <1>3
  <2>2. g[<<f[k - 1], k>>] = RemoveFirst(f[k - 1], us[k])
    BY <2>1
  <2> QED
    BY <1>5, <2>2 DEF IsLoop
<1>7. Rec(f)
  BY <1>3, <1>5, <1>6 DEF IsLoop
<1>8. Rec(erased)
  <2> HIDE DEF Rec
  <2> QED
    BY <1>7
<1> HIDE DEF erased
<1>9. erased = [k \in 0 .. n |-> IF k = 0 THEN list ELSE RemoveFirst(erased[k - 1], us[k])]
  BY <1>8
<1>10. erased[0] = list
  BY <1>3, <1>9
<1>11. ASSUME NEW k \in 1 .. n PROVE erased[k] = RemoveFirst(erased[k - 1], us[k])
  BY <1>3, <1>9
<1>12. ASSUME NEW k \in 0 .. n PROVE erased[k] \in SS
  <2> DEFINE T == {j \in 0 .. n : erased[j] \in SS}
  <2>1. 0 \in T
    BY <1>3, <1>10
  <2>2. ASSUME NEW j \in 1 .. n, j - 1 \in T PROVE j \in T
    BY <1>2, <1>11, <2>2
  <2>3. 0 .. n \subseteq T
    <3> HIDE DEF T
    <3> QED
      BY <1>3, <2>1, <2>2, IntervalInduction
  <2> QED
    BY <2>3
<1>13. erased \in [0 .. n -> SS]
  <2>1. DOMAIN erased = 0 .. n /\ erased = [k \in 0 .. n |-> erased[k]]
    BY <1>9
  <2> QED
    BY <1>12, <2>1
<1>14. Erases(erased, list, us)
  BY <1>1, <1>10, <1>11 DEF Erases, n
<1> QED
  BY <1>13, <1>14 DEF n, SS

(***************************************************************************)
(* MergeNew adds the UIDs that are new, each of them once.                 *)
(***************************************************************************)
THEOREM MergeNewProperties ==
  ASSUME NEW S, NEW list \in Seq(S), NEW more \in Seq(S), NEW known \in Seq(S)
  PROVE  /\ MergeNew(list, more, known) \in Seq(S)
         /\ ToSet(MergeNew(list, more, known))
              = ToSet(list) \cup (ToSet(more) \ ToSet(known))
         /\ Distinct(list) => Distinct(MergeNew(list, more, known))
<1> DEFINE n == Len(more)
           Before(k) == {more[j] : j \in 1 .. k}
<1>1. n \in Nat /\ DOMAIN more = 1 .. n
  OBVIOUS
<1>2. PICK m \in [0 .. n -> Seq(S)] : Merges(m, list, more, known)
  BY MergeLoop
<1> DEFINE T == {k \in 0 .. n : /\ ToSet(m[k]) = ToSet(list) \cup (Before(k) \ ToSet(known))
                                /\ Distinct(list) => Distinct(m[k])}
<1>3. 0 \in T
  <2>1. Before(0) = {}
    OBVIOUS
  <2> QED
    BY <1>1, <1>2, <2>1 DEF Merges
<1>4. ASSUME NEW k \in 1 .. n, k - 1 \in T PROVE k \in T
  <2>1. m[k - 1] \in Seq(S) /\ more[k] \in S
    <3>1. k - 1 \in 0 .. n
      BY <1>1
    <3> QED
      BY <1>1, <3>1
  <2>2. /\ ToSet(m[k]) = ToSet(m[k - 1]) \cup ({more[k]} \ ToSet(known))
        /\ Distinct(m[k - 1]) => Distinct(m[k])
    BY <1>2, <2>1, AddNewProperties DEF Merges
  <2>3. Before(k) = Before(k - 1) \cup {more[k]}
    OBVIOUS
  <2> HIDE DEF Before
  <2> QED
    BY <1>4, <2>2, <2>3
<1>5. 0 .. n \subseteq T
  <2> HIDE DEF T, n
  <2> QED
    BY <1>1, <1>3, <1>4, IntervalInduction
<1>6. Before(n) = ToSet(more)
  BY <1>1 DEF ToSet
<1>7. n \in T
  BY <1>1, <1>5
<1> QED
  BY <1>2, <1>6, <1>7, SMTT(30) DEF Merges

LEMMA MergeProperties ==
  ASSUME NEW S, NEW list \in Seq(S), NEW more \in Seq(S)
  PROVE  /\ Merge(list, more) \in Seq(S)
         /\ ToSet(Merge(list, more)) = ToSet(list) \cup ToSet(more)
         /\ Distinct(list) => Distinct(Merge(list, more))
<1>1. <<>> \in Seq(S)
  OBVIOUS
<1>2. /\ MergeNew(list, more, <<>>) \in Seq(S)
      /\ ToSet(MergeNew(list, more, <<>>)) = ToSet(list) \cup (ToSet(more) \ ToSet(<<>>))
      /\ Distinct(list) => Distinct(MergeNew(list, more, <<>>))
  BY <1>1, MergeNewProperties
<1> QED
  BY <1>2, ToSetOfEmpty DEF Merge

(***************************************************************************)
(* EraseAll erases one occurrence for each UID: all of them, in a list     *)
(* without repetition.                                                     *)
(***************************************************************************)
THEOREM EraseAllProperties ==
  ASSUME NEW S, NEW list \in Seq(S), NEW us \in Seq(S)
  PROVE  /\ EraseAll(list, us) \in Seq(S)
         /\ Distinct(list) => /\ Distinct(EraseAll(list, us))
                              /\ ToSet(EraseAll(list, us)) = ToSet(list) \ ToSet(us)
<1> DEFINE n == Len(us)
           Before(k) == {us[j] : j \in 1 .. k}
<1>1. n \in Nat /\ DOMAIN us = 1 .. n
  OBVIOUS
<1>2. PICK e \in [0 .. n -> Seq(S)] : Erases(e, list, us)
  BY EraseLoop
<1>3. ASSUME Distinct(list)
      PROVE  Distinct(e[n]) /\ ToSet(e[n]) = ToSet(list) \ ToSet(us)
  <2> DEFINE T == {k \in 0 .. n : Distinct(e[k]) /\ ToSet(e[k]) = ToSet(list) \ Before(k)}
  <2>1. 0 \in T
    <3>1. Before(0) = {}
      OBVIOUS
    <3> QED
      BY <1>1, <1>2, <1>3, <3>1 DEF Erases
  <2>2. ASSUME NEW k \in 1 .. n, k - 1 \in T PROVE k \in T
    <3>1. e[k - 1] \in Seq(S)
      BY <1>1
    <3>2. Distinct(e[k]) /\ ToSet(e[k]) = ToSet(e[k - 1]) \ {us[k]}
      BY <1>2, <2>2, <3>1, RemoveFirstProperties DEF Erases
    <3>3. Before(k) = Before(k - 1) \cup {us[k]}
      OBVIOUS
    <3> HIDE DEF Before
    <3> QED
      BY <2>2, <3>2, <3>3
  <2>3. 0 .. n \subseteq T
    <3> HIDE DEF T, n
    <3> QED
      BY <1>1, <2>1, <2>2, IntervalInduction
  <2>4. Before(n) = ToSet(us)
    BY <1>1 DEF ToSet
  <2>5. n \in T
    BY <1>1, <2>3
  <2> QED
    BY <2>4, <2>5
<1> QED
  BY <1>1, <1>2, <1>3 DEF Erases

\* The lists that SetToSeq makes of a finite set.
LEMMA SetToSeqProperties ==
  ASSUME NEW S, IsFiniteSet(S)
  PROVE  SetToSeq(S) \in Seq(S) /\ ToSet(SetToSeq(S)) = S
<1> DEFINE n == Cardinality(S)
           f == SetToSeq(S)
<1>1. n \in Nat /\ ExistsBijection(1 .. n, S)
  BY FS_CardinalityType
<1>2. \E h \in [1 .. n -> S] : IsInjective(h)
  BY <1>1 DEF ExistsBijection, Bijection, Injection
<1>3. f \in [1 .. n -> S] /\ IsInjective(f)
  BY <1>2 DEF SetToSeq
<1> HIDE DEF f
<1>4. IsFiniteSet(1 .. n) /\ Cardinality(1 .. n) = n
  BY <1>1, FS_Interval
<1>5. f \in Injection(1 .. n, S)
  BY <1>3 DEF Injection
<1>6. f \in Surjection(1 .. n, S)
  BY <1>4, <1>5, FS_Injection
<1>7. f \in Seq(S)
  BY <1>1, <1>3
<1>8. ToSet(f) = S
  BY <1>3, <1>6 DEF ToSet, Surjection
<1> QED
  BY <1>7, <1>8 DEF f

=============================================================================
