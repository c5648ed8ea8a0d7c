--------------------------- MODULE Discovery_proofs ---------------------------
(***************************************************************************)
(* Proofs about module Discovery, for a UID space of any size and any set  *)
(* of responders and proxies: the binary search divides the space          *)
(* correctly, the lists stay consistent, the reports are what changed, and *)
(* a discovery on a quiet bus finds exactly the devices there are.         *)
(***************************************************************************)
EXTENDS Discovery, UIDList_proofs

(***************************************************************************)
(* The two halves of a branch with at least two UIDs (discover(),          *)
(* openrdm_device.cpp:244-247) are both non-empty, adjacent, and together  *)
(* the whole branch; hence both are smaller than it, and the recursion     *)
(* ends.                                                                   *)
(***************************************************************************)
THEOREM HalvesPartition ==
  ASSUME NEW start \in Nat, NEW end \in Nat, start < end
  PROVE  /\ LowerHalf(start, end) \in Nat \X Nat
         /\ UpperHalf(start, end) \in Nat \X Nat
         /\ LowerHalf(start, end)[1] = start
         /\ LowerHalf(start, end)[1] <= LowerHalf(start, end)[2]
         /\ LowerHalf(start, end)[2] + 1 = UpperHalf(start, end)[1]
         /\ UpperHalf(start, end)[1] <= UpperHalf(start, end)[2]
         /\ UpperHalf(start, end)[2] = end
<1> DEFINE half == (end - start + 1) \div 2
<1>1. half \in Nat /\ 1 <= half /\ half <= end - start
  OBVIOUS
<1> HIDE DEF half
<1>2. LowerHalf(start, end) = <<start, start + half - 1>>
  BY DEF LowerHalf, half
<1>3. UpperHalf(start, end) = <<start + half, end>>
  BY DEF UpperHalf, half
<1> QED
  BY <1>1, <1>2, <1>3

-----------------------------------------------------------------------------
\* BranchesInOrder needs no more than that the branches are pairs of UIDs.
BranchInv == pending \in Seq(UIDs \X UIDs) /\ BranchesInOrder

LEMMA InitBranchInv == Init => BranchInv
  BY DEF Init, BranchInv, BranchesInOrder

\* The three ways in which a discovery changes the branches.
LEMMA WholeRangeInOrder ==
  ASSUME pending' = WholeRange
  PROVE  BranchInv'
<1>1. <<0, RDM_UID_MAX>> \in UIDs \X UIDs /\ 0 <= RDM_UID_MAX
  BY UIDAssumption DEF UIDAssumption, UIDs
<1>2. WholeRange \in Seq(UIDs \X UIDs) /\ DOMAIN WholeRange = {1}
  BY <1>1 DEF WholeRange
<1>3. WholeRange[1][1] <= WholeRange[1][2]
  BY <1>1 DEF WholeRange
<1> QED
  BY <1>2, <1>3 DEF BranchInv, BranchesInOrder

LEMMA TailInOrder ==
  ASSUME BranchInv, pending # <<>>, pending' = Tail(pending)
  PROVE  BranchInv'
<1>1. /\ Tail(pending) \in Seq(UIDs \X UIDs)
      /\ \A k \in DOMAIN Tail(pending) :
           k + 1 \in DOMAIN pending /\ Tail(pending)[k] = pending[k + 1]
      /\ DOMAIN Tail(pending) \subseteq Nat
  BY DEF BranchInv
<1>2. \A j, k \in DOMAIN Tail(pending) : j < k => j + 1 < k + 1
  BY <1>1
<1> QED
  BY <1>1, <1>2 DEF BranchInv, BranchesInOrder

LEMMA HalvesInOrder ==
  ASSUME BranchInv, BranchGarbled
  PROVE  BranchInv'
<1> DEFINE start == Branch[1]
           end   == Branch[2]
           lower == LowerHalf(start, end)
           upper == UpperHalf(start, end)
           rest  == Tail(pending)
<1>1. /\ pending # <<>> /\ start # end
      /\ pending' = <<lower, upper>> \o rest
  BY DEF BranchGarbled, InBranch
<1>2. /\ 1 \in DOMAIN pending
      /\ start = pending[1][1] /\ end = pending[1][2]
      /\ pending[1] \in UIDs \X UIDs
  BY <1>1 DEF BranchInv, Branch
<1>3. start \in UIDs /\ end \in UIDs /\ start < end
  <2>1. start <= end
    BY <1>2 DEF BranchInv, BranchesInOrder
  <2> QED
    BY <1>1, <1>2, <2>1 DEF UIDs
<1>4. /\ lower \in UIDs \X UIDs /\ upper \in UIDs \X UIDs
      /\ lower[1] <= lower[2] /\ lower[2] < upper[1] /\ upper[1] <= upper[2]
      /\ upper[2] = end
  <2>1. start \in Nat /\ end \in Nat
    BY <1>3 DEF UIDs
  <2>2. /\ lower \in Nat \X Nat /\ upper \in Nat \X Nat
        /\ lower[1] = start /\ lower[1] <= lower[2]
        /\ lower[2] + 1 = upper[1] /\ upper[1] <= upper[2] /\ upper[2] = end
    <3>1. start < end
      BY <1>3
    <3> HIDE DEF start, end
    <3> QED
      BY <2>1, <3>1, HalvesPartition
  <2> QED
    BY <1>3, <2>2, UIDAssumption DEF UIDAssumption, UIDs
<1> HIDE DEF lower, upper, start, end
<1>5. /\ rest \in Seq(UIDs \X UIDs)
      /\ \A k \in DOMAIN rest :
           /\ k \in Nat /\ 1 < k + 1
           /\ k + 1 \in DOMAIN pending /\ rest[k] = pending[k + 1]
  BY <1>1 DEF BranchInv
<1>6. \A j, k \in DOMAIN rest :
        /\ rest[j][1] <= rest[j][2]
        /\ end < rest[k][1]
        /\ j < k => rest[j][2] < rest[k][1]
  BY <1>2, <1>5 DEF BranchInv, BranchesInOrder
<1> DEFINE all == <<lower, upper>> \o rest
<1>7. /\ all \in Seq(UIDs \X UIDs)
      /\ all[1] = lower /\ all[2] = upper
      /\ \A k \in DOMAIN all : k = 1 \/ k = 2 \/ (k - 2 \in DOMAIN rest /\ all[k] = rest[k - 2])
  BY <1>4, <1>5
<1>8. DOMAIN all \subseteq Nat
  BY <1>7
<1> HIDE DEF all, rest
<1>9. \A j, k \in DOMAIN all : all[j][1] <= all[j][2] /\ (j < k => all[j][2] < all[k][1])
  <2> SUFFICES ASSUME NEW j \in DOMAIN all, NEW k \in DOMAIN all
               PROVE  all[j][1] <= all[j][2] /\ (j < k => all[j][2] < all[k][1])
    OBVIOUS
  <2>0. all[j] \in UIDs \X UIDs /\ all[k] \in UIDs \X UIDs /\ end \in UIDs
    BY <1>3, <1>7
  <2>1. CASE j \in {1, 2}
    <3>1. all[j][1] <= all[j][2] /\ all[j][2] \in UIDs /\ all[j][2] <= end
      <4>1. all[j][2] \in UIDs
        BY <2>0
      <4>2. lower[2] \in Int /\ upper[1] \in Int /\ upper[2] \in Int
        BY <1>4 DEF UIDs
      <4>3. CASE j = 1
        BY <1>4, <1>7, <4>1, <4>2, <4>3
      <4>4. CASE j = 2
        BY <1>4, <1>7, <4>1, <4>2, <4>4
      <4> QED
        BY <2>1, <4>1, <4>3, <4>4
    <3>2. CASE k \in {1, 2}
      BY <2>1, <3>1, <3>2, <1>4, <1>7
    <3>3. CASE k \notin {1, 2}
      <4>1. end < all[k][1] /\ all[k][1] \in UIDs
        BY <3>3, <1>6, <1>7, <2>0
      <4> QED
        BY <3>1, <4>1, <2>0 DEF UIDs
    <3> QED
      BY <3>2, <3>3
  <2>3. CASE j \notin {1, 2}
    <3>1. j - 2 \in DOMAIN rest /\ all[j] = rest[j - 2]
      BY <2>3, <1>7
    <3>2. CASE j < k
      <4>1. k # 1 /\ k # 2
        BY <3>2, <2>3, <1>8, <3>1, <1>5
      <4>2. k - 2 \in DOMAIN rest /\ all[k] = rest[k - 2] /\ j - 2 < k - 2
        BY <4>1, <3>2, <1>7, <1>8
      <4> QED
        BY <3>1, <4>2, <1>6
    <3> QED
      BY <3>1, <3>2, <1>6
  <2> QED
    BY <2>1, <2>3
<1> QED
  BY <1>1, <1>7, <1>9 DEF BranchInv, BranchesInOrder, all, rest, lower, upper, start, end

LEMMA StepBranchInv == BranchInv /\ [Next]_vars => BranchInv'
<1> SUFFICES ASSUME BranchInv, [Next]_vars PROVE BranchInv'
  OBVIOUS
<1>1. CASE UNCHANGED pending
  BY <1>1 DEF BranchInv, BranchesInOrder
<1>2. CASE UnmuteAll \/ LostChecked
  BY <1>1, <1>2, WholeRangeInOrder DEF UnmuteAll, LostChecked
<1>3. CASE BranchLeaf \/ BranchSilent \/ \E u \in UIDs : BranchAnswered(u)
  BY <1>3, TailInOrder DEF BranchLeaf, BranchSilent, BranchAnswered, InBranch
<1>4. CASE BranchGarbled
  BY <1>4, HalvesInOrder
<1>5. CASE RdmInitiate \/ \E isFull \in BOOLEAN : Start(isFull)
  BY <1>1, <1>5 DEF RdmInitiate, Start, scan
<1>6. CASE Incremental
  BY <1>1, <1>2, <1>6
     DEF Incremental, CheckTod, CheckLost, CheckKnown, TodChecked, Searched, FinishIncremental
<1>7. CASE (\E ok \in BOOLEAN : Mute(ok)) \/ (\E ds \in SUBSET Behind : ReadList(SetToSeq(ds)))
  BY <1>1, <1>7 DEF Mute, ReadList
<1>8. CASE FinishFull \/ BusChange \/ CalmDown \/ Refuse \/ Deinit \/ Reset
  BY <1>1, <1>8 DEF FinishFull, BusChange, CalmDown, Refuse, Deinit, Reset, scan
<1>9. CASE UNCHANGED vars
  BY <1>1, <1>9 DEF vars, scan
<1> QED
  BY <1>2, <1>3, <1>4, <1>5, <1>6, <1>7, <1>8, <1>9 DEF Next, ScanStep, Discover

(***************************************************************************)
(* The search never has overlapping, empty or disordered branches left,    *)
(* for a UID space of any size, any devices on it, lost answers, captured  *)
(* collisions and resets included: no UID is searched twice.               *)
(***************************************************************************)
THEOREM SearchInOrder == Spec => []BranchesInOrder
<1>1. BranchInv => BranchesInOrder
  BY DEF BranchInv
<1> QED
  BY <1>1, InitBranchInv, StepBranchInv, PTL DEF Spec
-----------------------------------------------------------------------------
(***************************************************************************)
(* The values of the variables.                                            *)
(***************************************************************************)
LEMMA BehindIsFinite == ASSUME NEW ds \in SUBSET Behind PROVE IsFiniteSet(ds)
<1>1. IsFiniteSet(UIDs)
  BY UIDAssumption, FS_Interval DEF UIDAssumption, UIDs
<1> QED
  BY <1>1, UIDAssumption, FS_Subset DEF UIDAssumption

LEMMA DevicesAreUIDs ==
  /\ Devices \subseteq UIDs /\ Behind \subseteq UIDs /\ Proxies \subseteq Devices
  /\ 0 \in UIDs /\ RDM_UID_MAX \in UIDs
  /\ {Lossy, Capture, Phantoms, Resets} \subseteq BOOLEAN
BY UIDAssumption, SwitchAssumption DEF UIDAssumption, SwitchAssumption, UIDs

\* A proxy's list, as it is read, is a list of UIDs.
LEMMA ProxyListType ==
  ASSUME NEW ds \in SUBSET Behind
  PROVE  SetToSeq(ds) \in Seq(UIDs) /\ ToSet(SetToSeq(ds)) = ds
<1>1. SetToSeq(ds) \in Seq(ds) /\ ToSet(SetToSeq(ds)) = ds
  BY BehindIsFinite, SetToSeqProperties
<1>2. ds \subseteq UIDs
  BY DevicesAreUIDs
<1> QED
  BY <1>1, <1>2, SeqMonotonic

BusTypeOK ==
  /\ present \subseteq Devices /\ muted \subseteq present
  /\ behind \in [Proxies -> SUBSET Behind] /\ updated \subseteq Proxies
  /\ calm \in BOOLEAN /\ initialized \in BOOLEAN /\ (initialized \/ Resets)

ListTypeOK ==
  /\ tod \in Seq(UIDs) /\ lost \in Seq(UIDs) /\ proxies \in Seq(UIDs)
  /\ todo \in Seq(UIDs) /\ discovered \in Seq(UIDs) /\ found \in Seq(UIDs)
  /\ new_lost \in Seq(UIDs) /\ new_proxies \in Seq(UIDs)

ScanTypeOK ==
  /\ published \subseteq UIDs /\ misheard \subseteq {"device", "phantom"}
  /\ requested \in BOOLEAN /\ full \in BOOLEAN /\ quiet \in BOOLEAN
  /\ phase \in {"idle", "unmute", "tod", "lost", "branch", "mute", "list",
                "known", "known_list"}
  /\ uid \in UIDs /\ pending \in Seq(UIDs \X UIDs)

LEMMA TypeParts == TypeOK <=> BusTypeOK /\ ListTypeOK /\ ScanTypeOK
BY DEF TypeOK, BusTypeOK, ListTypeOK, ScanTypeOK, UIDLists

LEMMA BusTypeInv == BusTypeOK /\ [Next]_vars => BusTypeOK'
<1> SUFFICES ASSUME BusTypeOK, [Next]_vars PROVE BusTypeOK'
  OBVIOUS
<1>1. CASE UNCHANGED <<outside, muted, updated>>
  BY <1>1 DEF BusTypeOK, outside
<1>2. ASSUME NEW ok \in BOOLEAN, CheckTod(ok) \/ CheckLost(ok) \/ Mute(ok)
      PROVE  BusTypeOK'
  BY <1>2 DEF CheckTod, CheckLost, Mute, SendMute, BusTypeOK, outside
<1>3. ASSUME NEW ds \in SUBSET Behind, ReadList(SetToSeq(ds)) PROVE BusTypeOK'
  BY <1>3 DEF ReadList, GetProxyTOD, BusTypeOK, outside
<1>4. CASE UnmuteAll
  BY <1>4 DEF UnmuteAll, StayMuted, BusTypeOK, outside
<1>5. CASE BusChange
  <2>1. ASSUME NEW d \in Devices, Arrive(d) \/ Leave(d), UNCHANGED <<calm, initialized>>
        PROVE  BusTypeOK'
    BY <2>1 DEF Arrive, Leave, BusTypeOK
  <2>2. ASSUME NEW p \in Proxies, NEW ds \in SUBSET Behind, ListChange(p, ds),
               UNCHANGED <<calm, initialized>>
        PROVE  BusTypeOK'
    BY <2>2 DEF ListChange, BusTypeOK
  <2> QED
    BY <1>5, <2>1, <2>2 DEF BusChange
<1>6. CASE CalmDown \/ Deinit \/ Reset
  BY <1>6 DEF CalmDown, Deinit, Reset, BusTypeOK
<1>7. CASE RdmInitiate \/ (\E isFull \in BOOLEAN : Start(isFull))
  BY <1>1, <1>7 DEF RdmInitiate, Start
<1>8. CASE TodChecked \/ LostChecked \/ Searched \/ FinishIncremental \/ FinishFull \/ Refuse
  BY <1>1, <1>8 DEF TodChecked, LostChecked, Searched, FinishIncremental, FinishFull, Refuse
<1>9. CASE \E ok \in BOOLEAN : CheckKnown(ok)
  BY <1>1, <1>9 DEF CheckKnown
<1>10. CASE BranchLeaf \/ BranchSilent \/ (\E u \in UIDs : BranchAnswered(u)) \/ BranchGarbled
  BY <1>1, <1>10 DEF BranchLeaf, BranchSilent, BranchAnswered, BranchGarbled, InBranch
<1>11. CASE UNCHANGED vars
  BY <1>1, <1>11 DEF vars
<1> QED
  BY <1>2, <1>3, <1>4, <1>5, <1>6, <1>7, <1>8, <1>9, <1>10, <1>11
     DEF Next, ScanStep, Discover, Incremental

\* What a discovery takes from its lists.
LEMMA ListOperations ==
  ASSUME ListTypeOK
  PROVE  /\ NotLost \in Seq(UIDs) /\ NewlyFound \in Seq(UIDs) /\ LostAfter \in Seq(UIDs)
         /\ EraseAll(tod, NotLost) \o NewlyFound \in Seq(UIDs)
<1>1. NotLost \in Seq(UIDs) /\ NewlyFound \in Seq(UIDs)
  BY EraseAllProperties, MergeNewProperties DEF NotLost, NewlyFound, ListTypeOK
<1>2. lost \o NotLost \in Seq(UIDs)
  BY <1>1, ToSetOfConcat DEF ListTypeOK
<1>3. EraseAll(tod, NotLost) \in Seq(UIDs) /\ LostAfter \in Seq(UIDs)
  BY <1>1, <1>2, EraseAllProperties DEF LostAfter, ListTypeOK
<1> QED
  BY <1>1, <1>3, ToSetOfConcat

LEMMA ListTypeInv == ListTypeOK /\ ScanTypeOK /\ [Next]_vars => ListTypeOK'
<1> SUFFICES ASSUME ListTypeOK, ScanTypeOK, [Next]_vars PROVE ListTypeOK'
  OBVIOUS
<1>1. CASE UNCHANGED <<lists, todo, built>>
  BY <1>1 DEF ListTypeOK, lists, built
<1>e. <<>> \in Seq(UIDs)
  OBVIOUS
<1>2. ASSUME NEW ok \in BOOLEAN, CheckTod(ok) PROVE ListTypeOK'
  <2> DEFINE u == Head(todo)
             b == ok /\ u \in Proxies /\ ~Contains(proxies, u)
  <2>1. u \in UIDs /\ Tail(todo) \in Seq(UIDs)
    BY <1>2, HeadAndTail DEF CheckTod, ListTypeOK
  <2>2. b \in BOOLEAN /\ (~ok) \in BOOLEAN
    OBVIOUS
  <2>3. /\ new_lost' = AddIf(new_lost, u, ~ok) /\ new_proxies' = AddIf(new_proxies, u, b)
        /\ proxies' = AddUnique(proxies, u) \/ proxies' = RemoveFirst(proxies, u)
        /\ todo' = Tail(todo) /\ UNCHANGED <<tod, lost, discovered, found>>
    BY <1>2 DEF CheckTod
  <2> HIDE DEF u, b
  <2>4. new_lost' \in Seq(UIDs) /\ new_proxies' \in Seq(UIDs)
    BY <2>1, <2>2, <2>3, AddIfProperties DEF ListTypeOK
  <2>5. proxies' \in Seq(UIDs)
    <3>1. proxies \in Seq(UIDs)
      BY DEF ListTypeOK
    <3>2. AddUnique(proxies, u) \in Seq(UIDs) /\ RemoveFirst(proxies, u) \in Seq(UIDs)
      BY <2>1, <3>1, AddUniqueProperties, RemoveFirstProperties
    <3> QED
      BY <2>3, <3>2
  <2> QED
    BY <2>1, <2>3, <2>4, <2>5 DEF ListTypeOK
<1>3. ASSUME NEW ok \in BOOLEAN, CheckLost(ok) PROVE ListTypeOK'
  <2> DEFINE u == Head(todo)
             b == ok /\ u \in Proxies /\ ~Contains(proxies, u)
  <2>1. u \in UIDs /\ Tail(todo) \in Seq(UIDs)
    BY <1>3, HeadAndTail DEF CheckLost, ListTypeOK
  <2>2. b \in BOOLEAN
    OBVIOUS
  <2>3. /\ found' = AddIf(found, u, ok) /\ new_proxies' = AddIf(new_proxies, u, b)
        /\ proxies' = AddUnique(proxies, u) \/ proxies' = proxies
        /\ todo' = Tail(todo) /\ UNCHANGED <<tod, lost, discovered, new_lost>>
    BY <1>3 DEF CheckLost, NextLost
  <2> HIDE DEF u, b
  <2>4. found' \in Seq(UIDs) /\ new_proxies' \in Seq(UIDs)
    BY <2>1, <2>2, <2>3, AddIfProperties DEF ListTypeOK
  <2>5. proxies' \in Seq(UIDs)
    <3>1. proxies \in Seq(UIDs)
      BY DEF ListTypeOK
    <3>2. AddUnique(proxies, u) \in Seq(UIDs)
      BY <2>1, <3>1, AddUniqueProperties
    <3> QED
      BY <2>3, <3>1, <3>2
  <2> QED
    BY <2>1, <2>3, <2>4, <2>5 DEF ListTypeOK
<1>4. ASSUME NEW ok \in BOOLEAN, Mute(ok) PROVE ListTypeOK'
  <2>1. discovered' = AddUnique(discovered, uid) \/ discovered' = discovered
    BY <1>4 DEF Mute
  <2>2. uid \in UIDs /\ discovered \in Seq(UIDs)
    BY DEF ListTypeOK, ScanTypeOK
  <2>3. discovered' \in Seq(UIDs)
    BY <2>1, <2>2, AddUniqueProperties
  <2> QED
    BY <1>4, <2>3 DEF Mute, ListTypeOK, lists
<1>5. ASSUME NEW ds \in SUBSET Behind, ReadList(SetToSeq(ds)) PROVE ListTypeOK'
  <2>1. discovered' \in Seq(UIDs)
    BY <1>5, ProxyListType, MergeProperties DEF ReadList, ListTypeOK
  <2> QED
    BY <1>5, <2>1 DEF ReadList, ListTypeOK, lists
<1>6. ASSUME NEW changed \in BOOLEAN, CheckKnown(changed) PROVE ListTypeOK'
  <2>1. Tail(todo) \in Seq(UIDs)
    BY <1>6, HeadAndTail DEF CheckKnown, ListTypeOK
  <2> QED
    BY <1>6, <2>1 DEF CheckKnown, ListTypeOK, lists, built
<1>7. CASE FinishFull
  BY <1>7, <1>e DEF FinishFull, ForgetLocals, ListTypeOK
<1>8. CASE FinishIncremental
  BY <1>8, <1>e, ListOperations DEF FinishIncremental, ForgetLocals, ListTypeOK
<1>9. CASE Reset
  BY <1>9, <1>e DEF Reset, ListTypeOK, scan, built
<1>10. CASE \E isFull \in BOOLEAN : Start(isFull)
  BY <1>10, <1>e DEF Start, ListTypeOK, lists, built
<1>11. CASE UnmuteAll \/ TodChecked \/ LostChecked \/ Searched
  BY <1>11 DEF UnmuteAll, TodChecked, LostChecked, Searched, ListTypeOK, lists, built
<1>12. CASE BranchLeaf \/ BranchSilent \/ (\E u \in UIDs : BranchAnswered(u)) \/ BranchGarbled
  BY <1>1, <1>12 DEF BranchLeaf, BranchSilent, BranchAnswered, BranchGarbled, InBranch
<1>13. CASE RdmInitiate \/ BusChange \/ CalmDown \/ Refuse \/ Deinit
  BY <1>1, <1>13 DEF RdmInitiate, BusChange, CalmDown, Refuse, Deinit, scan
<1>14. CASE UNCHANGED vars
  BY <1>1, <1>14 DEF vars, scan
<1> QED
  BY <1>2, <1>3, <1>4, <1>5, <1>6, <1>7, <1>8, <1>9, <1>10, <1>11, <1>12, <1>13, <1>14
     DEF Next, ScanStep, Discover, Incremental

LEMMA ScanTypeInv ==
  BusTypeOK /\ ListTypeOK /\ ScanTypeOK /\ BranchesInOrder /\ [Next]_vars => ScanTypeOK'
<1> SUFFICES ASSUME BusTypeOK, ListTypeOK, ScanTypeOK, BranchesInOrder, [Next]_vars
             PROVE  ScanTypeOK'
  OBVIOUS
<1>p. pending' \in Seq(UIDs \X UIDs)
  BY StepBranchInv DEF BranchInv, ScanTypeOK
<1>1. CASE UNCHANGED <<artnet, phase, full, quiet, misheard, uid>>
  BY <1>p, <1>1 DEF ScanTypeOK, artnet
<1>2. ASSUME NEW ok \in BOOLEAN, CheckTod(ok) \/ CheckLost(ok) PROVE ScanTypeOK'
  BY <1>1, <1>2 DEF CheckTod, CheckLost
<1>3. ASSUME NEW ok \in BOOLEAN, Mute(ok) PROVE ScanTypeOK'
  BY <1>p, <1>3 DEF Mute, ScanTypeOK, artnet
<1>4. ASSUME NEW ds \in SUBSET Behind, ReadList(SetToSeq(ds)) PROVE ScanTypeOK'
  BY <1>p, <1>4 DEF ReadList, ScanTypeOK, artnet
<1>5. ASSUME NEW changed \in BOOLEAN, CheckKnown(changed) PROVE ScanTypeOK'
  BY <1>p, <1>5, HeadAndTail DEF CheckKnown, ScanTypeOK, ListTypeOK, artnet
<1>6. CASE FinishFull
  BY <1>p, <1>6, ContainsIsMember, DevicesAreUIDs
     DEF FinishFull, PublishAll, ForgetLocals, ScanTypeOK, ListTypeOK
<1>7. CASE FinishIncremental
  <2>1. published' \subseteq UIDs
    BY <1>7, ListOperations, ContainsIsMember DEF FinishIncremental, PublishChanges, ScanTypeOK
  <2> QED
    BY <1>p, <1>7, <2>1, DevicesAreUIDs DEF FinishIncremental, ForgetLocals, ScanTypeOK
<1>8. CASE Reset \/ BusChange \/ CalmDown \/ Deinit
  BY <1>1, <1>8 DEF Reset, BusChange, CalmDown, Deinit, scan
<1>9. ASSUME NEW isFull \in BOOLEAN, Start(isFull) PROVE ScanTypeOK'
  BY <1>p, <1>9 DEF Start, ScanTypeOK, BusTypeOK
<1>10. CASE UnmuteAll \/ TodChecked \/ LostChecked \/ Searched
  BY <1>p, <1>10 DEF UnmuteAll, TodChecked, LostChecked, Searched, ScanTypeOK, artnet
<1>11. CASE BranchLeaf
  <2>1. Branch \in UIDs \X UIDs
    BY <1>11 DEF BranchLeaf, InBranch, Branch, ScanTypeOK
  <2> QED
    BY <1>p, <1>11, <2>1 DEF BranchLeaf, InBranch, ScanTypeOK, artnet
<1>12. CASE BranchSilent \/ (\E u \in UIDs : BranchAnswered(u)) \/ BranchGarbled
  BY <1>p, <1>12 DEF BranchSilent, BranchAnswered, Mistaken, BranchGarbled, InBranch, ScanTypeOK,
     artnet
<1>13. CASE RdmInitiate \/ Refuse
  BY <1>p, <1>13 DEF RdmInitiate, Refuse, ScanTypeOK, scan
<1>14. CASE UNCHANGED vars
  BY <1>1, <1>14 DEF vars, scan
<1> QED
  BY <1>2, <1>3, <1>4, <1>5, <1>6, <1>7, <1>8, <1>9, <1>10, <1>11, <1>12, <1>13, <1>14
     DEF Next, ScanStep, Discover, Incremental

TypeInv == TypeOK /\ BranchesInOrder

LEMMA InitTypeInv == Init => TypeInv
<1> SUFFICES ASSUME Init PROVE TypeInv
  OBVIOUS
<1>1. <<>> \in Seq(UIDs) /\ <<>> \in Seq(UIDs \X UIDs)
  OBVIOUS
<1>2. BusTypeOK /\ ListTypeOK /\ ScanTypeOK
  BY <1>1, DevicesAreUIDs DEF Init, BusTypeOK, ListTypeOK, ScanTypeOK
<1> QED
  BY <1>2, TypeParts, InitBranchInv DEF TypeInv, BranchInv

LEMMA StepTypeInv == TypeInv /\ [Next]_vars => TypeInv'
<1> SUFFICES ASSUME TypeInv, [Next]_vars PROVE TypeInv'
  OBVIOUS
<1>1. BusTypeOK /\ ListTypeOK /\ ScanTypeOK /\ BranchInv
  BY TypeParts DEF TypeInv, BranchInv, ScanTypeOK
<1>2. BusTypeOK' /\ ListTypeOK' /\ ScanTypeOK' /\ BranchInv'
  BY <1>1, BusTypeInv, ListTypeInv, ScanTypeInv, StepBranchInv DEF TypeInv
<1>3. TypeOK'
  BY <1>2 DEF TypeOK, BusTypeOK, ListTypeOK, ScanTypeOK, UIDLists
<1> QED
  BY <1>2, <1>3 DEF TypeInv, BranchInv

LEMMA TypeInvariance == Spec => []TypeInv
  BY InitTypeInv, StepTypeInv, PTL DEF Spec

(***************************************************************************)
(* The variables keep to their types: whatever is merged, erased and read, *)
(* every list is a list of UIDs that a responder can have.                 *)
(***************************************************************************)
THEOREM TypeCorrect == Spec => []TypeOK
<1>1. TypeInv => TypeOK
  BY DEF TypeInv
<1> QED
  BY <1>1, TypeInvariance, PTL

-----------------------------------------------------------------------------
(***************************************************************************)
(* The lists.                                                              *)
(***************************************************************************)
\* The lists contradict each other at no time: not even in the middle of a
\* discovery, nor after a reset in the middle of one.
ListInv ==
  /\ Distinct(tod) /\ Distinct(lost) /\ Distinct(proxies)
  /\ Distinct(discovered) /\ Distinct(found) /\ Distinct(new_lost)
  /\ ToSet(tod) \cap ToSet(lost) = {}
  /\ ToSet(new_lost) \cap ToSet(lost) = {}
  /\ ToSet(found) \cap ToSet(tod) = {}
  /\ ToSet(found) \cap ToSet(new_lost) = {}
  /\ ToSet(proxies) \subseteq (ToSet(tod) \ ToSet(new_lost)) \cup ToSet(found)

\* What the parts of a discovery rely on.
PhaseInv ==
  /\ phase \in {"idle", "unmute"} => discovered = <<>> /\ found = <<>> /\ new_lost = <<>>
  /\ full /\ phase # "idle" =>
       /\ phase \in {"unmute", "branch", "mute", "list"}
       /\ lost = <<>> /\ proxies = <<>> /\ found = <<>> /\ new_lost = <<>>
  /\ phase = "tod" =>
       /\ Distinct(todo) /\ ToSet(todo) \subseteq ToSet(tod) \ ToSet(new_lost)
       /\ ToSet(new_lost) \subseteq ToSet(tod) /\ found = <<>>
  /\ phase = "lost" =>
       /\ Distinct(todo) /\ ToSet(todo) \subseteq ToSet(lost) \ ToSet(found)
       /\ ToSet(found) \subseteq ToSet(lost) /\ ToSet(new_lost) \subseteq ToSet(tod)
  /\ ~Resets => ToSet(new_lost) \subseteq ToSet(tod)

ListsInv == ListInv /\ PhaseInv

\* What a discovery adds and removes, as sets.
LEMMA FinishSets ==
  ASSUME ListTypeOK, ListInv
  PROVE  /\ Distinct(NotLost) /\ Distinct(NewlyFound) /\ Distinct(LostAfter)
         /\ Distinct(EraseAll(tod, NotLost) \o NewlyFound)
         /\ ToSet(NotLost) = ToSet(new_lost) \ ToSet(discovered)
         /\ ToSet(NewlyFound) = ToSet(found) \cup (ToSet(discovered) \ ToSet(tod))
         /\ ToSet(LostAfter) = (ToSet(lost) \cup ToSet(NotLost)) \ ToSet(NewlyFound)
         /\ ToSet(EraseAll(tod, NotLost) \o NewlyFound)
              = (ToSet(tod) \ ToSet(NotLost)) \cup ToSet(NewlyFound)
<1>1. /\ tod \in Seq(UIDs) /\ lost \in Seq(UIDs) /\ discovered \in Seq(UIDs)
      /\ found \in Seq(UIDs) /\ new_lost \in Seq(UIDs)
      /\ NotLost \in Seq(UIDs) /\ NewlyFound \in Seq(UIDs)
  BY ListOperations DEF ListTypeOK
<1>2. Distinct(NotLost) /\ ToSet(NotLost) = ToSet(new_lost) \ ToSet(discovered)
  BY <1>1, EraseAllProperties DEF NotLost, ListInv
<1>3. /\ Distinct(NewlyFound)
      /\ ToSet(NewlyFound) = ToSet(found) \cup (ToSet(discovered) \ ToSet(tod))
  BY <1>1, MergeNewProperties DEF NewlyFound, ListInv
<1>4. /\ lost \o NotLost \in Seq(UIDs) /\ Distinct(lost \o NotLost)
      /\ ToSet(lost \o NotLost) = ToSet(lost) \cup ToSet(NotLost)
  BY <1>1, <1>2, ToSetOfConcat, ConcatDistinct DEF ListInv
<1>5. /\ Distinct(LostAfter)
      /\ ToSet(LostAfter) = (ToSet(lost) \cup ToSet(NotLost)) \ ToSet(NewlyFound)
  <2> DEFINE both == lost \o NotLost
  <2>1. both \in Seq(UIDs) /\ Distinct(both)
    BY <1>4
  <2> HIDE DEF both
  <2>2. /\ Distinct(EraseAll(both, NewlyFound))
        /\ ToSet(EraseAll(both, NewlyFound)) = ToSet(both) \ ToSet(NewlyFound)
    BY <1>1, <2>1, EraseAllProperties
  <2> QED
    BY <1>4, <2>2 DEF both, LostAfter
<1> DEFINE kept == EraseAll(tod, NotLost)
<1>6. kept \in Seq(UIDs) /\ Distinct(kept) /\ ToSet(kept) = ToSet(tod) \ ToSet(NotLost)
  BY <1>1, EraseAllProperties DEF ListInv
<1> HIDE DEF kept
<1>7. ToSet(kept) \cap ToSet(NewlyFound) = {}
  BY <1>3, <1>6 DEF ListInv
<1>8. /\ Distinct(kept \o NewlyFound)
      /\ ToSet(kept \o NewlyFound) = ToSet(kept) \cup ToSet(NewlyFound)
  BY <1>1, <1>3, <1>6, <1>7, ToSetOfConcat, ConcatDistinct
<1> QED
  BY <1>2, <1>3, <1>5, <1>6, <1>8 DEF kept

LEMMA CheckTodLists ==
  ASSUME ListTypeOK, ListsInv, NEW ok \in BOOLEAN, CheckTod(ok)
  PROVE  ListsInv'
<1> DEFINE u == Head(todo)
<1>1. phase = "tod" /\ todo # <<>> /\ todo \in Seq(UIDs)
  BY DEF CheckTod, ListTypeOK
<1>2. /\ Distinct(todo) /\ ToSet(todo) \subseteq ToSet(tod) \ ToSet(new_lost)
      /\ ToSet(new_lost) \subseteq ToSet(tod) /\ found = <<>> /\ ~full
  BY <1>1 DEF ListsInv, PhaseInv
<1>3. /\ u \in UIDs /\ ToSet(todo) = ToSet(Tail(todo)) \cup {u}
      /\ Distinct(Tail(todo)) /\ u \notin ToSet(Tail(todo))
  BY <1>1, <1>2, HeadAndTail
<1>4. /\ new_lost' = AddIf(new_lost, u, ~ok)
      /\ \/ ok /\ proxies' = AddUnique(proxies, u)
         \/ proxies' = RemoveFirst(proxies, u)
      /\ todo' = Tail(todo)
      /\ UNCHANGED <<tod, lost, phase, full, discovered, found>>
  BY DEF CheckTod
<1> HIDE DEF u
<1>5. /\ ToSet(new_lost') = ToSet(new_lost) \cup (IF ok THEN {} ELSE {u})
      /\ Distinct(new_lost')
  <2>1. (~ok) \in BOOLEAN /\ new_lost \in Seq(UIDs) /\ u \notin ToSet(new_lost)
    BY <1>2, <1>3 DEF ListTypeOK
  <2>2. Distinct(new_lost)
    BY DEF ListsInv, ListInv
  <2>3. CASE ok
    BY <1>4, <2>2, <2>3 DEF AddIf
  <2>4. CASE ~ok
    <3>1. new_lost' = Append(new_lost, u)
      BY <1>4, <2>4 DEF AddIf
    <3>2. /\ ToSet(Append(new_lost, u)) = ToSet(new_lost) \cup {u}
          /\ Distinct(Append(new_lost, u))
      BY <1>3, <2>1, <2>2, ToSetOfAppend, AppendDistinct
    <3> QED
      BY <2>4, <3>1, <3>2
  <2> QED
    BY <2>3, <2>4
<1>6. /\ Distinct(proxies')
      /\ ToSet(proxies') \subseteq ToSet(proxies) \cup {u}
      /\ ~ok => ToSet(proxies') = ToSet(proxies) \ {u}
  <2>1. proxies \in Seq(UIDs) /\ Distinct(proxies)
    BY DEF ListTypeOK, ListsInv, ListInv
  <2>2. CASE ok /\ proxies' = AddUnique(proxies, u)
    BY <1>3, <2>1, <2>2, AddUniqueProperties
  <2>3. CASE proxies' = RemoveFirst(proxies, u)
    BY <1>3, <2>1, <2>3, RemoveFirstProperties
  <2> QED
    BY <1>4, <2>2, <2>3
<1>7. ListInv'
  BY <1>2, <1>3, <1>4, <1>5, <1>6, ToSetOfEmpty DEF ListsInv, ListInv
<1>8. PhaseInv'
  BY <1>1, <1>2, <1>3, <1>4, <1>5 DEF PhaseInv
<1> QED
  BY <1>7, <1>8 DEF ListsInv

LEMMA CheckLostLists ==
  ASSUME ListTypeOK, ListsInv, NEW ok \in BOOLEAN, CheckLost(ok)
  PROVE  ListsInv'
<1> DEFINE u == Head(todo)
<1>1. phase = "lost" /\ todo # <<>> /\ todo \in Seq(UIDs)
  BY DEF CheckLost, ListTypeOK
<1>2. /\ Distinct(todo) /\ ToSet(todo) \subseteq ToSet(lost) \ ToSet(found)
      /\ ToSet(found) \subseteq ToSet(lost) /\ ToSet(new_lost) \subseteq ToSet(tod) /\ ~full
  BY <1>1 DEF ListsInv, PhaseInv
<1>3. /\ u \in UIDs /\ ToSet(todo) = ToSet(Tail(todo)) \cup {u}
      /\ Distinct(Tail(todo)) /\ u \notin ToSet(Tail(todo))
  BY <1>1, <1>2, HeadAndTail
<1>4. /\ found' = AddIf(found, u, ok)
      /\ \/ ok /\ proxies' = AddUnique(proxies, u)
         \/ proxies' = proxies
      /\ todo' = Tail(todo)
      /\ UNCHANGED <<tod, lost, phase, full, discovered, new_lost>>
  BY DEF CheckLost, NextLost
<1> HIDE DEF u
<1>5. /\ ToSet(found') = ToSet(found) \cup (IF ok THEN {u} ELSE {})
      /\ Distinct(found')
  <2>1. found \in Seq(UIDs) /\ u \notin ToSet(found)
    BY <1>2, <1>3 DEF ListTypeOK
  <2> QED
    BY <1>3, <1>4, <2>1, AddIfProperties DEF ListsInv, ListInv
<1>6. /\ Distinct(proxies')
      /\ ToSet(proxies') \subseteq ToSet(proxies) \cup (IF ok THEN {u} ELSE {})
  <2>1. proxies \in Seq(UIDs) /\ Distinct(proxies)
    BY DEF ListTypeOK, ListsInv, ListInv
  <2>2. CASE ok /\ proxies' = AddUnique(proxies, u)
    BY <1>3, <2>1, <2>2, AddUniqueProperties
  <2>3. CASE proxies' = proxies
    BY <2>1, <2>3
  <2> QED
    BY <1>4, <2>2, <2>3
<1>7. ListInv'
  BY <1>2, <1>3, <1>4, <1>5, <1>6 DEF ListsInv, ListInv
<1>8. PhaseInv'
  BY <1>1, <1>2, <1>3, <1>4, <1>5 DEF PhaseInv
<1> QED
  BY <1>7, <1>8 DEF ListsInv

LEMMA DiscoverLists ==
  ASSUME TypeInv, ListsInv, Discover
  PROVE  ListsInv'
<1>1. ListTypeOK /\ ScanTypeOK
  BY TypeParts DEF TypeInv
<1>2. CASE BranchLeaf \/ BranchSilent \/ (\E u \in UIDs : BranchAnswered(u)) \/ BranchGarbled
  BY <1>2 DEF BranchLeaf, BranchSilent, BranchAnswered, BranchGarbled, InBranch, lists, built,
     ListsInv, ListInv, PhaseInv
<1>3. ASSUME NEW ok \in BOOLEAN, Mute(ok) PROVE ListsInv'
  <2>1. uid \in UIDs /\ discovered \in Seq(UIDs) /\ Distinct(discovered)
    BY <1>1 DEF ListTypeOK, ScanTypeOK, ListsInv, ListInv
  <2>2. Distinct(discovered')
    BY <1>3, <2>1, AddUniqueProperties DEF Mute
  <2> QED
    BY <1>3, <2>2 DEF Mute, lists, ListsInv, ListInv, PhaseInv
<1>4. ASSUME NEW ds \in SUBSET Behind, ReadList(SetToSeq(ds)) PROVE ListsInv'
  <2>1. discovered \in Seq(UIDs) /\ Distinct(discovered)
    BY <1>1 DEF ListTypeOK, ListsInv, ListInv
  <2>2. Distinct(discovered')
    BY <1>4, <2>1, ProxyListType, MergeProperties DEF ReadList
  <2> QED
    BY <1>4, <2>2 DEF ReadList, lists, ListsInv, ListInv, PhaseInv
<1> QED
  BY <1>2, <1>3, <1>4 DEF Discover

LEMMA FinishLists ==
  ASSUME TypeInv, ListsInv, FinishFull \/ FinishIncremental
  PROVE  ListsInv'
<1>1. ListTypeOK
  BY TypeParts DEF TypeInv
<1>2. ForgetLocals /\ phase' = "idle" /\ full' = full
  BY DEF FinishFull, FinishIncremental
<1>3. PhaseInv'
  BY <1>2, ToSetOfEmpty DEF ForgetLocals, PhaseInv
<1>4. CASE FinishFull
  <2>1. lost = <<>> /\ proxies = <<>>
    BY <1>4 DEF FinishFull, ListsInv, PhaseInv
  <2> QED
    BY <1>2, <1>3, <1>4, <2>1, ToSetOfEmpty, EmptyIsDistinct
       DEF FinishFull, ForgetLocals, ListsInv, ListInv
<1>5. CASE FinishIncremental
  <2>1. /\ tod' = EraseAll(tod, NotLost) \o NewlyFound /\ lost' = LostAfter
        /\ proxies' = proxies
    BY <1>5 DEF FinishIncremental
  <2>2. Distinct(tod') /\ Distinct(lost') /\ Distinct(proxies')
    BY <1>1, <2>1, FinishSets DEF ListsInv, ListInv
  <2>3. /\ ToSet(NotLost) = ToSet(new_lost) \ ToSet(discovered)
        /\ ToSet(NewlyFound) = ToSet(found) \cup (ToSet(discovered) \ ToSet(tod))
        /\ ToSet(lost') = (ToSet(lost) \cup ToSet(NotLost)) \ ToSet(NewlyFound)
        /\ ToSet(tod') = (ToSet(tod) \ ToSet(NotLost)) \cup ToSet(NewlyFound)
    BY <1>1, <2>1, FinishSets DEF ListsInv
  <2>4. ToSet(tod') \cap ToSet(lost') = {} /\ ToSet(proxies') \subseteq ToSet(tod')
    BY <2>1, <2>3 DEF ListsInv, ListInv
  <2> QED
    BY <1>2, <1>3, <2>2, <2>4, ToSetOfEmpty, EmptyIsDistinct
       DEF ForgetLocals, ListsInv, ListInv
<1> QED
  BY <1>4, <1>5

LEMMA StepListsInv == TypeInv /\ ListsInv /\ [Next]_vars => ListsInv'
<1> SUFFICES ASSUME TypeInv, ListsInv, [Next]_vars PROVE ListsInv'
  OBVIOUS
<1> USE DEF ListsInv, ListInv, PhaseInv, lists, built
<1>1. CASE UNCHANGED <<lists, built, todo, phase, full>>
  BY <1>1
<1>2. ASSUME NEW isFull \in BOOLEAN, Start(isFull) PROVE ListsInv'
  BY <1>2, ToSetOfEmpty, EmptyIsDistinct DEF Start
<1>3. CASE UnmuteAll
  BY <1>3, ToSetOfEmpty DEF UnmuteAll
<1>4. CASE TodChecked
  BY <1>4, ToSetOfEmpty DEF TodChecked
<1>5. CASE LostChecked \/ Searched
  BY <1>5 DEF LostChecked, Searched
<1>6. ASSUME NEW changed \in BOOLEAN, CheckKnown(changed) PROVE ListsInv'
  BY <1>6 DEF CheckKnown
<1>7. CASE Reset
  <2>1. Resets
    BY <1>7, TypeParts DEF TypeInv, BusTypeOK, Reset
  <2> QED
    BY <1>7, <2>1, ToSetOfEmpty, EmptyIsDistinct DEF Reset, scan
<1>8. CASE RdmInitiate \/ BusChange \/ CalmDown \/ Refuse \/ Deinit
  BY <1>1, <1>8 DEF RdmInitiate, BusChange, CalmDown, Refuse, Deinit, scan
<1>9. CASE UNCHANGED vars
  BY <1>1, <1>9 DEF vars, scan
<1>10. ASSUME NEW ok \in BOOLEAN, CheckTod(ok) \/ CheckLost(ok) PROVE ListsInv'
  <2>1. ListTypeOK
    BY TypeParts DEF TypeInv
  <2> QED
    BY <1>10, <2>1, CheckTodLists, CheckLostLists
<1>11. CASE Discover \/ FinishFull \/ FinishIncremental
  BY <1>11, DiscoverLists, FinishLists
<1> QED
  BY <1>2, <1>3, <1>4, <1>5, <1>6, <1>7, <1>8, <1>9, <1>10, <1>11
     DEF Next, ScanStep, Incremental

LEMMA InitListsInv == Init => ListsInv
  BY ToSetOfEmpty, EmptyIsDistinct DEF Init, ListsInv, ListInv, PhaseInv

LEMMA ListsInvariance == Spec => [](TypeInv /\ ListsInv)
  BY InitTypeInv, StepTypeInv, InitListsInv, StepListsInv, PTL DEF Spec

(***************************************************************************)
(* Between discoveries no list has a device twice, no device is both on    *)
(* the table and lost, and every known proxy is on the table: for any      *)
(* number of devices and proxies, with exchanges that fail, answers that   *)
(* are captured or made up, and resets in the middle of a discovery.       *)
(***************************************************************************)
THEOREM ListsAreConsistent == Spec => []ListsConsistent
<1>1. ListsInv => ListsConsistent
  BY ToSetOfEmpty DEF ListsInv, ListInv, PhaseInv, ListsConsistent
<1> QED
  BY <1>1, ListsInvariance, PTL

(***************************************************************************)
(* The pair that incrementalRDMDiscovery() returns is what has changed in  *)
(* the table, unless init() has cleared the table meanwhile.               *)
(***************************************************************************)
THEOREM ReportsExact ==
  ASSUME ~Resets
  PROVE  Spec => ReportsAreExact
<1> DEFINE A == FinishIncremental =>
                  /\ ToSet(NewlyFound) = ToSet(tod') \ ToSet(tod)
                  /\ ToSet(NotLost) = ToSet(tod) \ ToSet(tod')
<1>1. ASSUME TypeInv, ListsInv, FinishIncremental
      PROVE  /\ ToSet(NewlyFound) = ToSet(tod') \ ToSet(tod)
             /\ ToSet(NotLost) = ToSet(tod) \ ToSet(tod')
  <2>1. ListTypeOK
    BY <1>1, TypeParts DEF TypeInv
  <2>2. ToSet(new_lost) \subseteq ToSet(tod)
    BY <1>1 DEF ListsInv, PhaseInv
  <2>3. /\ ToSet(NotLost) = ToSet(new_lost) \ ToSet(discovered)
        /\ ToSet(NewlyFound) = ToSet(found) \cup (ToSet(discovered) \ ToSet(tod))
        /\ ToSet(tod') = (ToSet(tod) \ ToSet(NotLost)) \cup ToSet(NewlyFound)
    BY <1>1, <2>1, FinishSets DEF ListsInv, FinishIncremental
  <2> QED
    BY <1>1, <2>2, <2>3 DEF ListsInv, ListInv
<1>2. TypeInv /\ ListsInv => A
  BY <1>1
<1> QED
  BY <1>2, ListsInvariance, PTL DEF ReportsAreExact

-----------------------------------------------------------------------------
\* The Art-Net table has what tod has, or a full discovery is due, or init(),
\* which clears tod, is.
PublishedInv ==
  \/ requested \/ (full /\ phase # "idle") \/ ToSet(tod) \subseteq published
  \/ phase = "idle" /\ ~initialized

LEMMA StepPublishedInv ==
  TypeInv /\ ListsInv /\ PublishedInv /\ [Next]_vars => PublishedInv'
<1> SUFFICES ASSUME TypeInv, ListsInv, PublishedInv, [Next]_vars PROVE PublishedInv'
  OBVIOUS
<1>1. CASE /\ UNCHANGED <<tod, published, requested, full>>
           /\ IF phase = "idle" THEN UNCHANGED phase /\ (initialized' => initialized)
                              ELSE phase' # "idle"
  BY <1>1 DEF PublishedInv
<1>2. CASE RdmInitiate
  BY <1>2 DEF RdmInitiate, PublishedInv
<1>3. ASSUME NEW isFull \in BOOLEAN, Start(isFull) PROVE PublishedInv'
  BY <1>3 DEF Start, PublishedInv, lists
<1>4. CASE FinishFull
  BY <1>4 DEF FinishFull, PublishAll, PublishedInv
<1>5. CASE FinishIncremental
  <2>1. ListTypeOK
    BY TypeParts DEF TypeInv
  <2>2. /\ ToSet(NotLost) = ToSet(new_lost) \ ToSet(discovered)
        /\ ToSet(NewlyFound) = ToSet(found) \cup (ToSet(discovered) \ ToSet(tod))
        /\ ToSet(tod') = (ToSet(tod) \ ToSet(NotLost)) \cup ToSet(NewlyFound)
    BY <1>5, <2>1, FinishSets DEF ListsInv, FinishIncremental
  <2>3. ToSet(NotLost) \cap ToSet(NewlyFound) = {}
    BY <2>2 DEF ListsInv, ListInv
  <2>4. ~full /\ requested' = requested
    BY <1>5 DEF FinishIncremental, ListsInv, PhaseInv
  <2> QED
    BY <1>5, <2>2, <2>3, <2>4 DEF FinishIncremental, PublishChanges, PublishedInv
<1>6. CASE Reset
  BY <1>6, ToSetOfEmpty DEF Reset, PublishedInv
<1>7. CASE BusChange \/ CalmDown \/ Refuse \/ Deinit
  <2>1. CASE Refuse
    BY <2>1 DEF Refuse, PublishedInv, outside, scan
  <2> QED
    BY <1>1, <1>7, <2>1 DEF BusChange, CalmDown, Deinit, artnet, lists, scan
<1>8. CASE UnmuteAll \/ TodChecked \/ LostChecked \/ Searched
  BY <1>1, <1>8 DEF UnmuteAll, TodChecked, LostChecked, Searched, artnet, lists
<1>9. ASSUME NEW ok \in BOOLEAN, CheckTod(ok) \/ CheckLost(ok) \/ CheckKnown(ok)
      PROVE  PublishedInv'
  BY <1>1, <1>9 DEF CheckTod, CheckLost, CheckKnown, artnet, lists
<1>10. CASE Discover
  BY <1>1, <1>10 DEF Discover, BranchLeaf, BranchSilent, BranchAnswered, BranchGarbled, InBranch,
     Mute, ReadList, artnet, lists
<1>11. CASE UNCHANGED vars
  BY <1>1, <1>11 DEF vars, outside, artnet, lists, scan
<1> QED
  BY <1>2, <1>3, <1>4, <1>5, <1>6, <1>7, <1>8, <1>9, <1>10, <1>11
     DEF Next, ScanStep, Incremental

(***************************************************************************)
(* A controller sees every device of the table of a port that is up, also  *)
(* when libartnet flushes its copy, or init() clears the lists, in the     *)
(* middle of a discovery, and when a request is refused: the table that is *)
(* not published then is cleared before the port is up again.              *)
(***************************************************************************)
THEOREM TablePublished == Spec => []TableIsPublished
<1>1. Init => PublishedInv
  BY ToSetOfEmpty DEF Init, PublishedInv
<1>2. PublishedInv => TableIsPublished
  BY DEF PublishedInv, TableIsPublished
<1> QED
  BY <1>1, <1>2, ListsInvariance, StepPublishedInv, PTL DEF Spec

-----------------------------------------------------------------------------
(***************************************************************************)
(* What a discovery finds, on a bus that is calm from its beginning on.    *)
(* The phases after `unmute' are the ones that search.                     *)
(***************************************************************************)
Searching == phase \notin {"idle", "unmute"}

\* Who has answered can be reached, and who has not cannot.
AnswersTrue ==
  /\ ToSet(discovered) \cup ToSet(found) \subseteq Reached
  /\ ToSet(new_lost) \cap Reached = {}

\* The devices of tod, then those of lost, are told apart.
TodTold ==
  ~full => \A u \in ToSet(tod) \ ToSet(new_lost) :
             u \in Reached \/ (phase = "tod" /\ u \in ToSet(todo))

LostTold ==
  ~full /\ phase # "tod" =>
    \A u \in ToSet(lost) \cap Reached :
      u \in ToSet(found) \/ (phase = "lost" /\ u \in ToSet(todo))

\* A responder that has been muted is on a list that ends up in tod.
MutedListed ==
  \A d \in muted :
    d \in ToSet(discovered) \/ (~full /\ d \in (ToSet(tod) \ ToSet(new_lost)) \cup ToSet(found))

\* A responder that has not been muted is in a branch still to be searched.
InPending(d) == \E k \in DOMAIN pending : pending[k][1] <= d /\ d <= pending[k][2]

UnmutedPending ==
  /\ phase \in {"branch", "mute", "list"} =>
       \A d \in present \ muted : InPending(d) \/ (phase = "mute" /\ uid = d)
  /\ phase \in {"known", "known_list"} => present \subseteq muted

\* Of a proxy that discover() has found, the devices are found as well.
DiscoveredListed ==
  \A p \in ToSet(discovered) \cap Proxies :
    behind[p] \subseteq ToSet(discovered) \/ (phase = "list" /\ uid = p)

SearchInv ==
  /\ AnswersTrue /\ TodTold /\ LostTold
  /\ MutedListed /\ UnmutedPending /\ DiscoveredListed

QuietInv ==
  /\ (quiet => calm) /\ (calm => initialized)
  /\ Undisturbed /\ Searching => SearchInv
  /\ Undisturbed /\ full /\ phase = "idle" => ToSet(tod) = Reached

(***************************************************************************)
(* The proxies that are known from earlier discoveries: their devices are  *)
(* in one of the lists, or the proxy reports a change, or its list is      *)
(* still to be read in this discovery.                                     *)
(***************************************************************************)
ToBeRead(p) ==
  \/ phase \in {"tod", "lost", "branch", "mute", "list"}
  \/ phase \in {"known", "known_list"} /\ p \in ToSet(todo)
  \/ phase = "known_list" /\ uid = p

Listed(p) == behind[p] \subseteq ToSet(tod) \cup ToSet(lost) \cup ToSet(discovered)

KnownListed ==
  \A p \in (ToSet(proxies) \cap present) \ updated :
    Listed(p) \/ (p \in ToSet(new_proxies) /\ ToBeRead(p))

ProxyInv ==
  /\ ToSet(proxies) \subseteq Proxies
  /\ phase \in {"known", "known_list"} => ToSet(todo) \subseteq Proxies
  /\ phase \in {"list", "known_list"} => uid \in Proxies
  /\ phase \in {"idle", "unmute"} => new_proxies = <<>>

\* On a calm bus, the same for every known proxy once it has been asked.
QuietKnown ==
  /\ quiet /\ Searching /\ ~full =>
       /\ \A p \in Proxies \cap (ToSet(tod) \ ToSet(new_lost)) :
            p \in ToSet(proxies) \/ (phase = "tod" /\ p \in ToSet(todo))
       /\ ToSet(found) \cap Proxies \subseteq ToSet(proxies)
  /\ quiet /\ phase \in {"known", "known_list"} =>
       \A p \in ToSet(proxies) \cap present :
         Listed(p) \/ p \in ToSet(todo) \/ (phase = "known_list" /\ uid = p)

-----------------------------------------------------------------------------
\* The steps that change lists, as changes of sets.
LEMMA CheckTodSets ==
  ASSUME ListTypeOK, ListsInv, NEW ok \in BOOLEAN, CheckTod(ok)
  PROVE  /\ Head(todo) \in ToSet(todo) /\ Head(todo) \in UIDs
         /\ ToSet(todo) = ToSet(todo') \cup {Head(todo)}
         /\ Head(todo) \notin ToSet(todo')
         /\ ToSet(new_lost') = ToSet(new_lost) \cup (IF ok THEN {} ELSE {Head(todo)})
         /\ ok /\ Head(todo) \in Proxies => ToSet(proxies') = ToSet(proxies) \cup {Head(todo)}
         /\ ~(ok /\ Head(todo) \in Proxies) => ToSet(proxies') = ToSet(proxies) \ {Head(todo)}
         /\ ToSet(new_proxies) \subseteq ToSet(new_proxies')
         /\ ok /\ Head(todo) \in Proxies \ ToSet(proxies) => Head(todo) \in ToSet(new_proxies')
<1> DEFINE u == Head(todo)
           b == ok /\ u \in Proxies /\ ~Contains(proxies, u)
<1>1. /\ phase = "tod" /\ todo # <<>> /\ todo \in Seq(UIDs) /\ new_lost \in Seq(UIDs)
      /\ new_proxies \in Seq(UIDs) /\ proxies \in Seq(UIDs) /\ Distinct(proxies)
  BY DEF CheckTod, ListTypeOK, ListsInv, ListInv
<1>2. Distinct(todo)
  BY <1>1 DEF ListsInv, PhaseInv
<1>3. /\ u \in ToSet(todo) /\ u \in UIDs /\ ToSet(todo) = ToSet(Tail(todo)) \cup {u}
      /\ u \notin ToSet(Tail(todo))
  BY <1>1, <1>2, HeadAndTail
<1>4. /\ new_lost' = AddIf(new_lost, u, ~ok) /\ new_proxies' = AddIf(new_proxies, u, b)
      /\ proxies' = IF ok /\ u \in Proxies THEN AddUnique(proxies, u) ELSE RemoveFirst(proxies, u)
      /\ todo' = Tail(todo)
  BY DEF CheckTod
<1>5. b \in BOOLEAN /\ (~ok) \in BOOLEAN /\ (Contains(proxies, u) <=> u \in ToSet(proxies))
  BY <1>1, ContainsIsMember
<1>6. b <=> ok /\ u \in Proxies \ ToSet(proxies)
  BY <1>5
<1> HIDE DEF u, b
<1>7. /\ ToSet(Append(new_lost, u)) = ToSet(new_lost) \cup {u}
      /\ ToSet(Append(new_proxies, u)) = ToSet(new_proxies) \cup {u}
      /\ ToSet(AddUnique(proxies, u)) = ToSet(proxies) \cup {u}
      /\ ToSet(RemoveFirst(proxies, u)) = ToSet(proxies) \ {u}
  <2>1. /\ ToSet(Append(new_lost, u)) = ToSet(new_lost) \cup {u}
        /\ ToSet(Append(new_proxies, u)) = ToSet(new_proxies) \cup {u}
    BY <1>1, <1>3, ToSetOfAppend
  <2>2. ToSet(AddUnique(proxies, u)) = ToSet(proxies) \cup {u}
    BY <1>1, <1>3, AddUniqueProperties
  <2>3. ToSet(RemoveFirst(proxies, u)) = ToSet(proxies) \ {u}
    BY <1>1, <1>3, RemoveFirstProperties
  <2> QED
    BY <2>1, <2>2, <2>3
<1>8. /\ u \in ToSet(todo) /\ u \in UIDs
      /\ ToSet(todo) = ToSet(todo') \cup {u} /\ u \notin ToSet(todo')
  BY <1>3, <1>4
<1>9. ToSet(new_lost') = ToSet(new_lost) \cup (IF ok THEN {} ELSE {u})
  BY <1>4, <1>7 DEF AddIf
<1>10. /\ ok /\ u \in Proxies => ToSet(proxies') = ToSet(proxies) \cup {u}
       /\ ~(ok /\ u \in Proxies) => ToSet(proxies') = ToSet(proxies) \ {u}
  BY <1>4, <1>7
<1>11. /\ ToSet(new_proxies) \subseteq ToSet(new_proxies')
       /\ ok /\ u \in Proxies \ ToSet(proxies) => u \in ToSet(new_proxies')
  BY <1>4, <1>6, <1>7 DEF AddIf
<1> QED
  BY <1>8, <1>9, <1>10, <1>11 DEF u

LEMMA CheckLostSets ==
  ASSUME ListTypeOK, ListsInv, NEW ok \in BOOLEAN, CheckLost(ok)
  PROVE  /\ Head(todo) \in ToSet(todo) /\ Head(todo) \in UIDs
         /\ ToSet(todo) = ToSet(todo') \cup {Head(todo)}
         /\ ToSet(found') = ToSet(found) \cup (IF ok THEN {Head(todo)} ELSE {})
         /\ ToSet(proxies') =
              ToSet(proxies) \cup (IF ok /\ Head(todo) \in Proxies THEN {Head(todo)} ELSE {})
         /\ ToSet(new_proxies) \subseteq ToSet(new_proxies')
         /\ ok /\ Head(todo) \in Proxies \ ToSet(proxies) => Head(todo) \in ToSet(new_proxies')
<1> DEFINE u == Head(todo)
           b == ok /\ u \in Proxies /\ ~Contains(proxies, u)
<1>1. /\ todo # <<>> /\ todo \in Seq(UIDs) /\ found \in Seq(UIDs)
      /\ new_proxies \in Seq(UIDs) /\ proxies \in Seq(UIDs)
  BY DEF CheckLost, ListTypeOK
<1>3. u \in ToSet(todo) /\ u \in UIDs /\ ToSet(todo) = ToSet(Tail(todo)) \cup {u}
  BY <1>1, HeadAndTail
<1>4. /\ found' = AddIf(found, u, ok) /\ new_proxies' = AddIf(new_proxies, u, b)
      /\ proxies' = IF ok /\ u \in Proxies THEN AddUnique(proxies, u) ELSE proxies
      /\ todo' = Tail(todo)
  BY DEF CheckLost, NextLost
<1>5. b \in BOOLEAN /\ (Contains(proxies, u) <=> u \in ToSet(proxies))
  BY <1>1, ContainsIsMember
<1>6. b <=> ok /\ u \in Proxies \ ToSet(proxies)
  BY <1>5
<1> HIDE DEF u, b
<1>7. /\ ToSet(Append(found, u)) = ToSet(found) \cup {u}
      /\ ToSet(Append(new_proxies, u)) = ToSet(new_proxies) \cup {u}
      /\ ToSet(AddUnique(proxies, u)) = ToSet(proxies) \cup {u}
  <2>1. /\ ToSet(Append(found, u)) = ToSet(found) \cup {u}
        /\ ToSet(Append(new_proxies, u)) = ToSet(new_proxies) \cup {u}
    BY <1>1, <1>3, ToSetOfAppend
  <2>2. ToSet(AddUnique(proxies, u)) = ToSet(proxies) \cup {u}
    BY <1>1, <1>3, AddUniqueProperties
  <2> QED
    BY <2>1, <2>2
<1>8. /\ u \in ToSet(todo) /\ u \in UIDs /\ ToSet(todo) = ToSet(todo') \cup {u}
      /\ ToSet(found') = ToSet(found) \cup (IF ok THEN {u} ELSE {})
  BY <1>3, <1>4, <1>7 DEF AddIf
<1>9. ToSet(proxies') = ToSet(proxies) \cup (IF ok /\ u \in Proxies THEN {u} ELSE {})
  BY <1>4, <1>7
<1>10. /\ ToSet(new_proxies) \subseteq ToSet(new_proxies')
       /\ ok /\ u \in Proxies \ ToSet(proxies) => u \in ToSet(new_proxies')
  BY <1>4, <1>6, <1>7 DEF AddIf
<1> QED
  BY <1>8, <1>9, <1>10 DEF u

LEMMA MuteSets ==
  ASSUME ListTypeOK, ScanTypeOK, NEW ok \in BOOLEAN, Mute(ok)
  PROVE  ToSet(discovered') = ToSet(discovered) \cup (IF ok THEN {uid} ELSE {})
<1>1. ToSet(AddUnique(discovered, uid)) = ToSet(discovered) \cup {uid}
  BY AddUniqueProperties DEF ListTypeOK, ScanTypeOK
<1> QED
  BY <1>1 DEF Mute

LEMMA ReadListSets ==
  ASSUME ListTypeOK, NEW ds \in SUBSET Behind, ReadList(SetToSeq(ds))
  PROVE  ToSet(discovered') = ToSet(discovered) \cup ds
<1>1. /\ discovered \in Seq(UIDs) /\ SetToSeq(ds) \in Seq(UIDs) /\ ToSet(SetToSeq(ds)) = ds
      /\ discovered' = Merge(discovered, SetToSeq(ds))
  BY ProxyListType DEF ListTypeOK, ReadList
<1>2. ToSet(Merge(discovered, SetToSeq(ds))) = ToSet(discovered) \cup ToSet(SetToSeq(ds))
  BY <1>1, MergeProperties
<1> QED
  BY <1>1, <1>2

LEMMA CheckKnownSets ==
  ASSUME ListTypeOK, NEW changed \in BOOLEAN, CheckKnown(changed)
  PROVE  /\ uid' \in ToSet(todo) /\ ToSet(todo) = ToSet(todo') \cup {uid'}
         /\ uid' \in ToSet(new_proxies) => changed
         /\ uid' \notin ToSet(new_proxies) => ProxyTODChanged(uid', changed)
<1>1. todo # <<>> /\ todo \in Seq(UIDs) /\ new_proxies \in Seq(UIDs)
  BY DEF CheckKnown, ListTypeOK
<1>2. /\ uid' = Head(todo) /\ todo' = Tail(todo)
      /\ IF Contains(new_proxies, Head(todo)) THEN changed ELSE ProxyTODChanged(Head(todo), changed)
  BY DEF CheckKnown
<1> QED
  BY <1>1, <1>2, HeadAndTail, ContainsIsMember

LEMMA StepProxyInv == TypeInv /\ ListsInv /\ ProxyInv /\ [Next]_vars => ProxyInv'
<1> SUFFICES ASSUME TypeInv, ListsInv, ProxyInv, [Next]_vars PROVE ProxyInv'
  OBVIOUS
<1>t. ListTypeOK /\ ScanTypeOK
  BY TypeParts DEF TypeInv
<1> USE DEF ProxyInv
<1>1. CASE UNCHANGED <<lists, new_proxies, todo, phase, uid>>
  BY <1>1 DEF lists
<1>2. ASSUME NEW isFull \in BOOLEAN, Start(isFull) PROVE ProxyInv'
  BY <1>2, ToSetOfEmpty DEF Start, lists, built
<1>3. CASE UnmuteAll \/ TodChecked \/ LostChecked \/ Searched
  BY <1>3 DEF UnmuteAll, TodChecked, LostChecked, Searched, lists, built
<1>4. ASSUME NEW ok \in BOOLEAN, CheckTod(ok) PROVE ProxyInv'
  <2>1. ToSet(proxies') \subseteq Proxies
    BY <1>t, <1>4, CheckTodSets
  <2> QED
    BY <1>4, <2>1 DEF CheckTod
<1>5. ASSUME NEW ok \in BOOLEAN, CheckLost(ok) PROVE ProxyInv'
  <2>1. ToSet(proxies') \subseteq Proxies
    BY <1>t, <1>5, CheckLostSets
  <2> QED
    BY <1>5, <2>1 DEF CheckLost
<1>6. ASSUME NEW changed \in BOOLEAN, CheckKnown(changed) PROVE ProxyInv'
  <2>1. uid' \in ToSet(todo) /\ ToSet(todo') \subseteq ToSet(todo)
    BY <1>t, <1>6, CheckKnownSets
  <2> QED
    BY <1>6, <2>1 DEF CheckKnown, lists, built
<1>7. CASE BranchLeaf \/ BranchSilent \/ (\E u \in UIDs : BranchAnswered(u)) \/ BranchGarbled
  BY <1>7 DEF BranchLeaf, BranchSilent, BranchAnswered, BranchGarbled, InBranch, lists, built
<1>8. ASSUME NEW ok \in BOOLEAN, Mute(ok) PROVE ProxyInv'
  BY <1>8 DEF Mute, lists
<1>9. ASSUME NEW ds \in SUBSET Behind, ReadList(SetToSeq(ds)) PROVE ProxyInv'
  BY <1>9 DEF ReadList, lists
<1>10. CASE FinishFull \/ FinishIncremental
  BY <1>10 DEF FinishFull, FinishIncremental, ForgetLocals
<1>11. CASE Reset
  BY <1>11, ToSetOfEmpty DEF Reset, scan, built
<1>12. CASE RdmInitiate \/ BusChange \/ CalmDown \/ Refuse \/ Deinit
  BY <1>1, <1>12 DEF RdmInitiate, BusChange, CalmDown, Refuse, Deinit, scan, built
<1>13. CASE UNCHANGED vars
  BY <1>1, <1>13 DEF vars, scan, built
<1> QED
  BY <1>2, <1>3, <1>4, <1>5, <1>6, <1>7, <1>8, <1>9, <1>10, <1>11, <1>12, <1>13
     DEF Next, ScanStep, Discover, Incremental

-----------------------------------------------------------------------------
\* A calm bus answers truly.
LEMMA ReachedDevices ==
  ASSUME BusTypeOK
  PROVE  /\ present \subseteq Reached
         /\ \A d \in Devices : d \in Reached => d \in present
         /\ \A p \in present \cap Proxies : behind[p] \subseteq Reached
<1>1. \A p \in present \cap Proxies : behind[p] \subseteq Behind
  BY DEF BusTypeOK
<1>2. Behind \cap Devices = {}
  BY UIDAssumption DEF UIDAssumption
<1> QED
  BY <1>1, <1>2 DEF Reached

LEMMA CalmMute ==
  ASSUME BusTypeOK, calm, NEW u, NEW ok \in BOOLEAN, SendMute(u, ok)
  PROVE  /\ ok <=> u \in Reached
         /\ muted' = muted \cup ({u} \cap present)
<1>1. ok <=> u \in Reached
  BY DEF SendMute, Loss
<1>2. CASE u \in present
  BY <1>1, <1>2, ReachedDevices DEF SendMute
<1>3. CASE u \notin present
  <2>1. muted' = muted
    BY <1>3 DEF SendMute
  <2> QED
    BY <1>1, <1>3, <2>1
<1> QED
  BY <1>1, <1>2, <1>3

LEMMA SearchUnmute ==
  ASSUME TypeInv, ListsInv, calm, UnmuteAll
  PROVE  SearchInv'
<1>1. BusTypeOK /\ ListTypeOK /\ ScanTypeOK
  BY TypeParts DEF TypeInv
<1>2. /\ phase = "unmute" /\ muted' = {} /\ present' = present
      /\ UNCHANGED <<outside, lists, full, built>>
      /\ \/ full /\ phase' = "branch" /\ pending' = WholeRange
         \/ ~full /\ phase' = "tod" /\ todo' = tod
  BY DEF UnmuteAll, StayMuted, Loss, outside
<1>3. discovered = <<>> /\ found = <<>> /\ new_lost = <<>>
  BY <1>2 DEF ListsInv, PhaseInv
<1>4. discovered' = <<>> /\ found' = <<>> /\ new_lost' = <<>> /\ full' = full /\ tod' = tod
  BY <1>2, <1>3 DEF built, lists
<1>5. AnswersTrue' /\ TodTold' /\ LostTold' /\ MutedListed' /\ DiscoveredListed'
  BY <1>2, <1>4, ToSetOfEmpty
     DEF AnswersTrue, TodTold, LostTold, MutedListed, DiscoveredListed
<1>6. UnmutedPending'
  <2>1. CASE pending' = WholeRange /\ phase' = "branch"
    <3>1. 1 \in DOMAIN pending' /\ pending'[1][1] = 0 /\ pending'[1][2] = RDM_UID_MAX
      BY <2>1 DEF WholeRange
    <3>2. \A d \in present' : 0 <= d /\ d <= RDM_UID_MAX
      BY <1>1, <1>2, DevicesAreUIDs, UIDAssumption DEF BusTypeOK, UIDs, UIDAssumption
    <3> QED
      BY <2>1, <3>1, <3>2 DEF UnmutedPending, InPending
  <2>2. CASE phase' = "tod"
    BY <2>2 DEF UnmutedPending
  <2> QED
    BY <1>2, <2>1, <2>2
<1> QED
  BY <1>5, <1>6 DEF SearchInv

LEMMA SearchTod ==
  ASSUME TypeInv, ListsInv, SearchInv, calm, NEW ok \in BOOLEAN, CheckTod(ok)
  PROVE  SearchInv'
<1> DEFINE u == Head(todo)
<1>1. BusTypeOK /\ ListTypeOK
  BY TypeParts DEF TypeInv
<1>2. /\ phase = "tod" /\ SendMute(u, ok)
      /\ UNCHANGED <<outside, tod, lost, phase, full, pending, uid, discovered, found>>
  BY DEF CheckTod
<1>3. /\ ok <=> u \in Reached
      /\ muted' = muted \cup ({u} \cap present)
  BY <1>1, <1>2, CalmMute
<1>4. /\ ToSet(todo) = ToSet(todo') \cup {u} /\ u \notin ToSet(todo') /\ u \in ToSet(todo)
      /\ ToSet(new_lost') = ToSet(new_lost) \cup (IF ok THEN {} ELSE {u})
  BY <1>1, CheckTodSets
<1>5. u \in ToSet(tod) \ ToSet(new_lost) /\ ~full
  BY <1>2, <1>4 DEF ListsInv, PhaseInv
<1>6. present \subseteq Reached /\ muted \subseteq present
  BY <1>1, ReachedDevices DEF BusTypeOK
<1>7. Reached' = Reached /\ present' = present /\ behind' = behind
  BY <1>2 DEF Reached, outside
<1> HIDE DEF u
<1>8. AnswersTrue' /\ TodTold'
  BY <1>2, <1>3, <1>4, <1>7 DEF SearchInv, AnswersTrue, TodTold
<1>9. LostTold' /\ UnmutedPending'
  BY <1>2 DEF LostTold, UnmutedPending
<1>10. MutedListed'
  BY <1>2, <1>3, <1>4, <1>5, <1>6 DEF SearchInv, MutedListed, AnswersTrue
<1>11. DiscoveredListed'
  BY <1>2, <1>7 DEF SearchInv, DiscoveredListed
<1> QED
  BY <1>8, <1>9, <1>10, <1>11 DEF SearchInv

LEMMA SearchLost ==
  ASSUME TypeInv, ListsInv, SearchInv, calm, NEW ok \in BOOLEAN, CheckLost(ok)
  PROVE  SearchInv'
<1> DEFINE u == Head(todo)
<1>1. BusTypeOK /\ ListTypeOK
  BY TypeParts DEF TypeInv
<1>2. /\ phase = "lost" /\ SendMute(u, ok)
      /\ UNCHANGED <<outside, tod, lost, phase, full, pending, uid, discovered, new_lost>>
  BY DEF CheckLost
<1>3. /\ ok <=> u \in Reached
      /\ muted' = muted \cup ({u} \cap present)
  BY <1>1, <1>2, CalmMute
<1>4. /\ ToSet(todo) = ToSet(todo') \cup {u}
      /\ ToSet(found') = ToSet(found) \cup (IF ok THEN {u} ELSE {})
  BY <1>1, CheckLostSets
<1>5. ~full
  BY <1>2 DEF ListsInv, PhaseInv
<1>6. present \subseteq Reached
  BY <1>1, ReachedDevices
<1>7. Reached' = Reached /\ present' = present /\ behind' = behind
  BY <1>2 DEF Reached, outside
<1> HIDE DEF u
<1>8. AnswersTrue' /\ TodTold' /\ LostTold'
  BY <1>2, <1>3, <1>4, <1>7 DEF SearchInv, AnswersTrue, TodTold, LostTold
<1>9. UnmutedPending'
  BY <1>2 DEF UnmutedPending
<1>10. MutedListed'
  BY <1>2, <1>3, <1>4, <1>5, <1>6 DEF SearchInv, MutedListed
<1>11. DiscoveredListed'
  BY <1>2, <1>7 DEF SearchInv, DiscoveredListed
<1> QED
  BY <1>8, <1>9, <1>10, <1>11 DEF SearchInv

LEMMA SearchTodChecked ==
  ASSUME TypeInv, ListsInv, SearchInv, TodChecked
  PROVE  SearchInv'
<1>1. /\ phase = "tod" /\ phase' = "lost" /\ ToSet(todo) = {} /\ todo' = lost
      /\ UNCHANGED <<outside, muted, tod, lost, full, uid, discovered, found, new_lost>>
  BY ToSetOfEmpty DEF TodChecked, lists, built
<1>2. Reached' = Reached /\ behind' = behind
  BY <1>1 DEF Reached, outside
<1>3. AnswersTrue' /\ TodTold' /\ LostTold'
  BY <1>1, <1>2 DEF SearchInv, AnswersTrue, TodTold, LostTold
<1>4. MutedListed' /\ UnmutedPending' /\ DiscoveredListed'
  BY <1>1, <1>2 DEF SearchInv, MutedListed, UnmutedPending, DiscoveredListed
<1> QED
  BY <1>3, <1>4 DEF SearchInv

LEMMA SearchLostChecked ==
  ASSUME TypeInv, ListsInv, SearchInv, LostChecked
  PROVE  SearchInv'
<1>1. /\ phase = "lost" /\ phase' = "branch" /\ ToSet(todo) = {} /\ pending' = WholeRange
      /\ UNCHANGED <<outside, muted, tod, lost, full, uid, discovered, found, new_lost>>
  BY ToSetOfEmpty DEF LostChecked, lists, built
<1>2. Reached' = Reached /\ behind' = behind /\ present' = present
  BY <1>1 DEF Reached, outside
<1>3. AnswersTrue' /\ TodTold' /\ LostTold'
  BY <1>1, <1>2 DEF SearchInv, AnswersTrue, TodTold, LostTold
<1>4. MutedListed' /\ DiscoveredListed'
  BY <1>1, <1>2 DEF SearchInv, MutedListed, DiscoveredListed
<1>5. UnmutedPending'
  <2>1. 1 \in DOMAIN pending' /\ pending'[1][1] = 0 /\ pending'[1][2] = RDM_UID_MAX
    BY <1>1 DEF WholeRange
  <2>2. \A d \in present' : 0 <= d /\ d <= RDM_UID_MAX
    <3>1. present' \subseteq UIDs
      BY <1>2, TypeParts, DevicesAreUIDs DEF TypeInv, BusTypeOK
    <3> QED
      BY <3>1, UIDAssumption DEF UIDs, UIDAssumption
  <2> QED
    BY <1>1, <2>1, <2>2 DEF UnmutedPending, InPending
<1> QED
  BY <1>3, <1>4, <1>5 DEF SearchInv

\* A UID that is to be searched for is in the first branch or in a later one.
LEMMA InHeadOrTail ==
  ASSUME pending \in Seq(UIDs \X UIDs), pending # <<>>, NEW d, InPending(d)
  PROVE  \/ Branch[1] <= d /\ d <= Branch[2]
         \/ \E k \in DOMAIN Tail(pending) : Tail(pending)[k][1] <= d /\ d <= Tail(pending)[k][2]
<1>1. PICK k \in DOMAIN pending : pending[k][1] <= d /\ d <= pending[k][2]
  BY DEF InPending
<1>2. CASE k = 1
  BY <1>1, <1>2 DEF Branch
<1>3. CASE k # 1
  <2>1. k - 1 \in DOMAIN Tail(pending) /\ Tail(pending)[k - 1] = pending[k]
    BY <1>1, <1>3
  <2> QED
    BY <1>1, <2>1
<1> QED
  BY <1>2, <1>3

\* The halves of a branch cover it.
LEMMA HalvesCover ==
  ASSUME TypeInv, BranchGarbled, NEW d \in UIDs, Branch[1] <= d, d <= Branch[2]
  PROVE  InPending(d)'
<1> DEFINE lower == LowerHalf(Branch[1], Branch[2])
           upper == UpperHalf(Branch[1], Branch[2])
<1>1. /\ pending # <<>> /\ pending \in Seq(UIDs \X UIDs) /\ Branch[1] # Branch[2]
      /\ pending' = <<lower, upper>> \o Tail(pending)
  BY TypeParts DEF TypeInv, ScanTypeOK, BranchGarbled, InBranch
<1>2. Branch[1] \in UIDs /\ Branch[2] \in UIDs
  BY <1>1 DEF Branch
<1>3. Branch[1] \in Nat /\ Branch[2] \in Nat /\ d \in Nat /\ Branch[1] < Branch[2]
  BY <1>1, <1>2 DEF UIDs
<1>4. /\ lower \in Nat \X Nat /\ upper \in Nat \X Nat
      /\ lower[1] = Branch[1] /\ lower[2] + 1 = upper[1] /\ upper[2] = Branch[2]
  BY <1>3, HalvesPartition
<1> HIDE DEF lower, upper
<1>5. (lower[1] <= d /\ d <= lower[2]) \/ (upper[1] <= d /\ d <= upper[2])
  BY <1>3, <1>4
<1>6. /\ 1 \in DOMAIN pending' /\ pending'[1] = lower
      /\ 2 \in DOMAIN pending' /\ pending'[2] = upper
  BY <1>1, <1>4
<1> QED
  BY <1>5, <1>6 DEF InPending

LEMMA SearchBranch ==
  ASSUME TypeInv, SearchInv, calm, misheard' = {},
         BranchLeaf \/ BranchSilent \/ (\E u \in UIDs : BranchAnswered(u)) \/ BranchGarbled
  PROVE  SearchInv'
<1>1. /\ InBranch /\ UNCHANGED muted /\ phase' \in {"branch", "mute"}
      /\ pending \in Seq(UIDs \X UIDs) /\ pending # <<>> /\ muted \subseteq present
      /\ present \subseteq UIDs
  BY TypeParts, DevicesAreUIDs
     DEF TypeInv, BusTypeOK, ScanTypeOK, BranchLeaf, BranchSilent, BranchAnswered, BranchGarbled,
         InBranch
<1>2. /\ phase = "branch"
      /\ UNCHANGED <<outside, tod, lost, full, todo, discovered, found, new_lost>>
  BY <1>1 DEF InBranch, lists, built
<1>3. Reached' = Reached /\ behind' = behind /\ present' = present
  BY <1>2 DEF Reached, outside
<1>4. AnswersTrue' /\ TodTold' /\ LostTold'
  BY <1>1, <1>2, <1>3 DEF SearchInv, AnswersTrue, TodTold, LostTold
<1>5. MutedListed' /\ DiscoveredListed'
  BY <1>1, <1>2, <1>3 DEF SearchInv, MutedListed, DiscoveredListed
<1>6. \A d \in present \ muted : InPending(d)
  BY <1>2 DEF SearchInv, UnmutedPending
<1>7. ~Loss
  BY DEF Loss
<1>8. ASSUME NEW d \in present \ muted
      PROVE  InPending(d)' \/ (phase' = "mute" /\ uid' = d)
  <2>1. CASE BranchGarbled
    <3>1. \/ Branch[1] <= d /\ d <= Branch[2]
          \/ \E k \in DOMAIN Tail(pending) : Tail(pending)[k][1] <= d /\ d <= Tail(pending)[k][2]
      BY <1>1, <1>6, <1>8, InHeadOrTail
    <3>2. CASE Branch[1] <= d /\ d <= Branch[2]
      BY <1>1, <1>8, <2>1, <3>2, HalvesCover
    <3>3. ASSUME NEW k \in DOMAIN Tail(pending),
                 Tail(pending)[k][1] <= d /\ d <= Tail(pending)[k][2]
          PROVE  InPending(d)'
      <4> DEFINE rest == Tail(pending)
                 lower == LowerHalf(Branch[1], Branch[2])
                 upper == UpperHalf(Branch[1], Branch[2])
      <4>1. pending' = <<lower, upper>> \o rest
        BY <2>1 DEF BranchGarbled
      <4>2. rest \in Seq(UIDs \X UIDs) /\ k \in DOMAIN rest
        BY <1>1, <3>3
      <4> HIDE DEF rest, lower, upper
      <4>3. k + 2 \in DOMAIN (<<lower, upper>> \o rest) /\ (<<lower, upper>> \o rest)[k + 2] = rest[k]
        BY <4>2
      <4> QED
        BY <3>3, <4>1, <4>3 DEF InPending, rest
    <3> QED
      BY <3>1, <3>2, <3>3
  <2>2. CASE ~BranchGarbled
    <3>1. /\ pending' = Tail(pending)
          /\ \/ BranchLeaf \/ BranchSilent \/ \E u \in UIDs : BranchAnswered(u)
      BY <2>2 DEF BranchLeaf, BranchSilent, BranchAnswered
    <3>2. (Branch[1] <= d /\ d <= Branch[2]) \/ InPending(d)'
      BY <1>1, <1>6, <1>8, <3>1, InHeadOrTail DEF InPending
    <3>3. CASE Branch[1] <= d /\ d <= Branch[2]
      <4>1. d \in Responders
        BY <1>8, <3>3 DEF Responders
      <4>2. CASE BranchLeaf
        <5>1. Branch[1] \in UIDs /\ Branch[2] \in UIDs
          BY <1>1 DEF Branch
        <5> QED
          BY <1>1, <1>8, <3>3, <4>2, <5>1 DEF BranchLeaf, UIDs
      <4>3. CASE BranchSilent
        BY <1>7, <4>1, <4>3 DEF BranchSilent
      <4>4. ASSUME NEW u \in UIDs, BranchAnswered(u)
            PROVE  phase' = "mute" /\ uid' = d
        BY <4>1, <4>4 DEF BranchAnswered
      <4> QED
        BY <3>1, <4>2, <4>3, <4>4
    <3> QED
      BY <3>2, <3>3
  <2> QED
    BY <2>1, <2>2
<1>9. UnmutedPending'
  BY <1>1, <1>3, <1>8 DEF UnmutedPending
<1> QED
  BY <1>4, <1>5, <1>9 DEF SearchInv

LEMMA SearchMute ==
  ASSUME TypeInv, SearchInv, calm, NEW ok \in BOOLEAN, Mute(ok)
  PROVE  SearchInv'
<1>1. BusTypeOK /\ ListTypeOK /\ ScanTypeOK
  BY TypeParts DEF TypeInv
<1>2. /\ phase = "mute" /\ SendMute(uid, ok)
      /\ phase' = IF ok /\ uid \in Proxies THEN "list" ELSE "branch"
      /\ UNCHANGED <<outside, tod, lost, full, pending, todo, uid, found, new_lost>>
  BY DEF Mute, lists
<1>3. /\ ok <=> uid \in Reached
      /\ muted' = muted \cup ({uid} \cap present)
  BY <1>1, <1>2, CalmMute
<1>4. ToSet(discovered') = ToSet(discovered) \cup (IF ok THEN {uid} ELSE {})
  BY <1>1, MuteSets
<1>5. present \subseteq Reached
  BY <1>1, ReachedDevices
<1>6. Reached' = Reached /\ present' = present /\ behind' = behind
  BY <1>2 DEF Reached, outside
<1>7. phase' \in {"list", "branch"} /\ (phase' = "branch" => ~ok \/ uid \notin Proxies)
  BY <1>2
<1>8. AnswersTrue' /\ TodTold' /\ LostTold'
  BY <1>2, <1>3, <1>4, <1>6, <1>7 DEF SearchInv, AnswersTrue, TodTold, LostTold
<1>9. MutedListed'
  BY <1>2, <1>3, <1>4, <1>5 DEF SearchInv, MutedListed
<1>10. UnmutedPending'
  BY <1>2, <1>3, <1>6, <1>7 DEF SearchInv, UnmutedPending, InPending
<1>11. DiscoveredListed'
  BY <1>2, <1>4, <1>6, <1>7 DEF SearchInv, DiscoveredListed
<1> QED
  BY <1>8, <1>9, <1>10, <1>11 DEF SearchInv

\* The list of a proxy that can be reached is read as a whole if nothing is lost.
LEMMA CalmRead ==
  ASSUME BusTypeOK, ListTypeOK, ProxyInv, ~Loss, NEW ds \in SUBSET Behind, ReadList(SetToSeq(ds))
  PROVE  /\ uid \in Proxies
         /\ uid \in present => ds = behind[uid]
         /\ uid \notin present => ds = {}
<1>1. uid \in Proxies
  BY DEF ReadList, ProxyInv
<1> DEFINE all == IF uid \in present THEN behind[uid] ELSE {}
<1>2. all \subseteq Behind
  BY <1>1 DEF BusTypeOK
<1>3. PICK us \in SUBSET all : SetToSeq(ds) = SetToSeq(us) /\ (us = all \/ Loss)
  BY DEF ReadList, GetProxyTOD
<1>4. us = all
  BY <1>3
<1>5. ToSet(SetToSeq(ds)) = ds /\ ToSet(SetToSeq(us)) = us
  BY <1>2, ProxyListType
<1>6. ds = all
  BY <1>3, <1>4, <1>5
<1> QED
  BY <1>1, <1>6

LEMMA SearchRead ==
  ASSUME TypeInv, SearchInv, ProxyInv, calm, NEW ds \in SUBSET Behind, ReadList(SetToSeq(ds))
  PROVE  SearchInv'
<1>1. BusTypeOK /\ ListTypeOK
  BY TypeParts DEF TypeInv
<1>2. /\ \/ phase = "list" /\ phase' = "branch"
         \/ phase = "known_list" /\ phase' = "known"
      /\ UNCHANGED <<outside, muted, tod, lost, full, pending, todo, uid, found, new_lost>>
  BY DEF ReadList, lists
<1>3. ToSet(discovered') = ToSet(discovered) \cup ds
  BY <1>1, ReadListSets
<1>4. uid \in Proxies /\ (uid \in present => ds = behind[uid]) /\ (uid \notin present => ds = {})
  BY <1>1, CalmRead DEF Loss
<1>5. Reached' = Reached /\ present' = present /\ behind' = behind
  BY <1>2 DEF Reached, outside
<1>6. ds \subseteq Reached
  BY <1>1, <1>4, ReachedDevices
<1>7. AnswersTrue' /\ TodTold' /\ LostTold'
  BY <1>2, <1>3, <1>5, <1>6 DEF SearchInv, AnswersTrue, TodTold, LostTold
<1>8. MutedListed'
  BY <1>2, <1>3 DEF SearchInv, MutedListed
<1>9. UnmutedPending'
  BY <1>2, <1>5 DEF SearchInv, UnmutedPending, InPending
<1>10. DiscoveredListed'
  <2> SUFFICES ASSUME NEW p \in ToSet(discovered') \cap Proxies
               PROVE  behind'[p] \subseteq ToSet(discovered')
    BY DEF DiscoveredListed
  <2>1. p \in ToSet(discovered) /\ p \in Devices /\ p \in present
    <3>1. p \in Devices /\ p \notin Behind
      BY DevicesAreUIDs, UIDAssumption DEF UIDAssumption
    <3>2. p \in ToSet(discovered)
      BY <1>3, <3>1
    <3> QED
      BY <1>1, <3>1, <3>2, ReachedDevices DEF SearchInv, AnswersTrue
  <2>2. CASE behind[p] \subseteq ToSet(discovered)
    BY <1>3, <1>5, <2>2
  <2>3. CASE p = uid
    BY <1>3, <1>4, <1>5, <2>1, <2>3
  <2> QED
    BY <2>1, <2>2, <2>3 DEF SearchInv, DiscoveredListed
<1> QED
  BY <1>7, <1>8, <1>9, <1>10 DEF SearchInv

LEMMA SearchKnown ==
  ASSUME TypeInv, ListsInv, SearchInv, Searched \/ \E changed \in BOOLEAN : CheckKnown(changed)
  PROVE  SearchInv' /\ full' = FALSE
<1>1. /\ \/ phase = "branch" /\ pending = <<>>
         \/ phase = "known"
      /\ phase' \in {"known", "known_list"} /\ full' = FALSE /\ ~full
      /\ UNCHANGED <<outside, muted, tod, lost, discovered, found, new_lost>>
  <2>1. CASE Searched
    BY <2>1, TypeParts DEF Searched, lists, built, TypeInv, ScanTypeOK
  <2>2. ASSUME NEW changed \in BOOLEAN, CheckKnown(changed)
        PROVE  /\ phase = "known" /\ phase' \in {"known", "known_list"} /\ full' = full /\ ~full
               /\ UNCHANGED <<outside, muted, tod, lost, discovered, found, new_lost>>
    BY <2>2 DEF CheckKnown, lists, built, ListsInv, PhaseInv
  <2> QED
    BY <2>1, <2>2, TypeParts DEF TypeInv, ScanTypeOK
<1>2. Reached' = Reached /\ present' = present /\ behind' = behind
  BY <1>1 DEF Reached, outside
<1>3. AnswersTrue' /\ TodTold' /\ LostTold'
  BY <1>1, <1>2 DEF SearchInv, AnswersTrue, TodTold, LostTold
<1>4. MutedListed' /\ DiscoveredListed'
  BY <1>1, <1>2 DEF SearchInv, MutedListed, DiscoveredListed
<1>5. UnmutedPending'
  BY <1>1, <1>2 DEF SearchInv, UnmutedPending, InPending
<1> QED
  BY <1>1, <1>3, <1>4, <1>5 DEF SearchInv

\* At the end of a full discovery, what was discovered is what can be reached.
LEMMA FullFound ==
  ASSUME TypeInv, SearchInv, FinishFull
  PROVE  ToSet(discovered) = Reached
<1>1. /\ phase = "branch" /\ pending = <<>> /\ full
      /\ BusTypeOK
  BY TypeParts DEF FinishFull, TypeInv
<1>2. present \subseteq ToSet(discovered)
  BY <1>1 DEF SearchInv, UnmutedPending, InPending, MutedListed
<1>3. \A p \in present \cap Proxies : behind[p] \subseteq ToSet(discovered)
  BY <1>1, <1>2 DEF SearchInv, DiscoveredListed
<1> QED
  BY <1>2, <1>3 DEF SearchInv, AnswersTrue, Reached

LEMMA StepQuietInv == TypeInv /\ ListsInv /\ ProxyInv /\ QuietInv /\ [Next]_vars => QuietInv'
<1> SUFFICES ASSUME TypeInv, ListsInv, ProxyInv, QuietInv, [Next]_vars PROVE QuietInv'
  OBVIOUS
<1>1. ASSUME NEW isFull \in BOOLEAN, Start(isFull) PROVE QuietInv'
  BY <1>1 DEF Start, QuietInv, Searching, outside
<1>2. CASE UNCHANGED <<scan, outside, muted, tod, lost, built>>
  <2>1. UNCHANGED <<present, behind, phase, full, quiet, misheard, pending, todo, uid, discovered,
                    found, new_lost, Reached>>
    BY <1>2 DEF scan, outside, built, Reached
  <2> QED
    BY <1>2, <2>1 DEF outside, QuietInv, Undisturbed, Searching, SearchInv, AnswersTrue, TodTold,
       LostTold, MutedListed, UnmutedPending, InPending, DiscoveredListed
<1>3. CASE RdmInitiate \/ Refuse \/ UNCHANGED vars
  BY <1>2, <1>3 DEF RdmInitiate, Refuse, vars, lists
<1>4. CASE BusChange \/ CalmDown \/ Deinit \/ Reset
  <2>1. ~quiet /\ quiet' = quiet /\ (calm' => initialized')
    BY <1>4 DEF BusChange, CalmDown, Deinit, Reset, QuietInv, scan
  <2> QED
    BY <2>1 DEF QuietInv, Undisturbed
<1>5. CASE ScanStep
  <2>1. /\ quiet' = quiet /\ full' = full /\ calm' = calm /\ initialized' = initialized
        /\ misheard \subseteq misheard'
    BY <1>5 DEF ScanStep, UnmuteAll, Discover, FinishFull, Incremental, BranchLeaf, BranchSilent,
       BranchAnswered, BranchGarbled, InBranch, Mute, ReadList, CheckTod, CheckLost, CheckKnown,
       TodChecked, LostChecked, Searched, FinishIncremental, outside
  <2>2. CASE ~Undisturbed'
    BY <2>1, <2>2 DEF QuietInv
  <2>3. CASE Undisturbed'
    <3>1. /\ misheard' = {} /\ Undisturbed /\ calm /\ initialized
          /\ Searching => SearchInv
      BY <2>1, <2>3 DEF QuietInv, Undisturbed
    <3>2. CASE UnmuteAll
      <4>1. SearchInv' /\ phase' # "idle"
        BY <3>1, <3>2, SearchUnmute DEF UnmuteAll
      <4> QED
        BY <2>1, <3>1, <4>1 DEF QuietInv
    <3>3. CASE \E ok \in BOOLEAN : CheckTod(ok) \/ CheckLost(ok)
      <4>1. phase \in {"tod", "lost"} /\ phase' = phase
        BY <3>3 DEF CheckTod, CheckLost
      <4>2. SearchInv'
        BY <3>1, <3>3, <4>1, SearchTod, SearchLost DEF Searching
      <4> QED
        BY <2>1, <3>1, <4>1, <4>2 DEF QuietInv
    <3>4. CASE TodChecked \/ LostChecked
      <4>1. phase \in {"tod", "lost"} /\ phase' # "idle"
        BY <3>4 DEF TodChecked, LostChecked
      <4>2. SearchInv'
        BY <3>1, <3>4, <4>1, SearchTodChecked, SearchLostChecked DEF Searching
      <4> QED
        BY <2>1, <3>1, <4>1, <4>2 DEF QuietInv
    <3>5. CASE Searched \/ \E changed \in BOOLEAN : CheckKnown(changed)
      <4>1. phase \in {"branch", "known"} /\ phase' # "idle"
        BY <3>5 DEF Searched, CheckKnown
      <4>2. SearchInv'
        BY <3>1, <3>5, <4>1, SearchKnown DEF Searching
      <4> QED
        BY <2>1, <3>1, <4>1, <4>2 DEF QuietInv
    <3>6. CASE Discover
      <4>1. phase \in {"branch", "mute", "list", "known_list"} /\ phase' # "idle"
        BY <3>6 DEF Discover, BranchLeaf, BranchSilent, BranchAnswered, BranchGarbled, InBranch,
           Mute, ReadList
      <4>2. SearchInv'
        BY <3>1, <3>6, <4>1, SearchBranch, SearchMute, SearchRead DEF Searching, Discover
      <4> QED
        BY <2>1, <3>1, <4>1, <4>2 DEF QuietInv
    <3>7. CASE FinishFull
      <4>1. Searching /\ phase' = "idle" /\ tod' = discovered /\ UNCHANGED outside
        BY <3>7 DEF FinishFull, Searching
      <4>2. ToSet(tod') = Reached
        BY <3>1, <3>7, <4>1, FullFound
      <4>3. Reached' = Reached
        BY <4>1 DEF Reached, outside
      <4> QED
        BY <2>1, <3>1, <4>1, <4>2, <4>3 DEF QuietInv, Searching
    <3>8. CASE FinishIncremental
      <4>1. phase = "known" /\ phase' = "idle" /\ ~full
        BY <3>8 DEF FinishIncremental, ListsInv, PhaseInv
      <4> QED
        BY <2>1, <3>1, <4>1 DEF QuietInv, Searching
    <3> QED
      BY <1>5, <3>2, <3>3, <3>4, <3>5, <3>6, <3>7, <3>8 DEF ScanStep, Incremental
  <2> QED
    BY <2>2, <2>3
<1> QED
  BY <1>1, <1>3, <1>4, <1>5 DEF Next

LEMMA InitQuietInv == Init => ProxyInv /\ QuietInv
  BY ToSetOfEmpty DEF Init, ProxyInv, QuietInv, Searching

LEMMA QuietInvariance == Spec => [](TypeInv /\ ListsInv /\ ProxyInv /\ QuietInv)
<1>1. Init => TypeInv /\ ListsInv /\ ProxyInv /\ QuietInv
  BY InitTypeInv, InitListsInv, InitQuietInv
<1>2. TypeInv /\ ListsInv /\ ProxyInv /\ QuietInv /\ [Next]_vars
        => TypeInv' /\ ListsInv' /\ ProxyInv' /\ QuietInv'
  BY StepTypeInv, StepListsInv, StepProxyInv, StepQuietInv
<1> QED
  BY <1>1, <1>2, PTL DEF Spec

(***************************************************************************)
(* `fullRDMDiscovery(); // Returns full TOD' (src/src/openrdm_device.hpp): *)
(* a full discovery on a calm bus finds exactly the devices that can be    *)
(* reached, proxied ones included, among any number of devices on a UID    *)
(* space of any size, whatever was lost or reset before, if it has taken   *)
(* no collision for an answer.  The hypothesis is needed: run              *)
(* DiscoveryCapture shows a device missed because its answer was covered,  *)
(* and devices that collide to a phantom (UIDs 1 and 4, to 5) are missed   *)
(* whenever they are alone in their range.                                 *)
(***************************************************************************)
THEOREM FullDiscoveryFindsAll == Spec => [](misheard = {} => FullTOD)
<1>1. QuietInv => (misheard = {} => FullTOD)
  BY DEF QuietInv, Undisturbed, FullTOD
<1> QED
  BY <1>1, QuietInvariance, PTL

-----------------------------------------------------------------------------
(***************************************************************************)
(* The known proxies.  Nothing of a proxy's list may be lost: a part that  *)
(* is lost is not asked for again until the list changes.                  *)
(***************************************************************************)
ListsArrive == Lossy => Proxies = {}

LEMMA KnownRead ==
  ASSUME TypeInv, ProxyInv, KnownListed, ~Loss,
         NEW ds \in SUBSET Behind, ReadList(SetToSeq(ds))
  PROVE  KnownListed'
<1>1. BusTypeOK /\ ListTypeOK
  BY TypeParts DEF TypeInv
<1>2. /\ \/ phase = "list" /\ phase' = "branch"
         \/ phase = "known_list" /\ phase' = "known"
      /\ UNCHANGED <<outside, tod, lost, proxies, todo, uid, new_proxies>>
      /\ \A p : p \notin updated' => p \notin updated \/ p = uid
  BY DEF ReadList, lists, GetProxyTOD
<1>3. ToSet(discovered') = ToSet(discovered) \cup ds
  BY <1>1, ReadListSets
<1>4. uid \in present => ds = behind[uid]
  BY <1>1, CalmRead
<1>5. present' = present /\ behind' = behind
  BY <1>2 DEF outside
<1> SUFFICES ASSUME NEW p \in (ToSet(proxies) \cap present) \ updated'
             PROVE  Listed(p)' \/ (p \in ToSet(new_proxies) /\ ToBeRead(p)')
  BY <1>2, <1>5 DEF KnownListed
<1>6. CASE p = uid
  BY <1>2, <1>3, <1>4, <1>5, <1>6 DEF Listed
<1>7. CASE p # uid
  <2>1. Listed(p) \/ (p \in ToSet(new_proxies) /\ ToBeRead(p))
    BY <1>2, <1>7 DEF KnownListed
  <2>2. CASE Listed(p)
    BY <1>2, <1>3, <1>5, <2>2 DEF Listed
  <2>3. CASE p \in ToSet(new_proxies) /\ ToBeRead(p)
    BY <1>2, <1>7, <2>3 DEF ToBeRead
  <2> QED
    BY <2>1, <2>2, <2>3
<1> QED
  BY <1>6, <1>7

LEMMA KnownBus ==
  ASSUME TypeInv, ProxyInv, KnownListed, BusChange
  PROVE  KnownListed'
<1>1. BusTypeOK
  BY TypeParts DEF TypeInv
<1>2. UNCHANGED <<tod, lost, proxies, phase, todo, uid, discovered, new_proxies>>
  BY DEF BusChange, lists, scan, built
<1>3. ASSUME NEW p \in (ToSet(proxies) \cap present') \ updated'
      PROVE  p \in present /\ p \notin updated /\ behind'[p] = behind[p]
  <2>1. p \in Proxies
    BY DEF ProxyInv
  <2>2. ASSUME NEW d \in Devices, Arrive(d) \/ Leave(d)
        PROVE  p \in present /\ p \notin updated /\ behind'[p] = behind[p]
    BY <1>3, <2>1, <2>2 DEF Arrive, Leave
  <2>3. ASSUME NEW q \in Proxies, NEW ds \in SUBSET Behind, ListChange(q, ds)
        PROVE  p \in present /\ p \notin updated /\ behind'[p] = behind[p]
    BY <1>1, <1>3, <2>1, <2>3 DEF ListChange, BusTypeOK
  <2> QED
    BY <2>2, <2>3 DEF BusChange
<1> SUFFICES ASSUME NEW p \in (ToSet(proxies) \cap present') \ updated'
             PROVE  Listed(p)' \/ (p \in ToSet(new_proxies) /\ ToBeRead(p)')
  BY <1>2 DEF KnownListed
<1>4. Listed(p) \/ (p \in ToSet(new_proxies) /\ ToBeRead(p))
  BY <1>3 DEF KnownListed
<1> QED
  BY <1>2, <1>3, <1>4 DEF Listed, ToBeRead

LEMMA StepKnownListed ==
  ASSUME ListsArrive
  PROVE  TypeInv /\ ListsInv /\ ProxyInv /\ KnownListed /\ [Next]_vars => KnownListed'
<1> SUFFICES ASSUME TypeInv, ListsInv, ProxyInv, KnownListed, [Next]_vars PROVE KnownListed'
  OBVIOUS
<1>0. ListTypeOK
  BY TypeParts DEF TypeInv
<1>1. CASE Proxies = {}
  <2>1. ToSet(proxies') = {}
    BY <1>1, StepProxyInv DEF ProxyInv
  <2> QED
    BY <2>1 DEF KnownListed
<1>2. CASE UNCHANGED <<lists, outside, updated, phase, todo, uid, new_proxies, discovered>>
  BY <1>2 DEF KnownListed, Listed, ToBeRead, lists, outside
<1>3. ASSUME NEW isFull \in BOOLEAN, Start(isFull) PROVE KnownListed'
  <2>1. CASE isFull
    BY <1>3, <2>1, ToSetOfEmpty DEF Start, KnownListed
  <2>2. CASE ~isFull
    <3>1. ToSet(new_proxies) = {}
      BY <1>3, ToSetOfEmpty DEF Start, ProxyInv
    <3>2. UNCHANGED <<lists, outside, updated, new_proxies, discovered>>
      BY <1>3, <2>2 DEF Start, built
    <3> QED
      BY <3>1, <3>2 DEF KnownListed, Listed, lists, outside
  <2> QED
    BY <2>1, <2>2
<1>4. CASE UnmuteAll
  <2>1. ToSet(new_proxies) = {}
    BY <1>4, ToSetOfEmpty DEF UnmuteAll, ProxyInv
  <2>2. UNCHANGED <<lists, outside, updated, new_proxies, discovered>>
    BY <1>4 DEF UnmuteAll, built
  <2> QED
    BY <2>1, <2>2 DEF KnownListed, Listed, lists, outside
<1>5. ASSUME NEW ok \in BOOLEAN, CheckTod(ok) PROVE KnownListed'
  <2>1. /\ phase = "tod" /\ phase' = "tod"
        /\ UNCHANGED <<outside, updated, tod, lost, discovered>>
    BY <1>5 DEF CheckTod
  <2>2. /\ \A p \in ToSet(proxies') : p \in ToSet(proxies) \/ p \in ToSet(new_proxies')
        /\ ToSet(new_proxies) \subseteq ToSet(new_proxies')
    BY <1>0, <1>5, CheckTodSets
  <2> QED
    BY <2>1, <2>2 DEF KnownListed, Listed, ToBeRead, outside
<1>6. ASSUME NEW ok \in BOOLEAN, CheckLost(ok) PROVE KnownListed'
  <2>1. /\ phase = "lost" /\ phase' = "lost"
        /\ UNCHANGED <<outside, updated, tod, lost, discovered>>
    BY <1>6 DEF CheckLost
  <2>2. /\ \A p \in ToSet(proxies') : p \in ToSet(proxies) \/ p \in ToSet(new_proxies')
        /\ ToSet(new_proxies) \subseteq ToSet(new_proxies')
    BY <1>0, <1>6, CheckLostSets
  <2> QED
    BY <2>1, <2>2 DEF KnownListed, Listed, ToBeRead, outside
<1>7. CASE TodChecked \/ LostChecked
  <2>1. /\ phase \in {"tod", "lost"} /\ phase' \in {"lost", "branch"}
        /\ UNCHANGED <<lists, outside, updated, discovered, new_proxies>>
    BY <1>7 DEF TodChecked, LostChecked, built
  <2> QED
    BY <2>1 DEF KnownListed, Listed, ToBeRead, lists, outside
<1>8. CASE BranchLeaf \/ BranchSilent \/ (\E u \in UIDs : BranchAnswered(u)) \/ BranchGarbled
  <2>1. /\ phase = "branch" /\ phase' \in {"branch", "mute"}
        /\ UNCHANGED <<lists, outside, updated, discovered, new_proxies>>
    BY <1>8 DEF BranchLeaf, BranchSilent, BranchAnswered, BranchGarbled, InBranch, built
  <2> QED
    BY <2>1 DEF KnownListed, Listed, ToBeRead, lists, outside
<1>9. ASSUME NEW ok \in BOOLEAN, Mute(ok) PROVE KnownListed'
  <2>1. /\ phase = "mute" /\ phase' \in {"list", "branch"}
        /\ UNCHANGED <<lists, outside, updated, new_proxies>>
    BY <1>9 DEF Mute
  <2>2. ToSet(discovered) \subseteq ToSet(discovered')
    BY <1>0, <1>9, MuteSets, TypeParts DEF TypeInv
  <2> QED
    BY <2>1, <2>2 DEF KnownListed, Listed, ToBeRead, lists, outside
<1>10. CASE Searched
  <2>1. /\ phase' = "known" /\ todo' = proxies
        /\ UNCHANGED <<lists, outside, updated, discovered, new_proxies>>
    BY <1>10 DEF Searched, built
  <2> QED
    BY <2>1 DEF KnownListed, Listed, ToBeRead, lists, outside
<1>11. ASSUME NEW changed \in BOOLEAN, CheckKnown(changed) PROVE KnownListed'
  <2>1. /\ phase = "known" /\ phase' = IF changed THEN "known_list" ELSE "known"
        /\ UNCHANGED <<lists, outside, updated, discovered, new_proxies>>
    BY <1>11 DEF CheckKnown, built
  <2>2. /\ ToSet(todo) = ToSet(todo') \cup {uid'}
        /\ uid' \in ToSet(new_proxies) => changed
    BY <1>0, <1>11, CheckKnownSets
  <2> QED
    BY <2>1, <2>2 DEF KnownListed, Listed, ToBeRead, lists, outside
<1>12. CASE FinishFull
  <2>1. proxies' = <<>>
    BY <1>12 DEF FinishFull, ListsInv, PhaseInv
  <2> QED
    BY <2>1, ToSetOfEmpty DEF KnownListed
<1>13. CASE FinishIncremental
  <2>1. /\ phase = "known" /\ ToSet(todo) = {}
        /\ UNCHANGED <<outside, updated, proxies>>
        /\ tod' = EraseAll(tod, NotLost) \o NewlyFound /\ lost' = LostAfter
    BY <1>13, ToSetOfEmpty DEF FinishIncremental
  <2>2. \A p \in (ToSet(proxies) \cap present) \ updated : Listed(p)
    BY <2>1 DEF KnownListed, ToBeRead
  <2>3. ToSet(tod) \cup ToSet(lost) \cup ToSet(discovered) \subseteq ToSet(tod') \cup ToSet(lost')
    BY <1>0, <2>1, FinishSets DEF ListsInv
  <2>4. UNCHANGED <<present, behind>>
    BY <2>1 DEF outside
  <2> QED
    BY <2>1, <2>2, <2>3, <2>4 DEF KnownListed, Listed
<1>14. CASE Reset
  BY <1>14, ToSetOfEmpty DEF Reset, KnownListed
<1>15. CASE BusChange
  BY <1>15, KnownBus
<1>16. CASE RdmInitiate \/ Refuse \/ UNCHANGED vars
  BY <1>2, <1>16 DEF RdmInitiate, Refuse, vars, scan, built
<1>17. CASE CalmDown \/ Deinit
  BY <1>17 DEF CalmDown, Deinit, KnownListed, Listed, ToBeRead, lists, scan, built
<1>18. ASSUME Proxies # {}, NEW ds \in SUBSET Behind, ReadList(SetToSeq(ds)) PROVE KnownListed'
  BY <1>18, KnownRead DEF ListsArrive, Loss
<1> QED
  BY <1>1, <1>3, <1>4, <1>5, <1>6, <1>7, <1>8, <1>9, <1>10, <1>11, <1>12, <1>13, <1>14, <1>15,
     <1>16, <1>17, <1>18
     DEF Next, ScanStep, Discover, Incremental

-----------------------------------------------------------------------------
\* On a calm bus every known proxy has been asked in the end.
LEMMA QuietKnownTod ==
  ASSUME ListTypeOK, ListsInv, ProxyInv, QuietKnown, NEW ok \in BOOLEAN, CheckTod(ok)
  PROVE  QuietKnown'
<1>1. /\ phase = "tod" /\ phase' = "tod" /\ found = <<>> /\ ~full
      /\ UNCHANGED <<tod, full, quiet, found>>
  BY DEF CheckTod, ListsInv, PhaseInv
<1> DEFINE u == Head(todo)
<1>2. /\ ToSet(todo) = ToSet(todo') \cup {u}
      /\ ToSet(new_lost') = ToSet(new_lost) \cup (IF ok THEN {} ELSE {u})
      /\ ok /\ u \in Proxies => ToSet(proxies') = ToSet(proxies) \cup {u}
      /\ ~(ok /\ u \in Proxies) => ToSet(proxies') = ToSet(proxies) \ {u}
  BY CheckTodSets
<1> HIDE DEF u
<1>3. ASSUME quiet, NEW p \in Proxies \cap (ToSet(tod) \ ToSet(new_lost'))
      PROVE  p \in ToSet(proxies') \/ p \in ToSet(todo')
  <2>1. p \in ToSet(proxies) \/ p \in ToSet(todo)
    BY <1>1, <1>2, <1>3 DEF QuietKnown, Searching
  <2>2. p = u => ok
    BY <1>2
  <2> QED
    BY <1>2, <2>1, <2>2
<1> QED
  BY <1>1, <1>3, ToSetOfEmpty DEF QuietKnown, Searching

LEMMA QuietKnownAsked ==
  ASSUME TypeInv, ProxyInv, KnownListed, QuietKnown, ~Loss,
         NEW changed \in BOOLEAN, CheckKnown(changed)
  PROVE  QuietKnown'
<1>1. /\ phase = "known" /\ phase' = IF changed THEN "known_list" ELSE "known"
      /\ UNCHANGED <<outside, tod, lost, proxies, full, quiet, discovered, found, new_lost>>
  BY DEF CheckKnown, lists, built
<1>2. /\ ToSet(todo) = ToSet(todo') \cup {uid'}
      /\ uid' \in ToSet(new_proxies) => changed
      /\ uid' \notin ToSet(new_proxies) => ProxyTODChanged(uid', changed)
  BY CheckKnownSets, TypeParts DEF TypeInv
<1>3. UNCHANGED <<present, behind>>
  BY <1>1 DEF outside
<1>4. ASSUME quiet, NEW p \in ToSet(proxies) \cap present
      PROVE  Listed(p) \/ p \in ToSet(todo') \/ (changed /\ uid' = p)
  <2>1. Listed(p) \/ p \in ToSet(todo)
    BY <1>1, <1>4 DEF QuietKnown
  <2>2. CASE p = uid' /\ ~changed
    <3>1. p \notin updated
      BY <1>2, <1>4, <2>2 DEF ProxyTODChanged
    <3> QED
      BY <1>2, <1>4, <2>2, <3>1 DEF KnownListed
  <2> QED
    BY <1>2, <2>1, <2>2
<1> QED
  BY <1>1, <1>3, <1>4 DEF QuietKnown, Searching, Listed

LEMMA QuietKnownRead ==
  ASSUME TypeInv, ProxyInv, QuietKnown, ~Loss, NEW ds \in SUBSET Behind, ReadList(SetToSeq(ds))
  PROVE  QuietKnown'
<1>1. /\ \/ phase = "list" /\ phase' = "branch"
         \/ phase = "known_list" /\ phase' = "known"
      /\ UNCHANGED <<outside, tod, lost, proxies, full, quiet, todo, uid, found, new_lost>>
  BY DEF ReadList, lists
<1>2. UNCHANGED <<present, behind>>
  BY <1>1 DEF outside
<1>3. /\ ToSet(discovered') = ToSet(discovered) \cup ds
      /\ uid \in present => ds = behind[uid]
  BY ReadListSets, CalmRead, TypeParts DEF TypeInv
<1> QED
  BY <1>1, <1>2, <1>3 DEF QuietKnown, Searching, Listed

LEMMA StepQuietKnown ==
  TypeInv /\ ListsInv /\ ProxyInv /\ QuietInv /\ KnownListed /\ QuietKnown /\ [Next]_vars
    => QuietKnown'
<1> SUFFICES ASSUME TypeInv, ListsInv, ProxyInv, QuietInv, KnownListed, QuietKnown,
                    [Next]_vars
             PROVE  QuietKnown'
  OBVIOUS
<1>c. quiet => calm /\ initialized
  BY DEF QuietInv
<1>0. ListTypeOK /\ ScanTypeOK
  BY TypeParts DEF TypeInv
<1>1. CASE ~quiet'
  BY <1>1 DEF QuietKnown
<1>2. CASE UNCHANGED <<lists, scan, built, present, behind>>
  BY <1>2 DEF QuietKnown, Searching, Listed, lists, scan, built
<1>3. ASSUME NEW isFull \in BOOLEAN, Start(isFull) PROVE QuietKnown'
  BY <1>3 DEF Start, QuietKnown, Searching
<1>4. CASE UnmuteAll
  <2>1. /\ phase = "unmute" /\ found' = <<>> /\ full' = full
        /\ full \/ (phase' = "tod" /\ todo' = tod /\ tod' = tod)
        /\ phase' \in {"tod", "branch"}
    BY <1>4 DEF UnmuteAll, ListsInv, PhaseInv, lists, built
  <2> QED
    BY <2>1, ToSetOfEmpty DEF QuietKnown, Searching
<1>5. ASSUME NEW ok \in BOOLEAN, CheckTod(ok) PROVE QuietKnown'
  BY <1>0, <1>5, QuietKnownTod
<1>6. ASSUME NEW ok \in BOOLEAN, CheckLost(ok) PROVE QuietKnown'
  <2>1. /\ phase = "lost" /\ phase' = "lost" /\ UNCHANGED <<tod, full, quiet, new_lost>>
    BY <1>6 DEF CheckLost
  <2>2. /\ ToSet(found') = ToSet(found) \cup (IF ok THEN {Head(todo)} ELSE {})
        /\ ToSet(proxies') =
             ToSet(proxies) \cup (IF ok /\ Head(todo) \in Proxies THEN {Head(todo)} ELSE {})
    BY <1>0, <1>6, CheckLostSets
  <2> QED
    BY <2>1, <2>2 DEF QuietKnown, Searching
<1>7. CASE TodChecked \/ LostChecked
  <2>1. /\ phase \in {"tod", "lost"} /\ phase' \in {"lost", "branch"}
        /\ phase = "tod" => ToSet(todo) = {}
        /\ UNCHANGED <<lists, full, quiet, found, new_lost>>
    BY <1>7, ToSetOfEmpty DEF TodChecked, LostChecked, built
  <2> QED
    BY <2>1 DEF QuietKnown, Searching, lists
<1>8. CASE BranchLeaf \/ BranchSilent \/ (\E u \in UIDs : BranchAnswered(u)) \/ BranchGarbled
  <2>1. /\ phase = "branch" /\ phase' \in {"branch", "mute"}
        /\ UNCHANGED <<lists, full, quiet, found, new_lost>>
    BY <1>8 DEF BranchLeaf, BranchSilent, BranchAnswered, BranchGarbled, InBranch, built
  <2> QED
    BY <2>1 DEF QuietKnown, Searching, lists
<1>9. ASSUME NEW ok \in BOOLEAN, Mute(ok) PROVE QuietKnown'
  <2>1. /\ phase = "mute" /\ phase' \in {"list", "branch"}
        /\ UNCHANGED <<lists, full, quiet, found, new_lost>>
    BY <1>9 DEF Mute
  <2> QED
    BY <2>1 DEF QuietKnown, Searching, lists
<1>10. CASE Searched
  <2>1. /\ phase = "branch" /\ phase' = "known" /\ todo' = proxies
        /\ UNCHANGED <<lists, full, quiet, found, new_lost>>
    BY <1>10 DEF Searched, built
  <2> QED
    BY <2>1 DEF QuietKnown, Searching, lists
<1>11. ASSUME NEW changed \in BOOLEAN, CheckKnown(changed), quiet PROVE QuietKnown'
  BY <1>c, <1>11, QuietKnownAsked DEF Loss
<1>12. CASE FinishFull \/ FinishIncremental
  BY <1>12 DEF FinishFull, FinishIncremental, QuietKnown, Searching
<1>13. CASE Reset \/ BusChange \/ CalmDown \/ Deinit
  BY <1>c, <1>1, <1>13 DEF Reset, BusChange, CalmDown, Deinit, scan
<1>14. CASE RdmInitiate \/ Refuse \/ UNCHANGED vars
  BY <1>2, <1>14 DEF RdmInitiate, Refuse, vars, outside
<1>15. ASSUME NEW ds \in SUBSET Behind, ReadList(SetToSeq(ds)), quiet PROVE QuietKnown'
  BY <1>c, <1>15, QuietKnownRead DEF Loss
<1>16. ~quiet /\ ((\E ok \in BOOLEAN : CheckKnown(ok))
                    \/ \E ds \in SUBSET Behind : ReadList(SetToSeq(ds)))
         => QuietKnown'
  BY <1>1 DEF CheckKnown, ReadList
<1> QED
  BY <1>3, <1>4, <1>5, <1>6, <1>7, <1>8, <1>9, <1>10, <1>11, <1>12, <1>13, <1>14, <1>15, <1>16
     DEF Next, ScanStep, Discover, Incremental

\* At the end of an incremental discovery, tod has what can be reached.
LEMMA IncrementalFound ==
  ASSUME TypeInv, ListsInv, SearchInv, QuietKnown, quiet, FinishIncremental
  PROVE  ToSet(tod') = Reached
<1>1. /\ phase = "known" /\ ToSet(todo) = {} /\ ~full /\ BusTypeOK /\ ListTypeOK
      /\ tod' = EraseAll(tod, NotLost) \o NewlyFound
  BY ToSetOfEmpty, TypeParts DEF FinishIncremental, ListsInv, PhaseInv, TypeInv
<1>2. /\ ToSet(NotLost) = ToSet(new_lost) \ ToSet(discovered)
      /\ ToSet(NewlyFound) = ToSet(found) \cup (ToSet(discovered) \ ToSet(tod))
      /\ ToSet(tod') = (ToSet(tod) \ ToSet(NotLost)) \cup ToSet(NewlyFound)
  BY <1>1, FinishSets DEF ListsInv
<1>3. ToSet(tod') =
        (ToSet(tod) \ ToSet(new_lost)) \cup ToSet(found) \cup ToSet(discovered)
  BY <1>2 DEF ListsInv, ListInv
<1>4. ToSet(tod') \subseteq Reached
  BY <1>1, <1>3 DEF SearchInv, AnswersTrue, TodTold
<1>5. present \subseteq ToSet(tod')
  BY <1>1, <1>3 DEF SearchInv, UnmutedPending, MutedListed
<1>6. ASSUME NEW p \in present \cap Proxies PROVE behind[p] \subseteq ToSet(tod')
  <2>1. behind[p] \subseteq Reached
    BY <1>1, ReachedDevices
  <2>2. CASE p \in ToSet(discovered)
    BY <1>1, <1>3, <1>6, <2>2 DEF SearchInv, DiscoveredListed
  <2>3. CASE p \notin ToSet(discovered)
    <3>1. p \in ToSet(proxies)
      BY <1>1, <1>3, <1>5, <1>6, <2>3 DEF QuietKnown, Searching
    <3>2. Listed(p)
      BY <1>1, <1>6, <3>1 DEF QuietKnown
    <3>3. \A u \in ToSet(lost) \cap Reached : u \in ToSet(found)
      BY <1>1 DEF SearchInv, LostTold
    <3>4. \A u \in ToSet(tod) \cap Reached : u \in ToSet(tod) \ ToSet(new_lost)
      BY DEF SearchInv, AnswersTrue
    <3> QED
      BY <1>3, <2>1, <3>2, <3>3, <3>4 DEF Listed
  <2> QED
    BY <2>2, <2>3
<1> QED
  BY <1>4, <1>5, <1>6 DEF Reached

FoundInv == TypeInv /\ ListsInv /\ ProxyInv /\ QuietInv /\ KnownListed /\ QuietKnown

LEMMA InitFoundInv == Init => FoundInv
<1>1. Init => KnownListed /\ QuietKnown
  BY ToSetOfEmpty DEF Init, KnownListed, QuietKnown
<1> QED
  BY <1>1, InitTypeInv, InitListsInv, InitQuietInv DEF FoundInv

LEMMA StepFoundInv ==
  ASSUME ListsArrive
  PROVE  FoundInv /\ [Next]_vars => FoundInv'
BY StepTypeInv, StepListsInv, StepProxyInv, StepQuietInv, StepKnownListed, StepQuietKnown
   DEF FoundInv

LEMMA StepScanFindsAll ==
  FoundInv /\ ScanFindsAll /\ [Next]_vars => ScanFindsAll'
<1> SUFFICES ASSUME FoundInv, ScanFindsAll, [Next]_vars, phase' = "idle", Undisturbed'
             PROVE  ToSet(tod') = Reached'
  BY DEF ScanFindsAll
<1>1. CASE UNCHANGED <<phase, quiet, misheard, tod, outside>>
  BY <1>1 DEF ScanFindsAll, Undisturbed, Reached, outside
<1>2. CASE FinishFull \/ FinishIncremental
  <2>1. /\ quiet /\ Undisturbed /\ Searching /\ UNCHANGED outside
    BY <1>2 DEF FinishFull, FinishIncremental, Searching, Undisturbed
  <2>2. ToSet(tod') = Reached
    BY <1>2, <2>1, FullFound, IncrementalFound DEF FoundInv, QuietInv, FinishFull
  <2> QED
    BY <2>1, <2>2 DEF Reached, outside
<1>3. CASE RdmInitiate \/ Refuse \/ UNCHANGED vars
  BY <1>1, <1>3 DEF RdmInitiate, Refuse, vars, lists, scan
<1>4. CASE BusChange \/ CalmDown \/ Deinit \/ Reset
  BY <1>4 DEF BusChange, CalmDown, Deinit, Reset, scan, FoundInv, QuietInv, Undisturbed
<1>5. CASE \E isFull \in BOOLEAN : Start(isFull)
  BY <1>5 DEF Start
<1>6. CASE UnmuteAll \/ TodChecked \/ LostChecked \/ Searched
  BY <1>6 DEF UnmuteAll, TodChecked, LostChecked, Searched
<1>7. CASE \E ok \in BOOLEAN : CheckTod(ok) \/ CheckLost(ok) \/ CheckKnown(ok)
  BY <1>7 DEF CheckTod, CheckLost, CheckKnown
<1>8. CASE Discover
  BY <1>8 DEF Discover, BranchLeaf, BranchSilent, BranchAnswered, BranchGarbled, InBranch, Mute,
     ReadList
<1> QED
  BY <1>2, <1>3, <1>4, <1>5, <1>6, <1>7, <1>8 DEF Next, ScanStep, Incremental

(***************************************************************************)
(* A discovery, full or incremental, on a bus that is calm from its        *)
(* beginning to its end leaves in the table exactly the devices that can   *)
(* be reached, whatever came, went, was lost or reset before, if it has    *)
(* taken no collision for an answer.  An incremental discovery relies      *)
(* besides on no proxy's list having been cut short by a lost answer, for  *)
(* the flag that makes the code read it again has then been cleared.       *)
(***************************************************************************)
THEOREM DiscoveryFindsAll ==
  ASSUME ListsArrive
  PROVE  Spec => []ScanFindsAll
<1>1. Init => FoundInv /\ ScanFindsAll
  BY InitFoundInv DEF Init, ScanFindsAll, Undisturbed
<1>2. FoundInv /\ ScanFindsAll /\ [Next]_vars => FoundInv' /\ ScanFindsAll'
  BY StepFoundInv, StepScanFindsAll
<1> QED
  BY <1>1, <1>2, PTL DEF Spec

-----------------------------------------------------------------------------
(***************************************************************************)
(* The end of a discovery.                                                 *)
(***************************************************************************)
LEMMA BeforeByPart ==
  ASSUME NEW s, NEW t,
         \/ s[1] < t[1]
         \/ s[1] = t[1] /\ s[2] < t[2]
         \/ s[1] = t[1] /\ s[2] = t[2] /\ s[3] < t[3]
         \/ s[1] = t[1] /\ s[2] = t[2] /\ s[3] = t[3] /\ s[4] < t[4]
  PROVE  Before(s, t)
<1>1. CASE s[1] < t[1]
  <2>1. 1 \in 1 .. 4 /\ \A j \in 1 .. 1 - 1 : s[j] = t[j]
    OBVIOUS
  <2> QED
    BY <1>1, <2>1 DEF Before
<1>2. CASE s[1] = t[1] /\ s[2] < t[2]
  <2>1. 2 \in 1 .. 4 /\ \A j \in 1 .. 2 - 1 : j = 1
    OBVIOUS
  <2> QED
    BY <1>2, <2>1 DEF Before
<1>3. CASE s[1] = t[1] /\ s[2] = t[2] /\ s[3] < t[3]
  <2>1. 3 \in 1 .. 4 /\ \A j \in 1 .. 3 - 1 : j = 1 \/ j = 2
    OBVIOUS
  <2> QED
    BY <1>3, <2>1 DEF Before
<1>4. CASE s[1] = t[1] /\ s[2] = t[2] /\ s[3] = t[3] /\ s[4] < t[4]
  <2>1. 4 \in 1 .. 4 /\ \A j \in 1 .. 4 - 1 : j = 1 \/ j = 2 \/ j = 3
    OBVIOUS
  <2> QED
    BY <1>4, <2>1 DEF Before
<1> QED
  BY <1>1, <1>2, <1>3, <1>4

\* The UIDs from the first branch on, and the size of this branch.
UIDsLeft   == IF pending = <<>> THEN 0 ELSE RDM_UID_MAX + 1 - Branch[1]
BranchLeft == IF pending = <<>> THEN 0 ELSE Branch[2] - Branch[1]

LEMMA BranchTypes ==
  ASSUME TypeInv, pending # <<>>
  PROVE  /\ Branch \in UIDs \X UIDs
         /\ Branch[1] \in Nat /\ Branch[2] \in Nat /\ RDM_UID_MAX \in Nat
         /\ Branch[1] <= Branch[2] /\ Branch[2] <= RDM_UID_MAX
<1>1. pending \in Seq(UIDs \X UIDs) /\ BranchesInOrder
  BY TypeParts DEF TypeInv, ScanTypeOK
<1>2. 1 \in DOMAIN pending /\ Branch = pending[1] /\ Branch \in UIDs \X UIDs
  BY <1>1 DEF Branch
<1>3. Branch[1] <= Branch[2]
  BY <1>1, <1>2 DEF BranchesInOrder
<1> QED
  BY <1>2, <1>3, UIDAssumption DEF UIDAssumption, UIDs

LEMMA ScanLeftIs ==
  ScanLeft = IF PartsLeft = 2 THEN <<2, UIDsLeft, BranchLeft, CallsLeft>>
                              ELSE <<PartsLeft, Len(todo), 0, CallsLeft>>
BY DEF ScanLeft, UIDsLeft, BranchLeft

LEMMA ScanLeftType == TypeInv => ScanLeft \in Nat \X Nat \X Nat \X Nat
<1> SUFFICES ASSUME TypeInv PROVE ScanLeft \in Nat \X Nat \X Nat \X Nat
  OBVIOUS
<1>1. PartsLeft \in Nat /\ CallsLeft \in Nat
  BY TypeParts DEF TypeInv, ScanTypeOK, PartsLeft, CallsLeft
<1>2. UIDsLeft \in Nat /\ BranchLeft \in Nat
  BY BranchTypes DEF UIDsLeft, BranchLeft
<1>3. Len(todo) \in Nat
  BY TypeParts DEF TypeInv, ListTypeOK
<1> QED
  BY <1>1, <1>2, <1>3, ScanLeftIs

\* A branch is done with: what is left begins behind it.
LEMMA TailLeft ==
  ASSUME TypeInv, pending # <<>>, pending' = Tail(pending)
  PROVE  UIDsLeft' < UIDsLeft
<1>1. /\ Branch[1] \in Nat /\ Branch[2] \in Nat /\ RDM_UID_MAX \in Nat
      /\ Branch[1] <= Branch[2] /\ Branch[2] <= RDM_UID_MAX
  BY BranchTypes
<1>2. pending \in Seq(UIDs \X UIDs) /\ BranchesInOrder
  BY TypeParts DEF TypeInv, ScanTypeOK
<1>3. CASE pending' = <<>>
  BY <1>1, <1>3 DEF UIDsLeft
<1>4. CASE pending' # <<>>
  <2>1. /\ 1 \in DOMAIN pending /\ 2 \in DOMAIN pending
        /\ Branch = pending[1] /\ Branch' = pending[2] /\ pending[2] \in UIDs \X UIDs
    BY <1>2, <1>4 DEF Branch
  <2>2. Branch[2] < Branch'[1] /\ Branch'[1] \in Nat
    BY <1>2, <2>1 DEF BranchesInOrder, UIDs
  <2>3. UIDsLeft = RDM_UID_MAX + 1 - Branch[1]
    BY DEF UIDsLeft
  <2>4. UIDsLeft' = RDM_UID_MAX + 1 - Branch'[1]
    BY <1>4 DEF UIDsLeft
  <2>5. Branch[1] < Branch'[1]
    BY <1>1, <2>2
  <2> QED
    BY <1>1, <2>2, <2>3, <2>4, <2>5
<1> QED
  BY <1>3, <1>4

\* A branch is divided: what is left begins where it began, but is smaller.
LEMMA HalvesLeft ==
  ASSUME TypeInv, BranchGarbled
  PROVE  UIDsLeft' = UIDsLeft /\ BranchLeft' < BranchLeft
<1> DEFINE lower == LowerHalf(Branch[1], Branch[2])
           upper == UpperHalf(Branch[1], Branch[2])
<1>1. /\ pending # <<>> /\ pending \in Seq(UIDs \X UIDs) /\ Branch[1] # Branch[2]
      /\ pending' = <<lower, upper>> \o Tail(pending)
  BY TypeParts DEF TypeInv, ScanTypeOK, BranchGarbled, InBranch
<1>2. Branch[1] \in Nat /\ Branch[2] \in Nat /\ Branch[1] < Branch[2]
  BY <1>1, BranchTypes
<1>3. /\ lower \in Nat \X Nat /\ upper \in Nat \X Nat
      /\ lower[1] = Branch[1] /\ lower[2] + 1 = upper[1]
      /\ upper[1] <= upper[2] /\ upper[2] = Branch[2]
  <2> DEFINE a == Branch[1]
             b == Branch[2]
  <2>1. a \in Nat /\ b \in Nat /\ a < b
    BY <1>2
  <2> HIDE DEF a, b
  <2>2. /\ LowerHalf(a, b) \in Nat \X Nat /\ UpperHalf(a, b) \in Nat \X Nat
        /\ LowerHalf(a, b)[1] = a /\ LowerHalf(a, b)[2] + 1 = UpperHalf(a, b)[1]
        /\ UpperHalf(a, b)[1] <= UpperHalf(a, b)[2] /\ UpperHalf(a, b)[2] = b
    BY <2>1, HalvesPartition
  <2> QED
    BY <2>2 DEF a, b
<1> HIDE DEF lower, upper
<1>4. pending' # <<>> /\ Branch' = lower
  BY <1>1, <1>3 DEF Branch
<1>5. lower[2] < Branch[2] /\ lower[1] \in Nat /\ lower[2] \in Nat
  BY <1>2, <1>3
<1> QED
  BY <1>1, <1>2, <1>3, <1>4, <1>5 DEF UIDsLeft, BranchLeft

LEMMA ListShorter ==
  ASSUME TypeInv, todo # <<>>
  PROVE  Len(Tail(todo)) < Len(todo)
BY TypeParts DEF TypeInv, ListTypeOK

LEMMA ScanStepAdvances ==
  ASSUME TypeInv, phase # "idle", ScanStep
  PROVE  Before(ScanLeft', ScanLeft)
<1>1. ScanLeft = IF PartsLeft = 2 THEN <<2, UIDsLeft, BranchLeft, CallsLeft>>
                                  ELSE <<PartsLeft, Len(todo), 0, CallsLeft>>
  BY ScanLeftIs
<1>2. ScanLeft' = IF PartsLeft' = 2 THEN <<2, UIDsLeft', BranchLeft', CallsLeft'>>
                                    ELSE <<PartsLeft', Len(todo'), 0, CallsLeft'>>
  BY DEF ScanLeft, UIDsLeft, BranchLeft
<1> DEFINE s == ScanLeft'
           t == ScanLeft
<1> SUFFICES \/ s[1] < t[1]
             \/ s[1] = t[1] /\ s[2] < t[2]
             \/ s[1] = t[1] /\ s[2] = t[2] /\ s[3] < t[3]
             \/ s[1] = t[1] /\ s[2] = t[2] /\ s[3] = t[3] /\ s[4] < t[4]
  BY BeforeByPart
<1>3. CASE UnmuteAll \/ TodChecked \/ LostChecked \/ Searched \/ FinishFull \/ FinishIncremental
  <2>1. PartsLeft' < PartsLeft
    BY <1>3 DEF UnmuteAll, TodChecked, LostChecked, Searched, FinishFull, FinishIncremental,
       PartsLeft
  <2>2. s[1] = PartsLeft' /\ t[1] = PartsLeft
    BY <1>1, <1>2
  <2> QED
    BY <2>1, <2>2
<1>4. CASE \E ok \in BOOLEAN : CheckTod(ok) \/ CheckLost(ok) \/ CheckKnown(ok)
  <2>1. PartsLeft' = PartsLeft /\ PartsLeft # 2 /\ todo # <<>> /\ todo' = Tail(todo)
    BY <1>4 DEF CheckTod, CheckLost, CheckKnown, NextLost, PartsLeft
  <2> QED
    BY <1>1, <1>2, <2>1, ListShorter
<1>5. CASE BranchLeaf \/ BranchSilent \/ \E u \in UIDs : BranchAnswered(u)
  <2>1. PartsLeft' = 2 /\ PartsLeft = 2 /\ pending # <<>> /\ pending' = Tail(pending)
    BY <1>5 DEF BranchLeaf, BranchSilent, BranchAnswered, InBranch, PartsLeft
  <2> QED
    BY <1>1, <1>2, <2>1, TailLeft
<1>6. CASE BranchGarbled
  <2>1. PartsLeft' = 2 /\ PartsLeft = 2
    BY <1>6 DEF BranchGarbled, InBranch, PartsLeft
  <2> QED
    BY <1>1, <1>2, <1>6, <2>1, HalvesLeft
<1>7. CASE (\E ok \in BOOLEAN : Mute(ok)) \/ (\E ds \in SUBSET Behind : ReadList(SetToSeq(ds)))
  <2>1. PartsLeft' = PartsLeft /\ UNCHANGED <<pending, todo>> /\ CallsLeft' < CallsLeft
    BY <1>7 DEF Mute, ReadList, PartsLeft, CallsLeft
  <2>2. UIDsLeft' = UIDsLeft /\ BranchLeft' = BranchLeft
    BY <2>1 DEF UIDsLeft, BranchLeft, Branch
  <2> QED
    BY <1>1, <1>2, <2>1, <2>2
<1> QED
  BY <1>3, <1>4, <1>5, <1>6, <1>7 DEF ScanStep, Discover, Incremental

LEMMA OtherStepsKeepScan ==
  ASSUME phase # "idle", [Next]_vars, ~ScanStep
  PROVE  UNCHANGED ScanLeft
<1>1. UNCHANGED <<phase, pending, todo>>
  BY DEF Next, RdmInitiate, Start, Refuse, BusChange, CalmDown, Deinit, Reset, vars, scan
<1> QED
  BY <1>1 DEF ScanLeft, PartsLeft, CallsLeft, Branch

(***************************************************************************)
(* Every step of a discovery lowers ScanLeft, in the lexicographic order   *)
(* of four natural numbers, and nothing else changes it: a discovery takes *)
(* finitely many exchanges, whatever is received and whatever responders,  *)
(* controllers and init() do meanwhile.                                    *)
(***************************************************************************)
THEOREM DiscoveryAdvances ==
  Spec => [](ScanLeft \in Nat \X Nat \X Nat \X Nat) /\ ScanAdvances
<1>1. TypeInv /\ [Next]_vars =>
        (phase # "idle" =>
           IF ScanStep THEN Before(ScanLeft', ScanLeft) ELSE UNCHANGED ScanLeft)
  BY ScanStepAdvances, OtherStepsKeepScan
<1> QED
  BY <1>1, ScanLeftType, TypeInvariance, PTL DEF Spec, ScanAdvances

-----------------------------------------------------------------------------
(***************************************************************************)
(* The discoveries implement DeviceTable.                                  *)
(***************************************************************************)
LEMMA ReachedAreUIDs == BusTypeOK => Reached \in SUBSET UIDs
BY DevicesAreUIDs DEF BusTypeOK, Reached

\* Without a reset, what has been lost is still in the table at the end.
LostInTable == quiet /\ Searching => ToSet(new_lost) \subseteq ToSet(tod)

LEMMA StepLostInTable ==
  ASSUME TypeInv, ListsInv, QuietInv, LostInTable, [Next]_vars
  PROVE  LostInTable'
<1> USE DEF LostInTable, Searching
<1>1. CASE UNCHANGED <<tod, new_lost, quiet, phase>>
  BY <1>1
<1>2. CASE RdmInitiate \/ Refuse \/ BusChange \/ CalmDown \/ Deinit \/ UNCHANGED vars
  BY <1>1, <1>2 DEF RdmInitiate, Refuse, BusChange, CalmDown, Deinit, vars, lists, scan, built
<1>3. CASE \E isFull \in BOOLEAN : Start(isFull)
  BY <1>3 DEF Start
<1>4. CASE UnmuteAll
  BY <1>4, ToSetOfEmpty DEF UnmuteAll, ListsInv, PhaseInv, built
<1>5. CASE \E ok \in BOOLEAN : CheckTod(ok)
  <2>1. phase' = "tod" /\ ListsInv'
    BY <1>5, StepListsInv DEF CheckTod
  <2> QED
    BY <2>1 DEF ListsInv, PhaseInv
<1>6. CASE \/ \E ok \in BOOLEAN : CheckLost(ok) \/ CheckKnown(ok)
           \/ TodChecked \/ LostChecked \/ Searched
  BY <1>6 DEF CheckLost, CheckKnown, TodChecked, LostChecked, Searched, lists, built
<1>7. CASE Discover
  BY <1>7 DEF Discover, BranchLeaf, BranchSilent, BranchAnswered, BranchGarbled, InBranch, Mute,
     ReadList, lists, built
<1>8. CASE FinishFull \/ FinishIncremental
  BY <1>8 DEF FinishFull, FinishIncremental
<1>9. CASE Reset
  BY <1>9 DEF Reset, scan, QuietInv
<1> QED
  BY <1>2, <1>3, <1>4, <1>5, <1>6, <1>7, <1>8, <1>9 DEF Next, ScanStep, Incremental

LEMMA FullEnds ==
  ASSUME FoundInv, FinishFull
  PROVE  Table!EndFull
<1>1. ListTypeOK /\ discovered \in Seq(UIDs)
  BY TypeParts DEF FoundInv, TypeInv, ListTypeOK
<1>2. ToSet(discovered) \in SUBSET UIDs
  BY <1>1, ContainsIsMember
<1>3. /\ full /\ phase = "branch" /\ phase' = "idle" /\ tod' = discovered
      /\ published' = published \cup ToSet(discovered)
      /\ UNCHANGED <<outside, requested, full, quiet, misheard>>
  BY DEF FinishFull, PublishAll
<1>4. Undisturbed => ToSet(tod') = Reached
  BY <1>3, FullFound DEF FoundInv, QuietInv, Searching
<1>5. UNCHANGED <<Reached, calm, initialized, Undisturbed>>
  BY <1>3 DEF Reached, Undisturbed, outside
<1> QED
  BY <1>2, <1>3, <1>4, <1>5 DEF Table!EndFull, Table!Found, Table!external

LEMMA IncrementalEnds ==
  ASSUME FoundInv, LostInTable, FinishIncremental
  PROVE  Table!EndIncremental
<1>1. ListTypeOK /\ ListInv
  BY TypeParts DEF FoundInv, TypeInv, ListsInv
<1>2. /\ phase = "known" /\ phase' = "idle" /\ ~full
      /\ tod' = EraseAll(tod, NotLost) \o NewlyFound
      /\ published' = (published \cup ToSet(NewlyFound)) \ ToSet(NotLost)
      /\ UNCHANGED <<outside, requested, full, quiet, misheard>>
  BY DEF FinishIncremental, PublishChanges, FoundInv, ListsInv, PhaseInv
<1> DEFINE gone == ToSet(NotLost)
<1>3. /\ gone = ToSet(new_lost) \ ToSet(discovered)
      /\ ToSet(NewlyFound) = ToSet(found) \cup (ToSet(discovered) \ ToSet(tod))
      /\ ToSet(tod') = (ToSet(tod) \ gone) \cup ToSet(NewlyFound)
  BY <1>1, <1>2, FinishSets
<1>4. gone \subseteq UIDs /\ ToSet(NewlyFound) \subseteq UIDs /\ ToSet(tod) \subseteq UIDs
  BY <1>1, ListOperations, ContainsIsMember DEF ListTypeOK
<1>5. gone \cap ToSet(NewlyFound) = {} /\ ToSet(NewlyFound) \cap ToSet(tod) = {}
  BY <1>1, <1>3 DEF ListInv
<1> HIDE DEF gone
<1>6. /\ gone \in SUBSET (UIDs \ ToSet(tod')) /\ ToSet(tod) \ ToSet(tod') \subseteq gone
      /\ ToSet(NewlyFound) = ToSet(tod') \ ToSet(tod)
  BY <1>3, <1>4, <1>5
<1>7. gone = ToSet(tod) \ ToSet(tod') \/ (Resets /\ ~Undisturbed)
  <2>1. CASE ToSet(new_lost) \subseteq ToSet(tod)
    BY <1>3, <1>6, <2>1
  <2>2. CASE Resets /\ ~quiet
    BY <2>2 DEF Undisturbed
  <2>3. ToSet(new_lost) \subseteq ToSet(tod) \/ (Resets /\ ~quiet)
    BY <1>2 DEF FoundInv, ListsInv, PhaseInv, LostInTable, Searching
  <2> QED
    BY <2>1, <2>2, <2>3
<1>8. published' = (published \cup (ToSet(tod') \ ToSet(tod))) \ gone
  BY <1>2, <1>6 DEF gone
<1>9. ToSet(tod') \in SUBSET UIDs
  BY <1>3, <1>4
<1>10. Undisturbed => ToSet(tod') = Reached
  BY <1>2, IncrementalFound DEF FoundInv, QuietInv, Undisturbed, Searching
<1>11. UNCHANGED <<Reached, calm, initialized, Undisturbed>>
  BY <1>2 DEF Reached, Undisturbed, outside
<1>12. Table!Found
  BY <1>2, <1>9, <1>10, <1>11 DEF Table!Found, Table!external
<1> QED
  BY <1>2, <1>6, <1>7, <1>8, <1>12 DEF Table!EndIncremental

LEMMA BusMeansWorld ==
  ASSUME FoundInv, BusChange \/ CalmDown
  PROVE  Table!World
<1>1. Reached' \in SUBSET UIDs
  <2>1. BusTypeOK /\ [Next]_vars
    BY TypeParts DEF FoundInv, TypeInv, Next
  <2>2. BusTypeOK'
    BY <2>1, BusTypeInv
  <2> QED
    BY <2>2, DevicesAreUIDs DEF BusTypeOK, Reached
<1>2. UNCHANGED <<initialized, tod, artnet, scan>> /\ ~calm
  BY DEF BusChange, CalmDown, lists
<1>3. \/ UNCHANGED calm
      \/ initialized /\ calm' = TRUE /\ UNCHANGED <<present, behind>>
  BY DEF BusChange, CalmDown
<1>4. UNCHANGED <<present, behind>> => UNCHANGED Reached
  BY DEF Reached
<1> QED
  BY <1>1, <1>2, <1>3, <1>4 DEF Table!World, Table!scan, Undisturbed, artnet, scan

LEMMA StepTable ==
  ASSUME FoundInv, LostInTable, [Next]_vars
  PROVE  [Table!Next]_(Table!vars)
<1>1. CASE /\ UNCHANGED <<outside, tod, artnet, full, quiet, misheard>>
           /\ (phase # "idle") = (phase' # "idle")
  <2>1. UNCHANGED <<Reached, calm, initialized, Undisturbed>>
    BY <1>1 DEF Reached, Undisturbed, outside
  <2> QED
    BY <1>1, <2>1 DEF Table!vars, Table!external, Table!scan, artnet
<1>2. CASE UnmuteAll \/ TodChecked \/ LostChecked \/ Searched
  BY <1>1, <1>2 DEF UnmuteAll, TodChecked, LostChecked, Searched, lists
<1>3. CASE \E ok \in BOOLEAN : CheckTod(ok) \/ CheckLost(ok) \/ CheckKnown(ok)
  BY <1>1, <1>3 DEF CheckTod, CheckLost, CheckKnown, lists
<1>4. CASE Discover
  <2>1. ASSUME NEW u \in UIDs, BranchAnswered(u), misheard' # misheard
        PROVE  Table!Mishear
    <3>1. /\ phase = "branch" /\ phase' = "mute" /\ UNCHANGED <<outside, tod, artnet, full>>
          /\ ~Undisturbed'
      BY <2>1 DEF BranchAnswered, InBranch, lists, Undisturbed
    <3>2. UNCHANGED <<Reached, calm, initialized>>
      BY <3>1 DEF Reached, outside
    <3> QED
      BY <3>1, <3>2 DEF Table!Mishear, Table!external, artnet
  <2>2. ASSUME NEW u \in UIDs, BranchAnswered(u), misheard' = misheard
        PROVE  [Table!Next]_(Table!vars)
    BY <1>1, <2>2 DEF BranchAnswered, InBranch, lists
  <2>3. CASE BranchLeaf \/ BranchSilent \/ BranchGarbled
    BY <1>1, <2>3 DEF BranchLeaf, BranchSilent, BranchGarbled, InBranch, lists
  <2>4. CASE \/ \E ok \in BOOLEAN : Mute(ok)
             \/ \E ds \in SUBSET Behind : ReadList(SetToSeq(ds))
    BY <1>1, <2>4 DEF Mute, ReadList, lists
  <2> QED
    BY <1>4, <2>1, <2>2, <2>3, <2>4 DEF Discover, Table!Next
<1>5. CASE UNCHANGED vars
  BY <1>1, <1>5 DEF vars, lists, scan
<1>6. CASE FinishFull
  BY <1>6, FullEnds DEF Table!Next
<1>7. CASE FinishIncremental
  BY <1>7, IncrementalEnds DEF Table!Next
<1>8. CASE BusChange \/ CalmDown
  BY <1>8, BusMeansWorld DEF Table!Next
<1>9. CASE RdmInitiate \/ Refuse \/ Deinit
  <2>1. UNCHANGED <<Reached, calm, tod, scan, Undisturbed>>
    BY <1>9 DEF RdmInitiate, Refuse, Deinit, Reached, Undisturbed, outside, lists, scan
  <2>2. CASE RdmInitiate
    BY <2>1, <2>2 DEF RdmInitiate, Table!Next, Table!Request, Table!external, Table!scan,
       outside, scan
  <2>3. CASE Refuse
    BY <2>1, <2>3 DEF Refuse, Table!Next, Table!Refuse, Table!external, Table!scan, outside, scan
  <2>4. CASE Deinit
    BY <2>1, <2>4 DEF Deinit, Table!Next, Table!GoDown, Table!scan, artnet, scan
  <2> QED
    BY <1>9, <2>2, <2>3, <2>4
<1>10. ASSUME NEW isFull \in BOOLEAN, Start(isFull) PROVE Table!Next
  <2>1. UNCHANGED <<Reached, calm, initialized>>
    BY <1>10 DEF Start, Reached, outside
  <2>2. calm \in BOOLEAN
    BY TypeParts DEF FoundInv, TypeInv, BusTypeOK
  <2>3. Undisturbed' = calm
    BY <1>10, <2>2 DEF Start, Undisturbed
  <2>4. Table!Begin(isFull)
    BY <1>10, <2>1, <2>3 DEF Start, Table!Begin, Table!external, lists
  <2> QED
    BY <2>4 DEF Table!Next
<1>11. CASE Reset
  <2>1. UNCHANGED <<Reached, calm, Undisturbed>> /\ ToSet(tod') = {}
    BY <1>11, ToSetOfEmpty DEF Reset, Reached, Undisturbed, scan
  <2>2. Table!ComeBack
    BY <1>11, <2>1 DEF Reset, Table!ComeBack, Table!scan, artnet, scan
  <2> QED
    BY <2>2 DEF Table!Next
<1> QED
  BY <1>2, <1>3, <1>4, <1>5, <1>6, <1>7, <1>8, <1>9, <1>10, <1>11
     DEF Next, ScanStep, Incremental

(***************************************************************************)
(* Whoever looks at the table of devices, its Art-Net copy and the bus     *)
(* sees discoveries that take place at once, at their end, although each   *)
(* is made of many exchanges and the responders, libartnet and init()      *)
(* act between these: for any set of responders, under the hypotheses of   *)
(* DiscoveryFindsAll.                                                      *)
(***************************************************************************)
THEOREM TableImplemented ==
  ASSUME ListsArrive
  PROVE  Spec => TableSpec
<1>1. Init => FoundInv /\ LostInTable
  BY InitFoundInv DEF Init, LostInTable, Searching
<1>2. FoundInv /\ LostInTable /\ [Next]_vars => FoundInv' /\ LostInTable'
  BY StepFoundInv, StepLostInTable DEF FoundInv
<1>3. FoundInv /\ LostInTable /\ [Next]_vars => [Table!Next]_(Table!vars)
  BY StepTable
<1>4. Init => Table!Init
  <2> SUFFICES ASSUME Init PROVE Table!Init
    OBVIOUS
  <2>1. BusTypeOK
    BY InitTypeInv, TypeParts DEF TypeInv
  <2> QED
    BY <2>1, ReachedAreUIDs, ToSetOfEmpty DEF Init, Undisturbed, Table!Init
<1> QED
  BY <1>1, <1>2, <1>3, <1>4, PTL DEF Spec, TableSpec, Table!Spec

=============================================================================
