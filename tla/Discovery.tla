------------------------------ MODULE Discovery ------------------------------
(***************************************************************************)
(* RDM discovery on one port: fullRDMDiscovery, incrementalRDMDiscovery,   *)
(* discover, getProxyTOD, hasProxyTODChanged and sendMute of               *)
(* src/src/openrdm_device.cpp, run by the RDM thread.                      *)
(*                                                                         *)
(* Every exchange with the responders is a step, and the responders may    *)
(* come and go between the steps.  The recursion of discover() is kept as  *)
(* the sequence of branches still to be searched; the lists its calls      *)
(* return are merged in the same order into `discovered'.  One exchange    *)
(* stands for sendRDMPacket() with all its retries.                        *)
(***************************************************************************)
EXTENDS UIDList

CONSTANTS
  RDM_UID_MAX,  \* The largest UID a responder can have.
  Devices,      \* Responders that may be attached to the line.
  Proxies,      \* Those of them that are managed proxies.
  Behind,       \* Devices that a proxy may represent.
  Lossy,        \* May exchanges fail that the bus could answer?  (They do
                \* while the device is down.)
  Capture,      \* May answers that collide decode to one of their UIDs,
  Phantoms,     \* or to a UID that none of them sent?
  Resets        \* May the DMX thread deinitialise the device and init() it?

UIDs == 0 .. RDM_UID_MAX

ASSUME UIDAssumption ==
  /\ RDM_UID_MAX \in Nat
  /\ Devices \subseteq UIDs /\ Behind \subseteq UIDs \ Devices
  /\ Proxies \subseteq Devices
ASSUME SwitchAssumption ==
  {Lossy, Capture, Phantoms, Resets} \subseteq BOOLEAN /\ (Resets => Lossy)

VARIABLES
  present,     \* Responders on the line.
  muted,       \* Those of them that do not answer DISC_UNIQUE_BRANCH.
  behind,      \* The devices each proxy represents.
  updated,     \* Proxies whose list has changed since it was last read.
  calm,        \* From now on the bus does not change or lose, and the device
               \* stays up.
  initialized  \* The device is up: the DMX thread's deinit() and init().

VARIABLES
  published,   \* libartnet's table of the devices on the port.
  requested    \* A full discovery has been requested and not yet begun.

VARIABLES
  tod, lost, proxies,   \* The lists of the device object.
  phase,                \* "idle", or the part of the discovery that runs.
  full,                 \* Whether it is (was) a full discovery,
  quiet,                \* and one begun when the bus was calm (history).
  misheard,             \* What its collisions have been taken for (history).
  pending,              \* Branches still to search.
  todo,                 \* UIDs still to be muted, or proxies to be asked.
  uid,                  \* The UID that is being muted or asked for its list.
  discovered, found, new_lost, new_proxies   \* The lists being built.

outside == <<present, behind, calm, initialized>>
artnet  == <<published, requested>>
lists   == <<tod, lost, proxies>>
scan    == <<phase, full, quiet, misheard, pending, todo, uid>>
built   == <<discovered, found, new_lost, new_proxies>>
vars    == <<outside, artnet, muted, updated, lists, scan, built>>

(***************************************************************************)
(* The bus.  A proxied device answers through its proxy, and does not take *)
(* part in DISC_UNIQUE_BRANCH.                                             *)
(***************************************************************************)
Loss == Lossy /\ ~calm

Reached == present \cup UNION {behind[p] : p \in present \cap Proxies}

\* sendMute(u, false, is_proxy) returns ok.
SendMute(u, ok) ==
  /\ ok => u \in Reached
  /\ ~ok => u \notin Reached \/ Loss
  /\ muted' \in IF u \notin present THEN {muted}
                ELSE {muted \cup {u}} \cup (IF ok THEN {} ELSE {muted})

\* getProxyTOD(p) returns list, of which a failing sequence of ACK_OVERFLOW
\* answers loses a part.  Reading the list clears its change flag.
GetProxyTOD(p, list) ==
  LET all == IF p \in present THEN behind[p] ELSE {} IN
  /\ \E us \in SUBSET all : list = SetToSeq(us) /\ (us = all \/ Loss)
  /\ updated' \in IF p \in present
                  THEN {updated \ {p}} \cup (IF Loss THEN {updated} ELSE {})
                  ELSE {updated}

\* hasProxyTODChanged(p) returns changed.
ProxyTODChanged(p, changed) ==
  /\ changed => p \in present \cap updated
  /\ ~changed => p \notin present \cap updated \/ Loss

(***************************************************************************)
(* A controller asks for a full discovery: libartnet calls rdm_initiate,   *)
(* and may have flushed its table before.  (Bound: one request at a time   *)
(* waits for rdm_thread.)                                                  *)
(***************************************************************************)
RdmInitiate ==
  /\ ~requested /\ requested' = TRUE
  /\ published' \in {{}, published}
  /\ UNCHANGED <<outside, muted, updated, lists, scan, built>>

(***************************************************************************)
(* The start of a discovery, and its first exchange: unmute everything.    *)
(***************************************************************************)
Start(isFull) ==
  /\ phase = "idle" /\ initialized
  /\ phase' = "unmute" /\ full' = isFull /\ quiet' = calm /\ misheard' = {}
  /\ IF isFull
     THEN requested /\ requested' = FALSE /\ lost' = <<>> /\ proxies' = <<>> /\ UNCHANGED tod
     ELSE UNCHANGED <<requested, lists>>
  /\ UNCHANGED <<outside, published, muted, updated, pending, todo, uid, built>>

(***************************************************************************)
(* fullRDMDiscovery() returns an empty list at once when the device has    *)
(* gone down since rdm_thread looked: the request is used up, and nothing  *)
(* is published.  (incrementalRDMDiscovery() then changes nothing.)        *)
(***************************************************************************)
Refuse ==
  /\ phase = "idle" /\ ~initialized
  /\ requested /\ requested' = FALSE
  /\ UNCHANGED <<outside, published, muted, updated, lists, scan, built>>

WholeRange == <<<<0, RDM_UID_MAX>>>>

\* Responders that stay muted; variant: the unmute request is not sent.
AllStayMuted == {muted}
StayMuted == IF Loss THEN SUBSET muted ELSE {{}}

UnmuteAll ==
  /\ phase = "unmute"
  /\ muted' \in StayMuted
  /\ IF full
     THEN phase' = "branch" /\ pending' = WholeRange /\ UNCHANGED todo
     ELSE phase' = "tod" /\ todo' = tod /\ UNCHANGED pending
  /\ UNCHANGED <<outside, artnet, updated, lists, full, quiet, misheard, uid, built>>

(***************************************************************************)
(* Incremental: mute the devices of tod, then those of lost.               *)
(***************************************************************************)
CheckTod(ok) ==
  LET u == Head(todo) IN
  /\ phase = "tod" /\ todo # <<>>
  /\ SendMute(u, ok)
  /\ new_lost' = AddIf(new_lost, u, ~ok)
  /\ new_proxies' = AddIf(new_proxies, u, ok /\ u \in Proxies /\ ~Contains(proxies, u))
  /\ proxies' = IF ok /\ u \in Proxies THEN AddUnique(proxies, u)
                                       ELSE RemoveFirst(proxies, u)
  /\ todo' = Tail(todo)
  /\ UNCHANGED <<outside, artnet, updated, tod, lost, phase, full, quiet, misheard,
                 pending, uid, discovered, found>>

TodChecked ==
  /\ phase = "tod" /\ todo = <<>>
  /\ phase' = "lost" /\ todo' = lost
  /\ UNCHANGED <<outside, artnet, muted, updated, lists, full, quiet, misheard,
                 pending, uid, built>>

\* Variant: a lost device is asked until it answers.
NextWhenFound(ok) == IF ok THEN Tail(todo) ELSE todo
NextLost(ok)      == Tail(todo)

CheckLost(ok) ==
  LET u == Head(todo) IN
  /\ phase = "lost" /\ todo # <<>>
  /\ SendMute(u, ok)
  /\ found' = AddIf(found, u, ok)
  /\ new_proxies' = AddIf(new_proxies, u, ok /\ u \in Proxies /\ ~Contains(proxies, u))
  /\ proxies' = IF ok /\ u \in Proxies THEN AddUnique(proxies, u) ELSE proxies
  /\ todo' = NextLost(ok)
  /\ UNCHANGED <<outside, artnet, updated, tod, lost, phase, full, quiet, misheard,
                 pending, uid, discovered, new_lost>>

LostChecked ==
  /\ phase = "lost" /\ todo = <<>>
  /\ phase' = "branch" /\ pending' = WholeRange
  /\ UNCHANGED <<outside, artnet, muted, updated, lists, full, quiet, misheard,
                 todo, uid, built>>

(***************************************************************************)
(* discover(start, end), both inclusive.                                   *)
(***************************************************************************)
Branch == Head(pending)

Responders == {d \in present \ muted : Branch[1] <= d /\ d <= Branch[2]}

InBranch ==
  /\ phase = "branch" /\ pending # <<>>
  /\ UNCHANGED <<outside, artnet, updated, lists, full, quiet, todo, built>>

\* One UID is left: it is muted without asking who is there.
BranchLeaf ==
  /\ InBranch
  /\ Branch[1] = Branch[2]
  /\ uid' = Branch[1] /\ phase' = "mute"
  /\ pending' = Tail(pending)
  /\ UNCHANGED <<muted, misheard>>

BranchSilent ==
  /\ InBranch
  /\ Branch[1] # Branch[2]
  /\ Responders = {} \/ Loss
  /\ pending' = Tail(pending)
  /\ UNCHANGED <<muted, misheard, phase, uid>>

(***************************************************************************)
(* Answers that collide are received as one, bit by bit.  That is mostly   *)
(* garbage, but it may be the answer of one of the devices, because it is  *)
(* the stronger one or because it has the bits of the others (UIDs 0 and   *)
(* 1), or that of a UID which none of them has (5 of UIDs 1 and 4: see     *)
(* CollisionIsUnion in module RDMPacket).  It is a matter of the UIDs, and *)
(* the same at every search and on every bus.  A phantom's mute request is *)
(* not answered, and the branch is given up like one whose only device has *)
(* been muted.                                                             *)
(***************************************************************************)
MayDecodeTo(u) ==
  \/ Responders = {u}
  \/ Cardinality(Responders) > 1 /\ (IF u \in Responders THEN Capture ELSE Phantoms)

Mistaken(u) == IF u \in Responders THEN "device" ELSE "phantom"

BranchAnswered(u) ==
  /\ InBranch
  /\ Branch[1] # Branch[2]
  /\ MayDecodeTo(u)
  /\ misheard' = misheard \cup (IF Responders = {u} THEN {} ELSE {Mistaken(u)})
  /\ uid' = u /\ phase' = "mute"
  /\ pending' = Tail(pending)
  /\ UNCHANGED muted

\* Variants: the middle is left out, or searched twice; the end is passed.
LowerHalfShort(start, end) == <<start, start + (end - start + 1) \div 2 - 2>>
LowerHalfLong(start, end)  == <<start, start + (end - start + 1) \div 2>>
UpperHalfLong(start, end)  == <<start + (end - start + 1) \div 2, end + 1>>

LowerHalf(start, end) == <<start, start + (end - start + 1) \div 2 - 1>>
UpperHalf(start, end) == <<start + (end - start + 1) \div 2, end>>

\* The answer is invalid: answers collided, or noise was received.
BranchGarbled ==
  /\ InBranch
  /\ Branch[1] # Branch[2]
  /\ Cardinality(Responders) > 1 \/ Loss
  /\ pending' = <<LowerHalf(Branch[1], Branch[2]), UpperHalf(Branch[1], Branch[2])>>
                \o Tail(pending)
  /\ UNCHANGED <<muted, misheard, phase, uid>>

Mute(ok) ==
  /\ phase = "mute"
  /\ SendMute(uid, ok)
  /\ discovered' = IF ok THEN AddUnique(discovered, uid) ELSE discovered
  /\ phase' = IF ok /\ uid \in Proxies THEN "list" ELSE "branch"
  /\ UNCHANGED <<outside, artnet, updated, lists, full, quiet, misheard,
                 pending, todo, uid, found, new_lost, new_proxies>>

\* Both for a proxy that discover() has found and for one known before.
ReadList(list) ==
  /\ phase \in {"list", "known_list"}
  /\ GetProxyTOD(uid, list)
  /\ discovered' = Merge(discovered, list)
  /\ phase' = IF phase = "list" THEN "branch" ELSE "known"
  /\ UNCHANGED <<outside, artnet, muted, lists, full, quiet, misheard,
                 pending, todo, uid, found, new_lost, new_proxies>>

ForgetLocals ==
  /\ uid' = 0
  /\ discovered' = <<>> /\ found' = <<>> /\ new_lost' = <<>> /\ new_proxies' = <<>>

\* rdm_thread adds the result to the Art-Net table; variant: what is new in it.
PublishNew == published' = published \cup (ToSet(discovered) \ ToSet(tod))
PublishAll == published' = published \cup ToSet(discovered)

\* The end of a full discovery.
FinishFull ==
  /\ phase = "branch" /\ pending = <<>> /\ full
  /\ tod' = discovered
  /\ PublishAll
  /\ phase' = "idle" /\ ForgetLocals
  /\ UNCHANGED <<outside, requested, muted, updated, lost, proxies,
                 full, quiet, misheard, pending, todo>>

(***************************************************************************)
(* Incremental: the lists of the known proxies, then the changes.          *)
(***************************************************************************)
Searched ==
  /\ phase = "branch" /\ pending = <<>> /\ ~full
  /\ phase' = "known" /\ todo' = proxies
  /\ UNCHANGED <<outside, artnet, muted, updated, lists, full, quiet, misheard,
                 pending, uid, built>>

CheckKnown(changed) ==
  LET p == Head(todo) IN
  /\ phase = "known" /\ todo # <<>>
  /\ IF Contains(new_proxies, p) THEN changed ELSE ProxyTODChanged(p, changed)
  /\ phase' = IF changed THEN "known_list" ELSE "known"
  /\ uid' = p
  /\ todo' = Tail(todo)
  /\ UNCHANGED <<outside, artnet, muted, updated, lists, full, quiet, misheard,
                 pending, built>>

\* Variant: devices of the table are found again.
AllFound == Merge(found, discovered)

\* What the discovery adds and removes, given what is still in tod.
NotLost    == EraseAll(new_lost, discovered)
NewlyFound == MergeNew(found, discovered, tod)

\* Variant: what is found stays in lost.
LostKept  == lost \o NotLost
LostAfter == EraseAll(lost \o NotLost, NewlyFound)

\* rdm_thread adds and removes the same in the Art-Net table.
PublishChanges == published' = (published \cup ToSet(NewlyFound)) \ ToSet(NotLost)

FinishIncremental ==
  /\ phase = "known" /\ todo = <<>>
  /\ tod' = EraseAll(tod, NotLost) \o NewlyFound
  /\ lost' = LostAfter
  /\ PublishChanges
  /\ phase' = "idle" /\ ForgetLocals
  /\ UNCHANGED <<outside, requested, muted, updated, proxies,
                 full, quiet, misheard, pending, todo>>

(***************************************************************************)
(* The DMX thread finds the device unusable, and later opens it again:     *)
(* init() clears the lists, also in the middle of a discovery.  (Not while *)
(* it iterates over one of them: then the code has no defined behaviour.)  *)
(***************************************************************************)
Deinit ==
  /\ Resets /\ ~calm
  /\ initialized /\ initialized' = FALSE
  /\ UNCHANGED <<present, behind, calm, artnet, muted, updated, lists, scan, built>>

Reset ==
  /\ ~initialized /\ initialized' = TRUE
  /\ phase \notin {"tod", "lost", "known", "known_list"}
  /\ tod' = <<>> /\ lost' = <<>> /\ proxies' = <<>>
  /\ UNCHANGED <<present, behind, calm, artnet, muted, updated, scan, built>>

(***************************************************************************)
(* The responders.  A proxy that is switched on has not had its list read: *)
(* it reports it as changed.                                               *)
(***************************************************************************)
Arrive(d) ==
  /\ d \notin present
  /\ present' = present \cup {d}
  /\ updated' = updated \cup ({d} \cap Proxies)
  /\ UNCHANGED <<muted, behind>>

Leave(d) ==
  /\ d \in present
  /\ present' = present \ {d} /\ muted' = muted \ {d}
  /\ UNCHANGED <<behind, updated>>

ListChange(p, ds) ==
  /\ ds # behind[p]
  /\ behind' = [behind EXCEPT ![p] = ds]
  /\ updated' = updated \cup {p}
  /\ UNCHANGED <<present, muted>>

BusChange ==
  /\ ~calm
  /\ \/ \E d \in Devices : Arrive(d) \/ Leave(d)
     \/ \E p \in Proxies, ds \in SUBSET Behind : ListChange(p, ds)
  /\ UNCHANGED <<calm, initialized, artnet, lists, scan, built>>

CalmDown ==
  /\ ~calm /\ calm' = TRUE /\ initialized
  /\ UNCHANGED <<present, behind, initialized, artnet, muted, updated, lists, scan, built>>

-----------------------------------------------------------------------------
Init ==
  /\ present \in SUBSET Devices /\ muted \in SUBSET present
  /\ behind \in [Proxies -> SUBSET Behind] /\ updated \in SUBSET Proxies
  /\ calm = FALSE /\ initialized = TRUE
  /\ published = {} /\ requested = FALSE
  /\ tod = <<>> /\ lost = <<>> /\ proxies = <<>>
  /\ phase = "idle" /\ full = FALSE /\ quiet = FALSE /\ misheard = {}
  /\ pending = <<>> /\ todo = <<>> /\ uid = 0
  /\ discovered = <<>> /\ found = <<>> /\ new_lost = <<>> /\ new_proxies = <<>>

Incremental ==
  \/ (\E ok \in BOOLEAN : CheckTod(ok) \/ CheckLost(ok) \/ CheckKnown(ok))
  \/ TodChecked \/ LostChecked \/ Searched \/ FinishIncremental

Discover ==
  \/ BranchLeaf \/ BranchSilent \/ (\E u \in UIDs : BranchAnswered(u)) \/ BranchGarbled
  \/ (\E ok \in BOOLEAN : Mute(ok))
  \/ (\E ds \in SUBSET Behind : ReadList(SetToSeq(ds)))

ScanStep == UnmuteAll \/ Discover \/ FinishFull \/ Incremental

Next ==
  \/ RdmInitiate \/ (\E isFull \in BOOLEAN : Start(isFull)) \/ Refuse \/ ScanStep
  \/ BusChange \/ CalmDown \/ Deinit \/ Reset

Spec == Init /\ [][Next]_vars

(***************************************************************************)
(* A discovery goes on.  rdm_thread starts an incremental one when         *)
(* RDM_INCREMENTAL_SCAN_INTERVAL_MS have passed with no discovery.  (Weak  *)
(* fairness: a full one starts the interval anew, so that full ones that   *)
(* keep coming may put the incremental ones off for ever.)                 *)
(***************************************************************************)
Fairness == WF_vars(ScanStep) /\ WF_vars(Start(FALSE))

FairSpec == Spec /\ Fairness

-----------------------------------------------------------------------------
UIDLists == Seq(UIDs)

\* The values the variables may take.
TypeOK ==
  /\ present \subseteq Devices /\ muted \subseteq present
  /\ behind \in [Proxies -> SUBSET Behind] /\ updated \subseteq Proxies
  /\ published \subseteq UIDs /\ misheard \subseteq {"device", "phantom"}
  /\ {requested, calm, initialized, full, quiet} \subseteq BOOLEAN
  /\ initialized \/ Resets
  /\ {tod, lost, proxies, todo, discovered, found, new_lost, new_proxies} \subseteq UIDLists
  /\ phase \in {"idle", "unmute", "tod", "lost", "branch", "mute", "list",
                "known", "known_list"}
  /\ uid \in UIDs /\ pending \in Seq(UIDs \X UIDs)

(***************************************************************************)
(* The branches that remain to be searched are not empty, do not overlap   *)
(* and are in ascending order: the halves of a branch, taken from a UID    *)
(* range of any size, neither run into each other nor into the next        *)
(* branch, so that no device is looked for twice.                          *)
(***************************************************************************)
BranchesInOrder ==
  \A j, k \in DOMAIN pending :
    /\ pending[j][1] <= pending[j][2]
    /\ j < k => pending[j][2] < pending[k][1]

(***************************************************************************)
(* Between discoveries the lists are what a reader of the code takes them  *)
(* for: no device twice, none both on the table and lost, and every known  *)
(* proxy on the table, however the responders came and went.               *)
(***************************************************************************)
ListsConsistent ==
  phase = "idle" =>
    /\ Distinct(tod) /\ Distinct(lost) /\ Distinct(proxies)
    /\ ToSet(tod) \cap ToSet(lost) = {}
    /\ ToSet(proxies) \subseteq ToSet(tod)

(***************************************************************************)
(* `incrementalRDMDiscovery(); // Returns pair: added devices, removed     *)
(* devices': the pair is exactly what the discovery changes in the table,  *)
(* so that an Art-Net TOD that follows the pairs keeps following the table.*)
(***************************************************************************)
ReportsAreExact ==
  [][FinishIncremental =>
       /\ ToSet(NewlyFound) = ToSet(tod') \ ToSet(tod)
       /\ ToSet(NotLost) = ToSet(tod) \ ToSet(tod')]_vars

(***************************************************************************)
(* A controller sees every device of the table, also when libartnet        *)
(* flushes its copy in the middle of a discovery, init() clears the lists, *)
(* or a request is used up while the device is down: the table that is not *)
(* published then is cleared before the device is up again.  (It may see   *)
(* more: what init() forgot, or what an incremental discovery added after  *)
(* the flush and the full one did not find again, stays.)                  *)
(***************************************************************************)
TableIsPublished ==
  phase = "idle" /\ initialized /\ ~requested => ToSet(tod) \subseteq published

\* The bus has been calm since the discovery began, and every collision has
\* been recognised as one.
Undisturbed == quiet /\ misheard = {}

(***************************************************************************)
(* A discovery on a bus that is calm from its beginning to its end leaves  *)
(* in the table exactly the devices that can be reached, proxied ones      *)
(* included, whatever the table was before.  (Not if it took a collision   *)
(* for an answer: a device whose answer was covered by another is missed,  *)
(* and devices that collide to a phantom are missed at every search.)      *)
(***************************************************************************)
ScanFindsAll == phase = "idle" /\ Undisturbed => ToSet(tod) = Reached

(***************************************************************************)
(* The discoveries implement DeviceTable: however many exchanges they are  *)
(* made of and whatever interleaves with these, the table, the Art-Net     *)
(* copy and the bus are related as if each took place at once at its end.  *)
(***************************************************************************)
Table == INSTANCE DeviceTable WITH
  reached <- Reached,
  table   <- ToSet(tod),
  running <- phase # "idle",
  quiet   <- Undisturbed

TableSpec == Table!Spec

(***************************************************************************)
(* `fullRDMDiscovery(); // Returns full TOD'                               *)
(***************************************************************************)
FullTOD == phase = "idle" /\ quiet /\ full => ToSet(tod) = Reached

(***************************************************************************)
(* A discovery comes to an end, whatever the responders do meanwhile.      *)
(***************************************************************************)
ScanEnds == phase # "idle" ~> phase = "idle"

(***************************************************************************)
(* What is left of a discovery: the parts to come; the devices to be muted *)
(* or asked, or the UIDs from the first branch on; the size of this        *)
(* branch; the calls to come for the device found in it.                   *)
(***************************************************************************)
PartsLeft ==
  CASE phase = "idle"                       -> 0
    [] phase \in {"known", "known_list"}    -> 1
    [] phase \in {"branch", "mute", "list"} -> 2
    [] phase = "lost"                       -> 3
    [] phase = "tod"                        -> 4
    [] phase = "unmute"                     -> 5

CallsLeft ==
  CASE phase = "mute" -> 2 [] phase \in {"list", "known_list"} -> 1 [] OTHER -> 0

ScanLeft ==
  IF PartsLeft = 2
  THEN IF pending = <<>>
       THEN <<2, 0, 0, CallsLeft>>
       ELSE <<2, RDM_UID_MAX + 1 - Branch[1], Branch[2] - Branch[1], CallsLeft>>
  ELSE <<PartsLeft, Len(todo), 0, CallsLeft>>

\* s comes before t in the lexicographic order.
Before(s, t) ==
  \E k \in 1 .. 4 : s[k] < t[k] /\ \A j \in 1 .. k - 1 : s[j] = t[j]

(***************************************************************************)
(* Every step of a discovery brings it nearer to its end, and nothing that *)
(* happens meanwhile sets it back: neither a branch that answers with      *)
(* noise again and again, nor devices that come and go, nor init().        *)
(***************************************************************************)
ScanAdvances ==
  [][phase # "idle" =>
       IF ScanStep THEN Before(ScanLeft', ScanLeft) ELSE UNCHANGED ScanLeft]_vars

(***************************************************************************)
(* Incremental discoveries make up for whatever was lost, captured or      *)
(* reset before, and find the devices covered by captured answers one      *)
(* after the other: on a calm bus, without further full discoveries, and   *)
(* without phantoms, the table ends up exact.  (Devices that collide to a  *)
(* phantom are not found, however often they are searched for.)            *)
(***************************************************************************)
Converges ==
  <>[](calm /\ ~full /\ "phantom" \notin misheard)
    => <>[](phase = "idle" => ToSet(tod) = Reached)

=============================================================================
