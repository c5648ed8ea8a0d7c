----------------------------- MODULE DeviceTable -----------------------------
(***************************************************************************)
(* What the discoveries of a port promise rdm_thread and, through          *)
(* libartnet, the controllers: a discovery changes the table of devices in *)
(* one step, at its end; on a bus that is calm all the while it leaves in  *)
(* it exactly the devices that can be reached; a full one adds its table   *)
(* to what is published, an incremental one adds what is new in the table  *)
(* and removes what has gone from it.                                      *)
(***************************************************************************)
CONSTANTS
  UIDs,
  Resets     \* May the device go down?  init() then clears the table.

VARIABLES
  reached,   \* The devices that can be reached.
  calm,      \* From now on this does not change, and the device stays up.
  initialized,                      \* The device is up.
  table, published,
  requested, running, full,         \* As in module Discovery.
  quiet      \* The bus has been calm since the discovery began, and no
             \* collision has been taken for an answer.

external == <<reached, calm, initialized>>
scan == <<running, full, quiet>>
vars == <<external, table, published, requested, scan>>

World ==
  /\ ~calm
  /\ \/ reached' \in SUBSET UIDs /\ UNCHANGED calm
     \/ initialized /\ calm' = TRUE /\ UNCHANGED reached
  /\ UNCHANGED <<initialized, table, published, requested, scan>>

Request ==
  /\ ~requested /\ requested' = TRUE
  /\ published' \in {{}, published}
  /\ UNCHANGED <<external, table, scan>>

Begin(isFull) ==
  /\ ~running /\ running' = TRUE /\ initialized
  /\ full' = isFull /\ quiet' = calm
  /\ IF isFull THEN requested /\ requested' = FALSE ELSE UNCHANGED requested
  /\ UNCHANGED <<external, table, published>>

\* While the device is down a request is used up for nothing.
Refuse ==
  /\ ~running /\ ~initialized
  /\ requested /\ requested' = FALSE
  /\ UNCHANGED <<external, table, published, scan>>

Mishear ==
  /\ running /\ quiet' = FALSE
  /\ UNCHANGED <<external, table, published, requested, running, full>>

Found ==
  /\ running /\ running' = FALSE
  /\ table' \in SUBSET UIDs
  /\ quiet => table' = reached
  /\ UNCHANGED <<external, requested, full, quiet>>

EndFull == full /\ Found /\ published' = published \cup table'

\* When the table has been cleared meanwhile, more may have gone from it.
EndIncremental ==
  /\ ~full /\ Found
  /\ \E gone \in SUBSET (UIDs \ table') :
       /\ table \ table' \subseteq gone
       /\ gone = table \ table' \/ (Resets /\ ~quiet)
       /\ published' = (published \cup (table' \ table)) \ gone

GoDown ==
  /\ Resets /\ ~calm
  /\ initialized /\ initialized' = FALSE
  /\ UNCHANGED <<reached, calm, table, published, requested, scan>>

ComeBack ==
  /\ ~initialized /\ initialized' = TRUE
  /\ table' = {}
  /\ UNCHANGED <<reached, calm, published, requested, scan>>

Init ==
  /\ reached \in SUBSET UIDs /\ calm = FALSE /\ initialized = TRUE
  /\ table = {} /\ published = {} /\ requested = FALSE
  /\ running = FALSE /\ full = FALSE /\ quiet = FALSE

Next ==
  \/ World \/ Request \/ (\E isFull \in BOOLEAN : Begin(isFull))
  \/ Refuse \/ Mishear \/ EndFull \/ EndIncremental \/ GoDown \/ ComeBack

Spec == Init /\ [][Next]_vars

=============================================================================
