------------------------------- MODULE RDMCall -------------------------------
(***************************************************************************)
(* What sendRDMPacket() (src/src/openrdm_device.cpp) promises its callers: *)
(* the result is made of packets the responder sent in answer to the       *)
(* requests of this very call, at most one for each request transmitted    *)
(* and only while it is the latest one; a call that fails has no result.   *)
(***************************************************************************)
EXTENDS Sequences

CONSTANT Contents   \* What an answer may contain.

VARIABLES
  busy,     \* A call is in progress.
  current,  \* The answer to the latest request, until it is taken: a set of
            \* at most one content.
  result    \* The contents taken by the call that is, or was last, in progress.

vars == <<busy, current, result>>

Begin ==
  /\ ~busy /\ busy' = TRUE
  /\ result' = <<>>
  /\ UNCHANGED current

Ask ==
  /\ busy /\ current = {}
  /\ current' \in {{}} \cup {{c} : c \in Contents}
  /\ UNCHANGED <<busy, result>>

Take ==
  /\ busy /\ busy' \in BOOLEAN
  /\ \E c \in current : result' = Append(result, c)
  /\ current' = {}

Miss ==
  /\ busy /\ busy' \in BOOLEAN
  /\ current' = {}
  /\ UNCHANGED result

Fail ==
  /\ busy /\ busy' = FALSE
  /\ current' = {} /\ result' = <<>>

Init == busy = FALSE /\ current = {} /\ result = <<>>

Next == Begin \/ Ask \/ Take \/ Miss \/ Fail

Spec == Init /\ [][Next]_vars

=============================================================================
