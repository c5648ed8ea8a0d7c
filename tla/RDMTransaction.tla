--------------------------- MODULE RDMTransaction ---------------------------
(***************************************************************************)
(* RDM transactions: sendRDMPacket() of src/src/openrdm_device.cpp with    *)
(* its retries, the transaction numbers its requests share with discover() *)
(* and the answers, which may be lost, garbled or late.  Shown to          *)
(* implement module RDMCall.                                               *)
(*                                                                         *)
(* The callers are reduced to the three kinds of request they make: a      *)
(* broadcast ("unmute"), a discovery command ("mute") and a GET ("get"),   *)
(* whose answer may come in several parts.  The kind is also the PID of    *)
(* the answers that are wanted (pkt_pid).                                  *)
(***************************************************************************)
EXTENDS Integers, Sequences

CONSTANTS
  TNs,      \* How many transaction numbers there are: 256.
  Retries,  \* The parameter retries.
  MaxTime,  \* The parameter max_time_ms.
  MaxLate,  \* An answer is overtaken by at most this many transmissions.
  Parts,    \* Bound: packets that make up one answer.
  Timers    \* The times an ACK_TIMER may ask for.

ASSUME NumbersAssumption ==
  /\ TNs \in Nat /\ MaxLate \in Nat
  /\ 2 * MaxLate + 3 < TNs
ASSUME LimitsAssumption ==
  /\ Retries \in Nat /\ Parts \in Nat \ {0}
  /\ MaxTime \in Nat \ {0} /\ Timers \subseteq Nat

VARIABLES
  rdm_transaction_number,
  phase,         \* "idle"; before ("send") or after ("wait") a transmission;
                 \* "again": at the end of the loop body.
  pkt,           \* The request: [kind, pid, tn].
  pkt_try,       \* How many times it has been retried.
  slept,         \* How long ACK_TIMER answers have made the call wait.
  resp_packets,  \* The contents of the answers accepted so far.
  line,          \* Answers on their way.
  parts, next,   \* The responder: the parts its answer has, the next of them.
  clean          \* Every request of the call brought in its part (history).

responder == <<parts, next>>
vars == <<rdm_transaction_number, phase, pkt, pkt_try, slept, resp_packets, line,
          responder, clean>>

Numbers == 0 .. TNs - 1
Kinds   == {"unmute", "mute", "get"}

\* rdm_transaction_number++, and (variant) the same in a wider integer.
AfterWide(n) == n + 1
After(n) == (n + 1) % TNs

SmallerOf(s, t) == IF s < t THEN s ELSE t

(***************************************************************************)
(* The line.  An answer carries the number and the PID of its request; it  *)
(* is `mine' when it is addressed to this device; its age is the number of *)
(* transmissions since its request.  Each transmission is preceded by a    *)
(* purge of what has arrived by then.                                      *)
(***************************************************************************)
Answer(type, pid, content) ==
  [tn |-> pkt.tn, mine |-> TRUE, age |-> 0, type |-> type, pid |-> pid, content |-> content]

Older == {[a EXCEPT !.age = @ + 1] : a \in {b \in line : b.age < MaxLate}}

\* What a responder may answer to the request.  A GET of QUEUED_MESSAGE is
\* answered with the message that was waited for, or with another one.
Answers ==
  CASE pkt.kind = "unmute" -> {}
    [] pkt.kind = "mute"   -> {Answer("ACK", "mute", 1)}
    [] pkt.kind = "get"    ->
         {Answer(IF next < parts THEN "ACK_OVERFL" ELSE "ACK", "get", next),
          Answer("NACK", "get", 0)}
         \cup {Answer("ACK_TIMER", "get", t) : t \in Timers}
         \cup (IF pkt.pid = "queued" THEN {Answer("ACK", "other", 1)} ELSE {})

(***************************************************************************)
(* The call.  The responder begins its answer anew: every list that is     *)
(* read is preceded by another command to the same responder.              *)
(***************************************************************************)
Begin(kind) ==
  /\ phase = "idle"
  /\ pkt' = [kind |-> kind, pid |-> kind, tn |-> rdm_transaction_number]
  /\ rdm_transaction_number' = After(rdm_transaction_number)
  /\ pkt_try' = 0 /\ slept' = 0 /\ resp_packets' = <<>>
  /\ phase' = "send"
  /\ parts' \in (IF kind = "get" THEN 1 .. Parts ELSE {1}) /\ next' = 1 /\ clean' = TRUE
  /\ UNCHANGED line

Transmit ==
  /\ phase = "send"
  /\ phase' = "wait"
  /\ \E late \in SUBSET Older :
       \/ line' = late /\ UNCHANGED next
       \/ \E a \in Answers :
            /\ line' = late \cup {a}
            /\ next' = CASE a.type = "ACK_OVERFL" -> next + 1
                         [] a.type = "ACK"        -> 1
                         [] OTHER                 -> next
  /\ UNCHANGED <<rdm_transaction_number, pkt, pkt_try, slept, resp_packets, parts, clean>>

EndOfWait(outcome) ==
  /\ phase = "wait" /\ phase' = outcome
  /\ UNCHANGED <<rdm_transaction_number, pkt_try, responder>>

\* Nothing is received.  A broadcast is not repeated.
Silence ==
  /\ EndOfWait(IF pkt.kind = "unmute" THEN "idle" ELSE "again")
  /\ clean' = FALSE
  /\ UNCHANGED <<pkt, slept, resp_packets, line>>

\* Noise, a damaged answer, or an ACK_TIMER without a time.
Garbled ==
  /\ EndOfWait("again")
  /\ clean' = FALSE
  /\ UNCHANGED <<pkt, slept, resp_packets, line>>

\* The driver reports an error.
Error ==
  /\ EndOfWait("idle")
  /\ resp_packets' = <<>> /\ clean' = FALSE
  /\ UNCHANGED <<pkt, slept, line>>

\* Variants: the number, or the PID, is not compared.
MatchesAnyNumber(a) == a.mine /\ a.pid = pkt.kind
MatchesAnyPid(a)    == a.mine /\ a.tn = pkt.tn

Matches(a) == a.mine /\ a.tn = pkt.tn /\ a.pid = pkt.kind

Stray(a) ==
  /\ EndOfWait("again")
  /\ ~Matches(a)
  /\ clean' = FALSE
  /\ line' = line \ {a}
  /\ UNCHANGED <<pkt, slept, resp_packets>>

Ack(a) ==
  /\ EndOfWait("idle")
  /\ Matches(a) /\ a.type = "ACK"
  /\ resp_packets' = Append(resp_packets, a.content)
  /\ line' = line \ {a}
  /\ UNCHANGED <<pkt, slept, clean>>

AckOverflow(a) ==
  /\ EndOfWait("again")
  /\ Matches(a) /\ a.type = "ACK_OVERFL"
  /\ resp_packets' = Append(resp_packets, a.content)
  /\ line' = line \ {a}
  /\ UNCHANGED <<pkt, slept, clean>>

\* Variant: the wait is not limited to max_time_ms.
WholeWait(t) == t

Wait(t) == SmallerOf(MaxTime, t)

AckTimer(a) ==
  /\ EndOfWait("again")
  /\ Matches(a) /\ a.type = "ACK_TIMER"
  /\ pkt' = [pkt EXCEPT !.pid = "queued"]
  /\ slept' = slept + Wait(a.content)
  /\ clean' = FALSE
  /\ line' = line \ {a}
  /\ UNCHANGED resp_packets

Nack(a) ==
  /\ EndOfWait("again")
  /\ Matches(a) /\ a.type = "NACK"
  /\ clean' = FALSE
  /\ line' = line \ {a}
  /\ UNCHANGED <<pkt, slept, resp_packets>>

\* Variant: the first try counts as a retry.
OutOfTriesEarly == pkt_try + 1 >= Retries
OutOfTries == pkt_try = Retries

GiveUp ==
  /\ phase = "again" /\ OutOfTries
  /\ phase' = "idle"
  /\ UNCHANGED <<rdm_transaction_number, pkt, pkt_try, slept, resp_packets, line, responder,
                 clean>>

\* Variant: some path round the loop does not count.
SameTry == pkt_try
NextTry == pkt_try + 1

\* The next try, or the end of the time: waits alone may have used it up, and
\* exchanges and delays take time of their own.
Retry ==
  /\ phase = "again" /\ ~OutOfTries
  /\ pkt' = [pkt EXCEPT !.tn = rdm_transaction_number]
  /\ rdm_transaction_number' = After(rdm_transaction_number)
  /\ pkt_try' = NextTry
  /\ \/ slept < MaxTime /\ phase' = "send" /\ UNCHANGED clean
     \/ phase' = "idle" /\ clean' = FALSE
  /\ UNCHANGED <<slept, resp_packets, line, responder>>

(***************************************************************************)
(* What else the device sends between two calls: a DISC_UNIQUE_BRANCH of   *)
(* discover(), whose answers are no RDM packets, and requests that rdm_    *)
(* thread passes on, with the number and the address of their controller.  *)
(***************************************************************************)
Branch ==
  /\ phase = "idle"
  /\ rdm_transaction_number' = After(rdm_transaction_number)
  /\ line' \in SUBSET Older
  /\ UNCHANGED <<phase, pkt, pkt_try, slept, resp_packets, responder, clean>>

WriteRDM(tn) ==
  /\ phase = "idle"
  /\ \E late \in SUBSET Older :
       line' = late \cup {[tn |-> tn, mine |-> FALSE, age |-> 0, type |-> "ACK",
                           pid |-> "get", content |-> 1]}
  /\ UNCHANGED <<rdm_transaction_number, phase, pkt, pkt_try, slept, resp_packets, responder,
                 clean>>

\* init() in the DMX thread, in one step.  (Not between the moment a request
\* takes its number and the end of its exchange, which the RDM thread spends
\* waiting for dev_mutex or holding it.)
Reset ==
  /\ phase \in {"idle", "again"}
  /\ rdm_transaction_number' = 0 /\ line' = {}
  /\ UNCHANGED <<phase, pkt, pkt_try, slept, resp_packets, responder, clean>>

-----------------------------------------------------------------------------
Init ==
  /\ rdm_transaction_number = 0
  /\ phase = "idle" /\ pkt = [kind |-> "mute", pid |-> "mute", tn |-> 0]
  /\ pkt_try = 0 /\ slept = 0 /\ resp_packets = <<>> /\ line = {}
  /\ parts = 1 /\ next = 1 /\ clean = FALSE

Receive(a) == Stray(a) \/ Ack(a) \/ AckOverflow(a) \/ AckTimer(a) \/ Nack(a)

CallStep ==
  \/ Transmit \/ Silence \/ Garbled \/ Error \/ (\E a \in line : Receive(a))
  \/ GiveUp \/ Retry

Next ==
  \/ (\E kind \in Kinds : Begin(kind)) \/ CallStep
  \/ Branch \/ (\E tn \in Numbers : WriteRDM(tn)) \/ Reset

Spec == Init /\ [][Next]_vars

\* Every driver call and every sleep of the RDM thread comes to an end.
FairSpec == Spec /\ WF_vars(CallStep)

-----------------------------------------------------------------------------
Packets == [tn : Numbers, mine : BOOLEAN, age : 0 .. MaxLate,
            type : {"ACK", "ACK_OVERFL", "ACK_TIMER", "NACK"},
            pid : Kinds \cup {"other"}, content : Nat]

\* The values the variables may take.
TypeOK ==
  /\ rdm_transaction_number \in Numbers
  /\ phase \in {"idle", "send", "wait", "again"}
  /\ pkt \in [kind : Kinds, pid : Kinds \cup {"queued"}, tn : Numbers]
  /\ pkt_try \in 0 .. Retries
  /\ slept \in Nat
  /\ resp_packets \in Seq(Nat)
  /\ line \subseteq Packets
  /\ parts \in 1 .. Parts /\ next \in 1 .. parts
  /\ clean \in BOOLEAN

(***************************************************************************)
(* An answer that passes the tests is the answer to the latest request:    *)
(* one that was overtaken by a retry, by a later call, or by requests      *)
(* passed on for a controller, which may use any number, does not.         *)
(***************************************************************************)
AnswersAreCurrent ==
  phase = "wait" => \A a \in line : Matches(a) => a.age = 0

(***************************************************************************)
(* A call that loses nothing returns the whole answer, its parts in order, *)
(* also when it takes every try: the first one is not counted as a retry.  *)
(***************************************************************************)
CleanCallComplete ==
  phase = "idle" /\ clean /\ pkt.kind = "get" /\ parts <= Retries + 1
    => resp_packets = [i \in 1 .. parts |-> i]

(***************************************************************************)
(* However often a responder asks for more time, and for however much, the *)
(* call does not wait twice max_time_ms.                                   *)
(***************************************************************************)
WaitBounded == slept < 2 * MaxTime

(***************************************************************************)
(* sendRDMPacket() implements RDMCall.                                     *)
(***************************************************************************)
Current == {a \in line : a.mine /\ a.age = 0 /\ a.pid = pkt.kind
                         /\ a.type \in {"ACK", "ACK_OVERFL"}}

Call == INSTANCE RDMCall WITH
  Contents <- 1 .. Parts,
  busy     <- phase # "idle",
  current  <- IF phase = "wait" THEN {a.content : a \in Current} ELSE {},
  result   <- resp_packets

CallSpec == Call!Spec

(***************************************************************************)
(* Every call comes back, whatever the responders answer: rdm_thread holds *)
(* data_mutex meanwhile.                                                   *)
(***************************************************************************)
CallReturns == phase # "idle" ~> phase = "idle"

=============================================================================
