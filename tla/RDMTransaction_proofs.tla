------------------------ MODULE RDMTransaction_proofs ------------------------
(***************************************************************************)
(* Theorems about module RDMTransaction, for any number of transaction     *)
(* numbers, tries and overtaking transmissions that NumbersAssumption      *)
(* allows: the variables keep to their types, an answer that is accepted   *)
(* is the answer to the latest request, a call that loses nothing returns  *)
(* the whole answer, the waits are bounded, and the transactions implement *)
(* RDMCall.                                                                *)
(***************************************************************************)
EXTENDS RDMTransaction, TLAPS

(***************************************************************************)
(* How many numbers have been taken since the counter y stood at x.        *)
(***************************************************************************)
Since(x, y) == IF x <= y THEN y - x ELSE y - x + TNs

LEMMA AfterNumber ==
  ASSUME NEW n \in Numbers
  PROVE  /\ After(n) \in Numbers
         /\ After(n) = IF n = TNs - 1 THEN 0 ELSE n + 1
BY NumbersAssumption DEF NumbersAssumption, After, Numbers

LEMMA SinceAfter ==
  ASSUME NEW x \in Numbers, NEW y \in Numbers, Since(x, y) < TNs - 1
  PROVE  Since(x, After(y)) = Since(x, y) + 1
BY AfterNumber, NumbersAssumption DEF NumbersAssumption, Since, Numbers

LEMMA SinceSelf ==
  ASSUME NEW n \in Numbers
  PROVE  Since(n, After(n)) = 1
BY SinceAfter, NumbersAssumption DEF NumbersAssumption, Since, Numbers

(***************************************************************************)
(* The inductive invariant.  A call may take a number without transmitting *)
(* (when its time is up), so an answer that has been overtaken by k        *)
(* transmissions is at most 2 k + 3 numbers old, too few for its own to    *)
(* come up again; and it is the latest number's only if nothing has been   *)
(* transmitted since.                                                      *)
(***************************************************************************)
Dist(a) == Since(a.tn, rdm_transaction_number)

NumberAges(a) ==
  /\ Dist(a) >= 1
  /\ phase = "send" => Dist(a) >= 2
  /\ phase = "wait" /\ a.age > 0 => Dist(a) >= 2
  /\ phase = "send" => Dist(a) <= 2 * a.age + 3
  /\ phase = "idle" => Dist(a) <= 2 * a.age + 2
  /\ phase \in {"wait", "again"} => Dist(a) <= 2 * a.age + 1

NumbersInv == \A a \in line : a.mine => NumberAges(a)

RequestInv ==
  phase \in {"send", "wait"} => Since(pkt.tn, rdm_transaction_number) = 1

TimeInv ==
  /\ WaitBounded
  /\ phase \in {"send", "wait"} => slept < MaxTime

IInv == TypeOK /\ NumbersInv /\ RequestInv /\ TimeInv

LEMMA AnswersCurrent == IInv => AnswersAreCurrent
<1> SUFFICES ASSUME IInv, phase = "wait", NEW a \in line, Matches(a)
             PROVE  a.age = 0
  BY DEF AnswersAreCurrent
<1>1. a.mine /\ Dist(a) = 1
  BY DEF IInv, RequestInv, Matches, Dist
<1>2. a.age \in Nat
  BY DEF IInv, TypeOK, Packets
<1> QED
  BY <1>1, <1>2 DEF IInv, NumbersInv, NumberAges

-----------------------------------------------------------------------------
(***************************************************************************)
(* An answer that is still on the line after a transmission was on it      *)
(* before, one transmission younger.                                       *)
(***************************************************************************)
LEMMA OlderAnswers ==
  ASSUME TypeOK, NEW o \in Older
  PROVE  \E a \in line : /\ o \in Packets
                         /\ o.tn = a.tn /\ o.mine = a.mine
                         /\ o.age = a.age + 1
<1>1. PICK a \in line : a.age < MaxLate /\ o = [a EXCEPT !.age = @ + 1]
  BY DEF Older
<1>2. a \in Packets
  BY DEF TypeOK
<1> QED
  BY <1>1, <1>2, NumbersAssumption DEF NumbersAssumption, Packets

\* What the responder may answer is well formed and answers this request.
LEMMA NewAnswers ==
  ASSUME TypeOK, NEW a \in Answers
  PROVE  /\ a \in Packets
         /\ a.tn = pkt.tn /\ a.mine /\ a.age = 0
         /\ a.type = "ACK_OVERFL" => next < parts
         /\ a.type \in {"ACK", "ACK_OVERFL"} => a.content \in 1 .. Parts
<1> USE DEF TypeOK, Packets, Answer
<1>1. pkt.tn \in Numbers /\ pkt.kind \in Kinds
  OBVIOUS
<1>2. 0 \in 0 .. MaxLate
  BY NumbersAssumption DEF NumbersAssumption
<1>3. 1 \in 1 .. Parts /\ next \in 1 .. Parts /\ next \in Nat
  BY LimitsAssumption DEF LimitsAssumption
<1>4. PICK type \in {"ACK", "ACK_OVERFL", "ACK_TIMER", "NACK"},
           pid \in Kinds \cup {"other"}, content \in Nat :
        /\ a = Answer(type, pid, content)
        /\ type = "ACK_OVERFL" => next < parts
        /\ type \in {"ACK", "ACK_OVERFL"} => content \in 1 .. Parts
  <2>1. CASE pkt.kind = "unmute"
    BY <2>1 DEF Answers
  <2>2. CASE pkt.kind = "mute"
    BY <2>2, <1>3 DEF Answers, Kinds
  <2>3. CASE pkt.kind = "get"
    <3>1. \/ a = Answer(IF next < parts THEN "ACK_OVERFL" ELSE "ACK", "get", next)
          \/ a = Answer("NACK", "get", 0)
          \/ \E t \in Timers : a = Answer("ACK_TIMER", "get", t)
          \/ a = Answer("ACK", "other", 1)
      BY <2>3 DEF Answers
    <3> QED
      BY <3>1, <1>3, LimitsAssumption DEF LimitsAssumption, Kinds
  <2> QED
    BY <1>1, <2>1, <2>2, <2>3 DEF Kinds
<1> QED
  BY <1>1, <1>2, <1>4

-----------------------------------------------------------------------------
LEMMA InitIInv == Init => IInv
<1> SUFFICES ASSUME Init PROVE IInv
  OBVIOUS
<1>1. TypeOK
  <2>1. 0 \in Numbers /\ 1 \in 1 .. Parts /\ 0 \in 0 .. Retries
    BY NumbersAssumption, LimitsAssumption DEF NumbersAssumption, LimitsAssumption, Numbers
  <2>2. pkt \in [kind : Kinds, pid : Kinds \cup {"queued"}, tn : Numbers]
    BY <2>1 DEF Init, Kinds
  <2>3. clean \in BOOLEAN
    BY DEF Init
  <2> QED
    BY <2>1, <2>2, <2>3 DEF Init, TypeOK
<1>2. NumbersInv /\ RequestInv
  BY DEF Init, NumbersInv, RequestInv
<1>3. TimeInv
  BY LimitsAssumption DEF LimitsAssumption, Init, TimeInv, WaitBounded
<1> QED
  BY <1>1, <1>2, <1>3 DEF IInv

\* The numbers and ages that are compared are integers.
LEMMA DistInt ==
  ASSUME TypeOK, NEW a \in line
  PROVE  Dist(a) \in Int /\ a.age \in Nat
BY NumbersAssumption DEF NumbersAssumption, TypeOK, Packets, Dist, Since, Numbers

\* Taking a number makes every answer on the line one number older.
LEMMA NumberTaken ==
  ASSUME TypeOK, NEW a \in line,
         Dist(a) <= 2 * a.age + 2,
         rdm_transaction_number' = After(rdm_transaction_number)
  PROVE  Dist(a)' = Dist(a) + 1
<1>1. a.tn \in Numbers /\ rdm_transaction_number \in Numbers /\ a.age \in 0 .. MaxLate
  BY DEF TypeOK, Packets
<1>2. Dist(a) < TNs - 1
  BY <1>1, NumbersAssumption DEF NumbersAssumption, Dist, Since, Numbers
<1> QED
  BY <1>1, <1>2, SinceAfter DEF Dist

LEMMA BeginIInv ==
  ASSUME IInv, NEW kind \in Kinds, Begin(kind)
  PROVE  IInv'
<1> USE DEF IInv
<1>1. /\ rdm_transaction_number \in Numbers
      /\ After(rdm_transaction_number) \in Numbers
  BY AfterNumber DEF TypeOK
<1>2. TypeOK'
  <2>1. parts' \in 1 .. Parts /\ next' \in 1 .. parts'
    BY LimitsAssumption DEF LimitsAssumption, Begin
  <2>2. 0 \in 0 .. Retries /\ clean' \in BOOLEAN
    BY LimitsAssumption DEF LimitsAssumption, Begin
  <2> QED
    BY <1>1, <2>1, <2>2 DEF Begin, TypeOK
<1>3. NumbersInv'
  <2> SUFFICES ASSUME NEW a \in line, a.mine PROVE NumberAges(a)'
    BY DEF NumbersInv, Begin
  <2>1. Dist(a) >= 1 /\ Dist(a) <= 2 * a.age + 2
    BY DEF Begin, NumbersInv, NumberAges
  <2>2. Dist(a)' = Dist(a) + 1
    BY <2>1, NumberTaken DEF Begin
  <2>3. Dist(a) \in Int /\ a.age \in Nat
    BY DistInt
  <2> QED
    BY <2>1, <2>2, <2>3 DEF Begin, NumberAges
<1>4. RequestInv'
  BY <1>1, SinceSelf DEF Begin, RequestInv
<1>5. TimeInv'
  BY LimitsAssumption DEF LimitsAssumption, Begin, TimeInv, WaitBounded
<1> QED
  BY <1>2, <1>3, <1>4, <1>5

LEMMA RetryIInv ==
  ASSUME IInv, Retry
  PROVE  IInv'
<1> USE DEF IInv
<1>1. /\ rdm_transaction_number \in Numbers
      /\ After(rdm_transaction_number) \in Numbers
  BY AfterNumber DEF TypeOK
<1>2. TypeOK'
  <2>1. pkt_try' \in 0 .. Retries
    BY LimitsAssumption DEF LimitsAssumption, Retry, OutOfTries, NextTry, TypeOK
  <2>2. pkt' \in [kind : Kinds, pid : Kinds \cup {"queued"}, tn : Numbers]
    BY <1>1 DEF Retry, TypeOK
  <2>3. clean' \in BOOLEAN
    BY DEF Retry, TypeOK
  <2> QED
    BY <1>1, <2>1, <2>2, <2>3 DEF Retry, TypeOK, responder
<1>3. NumbersInv'
  <2> SUFFICES ASSUME NEW a \in line, a.mine PROVE NumberAges(a)'
    BY DEF NumbersInv, Retry
  <2>1. Dist(a) \in Int /\ a.age \in Nat
    BY DistInt
  <2>2. Dist(a) >= 1 /\ Dist(a) <= 2 * a.age + 1
    BY DEF Retry, NumbersInv, NumberAges
  <2>3. Dist(a)' = Dist(a) + 1
    BY <2>1, <2>2, NumberTaken DEF Retry
  <2> QED
    BY <2>1, <2>2, <2>3 DEF Retry, NumberAges
<1>4. RequestInv'
  <2>1. pkt'.tn = rdm_transaction_number
    BY DEF Retry, TypeOK
  <2> QED
    BY <1>1, <2>1, SinceSelf DEF Retry, RequestInv
<1>5. TimeInv'
  BY DEF Retry, TimeInv, WaitBounded
<1> QED
  BY <1>2, <1>3, <1>4, <1>5

LEMMA TransmitIInv ==
  ASSUME IInv, Transmit
  PROVE  /\ IInv'
         /\ \A a \in line' : \/ a \in Answers
                             \/ a.age > 0
<1> USE DEF IInv
<1>1. \A a \in line' : a \in Answers \/ a \in Older
  BY DEF Transmit
<1>2. TypeOK'
  <2>1. line' \subseteq Packets
    BY <1>1, OlderAnswers, NewAnswers
  <2>2. next' \in 1 .. parts
    <3>1. CASE next' = next
      BY <3>1 DEF TypeOK
    <3>2. ASSUME NEW a \in Answers, a.type = "ACK_OVERFL", next' = next + 1
          PROVE  next' \in 1 .. parts
      BY <3>2, NewAnswers DEF TypeOK
    <3>3. CASE next' = 1
      BY <3>3, LimitsAssumption DEF LimitsAssumption, TypeOK
    <3> QED
      BY <3>1, <3>2, <3>3 DEF Transmit
  <2> QED
    BY <2>1, <2>2 DEF Transmit, TypeOK
<1>3. \A a \in line' : a.mine => NumberAges(a)'
  <2> SUFFICES ASSUME NEW a \in line', a.mine PROVE NumberAges(a)'
    OBVIOUS
  <2>1. CASE a \in Answers
    <3>1. Dist(a)' = 1 /\ a.age = 0
      BY <2>1, NewAnswers DEF Transmit, RequestInv, Dist
    <3> QED
      BY <3>1 DEF Transmit, NumberAges
  <2>2. CASE a \in Older
    <3>1. PICK b \in line : a.tn = b.tn /\ b.mine /\ a.age = b.age + 1
      BY <2>2, OlderAnswers
    <3>2. Dist(a)' = Dist(b)
      BY <3>1 DEF Transmit, Dist
    <3>3. Dist(b) >= 2 /\ Dist(b) <= 2 * b.age + 3
      BY <3>1 DEF Transmit, NumbersInv, NumberAges
    <3>4. Dist(b) \in Int /\ b.age \in Nat
      BY DistInt
    <3> QED
      BY <3>1, <3>2, <3>3, <3>4 DEF Transmit, NumberAges
  <2> QED
    BY <1>1, <2>1, <2>2
<1>4. RequestInv' /\ TimeInv'
  BY DEF Transmit, RequestInv, TimeInv, WaitBounded
<1>5. \A a \in line' : a \in Answers \/ a.age > 0
  <2> SUFFICES ASSUME NEW a \in Older PROVE a.age > 0
    BY <1>1
  <2>1. PICK b \in line : a.age = b.age + 1
    BY OlderAnswers
  <2> QED
    BY <2>1 DEF TypeOK, Packets
<1> QED
  BY <1>2, <1>3, <1>4, <1>5 DEF NumbersInv

\* The end of an exchange takes no number, and answers only leave the line.
LEMMA EndOfWaitIInv ==
  ASSUME IInv, NEW outcome \in {"idle", "again"}, EndOfWait(outcome),
         line' \subseteq line,
         pkt' = pkt \/ pkt' = [pkt EXCEPT !.pid = "queued"],
         slept' \in Nat, slept' < 2 * MaxTime,
         resp_packets' \in Seq(Nat), clean' \in BOOLEAN
  PROVE  IInv'
<1> USE DEF IInv
<1>1. TypeOK'
  BY DEF EndOfWait, TypeOK, responder
<1>2. NumbersInv'
  <2> SUFFICES ASSUME NEW a \in line, a.mine PROVE NumberAges(a)'
    BY DEF NumbersInv
  <2>1. Dist(a) \in Int /\ a.age \in Nat
    BY DistInt
  <2>2. Dist(a)' = Dist(a)
    BY DEF EndOfWait, Dist
  <2>3. Dist(a) >= 1 /\ Dist(a) <= 2 * a.age + 1
    BY DEF EndOfWait, NumbersInv, NumberAges
  <2> QED
    BY <2>1, <2>2, <2>3 DEF EndOfWait, NumberAges
<1>3. RequestInv' /\ TimeInv'
  BY DEF EndOfWait, RequestInv, TimeInv, WaitBounded
<1> QED
  BY <1>1, <1>2, <1>3

LEMMA WaitIInv ==
  ASSUME IInv, Silence \/ Garbled \/ Error \/ \E a \in line : Receive(a)
  PROVE  IInv'
<1> USE DEF IInv
<1>1. /\ slept \in Nat /\ slept < 2 * MaxTime /\ clean \in BOOLEAN
      /\ resp_packets \in Seq(Nat) /\ <<>> \in Seq(Nat)
  BY DEF TypeOK, TimeInv, WaitBounded
<1>2. CASE Silence \/ Garbled
  BY <1>1, <1>2, EndOfWaitIInv DEF Silence, Garbled
<1>3. CASE Error
  BY <1>1, <1>3, EndOfWaitIInv DEF Error
<1>4. ASSUME NEW a \in line, Receive(a) PROVE IInv'
  <2>1. a.content \in Nat /\ Append(resp_packets, a.content) \in Seq(Nat)
    BY <1>1 DEF TypeOK, Packets
  <2>2. CASE Stray(a) \/ Nack(a)
    BY <1>1, <2>2, EndOfWaitIInv DEF Stray, Nack
  <2>3. CASE Ack(a)
    BY <1>1, <2>1, <2>3, EndOfWaitIInv DEF Ack
  <2>4. CASE AckOverflow(a)
    BY <1>1, <2>1, <2>4, EndOfWaitIInv DEF AckOverflow
  <2>5. CASE AckTimer(a)
    <3>1. slept' \in Nat /\ slept' < 2 * MaxTime
      <4>1. Wait(a.content) \in Nat /\ Wait(a.content) <= MaxTime
        BY <2>1, LimitsAssumption DEF LimitsAssumption, Wait, SmallerOf
      <4>2. slept < MaxTime
        BY <2>5 DEF AckTimer, EndOfWait, TimeInv
      <4> QED
        BY <1>1, <2>5, <4>1, <4>2, LimitsAssumption DEF LimitsAssumption, AckTimer
    <3> QED
      BY <1>1, <2>5, <3>1, EndOfWaitIInv DEF AckTimer
  <2> QED
    BY <1>4, <2>2, <2>3, <2>4, <2>5 DEF Receive
<1> QED
  BY <1>2, <1>3, <1>4

LEMMA GiveUpIInv ==
  ASSUME IInv, GiveUp
  PROVE  IInv'
<1> USE DEF IInv, GiveUp
<1>1. TypeOK'
  BY DEF TypeOK, responder
<1>2. NumbersInv'
  <2> SUFFICES ASSUME NEW a \in line, a.mine PROVE NumberAges(a)'
    BY DEF NumbersInv
  <2>1. Dist(a) \in Int /\ a.age \in Nat /\ Dist(a)' = Dist(a)
    BY DistInt DEF Dist
  <2> QED
    BY <2>1 DEF NumbersInv, NumberAges
<1> QED
  BY <1>1, <1>2 DEF RequestInv, TimeInv, WaitBounded

LEMMA BetweenCallsIInv ==
  ASSUME IInv, Branch \/ (\E tn \in Numbers : WriteRDM(tn)) \/ Reset
  PROVE  IInv'
<1> USE DEF IInv
<1>1. After(rdm_transaction_number) \in Numbers /\ 0 \in Numbers
  <2>1. rdm_transaction_number \in Numbers
    BY DEF TypeOK
  <2>2. After(rdm_transaction_number) \in Numbers
    BY <2>1, AfterNumber
  <2> QED
    BY <2>2, NumbersAssumption DEF NumbersAssumption, Numbers
<1>2. RequestInv' /\ TimeInv'
  BY DEF Branch, WriteRDM, Reset, RequestInv, TimeInv, WaitBounded
<1>3. CASE Reset
  BY <1>1, <1>2, <1>3 DEF Reset, TypeOK, NumbersInv, responder
<1>4. CASE Branch
  <2>1. TypeOK'
    <3>1. line' \subseteq Packets
      BY <1>4, OlderAnswers DEF Branch
    <3> QED
      BY <1>1, <1>4, <3>1 DEF Branch, TypeOK, responder
  <2>2. ASSUME NEW a \in line', a.mine PROVE NumberAges(a)'
    <3>1. PICK b \in line : a.tn = b.tn /\ b.mine /\ a.age = b.age + 1
      BY <1>4, <2>2, OlderAnswers DEF Branch
    <3>2. Dist(b) >= 1 /\ Dist(b) <= 2 * b.age + 2
      BY <1>4, <3>1 DEF Branch, NumbersInv, NumberAges
    <3>3. Dist(a)' = Dist(b) + 1
      BY <1>4, <3>1, <3>2, NumberTaken DEF Branch, Dist
    <3>4. Dist(b) \in Int /\ b.age \in Nat
      BY DistInt
    <3> QED
      BY <1>4, <3>1, <3>2, <3>3, <3>4 DEF Branch, NumberAges
  <2> QED
    BY <1>2, <2>1, <2>2 DEF NumbersInv
<1>5. ASSUME NEW tn \in Numbers, WriteRDM(tn) PROVE IInv'
  <2>1. \A a \in line' : a \in Older \/ ~a.mine
    BY <1>5 DEF WriteRDM
  <2>2. TypeOK'
    <3>1. [tn |-> tn, mine |-> FALSE, age |-> 0, type |-> "ACK", pid |-> "get", content |-> 1]
            \in Packets
      BY NumbersAssumption DEF NumbersAssumption, Packets, Kinds
    <3>2. line' \subseteq Packets
      BY <1>5, <3>1, OlderAnswers DEF WriteRDM
    <3> QED
      BY <1>5, <3>2 DEF WriteRDM, TypeOK, responder
  <2>3. ASSUME NEW a \in line', a.mine PROVE NumberAges(a)'
    <3>1. PICK b \in line : a.tn = b.tn /\ b.mine /\ a.age = b.age + 1
      BY <2>1, <2>3, OlderAnswers
    <3>2. Dist(b) >= 1 /\ Dist(b) <= 2 * b.age + 2
      BY <1>5, <3>1 DEF WriteRDM, NumbersInv, NumberAges
    <3>3. Dist(a)' = Dist(b)
      BY <1>5, <3>1 DEF WriteRDM, Dist
    <3>4. Dist(b) \in Int /\ b.age \in Nat
      BY DistInt
    <3> QED
      BY <1>5, <3>1, <3>2, <3>3, <3>4 DEF WriteRDM, NumberAges
  <2> QED
    BY <1>2, <2>2, <2>3 DEF NumbersInv
<1> QED
  BY <1>3, <1>4, <1>5

LEMMA StepIInv == IInv /\ [Next]_vars => IInv'
<1> SUFFICES ASSUME IInv, [Next]_vars PROVE IInv'
  OBVIOUS
<1>1. CASE \E kind \in Kinds : Begin(kind)
  BY <1>1, BeginIInv
<1>2. CASE Transmit
  BY <1>2, TransmitIInv
<1>3. CASE Silence \/ Garbled \/ Error \/ \E a \in line : Receive(a)
  BY <1>3, WaitIInv
<1>4. CASE GiveUp
  BY <1>4, GiveUpIInv
<1>5. CASE Retry
  BY <1>5, RetryIInv
<1>6. CASE Branch \/ (\E tn \in Numbers : WriteRDM(tn)) \/ Reset
  BY <1>6, BetweenCallsIInv
<1>7. CASE UNCHANGED vars
  <2>1. TypeOK'
    BY <1>7 DEF IInv, TypeOK, vars, responder
  <2>2. NumbersInv'
    BY <1>7 DEF IInv, NumbersInv, NumberAges, Dist, vars
  <2> QED
    BY <1>7, <2>1, <2>2 DEF IInv, RequestInv, TimeInv, WaitBounded, vars
<1> QED
  BY <1>1, <1>2, <1>3, <1>4, <1>5, <1>6, <1>7 DEF Next, CallStep

LEMMA Inductive == Spec => []IInv
BY InitIInv, StepIInv, PTL DEF Spec

(***************************************************************************)
(* The variables of sendRDMPacket() keep to their types: in particular the *)
(* transaction number to its eight bits and the tries to their limit.      *)
(***************************************************************************)
THEOREM TypeCorrect == Spec => []TypeOK
<1>1. IInv => TypeOK
  BY DEF IInv
<1> QED
  BY <1>1, Inductive, PTL

(***************************************************************************)
(* No answer to an earlier request passes the tests of sendRDMPacket().    *)
(***************************************************************************)
THEOREM NoStaleAnswer == Spec => []AnswersAreCurrent
BY AnswersCurrent, Inductive, PTL

(***************************************************************************)
(* The waits that responders ask for stay below twice max_time_ms.         *)
(***************************************************************************)
THEOREM WaitsBounded == Spec => []WaitBounded
<1>1. IInv => WaitBounded
  BY DEF IInv, TimeInv
<1> QED
  BY <1>1, Inductive, PTL

(***************************************************************************)
(* sendRDMPacket() implements RDMCall: its result is made of answers to    *)
(* the requests of the same call, each taken once and in time.             *)
(***************************************************************************)
LEMMA StepCall == IInv /\ [Next]_vars => [Call!Next]_(Call!vars)
<1> SUFFICES ASSUME IInv, [Next]_vars PROVE [Call!Next]_(Call!vars)
  OBVIOUS
<1> USE DEF Call!vars
<1>1. ASSUME NEW kind \in Kinds, Begin(kind) PROVE Call!Begin
  BY <1>1 DEF Begin, Call!Begin
<1>2. ASSUME Transmit PROVE Call!Ask
  <2>1. \A a \in Current' : a \in Answers
    BY <1>2, TransmitIInv DEF Current, IInv, TypeOK, Packets
  <2>2. \A a \in Current' : a.content \in 1 .. Parts
    BY <2>1, NewAnswers DEF Current, IInv
  <2>3. Current' = {} \/ \E a \in Current' : Current' = {a}
    <3>1. \A a, b \in line' : a \in Answers /\ b \in Answers /\ a \notin Older /\ b \notin Older
                                => a = b
      BY <1>2 DEF Transmit
    <3>2. \A a \in Current' : a \notin Older
      <4> SUFFICES ASSUME NEW a \in Current', a \in Older PROVE FALSE
        OBVIOUS
      <4>1. PICK b \in line : a.age = b.age + 1
        BY OlderAnswers DEF IInv
      <4> QED
        BY <4>1 DEF Current, IInv, TypeOK, Packets
    <3> QED
      BY <2>1, <3>1, <3>2 DEF Current
  <2>4. {a.content : a \in Current'} \in {{}} \cup {{c} : c \in 1 .. Parts}
    BY <2>2, <2>3
  <2> QED
    BY <1>2, <2>4 DEF Transmit, Call!Ask
<1>3. ASSUME Silence \/ Garbled PROVE Call!Miss
  BY <1>3 DEF Silence, Garbled, EndOfWait, Call!Miss
<1>4. ASSUME Error PROVE Call!Fail
  BY <1>4 DEF Error, EndOfWait, Call!Fail
<1>5. ASSUME NEW a \in line, Receive(a) PROVE Call!Take \/ Call!Miss
  <2>1. CASE Stray(a) \/ Nack(a) \/ AckTimer(a)
    BY <2>1 DEF Stray, Nack, AckTimer, EndOfWait, Call!Miss
  <2>2. CASE Ack(a) \/ AckOverflow(a)
    <3>1. phase = "wait" /\ a \in Current
      BY <2>2, AnswersCurrent
         DEF Ack, AckOverflow, EndOfWait, AnswersAreCurrent, Matches, Current
    <3> QED
      BY <2>2, <3>1 DEF Ack, AckOverflow, EndOfWait, Call!Take
  <2> QED
    BY <1>5, <2>1, <2>2 DEF Receive
<1>6. ASSUME GiveUp PROVE Call!Miss
  BY <1>6 DEF GiveUp, Call!Miss
<1>7. ASSUME Retry PROVE Call!Miss
  BY <1>7 DEF Retry, Call!Miss
<1>8. ASSUME Branch \/ (\E tn \in Numbers : WriteRDM(tn)) \/ Reset PROVE UNCHANGED Call!vars
  BY <1>8 DEF Branch, WriteRDM, Reset
<1>9. ASSUME UNCHANGED vars PROVE UNCHANGED Call!vars
  BY <1>9 DEF vars, Current
<1> QED
  BY <1>1, <1>2, <1>3, <1>4, <1>5, <1>6, <1>7, <1>8, <1>9
     DEF Next, CallStep, Call!Next

THEOREM TransactionImplementsCall == Spec => CallSpec
<1>1. Init => Call!Init
  BY DEF Init, Call!Init
<1> QED
  BY <1>1, StepCall, Inductive, PTL DEF Spec, CallSpec, Call!Spec

-----------------------------------------------------------------------------
(***************************************************************************)
(* A GET that has lost nothing so far: it has as many parts as requests    *)
(* were answered, in order, and the responder is about to send, or has     *)
(* just sent, the next one.                                                *)
(***************************************************************************)
Got == Len(resp_packets)

\* An answer that will be accepted brings the next part.
BringsNext(a) ==
  /\ a.type = "ACK"        => a.content = Got + 1 /\ Got + 1 = parts
  /\ a.type = "ACK_OVERFL" => a.content = Got + 1 /\ Got + 1 < parts /\ next = Got + 2

PartsInv ==
  /\ resp_packets = [i \in 1 .. Got |-> i]
  /\ phase = "send"  => Got = pkt_try /\ Got < parts /\ next = Got + 1
  /\ phase = "wait"  => Got = pkt_try /\ Got < parts /\ \A a \in line : Matches(a) => BringsNext(a)
  /\ phase = "again" => Got = pkt_try + 1 /\ Got < parts /\ next = Got + 1
  /\ phase = "idle"  => Got = parts \/ (Got = Retries + 1 /\ Got < parts)

CleanInv == clean /\ pkt.kind = "get" => PartsInv

LEMMA CleanBegin ==
  ASSUME IInv, NEW kind \in Kinds, Begin(kind)
  PROVE  CleanInv'
<1> SUFFICES ASSUME kind = "get" PROVE PartsInv'
  BY DEF CleanInv, Begin
<1>1. resp_packets' = <<>> /\ Got' = 0 /\ pkt_try' = 0 /\ next' = 1 /\ phase' = "send"
  BY DEF Begin, Got
<1>2. parts' \in 1 .. Parts
  BY DEF Begin
<1>3. <<>> = [i \in 1 .. 0 |-> i]
  OBVIOUS
<1> QED
  BY <1>1, <1>2, <1>3, LimitsAssumption DEF LimitsAssumption, PartsInv

LEMMA CleanTransmit ==
  ASSUME IInv, CleanInv, Transmit
  PROVE  CleanInv'
<1> SUFFICES ASSUME clean, pkt.kind = "get" PROVE PartsInv'
  BY DEF CleanInv, Transmit
<1>1. /\ phase = "send" /\ phase' = "wait"
      /\ UNCHANGED <<pkt, pkt_try, resp_packets, parts, clean, Got>>
  BY DEF Transmit, Got
<1>2. PartsInv /\ Got = pkt_try /\ Got < parts /\ next = Got + 1
  BY <1>1 DEF CleanInv, PartsInv
<1>3. Got \in Nat /\ next \in 1 .. parts /\ parts \in Nat
  BY DEF IInv, TypeOK, Got
<1>4. ASSUME NEW a \in line', Matches(a)' PROVE BringsNext(a)'
  <2>1. a.age = 0
    <3>1. IInv' => AnswersAreCurrent'
      BY AnswersCurrent, PTL
    <3> QED
      BY <1>1, <1>4, <3>1, TransmitIInv DEF AnswersAreCurrent
  <2>2. a \in Answers /\ a \notin Older
    <3>1. a \in Answers
      BY <1>4, <2>1, TransmitIInv
    <3>2. ASSUME a \in Older PROVE FALSE
      <4>1. PICK b \in line : a.age = b.age + 1
        BY <3>2, OlderAnswers DEF IInv
      <4> QED
        BY <2>1, <4>1 DEF IInv, TypeOK, Packets
    <3> QED
      BY <3>1, <3>2
  <2>3. next' = CASE a.type = "ACK_OVERFL" -> next + 1
                  [] a.type = "ACK"        -> 1
                  [] OTHER                 -> next
    BY <1>4, <2>2 DEF Transmit
  <2>4. a.pid = "get"
    BY <1>1, <1>4 DEF Matches
  <2>5. \/ a = Answer(IF next < parts THEN "ACK_OVERFL" ELSE "ACK", "get", next)
        \/ a.type \in {"NACK", "ACK_TIMER"}
    BY <2>2, <2>4 DEF Answers, Answer
  <2>6. CASE a.type \in {"NACK", "ACK_TIMER"}
    BY <2>6 DEF BringsNext
  <2>7. CASE a = Answer(IF next < parts THEN "ACK_OVERFL" ELSE "ACK", "get", next)
    <3>1. /\ a.content = next
          /\ a.type = IF next < parts THEN "ACK_OVERFL" ELSE "ACK"
      BY <2>7 DEF Answer
    <3>2. CASE next < parts
      BY <1>1, <1>2, <1>3, <2>3, <3>1, <3>2 DEF BringsNext
    <3>3. CASE ~(next < parts)
      BY <1>1, <1>2, <1>3, <3>1, <3>3 DEF BringsNext
    <3> QED
      BY <3>2, <3>3
  <2> QED
    BY <2>5, <2>6, <2>7
<1> QED
  BY <1>1, <1>2, <1>4 DEF PartsInv

LEMMA CleanReceive ==
  ASSUME IInv, CleanInv, NEW a \in line, Ack(a) \/ AckOverflow(a)
  PROVE  CleanInv'
<1> SUFFICES ASSUME clean, pkt.kind = "get" PROVE PartsInv'
  BY DEF CleanInv, Ack, AckOverflow
<1>1. /\ phase = "wait" /\ Matches(a)
      /\ resp_packets' = Append(resp_packets, a.content)
      /\ UNCHANGED <<pkt, pkt_try, parts, next>>
      /\ \/ a.type = "ACK" /\ phase' = "idle"
         \/ a.type = "ACK_OVERFL" /\ phase' = "again"
  BY DEF Ack, AckOverflow, EndOfWait, responder
<1>2. PartsInv /\ Got = pkt_try /\ BringsNext(a)
  BY <1>1 DEF CleanInv, PartsInv
<1>3. Got \in Nat /\ parts \in Nat /\ resp_packets \in Seq(Nat) /\ a.content \in Nat
  BY DEF IInv, TypeOK, Got, Packets
<1>4. a.content = Got + 1
  BY <1>1, <1>2 DEF BringsNext
<1>5. Got' = Got + 1
  BY <1>1, <1>3 DEF Got
<1>6. resp_packets' = [i \in 1 .. Got' |-> i]
  <2>1. \A i \in 1 .. Got : resp_packets[i] = i
    BY <1>2 DEF PartsInv
  <2>2. /\ resp_packets' \in Seq(Nat) /\ Len(resp_packets') = Got + 1
        /\ \A i \in 1 .. Got : resp_packets'[i] = resp_packets[i]
        /\ resp_packets'[Got + 1] = a.content
    BY <1>1, <1>3 DEF Got
  <2>3. \A i \in 1 .. Got + 1 : resp_packets'[i] = i
    BY <1>3, <1>4, <2>1, <2>2
  <2> QED
    BY <1>5, <2>2, <2>3
<1> QED
  BY <1>1, <1>2, <1>3, <1>5, <1>6 DEF PartsInv, BringsNext

LEMMA StepCleanInv == IInv /\ CleanInv /\ [Next]_vars => CleanInv'
<1> SUFFICES ASSUME IInv, CleanInv, [Next]_vars PROVE CleanInv'
  OBVIOUS
<1>1. CASE \E kind \in Kinds : Begin(kind)
  BY <1>1, CleanBegin
<1>2. CASE Transmit
  BY <1>2, CleanTransmit
<1>3. CASE Silence \/ Garbled \/ Error \/ \E a \in line : Stray(a) \/ AckTimer(a) \/ Nack(a)
  BY <1>3 DEF Silence, Garbled, Error, Stray, AckTimer, Nack, CleanInv
<1>4. CASE \E a \in line : Ack(a) \/ AckOverflow(a)
  BY <1>4, CleanReceive
<1>5. CASE GiveUp
  BY <1>5 DEF GiveUp, OutOfTries, responder, CleanInv, PartsInv, Got
<1>6. CASE Retry
  <2>1. /\ phase = "again" /\ pkt_try' = pkt_try + 1 /\ pkt'.kind = pkt.kind
        /\ UNCHANGED <<resp_packets, parts, next>>
        /\ (phase' = "send" /\ clean' = clean) \/ clean' = FALSE
    BY <1>6 DEF Retry, NextTry, responder, IInv, TypeOK
  <2> QED
    BY <2>1 DEF CleanInv, PartsInv, Got
<1>7. CASE Branch \/ (\E tn \in Numbers : WriteRDM(tn)) \/ Reset
  <2>1. phase \in {"idle", "again"} /\ UNCHANGED <<phase, pkt, pkt_try, resp_packets, parts, next, clean>>
    BY <1>7 DEF Branch, WriteRDM, Reset, responder
  <2> QED
    BY <2>1 DEF CleanInv, PartsInv, Got
<1>8. CASE UNCHANGED vars
  BY <1>8 DEF vars, responder, CleanInv, PartsInv, Got, Matches, BringsNext
<1> QED
  BY <1>1, <1>2, <1>3, <1>4, <1>5, <1>6, <1>7, <1>8 DEF Next, CallStep, Receive

(***************************************************************************)
(* A GET that loses nothing returns all the parts of the answer, in order, *)
(* for any number of parts that its tries allow: the first try is not      *)
(* counted as a retry, no answer is taken twice and none is skipped.       *)
(***************************************************************************)
THEOREM CleanCallsComplete == Spec => []CleanCallComplete
<1>1. Init => CleanInv
  BY DEF Init, CleanInv
<1>2. IInv /\ CleanInv => CleanCallComplete
  <2> SUFFICES ASSUME IInv, CleanInv, phase = "idle", clean, pkt.kind = "get",
                      parts <= Retries + 1
               PROVE  resp_packets = [i \in 1 .. parts |-> i]
    BY DEF CleanCallComplete
  <2>1. PartsInv /\ Got = parts
    BY LimitsAssumption DEF LimitsAssumption, CleanInv, PartsInv, IInv, TypeOK
  <2> QED
    BY <2>1 DEF PartsInv
<1> QED
  BY <1>1, <1>2, Inductive, StepCleanInv, PTL DEF Spec

-----------------------------------------------------------------------------
(***************************************************************************)
(* Every step of a call uses up some of its tries: a call transmits at     *)
(* most Retries + 1 times, whether parts, strays, refusals or requests for *)
(* more time come in, and the device's init() does not give it more.       *)
(***************************************************************************)
StepsLeft ==
  IF phase = "idle" THEN 0
  ELSE 3 * (Retries - pkt_try) + [send |-> 3, wait |-> 2, again |-> 1][phase]

CallAdvances ==
  [][phase # "idle" => IF CallStep THEN StepsLeft' < StepsLeft ELSE UNCHANGED StepsLeft]_vars

\* The steps between two calls, and init(), leave a call what it has.
LEMMA OtherStepsKeep ==
  ASSUME IInv, [Next]_vars, phase # "idle", ~CallStep
  PROVE  UNCHANGED StepsLeft
<1>1. CASE Reset \/ UNCHANGED vars
  BY <1>1 DEF Reset, vars, StepsLeft
<1>2. CASE (\E kind \in Kinds : Begin(kind)) \/ Branch \/ \E tn \in Numbers : WriteRDM(tn)
  BY <1>2 DEF Begin, Branch, WriteRDM
<1> QED
  BY <1>1, <1>2 DEF Next

LEMMA CallStepAdvances ==
  ASSUME IInv, CallStep
  PROVE  StepsLeft' < StepsLeft
<1>1. /\ pkt_try \in 0 .. Retries /\ Retries \in Nat
      /\ phase \in {"idle", "send", "wait", "again"}
  BY LimitsAssumption DEF LimitsAssumption, IInv, TypeOK
<1>2. CASE Transmit
  BY <1>1, <1>2 DEF Transmit, StepsLeft
<1>3. CASE Silence \/ Garbled \/ Error \/ \E a \in line : Receive(a)
  <2>1. phase = "wait" /\ phase' \in {"idle", "again"} /\ pkt_try' = pkt_try
    BY <1>3 DEF Silence, Garbled, Error, Receive, Stray, Ack, AckOverflow, AckTimer, Nack, EndOfWait
  <2> QED
    BY <1>1, <2>1 DEF StepsLeft
<1>4. CASE GiveUp
  BY <1>1, <1>4 DEF GiveUp, StepsLeft
<1>5. CASE Retry
  <2>1. /\ phase = "again" /\ phase' \in {"send", "idle"}
        /\ pkt_try # Retries /\ pkt_try' = pkt_try + 1
    BY <1>5 DEF Retry, OutOfTries, NextTry
  <2> QED
    BY <1>1, <2>1 DEF StepsLeft
<1> QED
  BY <1>2, <1>3, <1>4, <1>5 DEF CallStep

(***************************************************************************)
(* A call has a number of steps, three for each of its tries, and every    *)
(* step it makes leaves it fewer, while nothing else gives it any back: no *)
(* sequence of answers keeps rdm_thread, which holds data_mutex, for more  *)
(* than Retries + 1 transmissions.                                         *)
(***************************************************************************)
THEOREM CallsAdvance ==
  Spec => [](StepsLeft \in 0 .. 3 * Retries + 3) /\ CallAdvances
<1>1. IInv => StepsLeft \in 0 .. 3 * Retries + 3
  BY LimitsAssumption DEF LimitsAssumption, IInv, TypeOK, StepsLeft
<1>2. IInv /\ [Next]_vars
        => [phase # "idle" =>
              IF CallStep THEN StepsLeft' < StepsLeft ELSE UNCHANGED StepsLeft]_vars
  BY OtherStepsKeep, CallStepAdvances
<1> QED
  BY <1>1, <1>2, Inductive, PTL DEF Spec, CallAdvances

=============================================================================
