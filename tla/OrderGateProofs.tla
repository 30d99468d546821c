--------------------------- MODULE OrderGateProofs ---------------------------
(***************************************************************************)
(* What the gate guarantees for any number of orders, threads and stops:   *)
(* its types, that no order moves back, that the book never runs ahead of  *)
(* the broker, and that an order let go of is over at the broker.          *)
(***************************************************************************)
EXTENDS OrderGate, TLAPS

USE GateAssumption

------------------------------------------------------------------------------
(* What one event does to an order's fold. *)

Reading_ == [kind : {"read"}, status : BrokerStatus, filled : Nat]
Answer_  == {NotSent, Accepted, Refused, Unclear}
Event_   == Reading_ \cup Answer_ \cup {CancelAsked, CancelRefused}

\* The states and events spelled out, for the lemmas below.
LEMMA ReadType ==
  ASSUME NEW s \in BrokerStatus, NEW n \in Nat
  PROVE  Read(s, n) \in Event_
BY DEF Read, Event_, Reading_

\* The events other than a reading, by their kinds.
LEMMA AnswerKind ==
  ASSUME NEW e \in Answer_ \cup {CancelAsked, CancelRefused}
  PROVE  e.kind \in {"not-sent", "accepted", "refused", "unclear", "cancel-asked", "cancel-refused"}
BY DEF Answer_, NotSent, Accepted, Refused, Unclear, CancelAsked, CancelRefused

\* Whatever the event, an order's fold stays one.
LEMMA ApplyType ==
  ASSUME NEW f \in Fold, NEW e \in Event_
  PROVE  Apply(f, e) \in Fold
<1>1. CASE e \in Reading_
  BY <1>1 DEF Apply, OnRead, Readable, ReadState, Working, Reading_, Fold,
              OrderState, BrokerStatus, InFlight, Unanswered
<1>2. CASE e \in Answer_ \cup {CancelAsked, CancelRefused}
  BY <1>2, AnswerKind DEF Apply, OnAccepted, Working, Fold, OrderState, Unanswered, Resting
<1> QED BY <1>1, <1>2 DEF Event_

\* A working order with nothing filled is pending, and only such a one is.
Sorted(f) == f.state = "pending" => f.filled = 0

\* Events keep it so.
LEMMA ApplySorted ==
  ASSUME NEW f \in Fold, Sorted(f), NEW e \in Event_
  PROVE  Sorted(Apply(f, e))
<1>1. CASE e \in Reading_
  BY <1>1 DEF Sorted, Apply, OnRead, Readable, ReadState, Working, Reading_, Fold,
              OrderState, BrokerStatus, InFlight, Unanswered
<1>2. CASE e \in Answer_ \cup {CancelAsked, CancelRefused}
  BY <1>2, AnswerKind DEF Sorted, Apply, OnAccepted, Working, Fold, OrderState, Unanswered, Resting
<1> QED BY <1>1, <1>2 DEF Event_

\* An event never moves an order back, whatever state it falls on.
LEMMA ApplyNeverBack ==
  ASSUME NEW f \in Fold, Sorted(f), NEW e \in Event_
  PROVE  NeverBack(f, Apply(f, e))
<1>1. CASE e \in Reading_
  <2> DEFINE s == e.status  n == e.filled
  <2>1. Apply(f, e) = OnRead(f, s, n) /\ s \in BrokerStatus /\ n \in Nat
    BY <1>1 DEF Apply, Reading_
  <2> HIDE DEF s, n
  <2>2. CASE ~Readable(f, s, n)
    BY <2>1, <2>2 DEF OnRead, NeverBack, Fold, Sorted, Unanswered, Ended, OrderState
  <2>3. CASE Readable(f, s, n) /\ f.state \in InFlight
    BY <2>1, <2>3 DEF OnRead, Readable, ReadState, Working, NeverBack, Fold, Sorted, Unanswered,
                      Ended, InFlight, OrderState, BrokerStatus
  <2>4. CASE Readable(f, s, n) /\ f.state \notin InFlight
    BY <2>1, <2>4 DEF OnRead, Readable, NeverBack, Fold, Sorted, Unanswered, Ended,
                      InFlight, OrderState, BrokerStatus
  <2> QED BY <2>2, <2>3, <2>4
<1>2. CASE e \in Answer_ \cup {CancelAsked, CancelRefused}
  <2>1. CASE e.kind = "accepted"
    <3>1. Apply(f, e) = OnAccepted(f)
      BY <2>1 DEF Apply
    <3>2. CASE f.state \in Unanswered
      BY <3>1, <3>2 DEF OnAccepted, Working, Fold, OrderState, Unanswered, NeverBack, Ended
    <3>3. CASE f.state \notin Unanswered
      BY <3>1, <3>3 DEF OnAccepted, Fold, OrderState, Sorted, Unanswered, NeverBack, Ended
    <3> QED BY <3>2, <3>3
  <2>2. CASE e.kind # "accepted"
    <3>1. Apply(f, e).filled = f.filled /\ Apply(f, e).broker_id = f.broker_id
      BY <1>2, <2>2, AnswerKind DEF Apply, Fold
    <3>2. Apply(f, e).state = f.state => Apply(f, e) = f
      BY <1>2, <2>2, AnswerKind DEF Apply, Fold, Working, Unanswered, Resting
    <3>3. CASE Apply(f, e) = f
      BY <3>3 DEF NeverBack, Fold, Sorted, Unanswered, Ended
    <3>4. CASE Apply(f, e).state # f.state
      <4>1. /\ Apply(f, e).state \in {"failed", "rejected", "unconfirmed", "cancelling", Working(f)}
            /\ Apply(f, e).state = "unconfirmed" => f.state = "sending"
            /\ f.state \in InFlight
        BY <1>2, <2>2, <3>4, AnswerKind DEF Apply, Fold, Working, Unanswered, Resting, InFlight
      <4> QED BY <3>1, <4>1 DEF NeverBack, Working, Fold, Unanswered, Ended, InFlight
    <3> QED BY <3>2, <3>3, <3>4
  <2> QED BY <2>1, <2>2
<1> QED BY <1>1, <1>2 DEF Event_

\* An order not written yet is not moved by any event.
LEMMA ApplyUnwritten ==
  ASSUME NEW e \in Event_
  PROVE  Apply(Unwritten, e) = Unwritten
<1>1. CASE e \in Reading_
  BY <1>1 DEF Apply, OnRead, Readable, ReadState, Working, Reading_, Unwritten,
              BrokerStatus, InFlight, Unanswered
<1>2. CASE e \in Answer_ \cup {CancelAsked, CancelRefused}
  BY <1>2 DEF Apply, OnAccepted, Working, Answer_, Unwritten, Unanswered, Resting,
              NotSent, Accepted, Refused, Unclear, CancelAsked, CancelRefused
<1> QED BY <1>1, <1>2 DEF Event_

\* What has filled changes only by a reading, and only to what it says.
LEMMA ApplyFilled ==
  ASSUME NEW f \in Fold, NEW e \in Event_
  PROVE  \/ Apply(f, e).filled = f.filled
         \/ e \in Reading_ /\ e.status # "not-found" /\ Apply(f, e).filled = e.filled
<1>1. CASE e \in Reading_
  BY <1>1 DEF Apply, OnRead, Readable, ReadState, Working, Reading_, Fold,
              OrderState, BrokerStatus, InFlight, Unanswered
<1>2. CASE e \in Answer_ \cup {CancelAsked, CancelRefused}
  BY <1>2, AnswerKind DEF Apply, OnAccepted, Working, Fold, OrderState, Unanswered, Resting
<1> QED BY <1>1, <1>2 DEF Event_

\* An order ends in the book by an answer that says it never got there, by a
\* reading that says how it ended, or by the broker knowing nothing of it.
LEMMA ApplyEnds ==
  ASSUME NEW f \in Fold, NEW e \in Event_,
         f.state \notin Ended, Apply(f, e).state \in Ended
  PROVE  \/ e = NotSent /\ f.state = "sending"
         \/ e = Refused
         \/ e \in Reading_ /\ e.status \notin {"open", "not-found"} /\ Apply(f, e).filled = e.filled
         \/ e \in Reading_ /\ e.status = "not-found" /\ f.state \in Unanswered
<1>1. CASE e \in Reading_
  BY <1>1 DEF Apply, OnRead, Readable, ReadState, Working, Reading_, Fold, Ended,
              OrderState, BrokerStatus, InFlight, Unanswered
<1>2. CASE e \in Answer_ \cup {CancelAsked, CancelRefused}
  BY <1>2 DEF Apply, OnAccepted, Working, Answer_, Fold, OrderState, Unanswered, Resting, Ended,
              NotSent, Accepted, Refused, Unclear, CancelAsked, CancelRefused
<1> QED BY <1>1, <1>2 DEF Event_
------------------------------------------------------------------------------
(* Types. *)

\* An event leaves an order of the book an order of the book, written or not.
LEMMA ApplyBook ==
  ASSUME NEW b \in BookOrder, NEW e \in Event_
  PROVE  Apply(b, e) \in BookOrder
BY ApplyType, ApplyUnwritten DEF BookOrder

\* The book keeps its type when one event is folded onto one order.
LEMMA ApplyAt ==
  ASSUME book \in [Orders -> BookOrder], NEW o \in Orders, NEW e \in Event_
  PROVE  [book EXCEPT ![o] = Apply(@, e)] \in [Orders -> BookOrder]
BY ApplyBook

\* The types hold at first and every step keeps them.
LEMMA TypeInit == Init => TypeOK
<1> SUFFICES ASSUME Init PROVE TypeOK
  OBVIOUS
<1>1. Unwritten \in BookOrder
  BY DEF BookOrder
<1>2. [status |-> "not-found", filled |-> 0, cancelling |-> FALSE] \in BrokerOrder
  BY DEF BrokerOrder, BrokerStatus
<1>3. IdleReader \in Reader /\ IdleCaller \in Caller
  BY DEF IdleReader, IdleCaller, Reader, Caller, BrokerStatus
<1>4. 0 \in 0 .. MaxCrashes
  OBVIOUS
<1> QED BY <1>1, <1>2, <1>3, <1>4 DEF Init, TypeOK, SenderStep, RequestStep

\* Every step keeps the types.
LEMMA TypeStep == TypeOK /\ [Next]_vars => TypeOK'
<1> SUFFICES ASSUME TypeOK, [Next]_vars PROVE TypeOK'
  OBVIOUS
<1> USE DEF TypeOK
<1>1. ASSUME NEW o \in Orders, Placing(o) PROVE TypeOK'
  <2>1. CASE Write(o)
    <3>1. \A dry \in BOOLEAN : Start(dry) \in BookOrder
      BY DEF Start, BookOrder, Fold, OrderState
    <3> QED BY <2>1, <3>1 DEF Write, SenderStep
  <2>2. CASE Send(o)
    BY <2>2 DEF Send, SenderStep, RequestStep
  <2>3. CASE NoSession(o)
    BY <2>3 DEF NoSession, SenderStep
  <2>4. CASE Hear(o)
    BY <2>4 DEF Hear, Answers, SenderStep
  <2>5. CASE RecordAnswer(o)
    <3>1. answer[o] \in Event_
      BY DEF Event_, Answer_
    <3> QED BY <2>5, <3>1, ApplyAt DEF RecordAnswer, SenderStep
  <2> QED BY <1>1, <2>1, <2>2, <2>3, <2>4, <2>5 DEF Placing
<1>2. ASSUME NEW r \in Readers, Reading(r) PROVE TypeOK'
  <2>0. IdleReader \in Reader
    BY DEF IdleReader, Reader, BrokerStatus
  <2>1. ASSUME NEW o \in Orders, StartRead(r, o) PROVE TypeOK'
    <3>1. \A b \in BOOLEAN : [at |-> "asking", order |-> o, status |-> "not-found", filled |-> 0,
                              early |-> b] \in Reader
      BY DEF Reader, BrokerStatus
    <3>2. (book[o].state \in Unanswered /\ o \notin aged) \in BOOLEAN
      OBVIOUS
    <3> QED BY <2>1, <3>1, <3>2 DEF StartRead
  <2>2. CASE HearReading(r)
    <3> DEFINE o == reader[r].order
    <3>1. reader[r] \in Reader \ {IdleReader} /\ o \in Orders
      BY <2>2 DEF HearReading, Reader, IdleReader
    <3>2. broker[o] \in BrokerOrder
      BY <3>1
    <3>3. [reader[r] EXCEPT !.at = "heard", !.status = broker[o].status,
                            !.filled = broker[o].filled] \in Reader
      BY <3>1, <3>2 DEF Reader, BrokerOrder
    <3> QED BY <2>2, <3>3 DEF HearReading
  <2>3. CASE ReadFails(r)
    BY <2>0, <2>3 DEF ReadFails
  <2>4. CASE RecordReading(r)
    <3> DEFINE o == reader[r].order  e == Read(reader[r].status, reader[r].filled)
    <3>1. o \in Orders /\ e \in Event_
      BY <2>4, ReadType DEF RecordReading, Reader, IdleReader
    <3>2. book' \in [Orders -> BookOrder]
      BY <2>4, <3>1, ApplyAt DEF RecordReading
    <3> QED BY <2>0, <2>4, <3>2 DEF RecordReading
  <2> QED BY <1>2, <2>1, <2>2, <2>3, <2>4 DEF Reading
<1>3. ASSUME NEW c \in Callers, Cancelling(c) PROVE TypeOK'
  <2>0. /\ IdleCaller \in Caller
        /\ caller[c] # IdleCaller => caller[c].order \in Orders
        /\ \A at \in {"calling", "turned-down"} :
             caller[c] # IdleCaller => [caller[c] EXCEPT !.at = at] \in Caller
    BY DEF Caller
  <2>1. ASSUME NEW o \in Orders, CheckCancel(c, o) PROVE TypeOK'
    <3>1. [at |-> "checked", order |-> o] \in Caller
      BY DEF Caller
    <3> QED BY <2>1, <3>1 DEF CheckCancel
  <2>2. CASE AskCancel(c)
    <3>1. CancelAsked \in Event_ /\ caller[c] # IdleCaller
      BY <2>2 DEF Event_, AskCancel, IdleCaller
    <3> QED BY <2>0, <2>2, <3>1, ApplyAt DEF AskCancel
  <2>3. CASE CancelTaken(c)
    <3>1. caller[c] # IdleCaller
      BY <2>3 DEF CancelTaken, IdleCaller
    <3> QED BY <2>0, <2>3, <3>1 DEF CancelTaken, BrokerOrder
  <2>4. CASE CancelTurnedDown(c)
    <3>1. caller[c] # IdleCaller
      BY <2>4 DEF CancelTurnedDown, IdleCaller
    <3> QED BY <2>0, <2>4, <3>1 DEF CancelTurnedDown
  <2>5. CASE CancelLost(c)
    BY <2>0, <2>5 DEF CancelLost
  <2>6. CASE RecordCancelRefused(c)
    <3>1. CancelRefused \in Event_ /\ caller[c] # IdleCaller
      BY <2>6 DEF Event_, RecordCancelRefused, IdleCaller
    <3> QED BY <2>0, <2>6, <3>1, ApplyAt DEF RecordCancelRefused
  <2> QED BY <1>3, <2>1, <2>2, <2>3, <2>4, <2>5, <2>6 DEF Cancelling
<1>4. ASSUME NEW o \in Orders, World(o) PROVE TypeOK'
  <2>0. broker[o] \in BrokerOrder
    OBVIOUS
  <2>1. CASE Land(o)
    <3>1. [broker[o] EXCEPT !.status = "open"] \in BrokerOrder
      BY <2>0 DEF BrokerOrder, BrokerStatus
    <3> QED BY <2>1, <3>1 DEF Land, RequestStep
  <2>2. \A n \in broker[o].filled + 1 .. Quantity :
          [broker[o] EXCEPT !.filled = n, !.status = IF n = Quantity THEN "filled" ELSE broker[o].status]
            \in BrokerOrder
    <3> TAKE n \in broker[o].filled + 1 .. Quantity
    <3>1. n \in 0 .. Quantity
      BY <2>0 DEF BrokerOrder
    <3> QED BY <2>0, <3>1 DEF BrokerOrder, BrokerStatus
  <2>3. CASE Fill(o)
    <3>1. PICK n \in broker[o].filled + 1 .. Quantity : broker' = [broker EXCEPT ![o] =
            [broker[o] EXCEPT !.filled = n, !.status = IF n = Quantity THEN "filled" ELSE broker[o].status]]
      BY <2>3 DEF Fill
    <3> QED BY <2>2, <2>3, <3>1 DEF Fill
  <2>4. CASE FillLate(o)
    <3>1. PICK n \in broker[o].filled + 1 .. Quantity : broker' = [broker EXCEPT ![o] =
            [broker[o] EXCEPT !.filled = n, !.status = IF n = Quantity THEN "filled" ELSE broker[o].status]]
      BY <2>4 DEF FillLate
    <3> QED BY <2>2, <2>4, <3>1 DEF FillLate
  <2>5. CASE End(o)
    <3>1. \A s \in {"cancelled", "expired", "rejected"} : [broker[o] EXCEPT !.status = s] \in BrokerOrder
      BY <2>0 DEF BrokerOrder, BrokerStatus
    <3> QED BY <2>5, <3>1 DEF End
  <2>6. CASE Age(o)
    BY <2>6 DEF Age
  <2> QED BY <1>4, <2>1, <2>3, <2>4, <2>5, <2>6 DEF World
<1>5. CASE Crash
  BY <1>5 DEF Crash, SenderStep, Reader, Caller
<1>6. CASE UNCHANGED vars
  BY <1>6 DEF vars
<1> QED BY <1>1, <1>2, <1>3, <1>4, <1>5, <1>6 DEF Next

\* The types hold of every state the program reaches.
THEOREM Typing == Spec => []TypeOK
<1> QED BY TypeInit, TypeStep, PTL DEF Spec
------------------------------------------------------------------------------
(* The inductive invariant.  `LetGoIsOver` is not inductive as it stands: a   *)
(* reading, or an answer, was true when it was heard and is recorded later,   *)
(* so the invariant says what each one still means when it is.                *)

\* Where the create stands, by where the thread that sends it stands.
SentSoFar(o) ==
  /\ sender[o] = "idle" <=> ~Written(o)
  /\ sender[o] \in {"idle", "written"} => request[o] = "unsent"
  /\ request[o] = "taken" <=> broker[o].status # "not-found"
  /\ broker[o].status = "not-found" => broker[o].filled = 0
  /\ sender[o] = "answered" /\ answer[o] = Refused => request[o] = "refused"
  /\ sender[o] = "answered" /\ answer[o] = NotSent => request[o] \in {"unsent", "lost"}
  /\ o \in aged \cap Prompt => sender[o] \notin {"idle", "written"} /\ request[o] # "travelling"

\* What the book holds of an order, against the broker.
BookSound(o) ==
  /\ Sorted(book[o])
  /\ book[o].filled <= broker[o].filled
  /\ o \in Prompt /\ LetGo(o) => OverAtBroker(o)
  /\ o \in Prompt /\ LetGo(o) /\ ~LateFills => book[o].filled = broker[o].filled

\* What a reading under way still means.
HeardStands(r, o) ==
  /\ Written(o)
  /\ ~reader[r].early /\ o \in Prompt /\ book[o].state \in Unanswered => o \in aged
  /\ reader[r].at = "heard" =>
       /\ reader[r].filled <= broker[o].filled
       /\ reader[r].status \notin {"open", "not-found"} =>
            /\ broker[o].status \notin {"open", "not-found"}
            /\ ~LateFills => reader[r].filled = broker[o].filled
       /\ reader[r].status = "not-found" /\ ~reader[r].early /\ o \in Prompt
            /\ book[o].state \in Unanswered => broker[o].status = "not-found"

IInv ==
  /\ TypeOK
  /\ \A o \in Orders : SentSoFar(o)
  /\ \A o \in Orders : BookSound(o)
  /\ \A r \in Readers : reader[r].at # "idle" => HeardStands(r, reader[r].order)

\* What one event does to an order of the book: the facts above in one place.
LEMMA ApplyMoves ==
  ASSUME NEW b \in BookOrder, Sorted(b), NEW e \in Event_
  PROVE  LET g == Apply(b, e) IN
         /\ Sorted(g)
         /\ g.state = "unwritten" <=> b.state = "unwritten"
         /\ NeverBack(b, g)
         /\ \/ g.filled = b.filled
            \/ e \in Reading_ /\ e.status # "not-found" /\ g.filled = e.filled
         /\ b.state \notin Ended /\ g.state \in Ended =>
              \/ e = NotSent
              \/ e = Refused
              \/ e \in Reading_ /\ e.status \notin {"open", "not-found"} /\ g.filled = e.filled
              \/ e \in Reading_ /\ e.status = "not-found" /\ b.state \in Unanswered
<1>1. CASE b = Unwritten
  <2>1. Apply(b, e) = Unwritten
    BY <1>1, ApplyUnwritten
  <2> QED BY <1>1, <2>1 DEF Unwritten, Sorted, NeverBack, Ended, Unanswered
<1>2. CASE b \in Fold
  <2>1. b.state # "unwritten" /\ Apply(b, e).state # "unwritten"
    BY <1>2, ApplyType DEF Fold, OrderState
  <2> QED BY <1>2, <2>1, ApplySorted, ApplyNeverBack, ApplyFilled, ApplyEnds
<1> QED BY <1>1, <1>2 DEF BookOrder

\* The invariant holds at first.
LEMMA InvInit == Init => IInv
BY TypeInit DEF Init, IInv, SentSoFar, BookSound, Unwritten, Written, Sorted, LetGo, Ended, IdleReader


\* What the invariant says of one order and of one reading; and that together
\* with the types they make it up.
OrderSound(o) == SentSoFar(o) /\ BookSound(o)
ReaderSound(r) == reader[r].at # "idle" => HeardStands(r, reader[r].order)

\* The invariant, order by order and reader by reader.
LEMMA InvParts ==
  ASSUME TypeOK', \A p \in Orders : OrderSound(p)', \A r \in Readers : ReaderSound(r)'
  PROVE  IInv'
BY DEF IInv, OrderSound, ReaderSound

\* A thread at work on an order of the app's names one.
LEMMA Busy ==
  ASSUME TypeOK
  PROVE  /\ \A r \in Readers : reader[r].at # "idle" =>
              /\ reader[r].order \in Orders /\ reader[r].early \in BOOLEAN
              /\ reader[r].status \in BrokerStatus /\ reader[r].filled \in 0 .. Quantity
              /\ reader[r] \in [at : {"asking", "heard"}, order : Orders, early : BOOLEAN,
                                status : BrokerStatus, filled : 0 .. Quantity]
         /\ \A c \in Callers : caller[c].at # "idle" => caller[c].order \in Orders
BY DEF TypeOK, Reader, Caller, IdleReader, IdleCaller

\* An order written.
LEMMA WriteKeeps ==
  ASSUME IInv, TypeOK', NEW o \in Orders, Write(o)
  PROVE  IInv'
<1> USE DEF IInv, TypeOK
<1>1. ASSUME NEW p \in Orders PROVE OrderSound(p)'
  BY DEF Write, OrderSound, SentSoFar, BookSound, Written, LetGo, OverAtBroker, Sorted, NotSent, Refused, Start, Ended
<1>2. ASSUME NEW x \in Readers PROVE ReaderSound(x)'
  BY Busy DEF Write, ReaderSound, HeardStands, Written, SentSoFar, Start, Unwritten
<1> QED BY <1>1, <1>2, InvParts

\* A create sent.
LEMMA SendKeeps ==
  ASSUME IInv, TypeOK', NEW o \in Orders, Send(o)
  PROVE  IInv'
<1> USE DEF IInv, TypeOK
<1>1. ASSUME NEW p \in Orders PROVE OrderSound(p)'
  BY DEF Send, OrderSound, SentSoFar, BookSound, Written, LetGo, OverAtBroker, Sorted, NotSent, Refused
<1>2. ASSUME NEW x \in Readers PROVE ReaderSound(x)'
  BY Busy DEF Send, ReaderSound, HeardStands, Written
<1> QED BY <1>1, <1>2, InvParts

\* A create that cannot be sent.
LEMMA NoSessionKeeps ==
  ASSUME IInv, TypeOK', NEW o \in Orders, NoSession(o)
  PROVE  IInv'
<1> USE DEF IInv, TypeOK
<1>1. ASSUME NEW p \in Orders PROVE OrderSound(p)'
  BY DEF NoSession, OrderSound, SentSoFar, BookSound, Written, LetGo, OverAtBroker, Sorted, NotSent, Refused
<1>2. ASSUME NEW x \in Readers PROVE ReaderSound(x)'
  BY Busy DEF NoSession, ReaderSound, HeardStands, Written
<1> QED BY <1>1, <1>2, InvParts

\* The answer to a create heard.
LEMMA HearKeeps ==
  ASSUME IInv, TypeOK', NEW o \in Orders, Hear(o)
  PROVE  IInv'
<1> USE DEF IInv, TypeOK
<1>1. ASSUME NEW p \in Orders PROVE OrderSound(p)'
  BY DEF Hear, OrderSound, SentSoFar, BookSound, Written, LetGo, OverAtBroker, Sorted, NotSent, Refused, Answers, Accepted, Unclear, BrokerOrder
<1>2. ASSUME NEW x \in Readers PROVE ReaderSound(x)'
  BY Busy DEF Hear, ReaderSound, HeardStands, Written
<1> QED BY <1>1, <1>2, InvParts

\* A read-back begun.
LEMMA StartReadKeeps ==
  ASSUME IInv, TypeOK', NEW r \in Readers, NEW o \in Orders, StartRead(r, o)
  PROVE  IInv'
<1> USE DEF IInv, TypeOK
<1>1. ASSUME NEW p \in Orders PROVE OrderSound(p)'
  BY DEF StartRead, OrderSound, SentSoFar, BookSound, Written, LetGo, OverAtBroker, Sorted, NotSent, Refused
<1>2. ASSUME NEW x \in Readers PROVE ReaderSound(x)'
  BY Busy DEF StartRead, ReaderSound, HeardStands, Written
<1> QED BY <1>1, <1>2, InvParts

\* A read-back answered.
LEMMA HearReadingKeeps ==
  ASSUME IInv, TypeOK', NEW r \in Readers, HearReading(r)
  PROVE  IInv'
<1> USE DEF IInv, TypeOK
<1>1. ASSUME NEW p \in Orders PROVE OrderSound(p)'
  BY DEF HearReading, OrderSound, SentSoFar, BookSound, Written, LetGo, OverAtBroker, Sorted, NotSent, Refused
<1>2. ASSUME NEW x \in Readers PROVE ReaderSound(x)'
  BY Busy DEF HearReading, ReaderSound, HeardStands, Written , SentSoFar, BrokerOrder
<1> QED BY <1>1, <1>2, InvParts

\* A read-back that fails.
LEMMA ReadFailsKeeps ==
  ASSUME IInv, TypeOK', NEW r \in Readers, ReadFails(r)
  PROVE  IInv'
<1> USE DEF IInv, TypeOK
<1>1. ASSUME NEW p \in Orders PROVE OrderSound(p)'
  BY DEF ReadFails, OrderSound, SentSoFar, BookSound, Written, LetGo, OverAtBroker, Sorted, NotSent, Refused
<1>2. ASSUME NEW x \in Readers PROVE ReaderSound(x)'
  BY Busy DEF ReadFails, ReaderSound, HeardStands, Written, IdleReader
<1> QED BY <1>1, <1>2, InvParts

\* A cancel taken.
LEMMA CancelTakenKeeps ==
  ASSUME IInv, TypeOK', NEW c \in Callers, CancelTaken(c)
  PROVE  IInv'
<1> USE DEF IInv, TypeOK
<1>1. ASSUME NEW p \in Orders PROVE OrderSound(p)'
  BY DEF CancelTaken, OrderSound, SentSoFar, BookSound, Written, LetGo, OverAtBroker, Sorted, NotSent, Refused, BrokerOrder
<1>2. ASSUME NEW x \in Readers PROVE ReaderSound(x)'
  BY Busy DEF CancelTaken, ReaderSound, HeardStands, Written, BrokerOrder
<1> QED BY <1>1, <1>2, InvParts

\* A cancel turned down.
LEMMA CancelTurnedDownKeeps ==
  ASSUME IInv, TypeOK', NEW c \in Callers, CancelTurnedDown(c)
  PROVE  IInv'
<1> USE DEF IInv, TypeOK
<1>1. ASSUME NEW p \in Orders PROVE OrderSound(p)'
  BY DEF CancelTurnedDown, OrderSound, SentSoFar, BookSound, Written, LetGo, OverAtBroker, Sorted, NotSent, Refused, BrokerOrder
<1>2. ASSUME NEW x \in Readers PROVE ReaderSound(x)'
  BY Busy DEF CancelTurnedDown, ReaderSound, HeardStands, Written, BrokerOrder
<1> QED BY <1>1, <1>2, InvParts

\* A cancel lost.
LEMMA CancelLostKeeps ==
  ASSUME IInv, TypeOK', NEW c \in Callers, CancelLost(c)
  PROVE  IInv'
<1> USE DEF IInv, TypeOK
<1>1. ASSUME NEW p \in Orders PROVE OrderSound(p)'
  BY DEF CancelLost, OrderSound, SentSoFar, BookSound, Written, LetGo, OverAtBroker, Sorted, NotSent, Refused, BrokerOrder
<1>2. ASSUME NEW x \in Readers PROVE ReaderSound(x)'
  BY Busy DEF CancelLost, ReaderSound, HeardStands, Written, BrokerOrder
<1> QED BY <1>1, <1>2, InvParts

\* A cancel decided on.
LEMMA CheckCancelKeeps ==
  ASSUME IInv, TypeOK', NEW c \in Callers, NEW o \in Orders, CheckCancel(c, o)
  PROVE  IInv'
<1> USE DEF IInv, TypeOK
<1>1. ASSUME NEW p \in Orders PROVE OrderSound(p)'
  BY DEF CheckCancel, OrderSound, SentSoFar, BookSound, Written, LetGo, OverAtBroker, Sorted, NotSent, Refused
<1>2. ASSUME NEW x \in Readers PROVE ReaderSound(x)'
  BY Busy DEF CheckCancel, ReaderSound, HeardStands, Written
<1> QED BY <1>1, <1>2, InvParts

\* A create that arrives, or does not.
LEMMA LandKeeps ==
  ASSUME IInv, TypeOK', NEW o \in Orders, Land(o)
  PROVE  IInv'
<1> USE DEF IInv, TypeOK
<1>1. ASSUME NEW p \in Orders PROVE OrderSound(p)'
  BY DEF Land, OrderSound, SentSoFar, BookSound, Written, LetGo, OverAtBroker, Sorted, NotSent, Refused, BrokerOrder
<1>2. ASSUME NEW x \in Readers PROVE ReaderSound(x)'
  BY Busy DEF Land, ReaderSound, HeardStands, Written, SentSoFar, BrokerOrder
<1> QED BY <1>1, <1>2, InvParts

\* Shares that fill.
LEMMA FillKeeps ==
  ASSUME IInv, TypeOK', NEW o \in Orders, Fill(o)
  PROVE  IInv'
<1> USE DEF IInv, TypeOK
<1>1. ASSUME NEW p \in Orders PROVE OrderSound(p)'
  <2>1. PICK n \in broker[o].filled + 1 .. Quantity : broker' = [broker EXCEPT ![o] =
          [@ EXCEPT !.filled = n, !.status = IF n = Quantity THEN "filled" ELSE broker[o].status]]
    BY DEF Fill
  <2>2. /\ broker[o] \in BrokerOrder /\ n \in Nat /\ n > broker[o].filled
        /\ broker[o].status = "open"
    BY DEF Fill, BrokerOrder
  <2>3. /\ broker'[o].filled = n /\ broker'[o].status \in {"filled", broker[o].status}
        /\ p # o => broker'[p] = broker[p]
    BY <2>1, <2>2 DEF BrokerOrder
  <2>4. UNCHANGED <<book, sender, answer, request, aged>> /\ book[p] \in BookOrder
    BY DEF Fill
  <2>5. SentSoFar(p)'
    BY <2>2, <2>3, <2>4 DEF SentSoFar, Written
  <2>6. BookSound(p)'
    <3>1. book[p].filled \in Nat
      BY <2>4 DEF BookOrder, Fold, Unwritten
    <3>2. /\ BookSound(p)
          /\ p = o => broker'[p].filled > broker[p].filled
          /\ broker[p].filled \in Nat /\ broker'[p].filled \in Nat
      BY <2>1, <2>2, <2>3 DEF BrokerOrder
    <3>3. CASE p = o
      BY <2>2, <2>3, <2>4, <3>1, <3>2, <3>3 DEF BookSound, LetGo, OverAtBroker, Sorted
    <3>4. CASE p # o
      BY <2>3, <2>4, <3>2, <3>4 DEF BookSound, LetGo, OverAtBroker, Sorted
    <3> QED BY <3>3, <3>4
  <2> QED BY <2>5, <2>6 DEF OrderSound
<1>2. ASSUME NEW x \in Readers PROVE ReaderSound(x)'
  BY Busy DEF Fill, ReaderSound, HeardStands, Written, SentSoFar, BrokerOrder
<1> QED BY <1>1, <1>2, InvParts

\* Shares that filled before the end, told after.
LEMMA FillLateKeeps ==
  ASSUME IInv, TypeOK', NEW o \in Orders, FillLate(o)
  PROVE  IInv'
<1> USE DEF IInv, TypeOK
<1>1. ASSUME NEW p \in Orders PROVE OrderSound(p)'
  <2>1. PICK n \in broker[o].filled + 1 .. Quantity : broker' = [broker EXCEPT ![o] =
          [@ EXCEPT !.filled = n, !.status = IF n = Quantity THEN "filled" ELSE broker[o].status]]
    BY DEF FillLate
  <2>2. /\ broker[o] \in BrokerOrder /\ n \in Nat /\ n > broker[o].filled
        /\ LateFills /\ broker[o].status \in {"cancelled", "expired"}
    BY DEF FillLate, BrokerOrder
  <2>3. /\ broker'[o].filled = n /\ broker'[o].status \in {"filled", broker[o].status}
        /\ p # o => broker'[p] = broker[p]
    BY <2>1, <2>2 DEF BrokerOrder
  <2>4. UNCHANGED <<book, sender, answer, request, aged>> /\ book[p] \in BookOrder
    BY DEF FillLate
  <2>5. SentSoFar(p)'
    BY <2>2, <2>3, <2>4 DEF SentSoFar, Written
  <2>6. BookSound(p)'
    <3>1. book[p].filled \in Nat
      BY <2>4 DEF BookOrder, Fold, Unwritten
    <3>2. /\ BookSound(p)
          /\ p = o => broker'[p].filled > broker[p].filled
          /\ broker[p].filled \in Nat /\ broker'[p].filled \in Nat
      BY <2>1, <2>2, <2>3 DEF BrokerOrder
    <3>3. CASE p = o
      BY <2>2, <2>3, <2>4, <3>1, <3>2, <3>3 DEF BookSound, LetGo, OverAtBroker, Sorted
    <3>4. CASE p # o
      BY <2>3, <2>4, <3>2, <3>4 DEF BookSound, LetGo, OverAtBroker, Sorted
    <3> QED BY <3>3, <3>4
  <2> QED BY <2>5, <2>6 DEF OrderSound
<1>2. ASSUME NEW x \in Readers PROVE ReaderSound(x)'
  BY Busy DEF FillLate, ReaderSound, HeardStands, Written, SentSoFar, BrokerOrder
<1> QED BY <1>1, <1>2, InvParts

\* An order the broker ends.
LEMMA EndKeeps ==
  ASSUME IInv, TypeOK', NEW o \in Orders, End(o)
  PROVE  IInv'
<1> USE DEF IInv, TypeOK
<1>1. ASSUME NEW p \in Orders PROVE OrderSound(p)'
  BY DEF End, OrderSound, SentSoFar, BookSound, Written, LetGo, OverAtBroker, Sorted, NotSent, Refused, BrokerOrder
<1>2. ASSUME NEW x \in Readers PROVE ReaderSound(x)'
  BY Busy DEF End, ReaderSound, HeardStands, Written, SentSoFar, BrokerOrder
<1> QED BY <1>1, <1>2, InvParts

\* An order grown old.
LEMMA AgeKeeps ==
  ASSUME IInv, TypeOK', NEW o \in Orders, Age(o)
  PROVE  IInv'
<1> USE DEF IInv, TypeOK
<1>1. ASSUME NEW p \in Orders PROVE OrderSound(p)'
  BY DEF Age, OrderSound, SentSoFar, BookSound, Written, LetGo, OverAtBroker, Sorted, NotSent, Refused, SentSoFar
<1>2. ASSUME NEW x \in Readers PROVE ReaderSound(x)'
  BY Busy DEF Age, ReaderSound, HeardStands, Written
<1> QED BY <1>1, <1>2, InvParts

\* A stop of the process.
LEMMA CrashKeeps ==
  ASSUME IInv, TypeOK', Crash
  PROVE  IInv'
<1> USE DEF IInv, TypeOK
<1>1. ASSUME NEW p \in Orders PROVE OrderSound(p)'
  BY DEF Crash, OrderSound, SentSoFar, BookSound, Written, LetGo, OverAtBroker, Sorted, NotSent, Refused
<1>2. ASSUME NEW x \in Readers PROVE ReaderSound(x)'
  BY Busy DEF Crash, ReaderSound, HeardStands, Written, IdleReader
<1> QED BY <1>1, <1>2, InvParts

\* Nothing.
LEMMA StutterKeeps ==
  ASSUME IInv, TypeOK', UNCHANGED vars
  PROVE  IInv'
<1> USE DEF IInv, TypeOK
<1>1. ASSUME NEW p \in Orders PROVE OrderSound(p)'
  BY DEF vars, OrderSound, SentSoFar, BookSound, Written, LetGo, OverAtBroker, Sorted, NotSent, Refused
<1>2. ASSUME NEW x \in Readers PROVE ReaderSound(x)'
  BY Busy DEF vars, ReaderSound, HeardStands, Written
<1> QED BY <1>1, <1>2, InvParts

\* An event recorded on an order, and nothing else but threads moving on: what
\* has to be so for the invariant to be kept is that an order this ends is over
\* at the broker, with what had filled there, and that it brings no other fill.
LEMMA RecordKeeps ==
  ASSUME IInv, TypeOK', NEW o \in Orders, NEW e \in Event_,
         book' = [book EXCEPT ![o] = Apply(@, e)],
         UNCHANGED <<answer, request, aged, broker>>,
         \A p \in Orders : \/ sender'[p] = sender[p]
                           \/ sender[p] = "answered" /\ sender'[p] = "done",
         \A r \in Readers : reader'[r] \in {reader[r], IdleReader},
         e \in Reading_ => e.filled <= broker[o].filled,
         o \in Prompt /\ book[o].state \notin Ended /\ LetGo(o)' =>
           OverAtBroker(o) /\ (~LateFills => book'[o].filled = broker[o].filled)
  PROVE  IInv'
<1> USE DEF IInv, TypeOK
<1> DEFINE g == Apply(book[o], e)
<1>0. book[o] \in BookOrder /\ Sorted(book[o]) /\ broker[o] \in BrokerOrder
  BY DEF BookSound
<1>1. /\ book'[o] = g
      /\ \A p \in Orders : p # o => book'[p] = book[p]
      /\ Sorted(g)
      /\ g.state = "unwritten" <=> book[o].state = "unwritten"
      /\ NeverBack(book[o], g)
      /\ g.filled = book[o].filled \/ (e \in Reading_ /\ g.filled = e.filled)
  BY <1>0, ApplyMoves
<1>2. /\ g.filled \in Nat /\ book[o].filled \in Nat /\ broker[o].filled \in Nat
      /\ g.filled >= book[o].filled /\ g.filled <= broker[o].filled
  <2>1. g \in BookOrder
    BY <1>0, ApplyBook
  <2>2. g.filled \in Nat /\ book[o].filled \in Nat /\ broker[o].filled \in Nat
    BY <1>0, <2>1 DEF BookOrder, Fold, Unwritten, BrokerOrder
  <2> QED BY <1>1, <2>2 DEF BookSound, NeverBack
<1> HIDE DEF g
<1>3. ASSUME NEW p \in Orders PROVE OrderSound(p)'
  <2>1. SentSoFar(p)'
    BY <1>1 DEF SentSoFar, Written, NotSent, Refused
  <2>2. CASE p # o
    BY <1>1, <2>1, <2>2 DEF OrderSound, BookSound, LetGo, OverAtBroker, Sorted
  <2>3. CASE p = o
    <3>1. Sorted(book[p])' /\ book'[p].filled <= broker'[p].filled
      BY <1>1, <1>2, <2>3 DEF Sorted
    <3>2. CASE p \in Prompt /\ LetGo(p)' /\ book[o].state \in Ended
      <4>1. LetGo(o) /\ OverAtBroker(o) /\ (~LateFills => book[o].filled = broker[o].filled)
        BY <2>3, <3>2 DEF LetGo, BookSound
      <4>2. OverAtBroker(p)'
        BY <2>3, <4>1 DEF OverAtBroker
      <4>3. ~LateFills => book'[p].filled = broker'[p].filled
        BY <1>1, <1>2, <2>3, <4>1
      <4> QED BY <2>1, <3>1, <4>2, <4>3 DEF OrderSound, BookSound
    <3>3. CASE p \in Prompt /\ LetGo(p)' /\ book[o].state \notin Ended
      BY <2>1, <2>3, <3>1, <3>3 DEF OrderSound, BookSound, OverAtBroker
    <3>4. CASE ~(p \in Prompt /\ LetGo(p)')
      BY <2>1, <3>1, <3>4 DEF OrderSound, BookSound
    <3> QED BY <3>2, <3>3, <3>4
  <2> QED BY <2>2, <2>3
<1>4. ASSUME NEW x \in Readers PROVE ReaderSound(x)'
  <2>1. CASE reader'[x] = IdleReader
    BY <2>1 DEF ReaderSound, IdleReader
  <2>2. CASE reader'[x] = reader[x] /\ reader[x].at # "idle"
    <3>1. reader[x].order \in Orders /\ HeardStands(x, reader[x].order)
      BY <2>2, Busy
    <3>2. /\ book'[reader[x].order].state \in Unanswered => book[reader[x].order].state \in Unanswered
          /\ Written(reader[x].order)'
      <4>1. CASE reader[x].order = o
        BY <1>1, <2>2, <3>1, <4>1 DEF NeverBack, HeardStands, Written, Unanswered
      <4>2. CASE reader[x].order # o
        BY <1>1, <2>2, <3>1, <4>2 DEF HeardStands, Written
      <4> QED BY <4>1, <4>2
    <3> QED BY <2>2, <3>1, <3>2 DEF ReaderSound, HeardStands
  <2> QED BY <2>1, <2>2 DEF ReaderSound
<1> QED BY <1>3, <1>4, InvParts

\* The answer to a create recorded: an end only when it never got there.
LEMMA RecordAnswerKeeps ==
  ASSUME IInv, TypeOK', NEW o \in Orders, RecordAnswer(o)
  PROVE  IInv'
<1>1. answer[o] \in Answer_ /\ answer[o] \in Event_ /\ answer[o] \notin Reading_
  BY DEF IInv, TypeOK, Answer_, Event_, Reading_, NotSent, Accepted, Refused, Unclear
<1>2. book[o] \in BookOrder /\ Sorted(book[o]) /\ SentSoFar(o) /\ BookSound(o) /\ broker[o] \in BrokerOrder
  BY DEF IInv, TypeOK, BookSound
<1>3. ASSUME book[o].state \notin Ended, LetGo(o)'
      PROVE  OverAtBroker(o) /\ book'[o].filled = broker[o].filled
  <2>1. book'[o] = Apply(book[o], answer[o])
    BY DEF RecordAnswer, IInv, TypeOK
  <2>2. (answer[o] = NotSent \/ answer[o] = Refused) /\ book'[o].filled = book[o].filled
    BY <1>1, <1>2, <1>3, <2>1, ApplyMoves DEF LetGo
  <2>3. broker[o].status = "not-found" /\ broker[o].filled = 0 /\ request[o] # "travelling"
    BY <1>2, <2>2 DEF SentSoFar, RecordAnswer
  <2>4. book[o].filled = 0
    BY <1>2, <2>3 DEF BookSound, BookOrder, Fold, Unwritten
  <2> QED BY <2>2, <2>3, <2>4 DEF OverAtBroker, RecordAnswer
<1>4. \A p \in Orders : \/ sender'[p] = sender[p]
                        \/ sender[p] = "answered" /\ sender'[p] = "done"
  BY DEF RecordAnswer, IInv, TypeOK
<1> QED BY <1>1, <1>3, <1>4, RecordKeeps DEF RecordAnswer

\* A reading recorded, or a "no such order" kept back.
LEMMA RecordReadingKeeps ==
  ASSUME IInv, TypeOK', NEW r \in Readers, RecordReading(r)
  PROVE  IInv'
<1>0. PICK o \in Orders, e \in Event_ :
        o = reader[r].order /\ e = Read(reader[r].status, reader[r].filled)
  BY Busy, ReadType DEF IInv, RecordReading
<1>1. /\ HeardStands(r, o) /\ reader[r].early \in BOOLEAN
      /\ e \in Reading_ /\ e.status = reader[r].status /\ e.filled = reader[r].filled
  BY <1>0, Busy DEF IInv, RecordReading, Read, Reading_
<1>2. book[o] \in BookOrder /\ Sorted(book[o]) /\ SentSoFar(o) /\ BookSound(o) /\ broker[o] \in BrokerOrder
  BY <1>1 DEF IInv, TypeOK, BookSound
<1>3. \A x \in Readers : reader'[x] \in {reader[x], IdleReader}
  BY DEF RecordReading, IInv, TypeOK
<1>4. CASE ~Told(r)
  <2>1. UNCHANGED book
    BY <1>4 DEF RecordReading
  <2>2. ASSUME NEW p \in Orders PROVE OrderSound(p)'
    BY <2>1 DEF RecordReading, IInv, OrderSound, SentSoFar, BookSound, Written, LetGo, OverAtBroker, Sorted
  <2>3. ASSUME NEW x \in Readers PROVE ReaderSound(x)'
    BY <1>3, <2>1 DEF RecordReading, IInv, ReaderSound, HeardStands, Written, IdleReader
  <2> QED BY <2>2, <2>3, InvParts
<1>5. CASE Told(r)
  <2>1. book' = [book EXCEPT ![o] = Apply(@, e)] /\ book'[o] = Apply(book[o], e)
    BY <1>0, <1>5 DEF RecordReading, IInv, TypeOK
  <2>2. reader[r].at = "heard" /\ UNCHANGED <<sender, answer, request, aged, broker>>
    BY DEF RecordReading
  <2>3. ASSUME o \in Prompt, book[o].state \notin Ended, LetGo(o)'
        PROVE  OverAtBroker(o) /\ (~LateFills => book'[o].filled = broker[o].filled)
    <3>1. e # NotSent /\ e # Refused
      BY <1>1 DEF NotSent, Refused, Reading_
    <3>2. CASE e.status \notin {"open", "not-found"} /\ book'[o].filled = e.filled
      <4>1. broker[o].status \notin {"open", "not-found"}
            /\ (~LateFills => book'[o].filled = broker[o].filled)
        BY <1>1, <2>2, <3>2 DEF HeardStands
      <4> QED BY <1>2, <4>1 DEF OverAtBroker, SentSoFar
    <3>3. CASE e.status = "not-found" /\ book[o].state \in Unanswered
      <4>1. ~reader[r].early
        BY <1>1, <1>5, <3>3 DEF Told
      <4>2. o \in aged /\ broker[o].status = "not-found"
        BY <1>1, <2>2, <2>3, <3>3, <4>1 DEF HeardStands
      <4>3. book'[o].filled = book[o].filled /\ book[o].filled = 0 /\ broker[o].filled = 0
        BY <1>1, <1>2, <2>1, <3>3, <4>2, ApplyMoves DEF SentSoFar, BookSound, BookOrder, Fold, Unwritten
      <4> QED BY <1>2, <2>3, <4>2, <4>3 DEF SentSoFar, OverAtBroker
    <3>4. \/ e = NotSent
          \/ e = Refused
          \/ e.status \notin {"open", "not-found"} /\ book'[o].filled = e.filled
          \/ e.status = "not-found" /\ book[o].state \in Unanswered
      BY <1>2, <2>1, <2>3, ApplyMoves DEF LetGo
    <3> QED BY <3>1, <3>2, <3>3, <3>4
  <2>4. e.filled <= broker[o].filled
    BY <1>1, <2>2 DEF HeardStands
  <2> QED BY <1>1, <1>3, <2>1, <2>2, <2>3, <2>4, RecordKeeps
<1> QED BY <1>4, <1>5

\* A cancel recorded as asked, or as refused, ends nothing.
LEMMA CancelEventKeeps ==
  ASSUME IInv, TypeOK', NEW c \in Callers, AskCancel(c) \/ RecordCancelRefused(c)
  PROVE  IInv'
<1>1. PICK o \in Orders : o = caller[c].order
  BY Busy DEF IInv, AskCancel, RecordCancelRefused
<1>2. PICK e \in {CancelAsked, CancelRefused} : book' = [book EXCEPT ![o] = Apply(@, e)]
  BY <1>1 DEF AskCancel, RecordCancelRefused
<1>3. e \in Event_ /\ e \notin Reading_ /\ e # NotSent /\ e # Refused
  BY <1>2 DEF Event_, Reading_, CancelAsked, CancelRefused, NotSent, Refused
<1>4. book[o] \in BookOrder /\ Sorted(book[o]) /\ book'[o] = Apply(book[o], e)
  BY <1>2 DEF IInv, TypeOK, BookSound
<1>5. book[o].state \notin Ended => ~LetGo(o)'
  BY <1>3, <1>4, ApplyMoves DEF LetGo
<1>6. UNCHANGED <<sender, answer, request, aged, broker, reader>>
  BY DEF AskCancel, RecordCancelRefused
<1> QED BY <1>2, <1>3, <1>5, <1>6, RecordKeeps

\* Every step keeps the invariant.
LEMMA InvStep == IInv /\ [Next]_vars => IInv'
<1> SUFFICES ASSUME IInv, [Next]_vars PROVE IInv'
  OBVIOUS
<1>1. TypeOK'
  BY TypeStep DEF IInv
<1>2. ASSUME NEW o \in Orders, Placing(o) PROVE IInv'
  BY <1>1, <1>2, WriteKeeps, SendKeeps, NoSessionKeeps, HearKeeps, RecordAnswerKeeps DEF Placing
<1>3. ASSUME NEW o \in Orders, World(o) PROVE IInv'
  BY <1>1, <1>3, LandKeeps, FillKeeps, EndKeeps, FillLateKeeps, AgeKeeps DEF World
<1>4. ASSUME NEW r \in Readers, Reading(r) PROVE IInv'
  BY <1>1, <1>4, StartReadKeeps, HearReadingKeeps, ReadFailsKeeps, RecordReadingKeeps DEF Reading
<1>5. ASSUME NEW c \in Callers, Cancelling(c) PROVE IInv'
  BY <1>1, <1>5, CheckCancelKeeps, CancelTakenKeeps, CancelTurnedDownKeeps, CancelLostKeeps,
     CancelEventKeeps DEF Cancelling
<1> QED BY <1>1, <1>2, <1>3, <1>4, <1>5, CrashKeeps, StutterKeeps DEF Next

------------------------------------------------------------------------------
(* What follows from it. *)

\* The invariant holds of every state the program reaches.
THEOREM Invariance == Spec => []IInv
<1> QED BY InvInit, InvStep, PTL DEF Spec

\* No stale, repeated or out-of-order reading ever leaves the book with more
\* filled than the broker has (gate.rs `read_back`, order.rs `read`), whatever
\* the broker reports late.
THEOREM NeverAhead == Spec => []BookNeverAhead
<1>1. IInv => BookNeverAhead
  BY DEF IInv, BookSound, BookNeverAhead
<1> QED BY <1>1, Invariance, PTL

\* An order stamped as it was sent, once the book lets go of it, cannot arrive,
\* work or fill at the broker any more (order.rs `is_final`, gate.rs the grace).
THEOREM LetGoSafe == Spec => []LetGoIsOver
<1>1. IInv => LetGoIsOver
  BY DEF IInv, BookSound, LetGoIsOver
<1> QED BY <1>1, Invariance, PTL

\* And where the broker reports no fill after an end, the book then holds
\* exactly what filled.
THEOREM LetGoExact == ASSUME LateFills = FALSE PROVE Spec => []LetGoIsExact
<1>1. IInv => LetGoIsExact
  BY DEF IInv, BookSound, LetGoIsExact
<1> QED BY <1>1, Invariance, PTL

\* No step moves an order of the book back: an answered one never becomes
\* unanswered, an end stays but for the fill that raced it, what has filled
\* never falls (order.rs, `apply` and `read`).
LEMMA StepNeverBack ==
  ASSUME IInv, [Next]_vars, NEW o \in Orders
  PROVE  NeverBack(book[o], book'[o])
<1> USE DEF IInv, TypeOK
<1>0. book[o] \in BookOrder /\ Sorted(book[o])
  BY DEF BookSound
<1>1. NeverBack(book[o], book[o])
  BY <1>0 DEF NeverBack, Sorted, BookOrder, Fold, Unwritten
<1>2. \A e \in Event_ : NeverBack(book[o], Apply(book[o], e))
  BY <1>0, ApplyMoves
<1>3. ASSUME NEW p \in Orders, NEW e \in Event_, book' = [book EXCEPT ![p] = Apply(@, e)]
      PROVE  NeverBack(book[o], book'[o])
  BY <1>1, <1>2, <1>3
<1>4. ASSUME UNCHANGED book PROVE NeverBack(book[o], book'[o])
  BY <1>1, <1>4
<1>5. ASSUME NEW p \in Orders, Placing(p) PROVE NeverBack(book[o], book'[o])
  <2>1. CASE Write(p)
    <3>1. book[p] = Unwritten
      BY <2>1 DEF Write, Written, BookOrder, Fold, OrderState
    <3> QED BY <1>1, <2>1, <3>1 DEF Write, Start, Unwritten, NeverBack, Ended, Unanswered
  <2>2. CASE RecordAnswer(p)
    BY <1>3, <2>2 DEF RecordAnswer, Event_, Answer_
  <2> QED BY <1>4, <1>5, <2>1, <2>2 DEF Placing, Send, NoSession, Hear
<1>6. ASSUME NEW p \in Orders, World(p) PROVE NeverBack(book[o], book'[o])
  BY <1>4, <1>6 DEF World, Land, Fill, End, FillLate, Age
<1>7. ASSUME NEW r \in Readers, Reading(r) PROVE NeverBack(book[o], book'[o])
  <2>1. CASE RecordReading(r)
    <3>1. PICK p \in Orders, e \in Event_ :
            p = reader[r].order /\ e = Read(reader[r].status, reader[r].filled)
      BY <2>1, Busy, ReadType DEF RecordReading
    <3>2. CASE Told(r)
      BY <1>3, <2>1, <3>1, <3>2 DEF RecordReading
    <3>3. CASE ~Told(r)
      BY <1>4, <2>1, <3>3 DEF RecordReading
    <3> QED BY <3>2, <3>3
  <2> QED BY <1>4, <1>7, <2>1 DEF Reading, StartRead, HearReading, ReadFails
<1>8. ASSUME NEW c \in Callers, Cancelling(c) PROVE NeverBack(book[o], book'[o])
  <2>1. CASE AskCancel(c) \/ RecordCancelRefused(c)
    BY <1>3, <2>1, Busy DEF AskCancel, RecordCancelRefused, Event_
  <2> QED BY <1>4, <1>8, <2>1 DEF Cancelling, CheckCancel, CancelTaken, CancelTurnedDown, CancelLost
<1>9. ASSUME Crash \/ UNCHANGED vars PROVE NeverBack(book[o], book'[o])
  BY <1>4, <1>9 DEF Crash, vars
<1> QED BY <1>5, <1>6, <1>7, <1>8, <1>9 DEF Next

\* The action property the runs check, of every behaviour.
THEOREM NeverMovesBack == Spec => MovesNeverBack
<1>1. IInv /\ [Next]_vars => [\A o \in Orders : NeverBack(book[o], book'[o])]_vars
  BY StepNeverBack
<1> QED BY <1>1, Invariance, PTL DEF Spec, MovesNeverBack
==============================================================================
