-------------------------- MODULE OrderPromiseProofs --------------------------
(***************************************************************************)
(* The gate keeps its promise: every step of it, its threads, lost answers *)
(* and stops included, is a step of OrderPromise or none at all.           *)
(***************************************************************************)
EXTENDS OrderGateProofs

USE GateAssumption

------------------------------------------------------------------------------
(* The mapping, one order at a time. *)

\* What the promise sees of an order is as it was.
SameView(o) ==
  /\ Stage(o)' = Stage(o)
  /\ Life(o)' = Life(o)
  /\ book'[o].filled = book[o].filled
  /\ broker'[o].filled = broker[o].filled

\* And of every other order.
OnlyIn(o) == \A p \in Prompt : p # o => SameView(p)

\* A step that changes no order's view is none of the promise's.
LEMMA NothingSeen ==
  ASSUME \A o \in Prompt : SameView(o)
  PROVE  UNCHANGED Promise!vars
BY DEF SameView, Promise!vars

\* Each step of the promise, from what it changes in one order's view.
LEMMA SeenPlaced ==
  ASSUME NEW o \in Prompt, OnlyIn(o), Stage(o) = "unplaced",
         \/ Stage(o)' = "at-risk" /\ Life(o)' = Life(o)
         \/ Stage(o)' = "dry" /\ Life(o)' = "over",
         book'[o].filled = book[o].filled, broker'[o].filled = broker[o].filled
  PROVE  Promise!Next
BY DEF OnlyIn, SameView, Promise!Next, Promise!Place

\* The broker has it.
LEMMA SeenArrived ==
  ASSUME NEW o \in Prompt, OnlyIn(o), Stage(o) = "at-risk", Stage(o)' = Stage(o),
         Life(o) = "away", Life(o)' = "open",
         book'[o].filled = book[o].filled, broker'[o].filled = broker[o].filled
  PROVE  Promise!Next
BY DEF OnlyIn, SameView, Promise!Next, Promise!Arrive

\* Shares of it trade.
LEMMA SeenTraded ==
  ASSUME NEW o \in Prompt, OnlyIn(o), Stage(o)' = Stage(o), Life(o) = "open",
         broker[o].filled \in Nat, NEW n \in broker[o].filled + 1 .. Quantity,
         broker'[o].filled = n, Life(o)' = (IF n = Quantity THEN "over" ELSE "open"),
         book'[o].filled = book[o].filled
  PROVE  Promise!Next
BY DEF OnlyIn, SameView, Promise!Next, Promise!Trade

\* It is over at the broker.
LEMMA SeenClosed ==
  ASSUME NEW o \in Prompt, OnlyIn(o), Stage(o)' = Stage(o), Life(o) = "open", Life(o)' = "over",
         book'[o].filled = book[o].filled, broker'[o].filled = broker[o].filled
  PROVE  Promise!Next
BY DEF OnlyIn, SameView, Promise!Next, Promise!Close

\* The book learns of it, and may let go of it.
LEMMA SeenLearnt ==
  ASSUME NEW o \in Prompt, OnlyIn(o), Stage(o) = "at-risk", Life(o)' = Life(o),
         broker'[o].filled = broker[o].filled,
         book'[o].filled \in book[o].filled .. broker[o].filled,
         \/ Stage(o)' = Stage(o)
         \/ Stage(o)' = "settled" /\ Life(o) = "over" /\ book'[o].filled = broker[o].filled
  PROVE  Promise!Next
BY DEF OnlyIn, SameView, Promise!Next, Promise!Learn

\* Orders at risk that are never to arrive any more, several at once.
LEMMA SeenVanished ==
  ASSUME \A o \in Prompt :
           /\ Stage(o)' = Stage(o)
           /\ book'[o].filled = book[o].filled /\ broker'[o].filled = broker[o].filled
           /\ Life(o)' = Life(o) \/ (Stage(o) = "at-risk" /\ Life(o) = "away" /\ Life(o)' = "over")
  PROVE  Promise!Next
<1> DEFINE gone == {o \in Prompt : Life(o)' # Life(o)}
<1>1. gone \in SUBSET {o \in Prompt : Stage(o) = "at-risk" /\ Life(o) = "away"}
  OBVIOUS
<1>2. \A o \in Prompt : Life(o)' = IF o \in gone THEN "over" ELSE Life(o)
  OBVIOUS
<1> HIDE DEF gone
<1>3. Promise!Vanish
  BY <1>1, <1>2 DEF Promise!Vanish
<1> QED BY <1>3 DEF Promise!Next

------------------------------------------------------------------------------
(* What the mapping needs beside the gate's invariant: an order written dry is *)
(* never on its way.                                                          *)

DryStays(o) == book[o].state = "dry" => sender[o] = "done" /\ request[o] = "unsent"
PInv == IInv /\ \A o \in Orders : DryStays(o)

\* No event makes an order dry.
LEMMA ApplyDry ==
  ASSUME NEW b \in BookOrder, NEW e \in Event_, Apply(b, e).state = "dry"
  PROVE  b.state = "dry"
<1>1. CASE e \in Reading_
  BY <1>1 DEF Apply, OnRead, Readable, ReadState, Working, Reading_, BookOrder, Fold, Unwritten,
              OrderState, BrokerStatus, InFlight, Unanswered
<1>2. CASE e \in Answer_ \cup {CancelAsked, CancelRefused}
  BY <1>2, AnswerKind DEF Apply, OnAccepted, Working, BookOrder, Fold, Unwritten, OrderState,
              Unanswered, Resting
<1> QED BY <1>1, <1>2 DEF Event_

\* A step that records an event, or none, on an order of the book.
LEMMA BookStep ==
  ASSUME IInv, [Next]_vars
  PROVE  \/ UNCHANGED book
         \/ \E o \in Orders : Write(o)
         \/ \E o \in Orders, e \in Event_ :
              /\ book' = [book EXCEPT ![o] = Apply(@, e)]
              /\ UNCHANGED <<request, broker>>
              /\ \A p \in Orders : sender'[p] = sender[p] \/ (sender[p] = "answered" /\ sender'[p] = "done")
<1> USE DEF IInv, TypeOK
<1>1. ASSUME NEW o \in Orders, RecordAnswer(o)
      PROVE  /\ answer[o] \in Event_ /\ book' = [book EXCEPT ![o] = Apply(@, answer[o])]
             /\ UNCHANGED <<request, broker>>
             /\ \A p \in Orders : sender'[p] = sender[p] \/ (sender[p] = "answered" /\ sender'[p] = "done")
  BY <1>1 DEF RecordAnswer, Event_, Answer_
<1>2. ASSUME NEW r \in Readers, RecordReading(r)
      PROVE  \/ UNCHANGED book
             \/ \E o \in Orders, e \in Event_ : /\ book' = [book EXCEPT ![o] = Apply(@, e)]
                                              /\ UNCHANGED <<request, broker, sender>>
  <2>1. /\ reader[r].order \in Orders /\ Read(reader[r].status, reader[r].filled) \in Event_
        /\ UNCHANGED <<request, broker, sender>>
    BY <1>2, Busy, ReadType DEF RecordReading
  <2> QED BY <1>2, <2>1 DEF RecordReading
<1>3. ASSUME NEW c \in Callers, AskCancel(c) \/ RecordCancelRefused(c)
      PROVE  \E o \in Orders, e \in Event_ : /\ book' = [book EXCEPT ![o] = Apply(@, e)]
                                           /\ UNCHANGED <<request, broker, sender>>
  <2>1. /\ caller[c].order \in Orders /\ CancelAsked \in Event_ /\ CancelRefused \in Event_
        /\ UNCHANGED <<request, broker, sender>>
    BY <1>3, Busy DEF AskCancel, RecordCancelRefused, Event_
  <2> QED BY <1>3, <2>1 DEF AskCancel, RecordCancelRefused
<1>4. CASE \E o \in Orders : Placing(o)
  BY <1>1, <1>4 DEF Placing, Send, NoSession, Hear
<1>5. CASE \E o \in Orders : World(o)
  BY <1>5 DEF World, Land, Fill, End, FillLate, Age
<1>6. CASE \E r \in Readers : Reading(r)
  BY <1>2, <1>6 DEF Reading, StartRead, HearReading, ReadFails
<1>7. CASE \E c \in Callers : Cancelling(c)
  BY <1>3, <1>7 DEF Cancelling, CheckCancel, CancelTaken, CancelTurnedDown, CancelLost
<1>8. CASE Crash \/ UNCHANGED vars
  BY <1>8 DEF Crash, vars
<1> QED BY <1>4, <1>5, <1>6, <1>7, <1>8 DEF Next

\* A dry order is no thread's any more, and stays so.
LEMMA DryStep ==
  ASSUME PInv, IInv', [Next]_vars, NEW o \in Orders
  PROVE  DryStays(o)'
<1> USE DEF PInv, IInv, TypeOK
<1>1. CASE book[o].state = "dry"
  <2>1. sender[o] = "done" /\ request[o] = "unsent" /\ Written(o)
    BY <1>1 DEF DryStays, Written
  <2>2. sender'[o] = "done" /\ request'[o] = "unsent"
    <3>1. CASE \E p \in Orders : Placing(p)
      BY <2>1, <3>1 DEF Placing, Write, Send, NoSession, Hear, RecordAnswer
    <3>2. CASE \E p \in Orders : World(p)
      BY <2>1, <3>2 DEF World, Land, Fill, End, FillLate, Age
    <3>3. CASE \E r \in Readers : Reading(r)
      BY <2>1, <3>3 DEF Reading, StartRead, HearReading, ReadFails, RecordReading
    <3>4. CASE \E c \in Callers : Cancelling(c)
      BY <2>1, <3>4 DEF Cancelling, CheckCancel, AskCancel, CancelTaken, CancelTurnedDown, CancelLost,
                        RecordCancelRefused
    <3>5. CASE Crash \/ UNCHANGED vars
      BY <2>1, <3>5 DEF Crash, vars
    <3> QED BY <3>1, <3>2, <3>3, <3>4, <3>5 DEF Next
  <2> QED BY <2>2 DEF DryStays
<1>2. CASE book[o].state # "dry" /\ book'[o].state = "dry"
  <2>1. ~\E p \in Orders, e \in Event_ : book' = [book EXCEPT ![p] = Apply(@, e)]
    BY <1>2, ApplyDry
  <2>2. PICK p \in Orders : Write(p)
    BY <1>2, <2>1, BookStep
  <2>3. p = o /\ sender'[o] = "done"
    BY <1>2, <2>2 DEF Write, Start
  <2>4. request'[o] = "unsent"
    BY <2>2, <2>3 DEF Write, SentSoFar
  <2> QED BY <2>3, <2>4 DEF DryStays
<1> QED BY <1>1, <1>2 DEF DryStays

\* Nothing is dry at first.
LEMMA DryInit == Init => \A o \in Orders : DryStays(o)
BY DEF Init, DryStays, Unwritten

\* The gate's invariant with it, of every state the program reaches.
LEMMA PromiseInvariance == Spec => []PInv
<1>1. Init => PInv
  BY InvInit, DryInit DEF PInv
<1>2. PInv /\ [Next]_vars => PInv'
  BY InvStep, DryStep DEF PInv
<1> QED BY <1>1, <1>2, PTL DEF Spec

------------------------------------------------------------------------------
(* Each step of the gate, seen through the mapping. *)

\* The stage of an order, from its state.
LEMMA Stages ==
  ASSUME IInv, NEW o \in Orders
  PROVE  /\ Stage(o) = "unplaced" <=> ~Written(o)
         /\ Stage(o) = "dry" <=> book[o].state = "dry"
         /\ Stage(o) = "at-risk" <=> book[o].state \in InFlight
         /\ Stage(o) = "settled" <=> LetGo(o)
         /\ Stage(o) \in {"unplaced", "dry", "at-risk", "settled"}
<1>1. book[o] \in BookOrder
  BY DEF IInv, TypeOK
<1> QED BY <1>1 DEF Stage, Written, LetGo, BookOrder, Fold, Unwritten, OrderState, InFlight, Ended

\* And where it is.
LEMMA Lives ==
  ASSUME IInv, NEW o \in Orders
  PROVE  /\ Life(o) = "open" <=> broker[o].status = "open"
         /\ Life(o) = "away" <=> /\ broker[o].status = "not-found"
                                /\ (request[o] = "travelling" \/ sender[o] \in {"idle", "written"})
         /\ Life(o) \in {"open", "away", "over"}
<1>1. broker[o].status \in BrokerStatus
  BY DEF IInv, TypeOK, BrokerOrder
<1> DEFINE away == request[o] = "travelling" \/ sender[o] \in {"idle", "written"}
<1>2. broker[o].status = "open" => Life(o) = "open"
  BY DEF Life
<1>3. broker[o].status = "not-found" => Life(o) = IF away THEN "away" ELSE "over"
  BY DEF Life
<1>4. broker[o].status \notin {"open", "not-found"} => Life(o) = "over"
  BY DEF Life
<1> HIDE DEF away
<1>5. /\ Life(o) = "open" <=> broker[o].status = "open"
      /\ Life(o) = "away" <=> (broker[o].status = "not-found" /\ away)
      /\ Life(o) \in {"open", "away", "over"}
  BY <1>2, <1>3, <1>4
<1> QED BY <1>5 DEF away

\* An order let go of is over; and all of it that traded is known, where the broker
\* reports no fill late.
LEMMA SettledIsOver ==
  ASSUME PInv, NEW o \in Prompt, Stage(o) = "settled"
  PROVE  Life(o) = "over" /\ (~LateFills => book[o].filled = broker[o].filled)
<1>1. LetGo(o) /\ OverAtBroker(o) /\ Written(o) /\ SentSoFar(o)
  BY Stages DEF PInv, IInv, BookSound, LetGo, Written, Ended
<1>2. Life(o) = "over"
  BY <1>1, Lives DEF PInv, OverAtBroker, SentSoFar
<1> QED BY <1>1, <1>2 DEF PInv, IInv, BookSound

\* Nothing of an order changes but by an event recorded in the book.
LEMMA LearnStep ==
  ASSUME LateFills = FALSE, PInv, PInv', NEW o \in Orders, NEW e \in Event_,
         book' = [book EXCEPT ![o] = Apply(@, e)],
         UNCHANGED <<request, broker>>,
         \A p \in Orders : sender'[p] = sender[p] \/ (sender[p] = "answered" /\ sender'[p] = "done")
  PROVE  [Promise!Next]_(Promise!vars)
<1> DEFINE g == Apply(book[o], e)
<1>1. /\ book[o] \in BookOrder /\ Sorted(book[o]) /\ book'[o] = g
      /\ \A p \in Orders : p # o => book'[p] = book[p]
  BY DEF PInv, IInv, TypeOK, BookSound
<1>2. \A p \in Orders : Life(p)' = Life(p)
  BY DEF Life
<1>3. \A p \in Prompt : p # o => SameView(p)
  BY <1>1, <1>2 DEF SameView, Stage
<1>4. NeverBack(book[o], g) /\ (g.state = "unwritten" <=> book[o].state = "unwritten")
  BY <1>1, ApplyMoves
<1> HIDE DEF g
<1>5. CASE o \notin Prompt
  BY <1>3, <1>5, NothingSeen
<1>6. CASE o \in Prompt /\ Stage(o) \in {"unplaced", "dry"}
  <2>1. g = book[o]
    <3>1. CASE Stage(o) = "unplaced"
      <4>1. book[o] = Unwritten
        BY <1>1, <3>1, Stages DEF PInv, Written, BookOrder, Fold, OrderState
      <4> QED BY <4>1, ApplyUnwritten DEF g
    <3>2. CASE Stage(o) = "dry"
      BY <1>4, <3>2, Stages DEF PInv, NeverBack
    <3> QED BY <1>6, <3>1, <3>2
  <2>2. SameView(o)
    BY <1>1, <1>2, <2>1 DEF SameView, Stage
  <2> QED BY <1>3, <2>2, NothingSeen
<1>7. CASE o \in Prompt /\ Stage(o) = "settled"
  <2>1. LetGo(o) /\ LetGo(o)' /\ Stage(o)' = "settled"
    BY <1>1, <1>4, <1>7, Stages DEF PInv, LetGo, NeverBack, Stage, Ended, InFlight
  <2>2. book[o].filled = broker[o].filled /\ book'[o].filled = broker'[o].filled
    BY <1>7, <2>1 DEF PInv, IInv, BookSound
  <2>3. SameView(o)
    BY <1>2, <1>7, <2>1, <2>2 DEF SameView
  <2> QED BY <1>3, <2>3, NothingSeen
<1>8. CASE o \in Prompt /\ Stage(o) = "at-risk"
  <2>1. /\ book'[o].filled \in Nat /\ book[o].filled \in Nat /\ broker[o].filled \in Nat
        /\ book'[o].filled >= book[o].filled /\ book'[o].filled <= broker[o].filled
    BY <1>1, <1>4 DEF PInv, IInv, TypeOK, BookSound, BookOrder, Fold, Unwritten, BrokerOrder, NeverBack
  <2>2. \/ (book'[o].state \in InFlight /\ Stage(o)' = "at-risk")
        \/ (book'[o].state \in Ended /\ Stage(o)' = "settled")
    <3>1. book[o].state \in InFlight
      BY <1>8, Stages DEF PInv
    <3>2. g.state # "dry" /\ g.state # "unwritten" /\ book'[o] \in BookOrder
      BY <1>1, <1>4, <3>1, ApplyDry DEF g, InFlight, PInv, IInv, TypeOK
    <3> QED BY <1>1, <3>2 DEF Stage, BookOrder, Fold, Unwritten, OrderState, InFlight, Ended
  <2>3. Stage(o)' = "settled" => Life(o) = "over" /\ book'[o].filled = broker[o].filled
    <3> HAVE Stage(o)' = "settled"
    <3>1. LetGo(o)'
      BY <2>2 DEF LetGo
    <3>2. OverAtBroker(o)' /\ book'[o].filled = broker'[o].filled /\ SentSoFar(o)' /\ Written(o)'
      BY <1>8, <3>1 DEF PInv, IInv, BookSound, LetGo, Ended, Written
    <3>3. Life(o)' = "over"
      BY <3>2 DEF Life, OverAtBroker, SentSoFar
    <3> QED BY <1>2, <3>2, <3>3
  <2>4. book'[o].filled \in book[o].filled .. broker[o].filled /\ broker'[o].filled = broker[o].filled
    BY <2>1
  <2>5. Stage(o)' = Stage(o) \/ (Stage(o)' = "settled" /\ Life(o) = "over" /\ book'[o].filled = broker[o].filled)
    BY <1>8, <2>2, <2>3
  <2> QED BY <1>2, <1>3, <1>8, <2>4, <2>5, SeenLearnt DEF OnlyIn
<1> QED BY <1>5, <1>6, <1>7, <1>8, Stages DEF PInv

\* An order whose create has yet to leave, or is on its way, is at risk and away.
LEMMA OnItsWay ==
  ASSUME PInv, NEW o \in Prompt, sender[o] = "written" \/ request[o] = "travelling"
  PROVE  Stage(o) = "at-risk" /\ Life(o) = "away" /\ broker[o].status = "not-found"
<1>1. /\ SentSoFar(o) /\ BookSound(o) /\ DryStays(o)
      /\ book[o] \in BookOrder /\ request[o] \in RequestStep
  BY DEF PInv, IInv, TypeOK
<1>2. Written(o) /\ broker[o].status = "not-found"
  BY <1>1 DEF SentSoFar
<1>3. ~LetGo(o) /\ book[o].state # "dry"
  BY <1>1 DEF BookSound, OverAtBroker, DryStays
<1> QED BY <1>2, <1>3, Stages, Lives DEF PInv

\* An order open at the broker has neither its create to send nor on its way.
LEMMA WorkingThere ==
  ASSUME PInv, NEW o \in Orders, broker[o].status # "not-found"
  PROVE  request[o] = "taken" /\ sender[o] \notin {"idle", "written"}
BY DEF PInv, IInv, SentSoFar

\* A step that leaves the book and the broker alone, and with them where each order is.
LEMMA QuietStep ==
  ASSUME UNCHANGED <<book, broker>>, \A o \in Prompt : Life(o)' = Life(o)
  PROVE  [Promise!Next]_(Promise!vars)
<1>1. \A o \in Prompt : SameView(o)
  BY DEF SameView, Stage
<1> QED BY <1>1, NothingSeen

\* Where an order the broker does not hold is, before a step and after it.
LEMMA LifeAway ==
  ASSUME NEW o, broker[o].status = "not-found"
  PROVE  Life(o) = IF request[o] = "travelling" \/ sender[o] \in {"idle", "written"} THEN "away" ELSE "over"
BY DEF Life

\* The same after a step.
LEMMA LifeNext ==
  ASSUME NEW o, broker'[o].status = "not-found"
  PROVE  Life(o)' = IF request'[o] = "travelling" \/ sender'[o] \in {"idle", "written"} THEN "away" ELSE "over"
BY DEF Life

\* The stage of an order just written, or not yet.
LEMMA StageNow ==
  ASSUME NEW o, book[o].state = "unwritten"
  PROVE  Stage(o) = "unplaced"
BY DEF Stage, InFlight, Ended

\* The stage the first event puts an order in.
LEMMA StageNext ==
  ASSUME NEW o
  PROVE  /\ book'[o].state = "dry" => Stage(o)' = "dry"
         /\ book'[o].state = "sending" => Stage(o)' = "at-risk"
<1>1. book'[o].state = "dry" => Stage(o)' = "dry"
  BY DEF Stage, InFlight, Ended
<1>2. book'[o].state = "sending" => Stage(o)' = "at-risk"
  BY DEF Stage, InFlight, Ended
<1> QED BY <1>1, <1>2

\* The order is handed over.
LEMMA WriteSeen ==
  ASSUME PInv, NEW o \in Orders, Write(o)
  PROVE  [Promise!Next]_(Promise!vars)
<1> USE DEF PInv, IInv, TypeOK
<1>1. /\ sender[o] = "idle" /\ request[o] = "unsent" /\ broker[o].status = "not-found"
      /\ book[o].filled = 0
  BY DEF Write, Written, SentSoFar, BookSound, BrokerOrder, BookOrder, Fold, Unwritten, OrderState
<1>2. UNCHANGED <<request, broker>>
  BY DEF Write
<1>3. PICK dry \in BOOLEAN : /\ book' = [book EXCEPT ![o] = Start(dry)]
                            /\ sender' = [sender EXCEPT ![o] = IF dry THEN "done" ELSE "written"]
  BY DEF Write
<1>4. \A p \in Prompt : p # o => SameView(p)
  BY <1>2, <1>3 DEF SameView, Stage, Life
<1>5. CASE o \notin Prompt
  BY <1>4, <1>5, NothingSeen
<1>6. CASE o \in Prompt
  <2>1. Stage(o) = "unplaced" /\ Life(o) = "away"
    BY <1>1, Stages, Lives DEF Write
  <2>2. book'[o].filled = book[o].filled /\ broker'[o].filled = broker[o].filled
    BY <1>1, <1>2, <1>3 DEF Start
  <2>3. CASE dry
    <3>1. book'[o].state = "dry" /\ sender'[o] = "done"
      BY <1>3, <2>3 DEF Start
    <3>2. broker'[o].status = "not-found" /\ request'[o] = "unsent"
      BY <1>1, <1>2
    <3>3. Stage(o)' = "dry"
      BY <3>1, StageNext
    <3>4. Life(o)' = "over"
      BY <3>1, <3>2, LifeNext
    <3> QED BY <1>4, <1>6, <2>1, <2>2, <3>3, <3>4, SeenPlaced DEF OnlyIn
  <2>4. CASE ~dry
    <3>1. book'[o].state = "sending" /\ sender'[o] = "written"
      BY <1>3, <2>4 DEF Start
    <3>2. broker'[o].status = "not-found"
      BY <1>1, <1>2
    <3>3. Stage(o)' = "at-risk"
      BY <3>1, StageNext
    <3>4. Life(o)' = "away"
      BY <3>1, <3>2, LifeNext
    <3> QED BY <1>4, <1>6, <2>1, <2>2, <3>3, <3>4, SeenPlaced DEF OnlyIn
  <2> QED BY <2>3, <2>4
<1> QED BY <1>5, <1>6

\* The rest of placing it: sent, or never to be; the answer heard, and recorded.
LEMMA PlacingSeen ==
  ASSUME LateFills = FALSE, PInv, PInv', NEW o \in Orders, Placing(o)
  PROVE  [Promise!Next]_(Promise!vars)
<1> USE DEF PInv, IInv, TypeOK
<1>1. CASE Write(o)
  BY <1>1, WriteSeen
<1>2. CASE Send(o)
  <2>1. \A p \in Prompt : Life(p)' = Life(p)
    BY <1>2 DEF Send, Life
  <2> QED BY <1>2, <2>1, QuietStep DEF Send
<1>3. CASE NoSession(o)
  <2>1. \A p \in Prompt : p # o => SameView(p)
    BY <1>3 DEF NoSession, SameView, Stage, Life
  <2>2. CASE o \notin Prompt
    BY <2>1, <2>2, NothingSeen
  <2>3. CASE o \in Prompt
    <3>1. Stage(o) = "at-risk" /\ Life(o) = "away" /\ broker[o].status = "not-found"
      BY <1>3, <2>3, OnItsWay DEF NoSession
    <3>2. sender'[o] = "answered" /\ request'[o] = "unsent" /\ UNCHANGED <<book, broker>>
      BY <1>3 DEF NoSession, SentSoFar
    <3>3. Stage(o)' = Stage(o) /\ Life(o)' = "over"
      BY <3>1, <3>2 DEF Stage, Life
    <3> QED BY <2>1, <2>3, <3>1, <3>2, <3>3, SeenVanished DEF SameView
  <2> QED BY <2>2, <2>3
<1>4. CASE Hear(o)
  <2>1. \A p \in Prompt : Life(p)' = Life(p)
    BY <1>4 DEF Hear, Life
  <2> QED BY <1>4, <2>1, QuietStep DEF Hear
<1>5. CASE RecordAnswer(o)
  <2>1. /\ answer[o] \in Event_ /\ book' = [book EXCEPT ![o] = Apply(@, answer[o])]
        /\ UNCHANGED <<request, broker>>
        /\ \A p \in Orders : sender'[p] = sender[p] \/ (sender[p] = "answered" /\ sender'[p] = "done")
    BY <1>5 DEF RecordAnswer, Event_, Answer_
  <2> HIDE DEF PInv
  <2> QED BY <2>1, LearnStep
<1> QED BY <1>1, <1>2, <1>3, <1>4, <1>5 DEF Placing

\* The create lands or is lost; shares fill; the order ends.
LEMMA WorldSeen ==
  ASSUME LateFills = FALSE, PInv, NEW o \in Orders, World(o)
  PROVE  [Promise!Next]_(Promise!vars)
<1> USE DEF PInv, IInv, TypeOK
<1>1. CASE Land(o)
  <2>1. \A p \in Prompt : p # o => SameView(p)
    BY <1>1 DEF Land, SameView, Stage, Life
  <2>2. CASE o \notin Prompt
    BY <2>1, <2>2, NothingSeen
  <2>3. CASE o \in Prompt
    <3>1. Stage(o) = "at-risk" /\ Life(o) = "away" /\ broker[o].status = "not-found"
      BY <1>1, <2>3, OnItsWay DEF Land
    <3>2. /\ Stage(o)' = Stage(o) /\ book'[o].filled = book[o].filled
          /\ broker'[o].filled = broker[o].filled
      BY <1>1 DEF Land, Stage, BrokerOrder
    <3>3. sender[o] \notin {"idle", "written"} /\ sender' = sender
      BY <1>1 DEF Land, SentSoFar
    <3>4. \/ broker'[o].status = "open"
          \/ broker'[o].status = "not-found" /\ request'[o] # "travelling"
      BY <1>1, <3>1 DEF Land, BrokerOrder
    <3>5. Life(o)' = "open" \/ Life(o)' = "over"
      BY <3>3, <3>4 DEF Life
    <3>6. CASE Life(o)' = "open"
      BY <2>1, <2>3, <3>1, <3>2, <3>6, SeenArrived DEF OnlyIn
    <3>7. CASE Life(o)' = "over"
      BY <2>1, <2>3, <3>1, <3>2, <3>7, SeenVanished DEF SameView
    <3> QED BY <3>5, <3>6, <3>7
  <2> QED BY <2>2, <2>3
<1>2. CASE Fill(o)
  <2>1. \A p \in Prompt : p # o => SameView(p)
    BY <1>2 DEF Fill, SameView, Stage, Life
  <2>2. CASE o \notin Prompt
    BY <2>1, <2>2, NothingSeen
  <2>3. CASE o \in Prompt
    <3>1. broker[o].filled \in Nat /\ Life(o) = "open"
      BY <1>2 DEF Fill, Life, BrokerOrder
    <3>2. PICK n \in broker[o].filled + 1 .. Quantity :
            /\ broker'[o].filled = n
            /\ broker'[o].status = IF n = Quantity THEN "filled" ELSE "open"
      BY <1>2 DEF Fill, BrokerOrder
    <3>3. Stage(o)' = Stage(o) /\ book'[o].filled = book[o].filled
      BY <1>2 DEF Fill, Stage
    <3>4. Life(o)' = IF n = Quantity THEN "over" ELSE "open"
      BY <3>2 DEF Life
    <3>5. OnlyIn(o)
      BY <2>1 DEF OnlyIn
    <3> QED BY <2>3, <3>1, <3>2, <3>3, <3>4, <3>5, SeenTraded
  <2> QED BY <2>2, <2>3
<1>3. CASE End(o)
  <2>1. \A p \in Prompt : p # o => SameView(p)
    BY <1>3 DEF End, SameView, Stage, Life
  <2>2. CASE o \notin Prompt
    BY <2>1, <2>2, NothingSeen
  <2>3. CASE o \in Prompt
    <3>1. /\ Life(o) = "open" /\ Stage(o)' = Stage(o)
          /\ book'[o].filled = book[o].filled /\ broker'[o].filled = broker[o].filled
      BY <1>3 DEF End, Life, Stage, BrokerOrder
    <3>2. broker'[o].status \in {"cancelled", "expired", "rejected"}
      BY <1>3 DEF End, BrokerOrder
    <3>3. Life(o)' = "over"
      BY <3>2 DEF Life
    <3> QED BY <2>1, <2>3, <3>1, <3>3, SeenClosed DEF OnlyIn
  <2> QED BY <2>2, <2>3
<1>4. CASE Age(o)
  <2>1. \A p \in Prompt : Life(p)' = Life(p)
    BY <1>4 DEF Age, Life
  <2> QED BY <1>4, <2>1, QuietStep DEF Age
<1> QED BY <1>1, <1>2, <1>3, <1>4 DEF World, FillLate

\* An order read back.
LEMMA ReadingSeen ==
  ASSUME LateFills = FALSE, PInv, PInv', NEW r \in Readers, Reading(r)
  PROVE  [Promise!Next]_(Promise!vars)
<1>1. UNCHANGED <<request, sender, broker>>
  BY DEF Reading, StartRead, HearReading, ReadFails, RecordReading
<1>2. CASE UNCHANGED book
  BY <1>1, <1>2, QuietStep DEF Life
<1>3. CASE RecordReading(r) /\ Told(r)
  <2>1. /\ reader[r].order \in Orders /\ Read(reader[r].status, reader[r].filled) \in Event_
        /\ book' = [book EXCEPT ![reader[r].order] = Apply(@, Read(reader[r].status, reader[r].filled))]
    BY <1>3, Busy, ReadType DEF RecordReading, PInv, IInv
  <2> QED BY <1>1, <2>1, LearnStep
<1> QED BY <1>2, <1>3 DEF Reading, StartRead, HearReading, ReadFails, RecordReading

\* A cancel asked for.
LEMMA CancellingSeen ==
  ASSUME LateFills = FALSE, PInv, PInv', NEW c \in Callers, Cancelling(c)
  PROVE  [Promise!Next]_(Promise!vars)
<1>1. UNCHANGED <<request, sender>>
  BY DEF Cancelling, CheckCancel, AskCancel, CancelTaken, CancelTurnedDown, CancelLost, RecordCancelRefused
<1>2. CASE AskCancel(c) \/ RecordCancelRefused(c)
  <2>1. /\ caller[c].order \in Orders /\ CancelAsked \in Event_ /\ CancelRefused \in Event_
        /\ UNCHANGED broker
    BY <1>2, Busy DEF AskCancel, RecordCancelRefused, Event_, PInv, IInv
  <2>2. \E e \in Event_ : book' = [book EXCEPT ![caller[c].order] = Apply(@, e)]
    BY <1>2, <2>1 DEF AskCancel, RecordCancelRefused
  <2> QED BY <1>1, <2>1, <2>2, LearnStep
<1>3. CASE CancelTaken(c)
  <2>1. /\ UNCHANGED book
        /\ \A o \in Orders : broker'[o].status = broker[o].status /\ broker'[o].filled = broker[o].filled
    BY <1>3 DEF CancelTaken, PInv, IInv, TypeOK, BrokerOrder
  <2>2. \A o \in Prompt : SameView(o)
    BY <1>1, <2>1 DEF SameView, Stage, Life
  <2> QED BY <2>2, NothingSeen
<1>4. CASE UNCHANGED <<book, broker>>
  BY <1>1, <1>4, QuietStep DEF Life
<1> QED BY <1>2, <1>3, <1>4 DEF Cancelling, CheckCancel, CancelTurnedDown, CancelLost

\* The process stops: what it had yet to send is never to arrive.
LEMMA CrashSeen ==
  ASSUME PInv, Crash
  PROVE  [Promise!Next]_(Promise!vars)
<1> USE DEF PInv, IInv, TypeOK
<1>1. /\ UNCHANGED <<book, broker, request>>
      /\ \A o \in Orders : sender'[o] = IF sender[o] = "idle" THEN "idle" ELSE "done"
  BY DEF Crash
<1>2. ASSUME NEW o \in Prompt
      PROVE  Life(o)' = Life(o) \/ (Stage(o) = "at-risk" /\ Life(o) = "away" /\ Life(o)' = "over")
  <2>1. CASE sender[o] = "written"
    <3>1. Stage(o) = "at-risk" /\ Life(o) = "away" /\ broker[o].status = "not-found"
      BY <2>1, OnItsWay
    <3>2. Life(o)' = "over" \/ Life(o)' = "away"
      BY <1>1, <3>1 DEF Life
    <3> QED BY <3>1, <3>2
  <2>2. CASE sender[o] # "written"
    <3>1. sender'[o] \in {"idle", "written"} <=> sender[o] \in {"idle", "written"}
      BY <1>1, <2>2
    <3> QED BY <1>1, <3>1 DEF Life
  <2> QED BY <2>1, <2>2
<1>3. \A o \in Prompt : Stage(o)' = Stage(o) /\ book'[o].filled = book[o].filled
                        /\ broker'[o].filled = broker[o].filled
  BY <1>1 DEF Stage
<1> HIDE DEF PInv, IInv, TypeOK
<1> QED BY <1>2, <1>3, SeenVanished

------------------------------------------------------------------------------
\* Every step of the gate is a step of the promise, or none.
LEMMA StepSeen ==
  ASSUME LateFills = FALSE, PInv, PInv', [Next]_vars
  PROVE  [Promise!Next]_(Promise!vars)
<1>1. CASE UNCHANGED vars
  BY <1>1, QuietStep DEF vars, Life
<1> QED BY <1>1, PlacingSeen, WorldSeen, ReadingSeen, CancellingSeen, CrashSeen DEF Next

\* What the gate starts from is what the promise starts from.
LEMMA InitSeen == Init => Promise!Init
<1> SUFFICES ASSUME Init PROVE Promise!Init
  OBVIOUS
<1>1. \A o \in Prompt : /\ book[o].state = "unwritten" /\ book[o].filled = 0 /\ sender[o] = "idle"
                       /\ broker[o].status = "not-found" /\ broker[o].filled = 0
  BY DEF Init, Unwritten
<1>2. \A o \in Prompt : Stage(o) = "unplaced" /\ Life(o) = "away"
  BY <1>1, LifeAway, StageNow
<1> QED BY <1>1, <1>2 DEF Promise!Init

\* Where the broker reports no fill on an order it has ended, the gate with its
\* threads, lost answers, late readings and restarts implements the promise the
\* brackets, the tickets and the pages count on: an order is at risk from the
\* moment it is handed over until it is over and all it traded is known, and it
\* trades at most its quantity (gate.rs `place`, `read_back`, `cancel`).
THEOREM KeepsItsPromise == ASSUME LateFills = FALSE PROVE Spec => KeepsPromise
<1>1. Init => Promise!Init
  BY InitSeen
<1>2. PInv /\ PInv' /\ [Next]_vars => [Promise!Next]_(Promise!vars)
  BY StepSeen
<1> QED BY <1>1, <1>2, PromiseInvariance, PTL DEF Spec, KeepsPromise, Promise!Spec
==============================================================================
