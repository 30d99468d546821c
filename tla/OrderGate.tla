------------------------------ MODULE OrderGate ------------------------------
(***************************************************************************)
(* The one gate every order request leaves through                         *)
(* (server/src/orders/gate.rs), the read-backs that settle what it could   *)
(* not learn (readback.rs), and the broker at the other end.               *)
(*                                                                         *)
(* Three kinds of thread meet on an order: the one placing it, those that  *)
(* ask for its cancel (the person's, a bracket's, the sweep), and those    *)
(* that read it back (the read-back loop, a bracket's check, a ticket's    *)
(* wait).  None of them holds a lock the others take: each reads the book, *)
(* calls the broker, and records what came back as one event, folded       *)
(* (OrderFold) onto whatever the order has become meanwhile.               *)
(*                                                                         *)
(* A process may stop at any moment; the book is all that survives it.     *)
(***************************************************************************)
EXTENDS OrderFold

CONSTANTS
  Orders,       \* the orders the app places
  Prompt,       \* those whose created_at is the moment they were sent (the
                \* ticket's); an exit's is its check's own `now`, read before
                \* the check's quotes and read-backs were waited for
  Entries,      \* those whose cancel is asked for only while they rest: by the
                \* person, and by a bracket whose stop fired; an exit's cancel
                \* is also asked again while it is not confirmed
  Readers,      \* threads that read orders back
  Callers,      \* threads that ask for cancels
  NoOrder,      \* what an idle thread is working on
  Quantity,     \* the shares of an order
  MaxCrashes,   \* bound: how often the process stops
  LateFills     \* whether the broker may report a fill on an order it has ended

ASSUME GateAssumption ==
  /\ Prompt \subseteq Orders /\ Entries \subseteq Orders
  /\ NoOrder \notin Orders
  /\ Quantity \in Nat \ {0}
  /\ MaxCrashes \in Nat
  /\ LateFills \in BOOLEAN

VARIABLES
  book,      \* the order as the book holds it
  sender,    \* where the thread placing the order stands
  answer,    \* the event the placing thread is about to record
  request,   \* where the create request is
  aged,      \* orders whose created_at is NOT_FOUND_GRACE_SECONDS old
  broker,    \* the order as the broker holds it
  reader,    \* what each read-back is doing
  caller,    \* what each cancel is doing
  asked,     \* orders whose cancel the broker took from this app
  crashes    \* how often the process has stopped

vars == <<book, sender, answer, request, aged, broker, reader, caller, asked, crashes>>

Unwritten == [state |-> "unwritten", broker_id |-> FALSE, filled |-> 0]
BookOrder == Fold \cup {Unwritten}

SenderStep  == {"idle", "written", "waiting", "answered", "done"}
RequestStep == {"unsent", "travelling", "taken", "refused", "lost"}
BrokerOrder == [status : BrokerStatus, filled : 0 .. Quantity, cancelling : BOOLEAN]
IdleReader == [at |-> "idle", order |-> NoOrder, early |-> FALSE, status |-> "not-found", filled |-> 0]
IdleCaller == [at |-> "idle", order |-> NoOrder]

Reader == [at : {"asking", "heard"}, order : Orders,
           early : BOOLEAN, status : BrokerStatus, filled : 0 .. Quantity] \cup {IdleReader}
Caller == [at : {"checked", "calling", "turned-down"}, order : Orders] \cup {IdleCaller}

TypeOK ==
  /\ book \in [Orders -> BookOrder]
  /\ sender \in [Orders -> SenderStep]
  /\ answer \in [Orders -> {NotSent, Accepted, Refused, Unclear}]
  /\ request \in [Orders -> RequestStep]
  /\ aged \subseteq Orders
  /\ broker \in [Orders -> BrokerOrder]
  /\ reader \in [Readers -> Reader]
  /\ caller \in [Callers -> Caller]
  /\ asked \subseteq Orders
  /\ crashes \in 0 .. MaxCrashes

Init ==
  /\ book = [o \in Orders |-> Unwritten]
  /\ sender = [o \in Orders |-> "idle"]
  /\ answer = [o \in Orders |-> Unclear]
  /\ request = [o \in Orders |-> "unsent"]
  /\ aged = {}
  /\ broker = [o \in Orders |-> [status |-> "not-found", filled |-> 0, cancelling |-> FALSE]]
  /\ reader = [r \in Readers |-> IdleReader]
  /\ caller = [c \in Callers |-> IdleCaller]
  /\ asked = {}
  /\ crashes = 0

Written(o) == book[o].state # "unwritten"

\* Marked as being sent by this run, from the mark until the answer is recorded.
BeingSent(o) == sender[o] \in {"waiting", "answered"}


------------------------------------------------------------------------------
(* Placing an order: written, marked, sent once, its answer recorded. *)

\* Written before anything is sent; with orders off it is written dry, and
\* that is all.
Write(o) ==
  /\ ~Written(o)
  /\ \E dry \in BOOLEAN :
       /\ book' = [book EXCEPT ![o] = Start(dry)]
       /\ sender' = [sender EXCEPT ![o] = IF dry THEN "done" ELSE "written"]
  /\ UNCHANGED <<answer, request, aged, broker, reader, caller, asked, crashes>>

\* The mark is set and the create leaves, once.
Send(o) ==
  /\ sender[o] = "written"
  /\ sender' = [sender EXCEPT ![o] = "waiting"]
  /\ request' = [request EXCEPT ![o] = "travelling"]
  /\ UNCHANGED <<book, answer, aged, broker, reader, caller, asked, crashes>>

\* No session to send it with: it never leaves the app.
NoSession(o) ==
  /\ sender[o] = "written"
  /\ sender' = [sender EXCEPT ![o] = "answered"]
  /\ answer' = [answer EXCEPT ![o] = NotSent]
  /\ UNCHANGED <<book, request, aged, broker, reader, caller, asked, crashes>>

\* What came back of the create: the broker's acceptance under its id; its
\* refusal; a status that says nothing was done (401, 403, 429); or nothing the
\* app can tell from (the call ran out of time, a reply of another shape, an
\* acceptance that names no id).
Answers(o) ==
  {Unclear} \cup (CASE request[o] = "taken"      -> {Accepted}
                    [] request[o] = "refused"    -> {Refused}
                    [] request[o] = "lost"       -> {NotSent}
                    [] OTHER                     -> {})

Hear(o) ==
  /\ sender[o] = "waiting"
  /\ sender' = [sender EXCEPT ![o] = "answered"]
  /\ \E e \in Answers(o) : answer' = [answer EXCEPT ![o] = e]
  /\ UNCHANGED <<book, request, aged, broker, reader, caller, asked, crashes>>

\* The answer recorded, and the mark dropped with the call's end.
RecordAnswer(o) ==
  /\ sender[o] = "answered"
  /\ sender' = [sender EXCEPT ![o] = "done"]
  /\ book' = [book EXCEPT ![o] = Apply(@, answer[o])]
  /\ UNCHANGED <<answer, request, aged, broker, reader, caller, asked, crashes>>

------------------------------------------------------------------------------
(* Reading an order back. *)

\* The book is looked at first: a dry order, and one this run is sending now,
\* are left alone.  `early`: the order is unanswered and not yet as old as the
\* grace a "no such order" is given.
StartRead(r, o) ==
  /\ reader[r].at = "idle"
  /\ Written(o)
  /\ book[o].state # "dry"
  /\ ~BeingSent(o)
  /\ reader' = [reader EXCEPT ![r] =
                  [at |-> "asking", order |-> o, status |-> "not-found", filled |-> 0,
                   early |-> book[o].state \in Unanswered /\ o \notin aged]]
  /\ UNCHANGED <<book, sender, answer, request, aged, broker, caller, asked, crashes>>

\* The broker states where the order stands.
HearReading(r) ==
  /\ reader[r].at = "asking"
  /\ reader' = [reader EXCEPT ![r] =
                  [@ EXCEPT !.at = "heard", !.status = broker[reader[r].order].status,
                            !.filled = broker[reader[r].order].filled]]
  /\ UNCHANGED <<book, sender, answer, request, aged, broker, caller, asked, crashes>>

\* The broker could not be asked, or its reply could not be read.
ReadFails(r) ==
  /\ reader[r].at = "asking"
  /\ reader' = [reader EXCEPT ![r] = IdleReader]
  /\ UNCHANGED <<book, sender, answer, request, aged, broker, caller, asked, crashes>>

\* Mutants of the next definition: a "no such order" taken at once, or never.
ToldAtOnce(r) == TRUE
ToldNever(r) == reader[r].status # "not-found"

\* A "no such order" heard within the grace is asked again later; anything else
\* is recorded, onto the order as it stands by now.
Told(r) == ~(reader[r].early /\ reader[r].status = "not-found")

RecordReading(r) ==
  /\ reader[r].at = "heard"
  /\ reader' = [reader EXCEPT ![r] = IdleReader]
  /\ book' = IF Told(r)
             THEN [book EXCEPT ![reader[r].order] = Apply(@, Read(reader[r].status, reader[r].filled))]
             ELSE book
  /\ UNCHANGED <<sender, answer, request, aged, broker, caller, asked, crashes>>

------------------------------------------------------------------------------
(* Asking for a cancel. *)

\* Only an order that rests, or whose cancel is not confirmed, is cancelled;
\* the state is read here and the event recorded after.
Cancellable(o) == book[o].state \in Resting \/ (book[o].state = "cancelling" /\ o \notin Entries)

CheckCancel(c, o) ==
  /\ caller[c].at = "idle"
  /\ Cancellable(o)
  /\ caller' = [caller EXCEPT ![c] = [at |-> "checked", order |-> o]]
  /\ UNCHANGED <<book, sender, answer, request, aged, broker, reader, asked, crashes>>

\* Recorded as asked before it is sent: sent even when the order has moved on
\* since it was checked and the event changes nothing.
AskCancel(c) ==
  /\ caller[c].at = "checked"
  /\ caller' = [caller EXCEPT ![c].at = "calling"]
  /\ book' = [book EXCEPT ![caller[c].order] = Apply(@, CancelAsked)]
  /\ UNCHANGED <<sender, answer, request, aged, broker, reader, asked, crashes>>

\* The broker takes the cancel of a working order it is not cancelling yet,
\* whether or not its answer is heard; the order goes when the broker says so.
CancelTaken(c) ==
  /\ caller[c].at = "calling"
  /\ broker[caller[c].order].status = "open"
  /\ ~broker[caller[c].order].cancelling
  /\ broker' = [broker EXCEPT ![caller[c].order].cancelling = TRUE]
  /\ asked' = asked \cup {caller[c].order}
  /\ caller' = [caller EXCEPT ![c] = IdleCaller]
  /\ UNCHANGED <<book, sender, answer, request, aged, reader, crashes>>

\* Refused by the broker, or never taken by it (no session, too many requests).
CancelTurnedDown(c) ==
  /\ caller[c].at = "calling"
  /\ caller' = [caller EXCEPT ![c].at = "turned-down"]
  /\ UNCHANGED <<book, sender, answer, request, aged, broker, reader, asked, crashes>>

\* The request, or its refusal, is lost: nothing more is recorded.
CancelLost(c) ==
  /\ caller[c].at = "calling"
  /\ caller' = [caller EXCEPT ![c] = IdleCaller]
  /\ UNCHANGED <<book, sender, answer, request, aged, broker, reader, asked, crashes>>

RecordCancelRefused(c) ==
  /\ caller[c].at = "turned-down"
  /\ caller' = [caller EXCEPT ![c] = IdleCaller]
  /\ book' = [book EXCEPT ![caller[c].order] = Apply(@, CancelRefused)]
  /\ UNCHANGED <<sender, answer, request, aged, broker, reader, asked, crashes>>

------------------------------------------------------------------------------
(* The network and the broker. *)

\* The create arrives and the broker works it, or refuses it; or it never
\* arrives.  It may arrive after the app gave up waiting.
Land(o) ==
  /\ request[o] = "travelling"
  /\ \/ /\ request' = [request EXCEPT ![o] = "taken"]
        /\ broker' = [broker EXCEPT ![o].status = "open"]
     \/ /\ \E how \in {"refused", "lost"} : request' = [request EXCEPT ![o] = how]
        /\ UNCHANGED broker
  /\ UNCHANGED <<book, sender, answer, aged, reader, caller, asked, crashes>>

\* Shares fill; the order is filled with the last of them.
Fill(o) ==
  /\ broker[o].status = "open"
  /\ \E n \in broker[o].filled + 1 .. Quantity :
       broker' = [broker EXCEPT ![o] =
         [@ EXCEPT !.filled = n, !.status = IF n = Quantity THEN "filled" ELSE broker[o].status]]
  /\ UNCHANGED <<book, sender, answer, request, aged, reader, caller, asked, crashes>>

\* The broker ends the order with what has filled: cancelled, by the app's
\* asking or its own doing; expired; or rejected after it was taken.
End(o) ==
  /\ broker[o].status = "open"
  /\ \E s \in {"cancelled", "expired", "rejected"} : broker' = [broker EXCEPT ![o].status = s]
  /\ UNCHANGED <<book, sender, answer, request, aged, reader, caller, asked, crashes>>

\* A fill that raced the end is reported after it.
FillLate(o) ==
  /\ LateFills
  /\ broker[o].status \in {"cancelled", "expired"}
  /\ \E n \in broker[o].filled + 1 .. Quantity :
       broker' = [broker EXCEPT ![o] =
         [@ EXCEPT !.filled = n, !.status = IF n = Quantity THEN "filled" ELSE broker[o].status]]
  /\ UNCHANGED <<book, sender, answer, request, aged, reader, caller, asked, crashes>>

\* The order is NOT_FOUND_GRACE_SECONDS old by its created_at.  One stamped as
\* it was sent has left the app by then, and its create has landed: the call is
\* given up after 15 seconds, and the grace is twice that.
Age(o) ==
  /\ Written(o)
  /\ o \notin aged
  /\ o \in Prompt => sender[o] # "written" /\ request[o] # "travelling"
  /\ aged' = aged \cup {o}
  /\ UNCHANGED <<book, sender, answer, request, broker, reader, caller, asked, crashes>>

\* The process stops and is started again: every call under way is gone, and
\* the marks with it; the book and what is on the wire stay.
Crash ==
  /\ crashes < MaxCrashes
  /\ crashes' = crashes + 1
  /\ sender' = [o \in Orders |-> IF sender[o] = "idle" THEN "idle" ELSE "done"]
  /\ reader' = [r \in Readers |-> IdleReader]
  /\ caller' = [c \in Callers |-> IdleCaller]
  /\ UNCHANGED <<book, answer, request, aged, broker, asked>>

------------------------------------------------------------------------------
Placing(o) == Write(o) \/ Send(o) \/ NoSession(o) \/ Hear(o) \/ RecordAnswer(o)
Reading(r) == (\E o \in Orders : StartRead(r, o)) \/ HearReading(r) \/ ReadFails(r) \/ RecordReading(r)
Cancelling(c) ==
  \/ \E o \in Orders : CheckCancel(c, o)
  \/ AskCancel(c) \/ CancelTaken(c) \/ CancelTurnedDown(c) \/ CancelLost(c) \/ RecordCancelRefused(c)
World(o) == Land(o) \/ Fill(o) \/ End(o) \/ FillLate(o) \/ Age(o)

Next ==
  \/ \E o \in Orders : Placing(o) \/ World(o)
  \/ \E r \in Readers : Reading(r)
  \/ \E c \in Callers : Cancelling(c)
  \/ Crash

Spec == Init /\ [][Next]_vars

\* A call ends in one way or another (its timeout sees to it); the read-back
\* loop comes round to every order the broker may still act on, and while there
\* is a connection a read is answered now and then.
Fairness ==
  /\ \A o \in Orders : /\ WF_vars(Send(o) \/ NoSession(o)) /\ WF_vars(Hear(o))
                       /\ WF_vars(RecordAnswer(o)) /\ WF_vars(Land(o)) /\ WF_vars(Age(o))
  /\ \A r \in Readers, o \in Orders :
       /\ SF_vars(book[o].state \in InFlight /\ StartRead(r, o))
       /\ SF_vars(reader[r].order = o /\ HearReading(r))
       /\ WF_vars(RecordReading(r))
  /\ \A c \in Callers : /\ WF_vars(AskCancel(c)) /\ WF_vars(RecordCancelRefused(c))
                        /\ WF_vars(CancelTaken(c) \/ CancelTurnedDown(c) \/ CancelLost(c))

FairSpec == Spec /\ Fairness

------------------------------------------------------------------------------
(* Properties. *)

\* The book never holds more filled than the broker has sold or bought: no
\* stale, repeated or out-of-order read adds a fill (architecture, section 11).
BookNeverAhead == \A o \in Orders : book[o].filled <= broker[o].filled

\* An order the book has let go of, by any of the ways it ends, is over at the
\* broker: it cannot arrive there, work there or fill there any more
\* (`OrderState::is_final`).  The bracket places its next exit on this.
LetGo(o) == book[o].state \in Ended
OverAtBroker(o) == broker[o].status # "open" /\ request[o] # "travelling" /\ sender[o] # "written"
LetGoIsOver == \A o \in Prompt : LetGo(o) => OverAtBroker(o)

\* What the book holds as filled of an order it has let go of is exactly what
\* filled at the broker.
LetGoIsExact == \A o \in Prompt : LetGo(o) => book[o].filled = broker[o].filled

\* The move an event may make on an order, whatever it was read from and however
\* late: answered never becomes unanswered again, an end is final but for the fill
\* that raced it, and what has filled never falls (order.rs, the module's comment:
\* a read older than what is already known never moves the state back).
NeverBack(f, g) ==
  /\ g.filled >= f.filled
  /\ f.broker_id => g.broker_id
  /\ g.state \in Unanswered => f.state \in Unanswered \cup {"unwritten"}
  /\ g.state = "pending" => f.filled = 0
  /\ f.state \in Ended => \/ g.state = f.state
                          \/ f.state \in {"cancelled", "expired"} /\ g.state = "filled"
  /\ f.state = "dry" => g = f
MovesNeverBack == [][\A o \in Orders : NeverBack(book[o], book'[o])]_vars

\* Whatever was lost on the way - the answer, the process, any number of reads -
\* an order that is over at the broker comes to be let go of in the book.
Over(o) == book[o].state \in InFlight /\ OverAtBroker(o) /\ sender[o] \in {"answered", "done"}
Settles == \A o \in Orders : Over(o) ~> LetGo(o)

\* The person is told of an order cancelled at the broker only when the broker
\* cancelled it: one this app's cancel was taken for passes through `cancelling`.
OwnCancelUntold ==
  [][\A o \in asked : book'[o].state = "cancelled" => book[o].state \in {"cancelled", "cancelling"}]_vars

\* "Failed before anything left the app, or the broker has no record of it": an
\* order the book holds as failed never works at the broker, the exits among them.
FailedNeverWorks == \A o \in Orders : book[o].state = "failed" => broker[o].status # "open"

\* The gate, its threads, its lost answers and its restarts are an order that is at risk until it
\* is over and known (OrderPromise).
Stage(o) == CASE book[o].state = "unwritten" -> "unplaced"
              [] book[o].state = "dry"       -> "dry"
              [] book[o].state \in InFlight  -> "at-risk"
              [] book[o].state \in Ended     -> "settled"
Life(o)  == CASE broker[o].status = "open"                   -> "open"
              [] broker[o].status \notin {"open", "not-found"} -> "over"
              [] broker[o].status = "not-found" ->
                   IF request[o] = "travelling" \/ sender[o] \in {"idle", "written"} THEN "away" ELSE "over"
Promise == INSTANCE OrderPromise WITH
  Orders <- Prompt,
  stage <- [o \in Prompt |-> Stage(o)], told <- [o \in Prompt |-> book[o].filled],
  life <- [o \in Prompt |-> Life(o)],   sold <- [o \in Prompt |-> broker[o].filled]
KeepsPromise == Promise!Spec
==============================================================================
