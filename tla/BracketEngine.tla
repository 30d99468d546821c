---------------------------- MODULE BracketEngine ----------------------------
(***************************************************************************)
(* One bracket at work (server/src/orders/brackets.rs): the engine's check *)
(* that takes the steps the rules decide (BracketRules), the gate each     *)
(* request leaves through, the read-backs, the sweep for exits nothing     *)
(* holds, the person at the Orders panel, and the broker.                  *)
(*                                                                         *)
(* A check runs under the bracket's lock, and so does what the person asks *)
(* of the bracket: one of them at a time, `check`.  Read-backs, the sweep, *)
(* the market and the broker do not wait for it.  Order 0 is the entry,    *)
(* the others are the bracket's exits.                                     *)
(*                                                                         *)
(* A read-back is one step here and a create has landed, or not, when it   *)
(* is sent: what a reading recorded late or a create on the wire does to   *)
(* an order is OrderGate's subject.                                        *)
(***************************************************************************)
EXTENDS BracketRules, FiniteSets

CONSTANTS
  Exits,        \* the exits there is room for; one over and done with makes room
  Quantity,     \* the shares the entry buys
  FillPrice,    \* what they are bought at
  Stops,        \* the stop legs the bracket may have, Targets its targets: the
  Targets,      \*   first choice, and what the person may change them to
  Tapes,        \* the prices the market may show
  Keys,         \* how things may stand for a refusal
  Refusals,     \* the ways a create may fail: the classes of RefusalClass
  RefusedRoles, \* the roles whose creates may fail so
  MayCap,       \* whether the bracket may come to the cap of its minute
  MayLapse,     \* whether the broker may let an exit lapse, or end one itself
  MayAdjust,    \* whether the person changes the legs, or cancels the bracket
  HandPrices,   \* the prices the person may move an exit to at the broker itself
  LostChanges,  \* whether a change of an exit may go unanswered and unmade
  LostCancels,  \* whether a cancel may go unanswered and never get there
  LostReads,    \* whether a check's read-backs may go unanswered
  MaxSteps,     \* steps a check takes at most
  MaxCrashes    \* bound: how often the process stops

Entry  == 0
Orders == {Entry} \cup Exits

ASSUME EngineAssumption ==
  /\ Exits \subseteq Nat \ {0} /\ IsFiniteSet(Exits)
  /\ Quantity \in Nat \ {0} /\ MaxCrashes \in Nat /\ MaxSteps \in Nat
  /\ FillPrice \in Nat /\ Targets \subseteq Nat /\ HandPrices \subseteq Nat \ {0}
  /\ Stops \subseteq [level : Nat, trail : Nat, high : Nat] /\ Tapes \subseteq [last : Nat, bid : Nat]
  /\ Refusals \subseteq RefusalClass /\ RefusedRoles \subseteq ExitRole
  /\ {MayCap, MayLapse, MayAdjust, LostChanges, LostCancels, LostReads} \subseteq BOOLEAN

VARIABLES
  bracket,   \* the bracket as the book holds it
  order,     \* each order as the book holds it
  broker,    \* each order as the broker holds it
  tape,      \* what the market shows
  key,       \* how things stand
  check,     \* the check, or what the person asked, under the bracket's lock
  sold,      \* how many shares the bracket's exits have sold
  crashes    \* how often the process has stopped

vars == <<bracket, order, broker, tape, key, check, sold, crashes>>

Unused     == [fold |-> [state |-> "unwritten", broker_id |-> FALSE, filled |-> 0],
               asked |-> FALSE, price |-> 0, quantity |-> 0]
NotThere   == [status |-> "not-found", filled |-> 0, cancelling |-> FALSE,
               role |-> "none", price |-> 0, quantity |-> 0]
Open(role, price, quantity) ==
  [NotThere EXCEPT !.status = "open", !.role = role, !.price = price, !.quantity = quantity]
Idle == [at |-> "idle", by |-> "engine", tape |-> NoTape, request |-> NoRequest, id |-> 0, steps |-> 0]

CheckStep == {"idle", "reading", "deciding", "sending", "placing", "answered", "cancelling"}

TypeOK ==
  /\ bracket.phase \in Phase /\ bracket.role \in ExitRole \cup {"none"}
  /\ bracket.exit \in Exits \cup {NoOne} /\ (HasExit(bracket) <=> bracket.role # "none")
  /\ bracket.quantity \in Int /\ bracket.entry_filled \in 0 .. Quantity
  /\ \A o \in Orders :
       /\ order[o].fold \in Fold \/ order[o].fold.state = "unwritten"
       /\ broker[o].status \in BrokerStatus /\ broker[o].filled \in 0 .. broker[o].quantity
  /\ tape \in Tapes /\ key \in Keys
  /\ check.at \in CheckStep /\ check.steps \in 0 .. MaxSteps + 1
  /\ sold \in Nat /\ crashes \in 0 .. MaxCrashes

\* The entry rests at the broker, its bracket written with it.
Init ==
  /\ \E stop \in Stops, target \in Targets :
       /\ stop # NoLeg \/ target # 0
       /\ bracket = Created(Quantity, stop, target)
  /\ order = [o \in Orders |-> IF o = Entry THEN [Unused EXCEPT !.fold = [state |-> "pending", broker_id |-> TRUE, filled |-> 0]]
                               ELSE Unused]
  /\ broker = [o \in Orders |-> IF o = Entry THEN Open("entry", FillPrice, Quantity) ELSE NotThere]
  /\ tape \in Tapes /\ key \in Keys
  /\ check = Idle
  /\ sold = 0 /\ crashes = 0

State(o) == order[o].fold.state

\* The exit the bracket holds, as the broker last stated it (`exit_of`).
ExitOf ==
  IF ~HasExit(bracket) THEN NoExit
  ELSE [id |-> bracket.exit, role |-> bracket.role, fold |-> order[bracket.exit].fold,
        cancel_asked |-> order[bracket.exit].asked,
        price |-> order[bracket.exit].price, quantity |-> order[bracket.exit].quantity]

\* The classes the broker's words for a refusal may be in.
Words == Refusals \ {"no-answer"}

SeenWith(shown, waited, lapses, class) ==
  [tape |-> shown, entry |-> order[Entry].fold, entry_id |-> Entry, fill_price |-> FillPrice,
   exit |-> ExitOf, closed |-> FALSE, key |-> key, selling |-> FALSE,
   waited |-> waited, lapses |-> lapses, class |-> class]

------------------------------------------------------------------------------
(* The check: steps until there is nothing to do or a request is out. *)

\* The tick lists the live brackets and reads the quotes; `shown` is what it has of
\* the market, nothing when the quote was not read or is not current.
Look(shown) ==
  /\ check.at = "idle" /\ Live(bracket)
  /\ check' = [Idle EXCEPT !.at = "reading", !.tape = shown]
  /\ UNCHANGED <<bracket, order, broker, tape, key, sold, crashes>>

\* The order as a read-back leaves it: the broker's word applied, and what it states
\* of the order kept.
ReadOrder(o) ==
  LET b == broker[o]
      read == [order[o] EXCEPT !.fold = Apply(@, Read(b.status, b.filled))]
  IN  IF b.status = "not-found" THEN read
      ELSE [read EXCEPT !.price = IF b.price > 0 THEN b.price ELSE @, !.quantity = b.quantity]

\* What the bracket waits on is read from the broker first: the entry and the exit
\* it holds, while they are in flight.
Awaited == {o \in {Entry, bracket.exit} : State(o) \in InFlight}

ReadFirst ==
  /\ check.at = "reading"
  /\ \E read \in IF LostReads THEN SUBSET Awaited ELSE {Awaited} :
       order' = [o \in Orders |-> IF o \in read THEN ReadOrder(o) ELSE order[o]]
  /\ check' = [check EXCEPT !.at = "deciding"]
  /\ UNCHANGED <<bracket, broker, tape, key, sold, crashes>>

\* A step recorded, and what it asks for sent by whoever is asking.
Take(step, now) ==
  /\ bracket' = AfterAll(bracket, step.events)
  /\ check' = IF step.request = NoRequest THEN now
              ELSE [now EXCEPT !.at = "sending", !.request = step.request, !.tape = NoTape]

Step(waited) ==
  /\ check.at = "deciding"
  /\ \E lapses \in {FALSE, MayLapse}, class \in Words \cup {"unknown"} :
       LET step == Decide(bracket, SeenWith(check.tape, waited, lapses, class)) IN
       \/ /\ step = Nothing \/ check.steps = MaxSteps
          /\ check' = Idle
          /\ UNCHANGED bracket
       \/ /\ step # Nothing /\ check.steps < MaxSteps
          /\ Take(step, [check EXCEPT !.steps = @ + 1])
  /\ UNCHANGED <<order, broker, tape, key, sold, crashes>>

Requested(kind) == check.at = "sending" /\ check.request.kind = kind

------------------------------------------------------------------------------
(* The gate: a sell for the bracket's shares. *)

InFlightExits == {o \in Exits : State(o) \in InFlight}

\* Mutant of the next definition: the gate looks only at the exit the bracket holds.
HeldInFlight == HasExit(bracket) /\ State(bracket.exit) \in InFlight

\* An exit of the bracket is in flight: nothing more is placed for it.
AnInFlight == InFlightExits # {}

\* Room for an order: one never used, or one over and done with.
Spent(o) == o # bracket.exit /\ broker[o].status # "open" /\ State(o) \notin InFlight
Room == {o \in Exits : Spent(o)}

PlaceHeld ==
  /\ Requested("place") /\ AnInFlight
  /\ check' = Idle
  /\ UNCHANGED <<bracket, order, broker, tape, key, sold, crashes>>

\* One request more than a bracket may send in a minute stops it; a market sell is
\* never held back so.
Capped ==
  /\ MayCap
  /\ \/ Requested("place") /\ ~AnInFlight /\ check.request.role # "market"
     \/ Requested("cancel") /\ check.request.id # Entry /\ State(check.request.id) \in Resting \cup {"cancelling"}
  /\ bracket' = After(bracket, Halted)
  /\ check' = Idle
  /\ UNCHANGED <<order, broker, tape, key, sold, crashes>>

\* Written, and sent: the broker has it, or it never gets there, or is refused.
PlaceSent ==
  /\ Requested("place") /\ ~AnInFlight /\ Room # {}
  /\ LET o == CHOOSE x \in Room : TRUE
         r == check.request
     IN  /\ order' = [order EXCEPT ![o] = [Unused EXCEPT !.fold = Start(FALSE)]]
         /\ \E there \in {Open(r.role, r.price, r.quantity)} \cup (IF Refusals # {} /\ r.role \in RefusedRoles THEN {NotThere} ELSE {}) :
              broker' = [broker EXCEPT ![o] = there]
         /\ check' = [check EXCEPT !.at = "placing", !.id = o]
  /\ UNCHANGED <<bracket, tape, key, sold, crashes>>

Hear ==
  /\ check.at = "placing"
  /\ \E e \in IF broker[check.id].status # "not-found" THEN {Accepted, Unclear}
              ELSE (IF Words = {} THEN {} ELSE {Refused})
                   \cup (IF "no-answer" \in Refusals THEN {NotSent, Unclear} ELSE {}) :
       order' = [order EXCEPT ![check.id].fold = Apply(@, e)]
  /\ check' = [check EXCEPT !.at = "answered"]
  /\ UNCHANGED <<bracket, broker, tape, key, sold, crashes>>

\* The bracket's own log: the exit went out, or the request was not taken.
RecordPlaced ==
  /\ check.at = "answered"
  /\ LET r == check.request
         s == State(check.id)
     IN  IF s \in {"rejected", "failed"}
         THEN \E class \in IF s = "failed" THEN {"no-answer"} ELSE Words :
                bracket' = After(bracket, RefusedAs(r.role, class, key))
         ELSE bracket' = After(bracket, Placed(r.role, check.id, r.price, r.quantity))
  /\ check' = Idle
  /\ UNCHANGED <<order, broker, tape, key, sold, crashes>>

------------------------------------------------------------------------------
(* The gate: a cancel, and a change of the resting exit's quantity. *)

CancelHeld ==
  /\ Requested("cancel") /\ State(check.request.id) \notin Resting \cup {"cancelling"}
  /\ check' = Idle
  /\ UNCHANGED <<bracket, order, broker, tape, key, sold, crashes>>

AskCancel(o) == order' = [order EXCEPT ![o].fold = Apply(@, CancelAsked), ![o].asked = TRUE]

CancelSent ==
  /\ Requested("cancel") /\ State(check.request.id) \in Resting \cup {"cancelling"}
  /\ AskCancel(check.request.id)
  /\ check' = [check EXCEPT !.at = "cancelling"]
  /\ UNCHANGED <<bracket, broker, tape, key, sold, crashes>>

Cancel(o) == broker' = [broker EXCEPT ![o].cancelling = broker[o].status = "open"]

\* Taken by the broker, lost, or turned down.
CancelAnswered ==
  /\ check.at = "cancelling"
  /\ LET o == check.request.id IN
     \/ Cancel(o) /\ UNCHANGED order
     \/ LostCancels /\ UNCHANGED <<broker, order>>
     \/ order' = [order EXCEPT ![o].fold = Apply(@, CancelRefused)] /\ UNCHANGED broker
  /\ check' = Idle
  /\ UNCHANGED <<bracket, tape, key, sold, crashes>>

\* A change taken, or gone unanswered, is recorded as made; one refused is followed
\* by a cancel, and the exit is placed again.
ChangeAtBroker(o, n) ==
  IF broker[o].status = "open" /\ n > broker[o].filled
  THEN broker' = [broker EXCEPT ![o].quantity = n] ELSE UNCHANGED broker

ResizeSent ==
  /\ Requested("resize")
  /\ LET o == check.request.id
         n == check.request.quantity
     IN
     \/ /\ State(o) \notin Resting
        /\ check' = Idle /\ UNCHANGED <<bracket, broker>>
     \/ /\ State(o) \in Resting
        /\ bracket' = After(bracket, Resized(n))
        /\ ChangeAtBroker(o, n) \/ (LostChanges /\ UNCHANGED broker)
        /\ check' = Idle
     \/ /\ State(o) \in Resting
        /\ check' = [check EXCEPT !.request = CancelOf(o)]
        /\ UNCHANGED <<bracket, broker>>
  /\ UNCHANGED <<order, tape, key, sold, crashes>>

------------------------------------------------------------------------------
(* Beside the check: read-backs, the sweep, the person, the process. *)

BeingPlaced(o) == check.at = "placing" /\ check.id = o

\* The order read-back, which waits for no bracket.
ReadBack(o) ==
  /\ State(o) \in InFlight /\ ~BeingPlaced(o)
  /\ order' = [order EXCEPT ![o] = ReadOrder(o)]
  /\ UNCHANGED <<bracket, broker, tape, key, check, sold, crashes>>

\* No bracket holds the exit as its current one.
Unheld(o) == bracket.exit # o

\* After the tick's checks: an exit resting at the broker that nothing holds is
\* cancelled.  The tick has no check of its own out by then; the person may.
Sweep(o) ==
  /\ check.at = "idle" \/ check.by = "person"
  /\ o \in Exits /\ State(o) \in Resting /\ Unheld(o)
  /\ AskCancel(o)
  /\ Cancel(o) \/ (LostCancels /\ UNCHANGED broker)
  /\ UNCHANGED <<bracket, tape, key, check, sold, crashes>>

\* What the person may make of the stop: nothing, or the same kind of stop elsewhere.
StopsFor(now) ==
  {now, NoLeg} \cup
  IF now = NoLeg THEN {}
  ELSE IF now.trail = 0 THEN {s \in Stops : s # NoLeg /\ s.trail = 0}
  ELSE {[now EXCEPT !.trail = s.trail, !.level = IF now.high > 0 THEN Trailed(s.trail, now.high) ELSE @] :
           s \in {t \in Stops : t.trail > 0}}

\* A leg moved or taken off, then the check that follows it, with no quote.
Adjust ==
  /\ MayAdjust /\ check.at = "idle"
  /\ bracket.phase \notin {"ended", "closing", "closing-for-sale"}
  /\ \E stop \in StopsFor(bracket.stop), target \in Targets \cup {0, bracket.target} :
       /\ stop = bracket.stop \/ target = bracket.target
       /\ Take(AdjustTo(ExitOf, stop, target), [Idle EXCEPT !.at = "reading", !.by = "person"])
  /\ UNCHANGED <<order, broker, tape, key, sold, crashes>>

CancelBracket ==
  /\ MayAdjust /\ check.at = "idle"
  /\ bracket.phase \notin {"ended", "closing"}
  /\ Take(End(ExitOf, "cancelled by the user"), [Idle EXCEPT !.by = "person"])
  /\ UNCHANGED <<order, broker, tape, key, sold, crashes>>

\* The process stops: the check, or what the person asked, is gone.
Crash ==
  /\ crashes < MaxCrashes
  /\ crashes' = crashes + 1
  /\ check' = Idle
  /\ UNCHANGED <<bracket, order, broker, tape, key, sold>>

------------------------------------------------------------------------------
(* The broker and the market. *)

Fill(o) ==
  /\ broker[o].status = "open"
  /\ \E n \in 1 .. broker[o].quantity - broker[o].filled :
       /\ broker' = [broker EXCEPT ![o].filled = @ + n,
                       ![o].status = IF broker[o].filled + n = broker[o].quantity THEN "filled" ELSE @]
       /\ sold' = IF o = Entry THEN sold ELSE sold + n
  /\ UNCHANGED <<bracket, order, tape, key, check, crashes>>

\* The broker ends an order: the cancel asked for, or for reasons of its own.
EndAtBroker(o) ==
  /\ broker[o].status = "open"
  /\ \E status \in (IF broker[o].cancelling THEN {"cancelled"} ELSE {})
                   \cup (IF MayLapse THEN {"cancelled", "expired", "rejected"} ELSE {}) :
       /\ status = "rejected" => broker[o].filled = 0
       /\ broker' = [broker EXCEPT ![o].status = status]
  /\ UNCHANGED <<bracket, order, tape, key, check, sold, crashes>>

\* The person moves an exit at the broker, in the broker's own app.
MoveByHand(o) ==
  /\ o \in Exits /\ broker[o].status = "open" /\ broker[o].price > 0
  /\ \E p \in HandPrices \ {broker[o].price} : broker' = [broker EXCEPT ![o].price = p]
  /\ UNCHANGED <<bracket, order, tape, key, check, sold, crashes>>

Trade ==
  /\ \E t \in Tapes \ {tape} : tape' = t
  /\ UNCHANGED <<bracket, order, broker, key, check, sold, crashes>>

KeyChanges ==
  /\ \E k \in Keys \ {key} : key' = k
  /\ UNCHANGED <<bracket, order, broker, tape, check, sold, crashes>>

Sending  == PlaceHeld \/ Capped \/ PlaceSent \/ Hear \/ RecordPlaced \/ CancelHeld \/ CancelSent
            \/ CancelAnswered \/ ResizeSent
Checking == Look(tape) \/ Look(NoTape) \/ ReadFirst \/ (\E waited \in BOOLEAN : Step(waited)) \/ Sending
Beside   == Adjust \/ CancelBracket \/ Crash \/ \E o \in Orders : ReadBack(o) \/ Sweep(o)
World    == Trade \/ KeyChanges \/ \E o \in Orders : Fill(o) \/ EndAtBroker(o) \/ MoveByHand(o)

Next == Checking \/ Beside \/ World
Spec == Init /\ [][Next]_vars

(* The loops run while there is work: checks, each to its end and with the  *)
(* market read again and again and the waits over, read-backs, sweeps.  A    *)
(* cancel asked again and again is taken in the end, and the broker ends     *)
(* what it was asked to, and fills a market sell and a stop the market has   *)
(* come to.  Nothing else must happen: an entry or a target may rest for     *)
(* ever.                                                                     *)
Due(o) == broker[o].role = "market" \/ (broker[o].role = "stop" /\ tape.bid <= broker[o].price)
Fairness ==
  /\ WF_vars(ReadFirst) /\ WF_vars(\E waited \in BOOLEAN : Step(waited)) /\ WF_vars(Sending)
  /\ SF_vars(Look(tape)) /\ SF_vars(Step(TRUE))
  /\ SF_vars(CancelAnswered /\ Cancel(check.request.id))
  /\ \A o \in Orders :
       /\ WF_vars(ReadBack(o)) /\ SF_vars(Sweep(o) /\ Cancel(o))
       /\ WF_vars(EndAtBroker(o) /\ broker[o].cancelling)
       /\ WF_vars(Fill(o) /\ Due(o))
FairSpec == Spec /\ Fairness

------------------------------------------------------------------------------
(* Properties. *)

\* At most one exit of the bracket is open at the broker, whatever was lost, and
\* wherever the process stopped.
OneAtBroker == Cardinality({o \in Exits : broker[o].status = "open"}) <= 1

\* The exits never sell more shares than the entry bought.
NeverOversold == sold <= broker[Entry].filled

\* Every event a check decides is a move from where the bracket then stands: the log
\* never holds a refused one, and no decision is made of a bracket that has moved on.
AllMoves(b, events) ==
  LET one == AfterOne(b, events, 1)
      two == AfterOne(one, events, 2)
  IN  /\ DOMAIN events \subseteq 1 .. 3
      /\ 1 \in DOMAIN events => IsMove(b, events[1])
      /\ 2 \in DOMAIN events => IsMove(one, events[2])
      /\ 3 \in DOMAIN events => IsMove(two, events[3])
MovesAllowed ==
  check.at = "deciding" =>
    \A waited \in BOOLEAN, lapses \in {FALSE, MayLapse}, class \in Words \cup {"unknown"} :
      AllMoves(bracket, Decide(bracket, SeenWith(check.tape, waited, lapses, class)).events)

\* What a check may still have to note: an end, or a way back to guarding; fills of the entry;
\* that its exit is over; what was done to the exit by hand; a new high.
One(so) == IF so THEN 1 ELSE 0
StepsLeft ==
  LET b == bracket
      x == ExitOf
  IN  IF b.phase = "ended" THEN 0
      ELSE One(b.phase # "guarding") + One(order[Entry].fold.filled > b.entry_filled) + One(HasExit(b))
           + One(HasExit(b) /\ (HandPrice(b, x) > 0 \/ HandQty(b, x) > 0))
           + One(b.stop.trail > 0 /\ check.tape.last > b.stop.high)

\* Every step a check takes without sending anything leaves it fewer to take, of five at
\* most: no decision undoes what one before it noted, and only a reading, or a
\* hand, gives a check more to do.
StepTaken == check.at = "deciding" /\ check'.at = "deciding" /\ check'.steps # check.steps
ComesToAnEnd == [][StepTaken => StepsLeft' < StepsLeft]_vars

\* The exit whose fills are not yet off the bracket's shares: the one it holds, or
\* the one being placed.
AtWork == IF HasExit(bracket) THEN bracket.exit
          ELSE IF check.at \in {"placing", "answered"} THEN check.id ELSE NoOne
SoldByIt == IF AtWork = NoOne THEN 0 ELSE broker[AtWork].filled

\* The bracket's shares are what the entry bought and no exit has sold, as far as the
\* bracket has been told: nothing it bought is left unguarded, and nothing is counted twice.
QuantityKept ==
  Live(bracket) /\ bracket.phase # "waiting" => bracket.quantity = bracket.entry_filled - (sold - SoldByIt)

\* When a bracket is over nothing of it is at the broker: it reads closing until the
\* broker has confirmed its exit gone, however often the cancel was turned down.  An exit
\* a stop of the process left with no bracket holding it is the sweep's.
EndsAlone == bracket.phase = "ended" /\ crashes = 0 => \A o \in Exits : broker[o].status # "open"

\* A reached stop sells: while the market stays under the stop of a bracket that has
\* armed, the bracket ends, whatever rests at the broker and whatever was being done.
Reached == Live(bracket) /\ bracket.phase # "waiting" /\ bracket.stop # NoLeg /\ tape.bid <= bracket.stop.level
ReachedStopSells == Reached ~> ~Reached

\* Nothing is left behind: an exit open at the broker after its bracket ended, or that
\* a crash left with no bracket holding it, is gone in the end.
LeftBehind(o) == broker[o].status = "open" /\ bracket.exit # o /\ check.at = "idle"
NothingLeftBehind == \A o \in Exits : LeftBehind(o) ~> broker[o].status # "open"

\* Once the stop has sold, what is left of the entry is cancelled.
StillBuying == bracket.phase = "ended" /\ bracket.outcome = "stopped" /\ broker[Entry].status = "open"
StoppedBuysNoMore == StillBuying ~> ~StillBuying

\* A leg that rests at the broker at another level is brought to the new one.
OffLevel == /\ HasExit(bracket) /\ bracket.role = "stop" /\ Live(bracket) /\ bracket.stop # NoLeg
            /\ broker[bracket.exit].status = "open" /\ broker[bracket.exit].price # bracket.stop.level
LegFollowed == OffLevel ~> ~OffLevel
==============================================================================
