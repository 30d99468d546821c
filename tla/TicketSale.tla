------------------------------ MODULE TicketSale ------------------------------
(***************************************************************************)
(* A sale from the order ticket on shares that brackets guard              *)
(* (server/src/orders/ticket.rs, `sell`): each bracket's exit is cancelled *)
(* first, the sale goes out once all are gone, and each bracket then holds *)
(* the sale as its exit, a part of it being its own.                       *)
(*                                                                         *)
(* The thread of the sale takes the brackets one after another, each under *)
(* its own lock and none of them across; meanwhile the engine checks the   *)
(* same brackets.  A bracket's step (BracketRules) is taken here with its  *)
(* request and the answer to it, under one lock: what happens between      *)
(* those, and an exit refused, are BracketEngine's subject.  The checks    *)
(* the sale itself makes are the same steps.                               *)
(*                                                                         *)
(* The exit of bracket b is order b, used again when it is over.  Every    *)
(* entry has filled, and a bracket has a fixed stop and no target.         *)
(***************************************************************************)
EXTENDS BracketRules, FiniteSets, SequencesExt

CONSTANTS
  Brackets,     \* the brackets on the security, in the order the book lists them
  Sales,        \* the ticket's sales, by order id
  Part,         \* the shares of a bracket
  StopLevel,    \* where every bracket's stop is
  Tapes,        \* the prices the market may show a check, or nothing
  PartFills,    \* whether an order may fill in parts
  LostAnswers,  \* whether a create's answer may be lost, and a cancel
  MaxCrashes,   \* bound: how often the process stops
  AskedAgain    \* whether a sale is asked after a stop of the process

Orders == Brackets \cup Sales
Held   == Part * Cardinality(Brackets)

ASSUME SaleAssumption ==
  /\ Orders \subseteq Nat \ {0} /\ IsFiniteSet(Orders) /\ Brackets \cap Sales = {}
  /\ Part \in Nat \ {0} /\ StopLevel \in Nat \ {0} /\ MaxCrashes \in Nat
  /\ {PartFills, LostAnswers, AskedAgain} \subseteq BOOLEAN

VARIABLES
  bracket,   \* each bracket as the book holds it
  order,     \* each order as the book holds it: its fold, and whether its cancel was asked
  broker,    \* each order as the broker holds it
  seller,    \* where each sale's thread stands
  selling,   \* the brackets this run is sending a sale of
  sold,      \* how many shares have been sold
  crashes    \* how often the process has stopped

vars == <<bracket, order, broker, seller, selling, sold, crashes>>

Unwritten == [fold |-> [state |-> "unwritten", broker_id |-> FALSE, filled |-> 0], asked |-> FALSE]
NotThere  == [status |-> "not-found", filled |-> 0, quantity |-> 0, cancelling |-> FALSE]
Open(quantity) == [NotThere EXCEPT !.status = "open", !.quantity = quantity]
Idle == [at |-> "idle", quantity |-> 0, share |-> <<>>, todo |-> {}, clear |-> TRUE]

SellerStep == {"idle", "marking", "watching", "sending", "sent", "settling", "telling", "dropping"}

TypeOK ==
  /\ \A b \in Brackets : /\ bracket[b].phase \in Phase
                         /\ bracket[b].exit \in {NoOne, b} \cup Sales
                         /\ bracket[b].quantity \in Int
                         /\ bracket[b].role = "sale" <=> bracket[b].exit \in Sales
  /\ \A o \in Orders : /\ order[o].fold \in Fold \/ order[o] = Unwritten
                       /\ broker[o].status \in BrokerStatus /\ broker[o].filled \in 0 .. broker[o].quantity
  /\ \A s \in Sales : /\ seller[s].at \in SellerStep /\ seller[s].todo \subseteq Brackets
                      /\ DOMAIN seller[s].share \subseteq Brackets
  /\ selling \subseteq Brackets /\ sold \in Nat /\ crashes \in 0 .. MaxCrashes

\* Every bracket armed, its stop about to go out.
Init ==
  /\ bracket = [b \in Brackets |-> After(Created(Part, [level |-> StopLevel, trail |-> 0, high |-> 0], 0), Armed(Part, 0))]
  /\ order = [o \in Orders |-> Unwritten]
  /\ broker = [o \in Orders |-> NotThere]
  /\ seller = [s \in Sales |-> Idle]
  /\ selling = {} /\ sold = 0 /\ crashes = 0

State(o)    == order[o].fold.state
SumOf(f, set) == MapThenSumSet(LAMBDA x : f[x], set)

------------------------------------------------------------------------------
(* A bracket's step. *)

\* What a sale filled is the brackets' that hold it, in turn, each up to its own part.
\* A bracket is told from the others by what it holds.
PartOf(s, b) ==
  LET holders == {c \in Brackets : bracket[c].exit = s}
      me      == Min({c \in holders : bracket[c] = bracket[b]})
      taken   == SumOf([c \in holders |-> bracket[c].at_qty], {c \in holders : c < me})
      filled  == order[s].fold.filled
  IN  AtMost(filled - AtMost(taken, filled), bracket[b].at_qty)

ExitOf(b) ==
  LET x == bracket[b].exit IN
  IF ~HasExit(bracket[b]) THEN NoExit
  ELSE [id |-> x, role |-> bracket[b].role, cancel_asked |-> order[x].asked, price |-> 0, quantity |-> 0,
        fold |-> IF x \in Sales THEN [order[x].fold EXCEPT !.filled = PartOf(x, b)] ELSE order[x].fold]

SeenBy(b, shown) ==
  [tape |-> shown, exit |-> ExitOf(b), closed |-> FALSE, key |-> 1, selling |-> b \in selling,
   entry |-> [state |-> "filled", broker_id |-> TRUE, filled |-> Part],
   waited |-> TRUE, lapses |-> FALSE, class |-> "unknown"]

\* The bracket's sell for its shares, unless one is in flight.
PlaceExit(b, step) ==
  IF State(b) \in InFlight
  THEN bracket' = [bracket EXCEPT ![b] = AfterAll(@, step.events)] /\ UNCHANGED <<order, broker>>
  ELSE LET r == step.request IN
       /\ order' = [order EXCEPT ![b] = [Unwritten EXCEPT !.fold = Apply(Start(FALSE), Accepted)]]
       /\ broker' = [broker EXCEPT ![b] = Open(r.quantity)]
       /\ bracket' = [bracket EXCEPT ![b] = After(AfterAll(@, step.events), Placed(r.role, b, r.price, r.quantity))]

\* A cancel recorded as asked, and taken, turned down or lost.
CancelOrder(o) ==
  \/ /\ order' = [order EXCEPT ![o].fold = Apply(@, CancelAsked), ![o].asked = TRUE]
     /\ \/ broker' = [broker EXCEPT ![o].cancelling = broker[o].status = "open"]
        \/ LostAnswers /\ UNCHANGED broker
  \/ /\ order' = [order EXCEPT ![o].fold = Apply(Apply(@, CancelAsked), CancelRefused), ![o].asked = TRUE]
     /\ UNCHANGED broker

CancelExitOf(b, step) ==
  /\ bracket' = [bracket EXCEPT ![b] = AfterAll(@, step.events)]
  /\ LET o == step.request.id IN
     IF State(o) \in Resting \cup {"cancelling"} THEN CancelOrder(o) ELSE UNCHANGED <<order, broker>>

\* A wait of the rules may be over whenever a check comes.
Step(b, shown) ==
  LET step == Decide(bracket[b], SeenBy(b, shown)) IN
  /\ Live(bracket[b]) /\ step # Nothing
  /\ CASE step.request.kind = "place"  -> PlaceExit(b, step)
       [] step.request.kind = "cancel" -> CancelExitOf(b, step)
       [] OTHER -> bracket' = [bracket EXCEPT ![b] = AfterAll(@, step.events)] /\ UNCHANGED <<order, broker>>
  /\ UNCHANGED <<seller, selling, sold, crashes>>

------------------------------------------------------------------------------
(* The sale. *)

\* The brackets guarding shares a sale would sell, and how many of them each gives.
Guarding == {b \in Brackets : bracket[b].phase \notin {"waiting", "closing", "ended", "closing-for-sale"}}
Shares(quantity) ==
  LET left(b) == quantity - SumOf([c \in Guarding |-> bracket[c].quantity], {c \in Guarding : c < b})
  IN  [b \in {c \in Guarding : left(c) > 0} |-> AtMost(bracket[b].quantity, left(b))]

To(s, step)  == seller' = [seller EXCEPT ![s].at = step, ![s].todo = DOMAIN seller[s].share, ![s].clear = TRUE]
At(s, step)  == seller[s].at = step
NextOf(s)     == Min(seller[s].todo)
Visited(s)   == seller' = [seller EXCEPT ![s].todo = @ \ {NextOf(s)}]
Visiting(s, step) == At(s, step) /\ seller[s].todo # {}
AllVisited(s, step) == At(s, step) /\ seller[s].todo = {}

\* The person sends the ticket.  A sale the book holds already, or being placed, is
\* answered and not placed again; one that came to nothing before it was written may
\* be sent again.  Nobody asks for more than the account holds.
Ask(s) ==
  /\ At(s, "idle") /\ order[s] = Unwritten
  /\ AskedAgain \/ crashes = 0
  /\ \E quantity \in 1 .. Held - sold :
       LET share == Shares(quantity) IN
       /\ seller' = [seller EXCEPT ![s] = [Idle EXCEPT !.at = "marking", !.quantity = quantity,
                                                       !.share = share, !.todo = DOMAIN share]]
       /\ selling' = selling \cup DOMAIN share
  /\ UNCHANGED <<bracket, order, broker, sold, crashes>>

\* Each bracket is told a sale was asked of it.
Mark(s) ==
  /\ \/ /\ Visiting(s, "marking") /\ Visited(s)
        /\ bracket' = [bracket EXCEPT ![NextOf(s)] = After(@, SaleAsked(seller[s].share[NextOf(s)]))]
     \/ AllVisited(s, "marking") /\ To(s, "watching") /\ UNCHANGED bracket
  /\ UNCHANGED <<order, broker, selling, sold, crashes>>

\* Mutant of the next definition: the bracket's exit need not be gone.
ClearAtOnce(b) == b.phase = "closing-for-sale"

\* The sale may go out as far as the bracket goes.
ClearForSale(b) == b.phase = "closing-for-sale" /\ ~HasExit(b)

\* Every second the brackets are looked at in turn: one that no longer waits for the
\* sale has sold its shares, and nothing is sold; with all clear the sale goes out; with
\* one not clear they are looked at again, until the wait is over.
Watch(s) ==
  /\ \/ /\ Visiting(s, "watching")
        /\ IF bracket[NextOf(s)].phase # "closing-for-sale" THEN To(s, "dropping")
           ELSE seller' = [seller EXCEPT ![s].todo = @ \ {NextOf(s)},
                                         ![s].clear = @ /\ ClearForSale(bracket[NextOf(s)])]
     \/ AllVisited(s, "watching") /\ seller[s].clear /\ To(s, "sending")
     \/ AllVisited(s, "watching") /\ ~seller[s].clear /\ To(s, "watching")
  /\ UNCHANGED <<bracket, order, broker, selling, sold, crashes>>

GiveUp(s) ==
  /\ AllVisited(s, "watching") /\ ~seller[s].clear /\ To(s, "dropping")
  /\ UNCHANGED <<bracket, order, broker, selling, sold, crashes>>

\* Written, and sent: the broker has it, or refuses it, or it never gets there.
Send(s) ==
  /\ At(s, "sending") /\ To(s, "sent")
  /\ order' = [order EXCEPT ![s].fold = Start(FALSE)]
  /\ \E there \in {Open(seller[s].quantity), NotThere} : broker' = [broker EXCEPT ![s] = there]
  /\ UNCHANGED <<bracket, selling, sold, crashes>>

\* A sale that is at the broker, or may be, is held by the brackets; any other gives
\* them their shares back.
Settled(s, state) == To(s, IF state \in InFlight \cup {"filled"} THEN "telling" ELSE "dropping")

Hear(s) ==
  /\ At(s, "sent")
  /\ \E e \in (IF broker[s].status = "not-found" THEN {Refused, NotSent} ELSE {Accepted})
              \cup (IF LostAnswers THEN {Unclear} ELSE {}) :
       /\ order' = [order EXCEPT ![s].fold = Apply(@, e)]
       /\ IF e = Unclear THEN To(s, "settling") ELSE Settled(s, order'[s].fold.state)
  /\ UNCHANGED <<bracket, broker, selling, sold, crashes>>

\* No answer: read back until it is one, or the wait is over.
Settle(s) ==
  /\ At(s, "settling")
  /\ Settled(s, State(s))
  /\ UNCHANGED <<bracket, order, broker, selling, sold, crashes>>

\* The brackets told, one after another, that the sale is their exit, or dropped; the
\* marks go with the call.
Tell(s) ==
  /\ Visiting(s, "telling") /\ Visited(s)
  /\ bracket' = [bracket EXCEPT ![NextOf(s)] = After(@, SaleSent(s, seller[s].share[NextOf(s)]))]
  /\ UNCHANGED <<order, broker, selling, sold, crashes>>

Drop(s) ==
  /\ Visiting(s, "dropping") /\ Visited(s)
  /\ bracket' = [bracket EXCEPT ![NextOf(s)] = After(@, Ev("sale-dropped"))]
  /\ UNCHANGED <<order, broker, selling, sold, crashes>>

Answer(s) ==
  /\ AllVisited(s, "telling") \/ AllVisited(s, "dropping")
  /\ selling' = selling \ DOMAIN seller[s].share
  /\ seller' = [seller EXCEPT ![s] = Idle]
  /\ UNCHANGED <<bracket, order, broker, sold, crashes>>

------------------------------------------------------------------------------
(* Beside them: read-backs, the person's cancel of the sale, the process, the broker. *)

ReadBack(o) ==
  /\ State(o) \in InFlight /\ (o \in Sales => ~At(o, "sent"))
  /\ order' = [order EXCEPT ![o].fold = Apply(@, Read(broker[o].status, broker[o].filled))]
  /\ UNCHANGED <<bracket, broker, seller, selling, sold, crashes>>

CancelSale(s) ==
  /\ State(s) \in Resting
  /\ CancelOrder(s)
  /\ UNCHANGED <<bracket, seller, selling, sold, crashes>>

\* The process stops: the sales' threads and their marks are gone.
Crash ==
  /\ crashes < MaxCrashes /\ crashes' = crashes + 1
  /\ seller' = [s \in Sales |-> Idle] /\ selling' = {}
  /\ UNCHANGED <<bracket, order, broker, sold>>

Fill(o) ==
  /\ broker[o].status = "open"
  /\ LET left == broker[o].quantity - broker[o].filled IN
     \E n \in IF PartFills THEN 1 .. left ELSE {left} :
       /\ broker' = [broker EXCEPT ![o].filled = @ + n, ![o].status = IF n = left THEN "filled" ELSE @]
       /\ sold' = sold + n
  /\ UNCHANGED <<bracket, order, seller, selling, crashes>>

\* The broker ends an order it was asked to, and a sale for reasons of its own.
EndAtBroker(o) ==
  /\ broker[o].status = "open" /\ (broker[o].cancelling \/ o \in Sales)
  /\ broker' = [broker EXCEPT ![o].status = "cancelled"]
  /\ UNCHANGED <<bracket, order, seller, selling, sold, crashes>>

Checking(b) == \E shown \in Tapes \cup {NoTape} : Step(b, shown)
Selling(s)  == Mark(s) \/ Watch(s) \/ GiveUp(s) \/ Send(s) \/ Hear(s) \/ Settle(s) \/ Tell(s) \/ Drop(s) \/ Answer(s)

Next ==
  \/ \E b \in Brackets : Checking(b)
  \/ \E s \in Sales : Ask(s) \/ Selling(s) \/ CancelSale(s)
  \/ \E o \in Orders : ReadBack(o) \/ Fill(o) \/ EndAtBroker(o)
  \/ Crash

Spec == Init /\ [][Next]_vars

------------------------------------------------------------------------------
(* Properties. *)

\* What the sale promises in a run the process does not stop in: one it stops in leaves the
\* brackets as told so far, and the sale as sent.
Uninterrupted == crashes = 0

\* A share is never offered twice: what rests at the broker, a sale and the stops put
\* back among it, is never more than what is held.
Offered   == SumOf([o \in Orders |-> broker[o].quantity - broker[o].filled], {o \in Orders : broker[o].status = "open"})
NoneTwice == Uninterrupted => Offered + sold <= Held

\* When nothing is at the broker and nothing under way, the brackets guard between them
\* exactly the shares that are left.
AtRest ==
  /\ \A o \in Orders : broker[o].status # "open"
  /\ \A b \in Brackets : ~HasExit(bracket[b])
  /\ \A s \in Sales : At(s, "idle")
AllGuarded == Uninterrupted /\ AtRest => SumOf([b \in Brackets |-> bracket[b].quantity], {b \in Brackets : Live(bracket[b])}) = Held - sold

\* The position is never left with neither: for a bracket's shares with no exit and no
\* sale at the broker, and none about to be sent, the next check that has read what the
\* broker says places an exit, or finds the shares sold.
Neither(b) == /\ Live(bracket[b]) /\ bracket[b].quantity > 0 /\ b \notin selling
              /\ \A o \in {b} \cup Sales : broker[o].status # "open" /\ State(o) \notin InFlight
OneStep(b, at) ==
  LET seen == [SeenBy(b, NoTape) EXCEPT !.exit = IF HasExit(at.bracket) THEN @ ELSE NoExit]
      step == Decide(at.bracket, seen)
  IN  IF at.request # NoRequest THEN at
      ELSE [bracket |-> AfterAll(at.bracket, step.events), request |-> step.request]
\* A check takes several steps on, until it asks for something; three are enough.
CheckFrom(b) == OneStep(b, OneStep(b, OneStep(b, [bracket |-> bracket[b], request |-> NoRequest])))
NeverNeither ==
  \A b \in Brackets : Neither(b) => \/ CheckFrom(b).request.kind = "place"
                                    \/ CheckFrom(b).bracket.phase = "ended"
===============================================================================
