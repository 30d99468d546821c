------------------------- MODULE BracketEngineProofs -------------------------
(***************************************************************************)
(* What one bracket guarantees for any number of exits, any prices and     *)
(* anything that may be lost: its types, that every event it decides is a  *)
(* move, that a check comes to an end, that one exit of it is at the       *)
(* broker at most however often the process stops, and, while it does not  *)
(* stop, that it never sells more than it bought and ends with nothing     *)
(* left at the broker.                                                     *)
(***************************************************************************)
EXTENDS BracketEngine, FiniteSetTheorems, TLAPS

USE RulesAssumption, EngineAssumption

------------------------------------------------------------------------------
(* The types, and the inductive invariant. *)

Outcome_ == {"none", "target", "stopped", "entry ended", "both legs removed", "cancelled by the user"}
Leg_     == [level : Int, trail : Int, high : Int]
Role_    == {"stop", "target", "market"}
Refusal_ == [role : Role_ \cup {"none"}, class : RefusalClass \cup {"none"}, key : Keys \cup {0}, tries : Nat]
Bracket_ ==
  [phase : Phase \ {"closing-for-sale", "selling"}, quantity : Int, stop : Leg_, target : Nat,
   exit : Exits \cup {NoOne}, role : Role_ \cup {"none"}, at_price : Int, at_qty : Int, refused : Refusal_,
   entry_filled : Nat, off_broker : BOOLEAN, outcome : Outcome_, sale : {0}]

Fold_   == [state : OrderState \cup {"unwritten"}, broker_id : BOOLEAN, filled : Nat]
Order_  == [fold : Fold_, asked : BOOLEAN, price : Int, quantity : Nat]
Broker_ == [status : BrokerStatus, filled : Nat, cancelling : BOOLEAN, role : Role_ \cup {"none", "entry"},
            price : Int, quantity : Nat]

Place_   == [kind : {"place"}, role : Role_, price : Int, quantity : Nat \ {0}]
Cancel_  == [kind : {"cancel"}, id : Orders]
Resize_  == [kind : {"resize"}, id : Exits, quantity : Nat \ {0}]
Request_ == {NoRequest} \cup Place_ \cup Cancel_ \cup Resize_
Tape_    == [last : Nat, bid : Nat]
Check_   == [at : CheckStep, by : {"engine", "person"}, tape : Tape_, request : Request_,
             id : Exits \cup {0}, steps : 0 .. MaxSteps]

Types ==
  /\ bracket \in Bracket_
  /\ order \in [Orders -> Order_]
  /\ broker \in [Orders -> Broker_]
  /\ tape \in Tapes /\ key \in Keys /\ check \in Check_
  /\ sold \in Nat /\ crashes \in 0 .. MaxCrashes

\* What a check has out is what it says it is doing.
CheckSound ==
  /\ check.at = "sending" => check.request # NoRequest
  /\ check.at = "cancelling" => check.request \in Cancel_
  /\ check.at \in {"placing", "answered"} => check.request \in Place_ /\ check.id \in Exits
  /\ check.at = "placing" => State(check.id) = "sending"
  /\ check.at = "answered" => State(check.id) \notin {"unwritten", "sending"}

\* The bracket's exit, its role and its phase go together.
BracketSound ==
  /\ HasExit(bracket) <=> bracket.role # "none"
  /\ bracket.phase \in {"waiting", "ended"} => ~HasExit(bracket)
  /\ bracket.phase = "waiting" => bracket.entry_filled = 0

\* While a sell is on its way the bracket holds no exit and still has the shares.
PlaceFits ==
  Requested("place") \/ check.at \in {"placing", "answered"} =>
    /\ ~HasExit(bracket) /\ bracket.phase \notin {"waiting", "ended"}
    /\ check.request.quantity = bracket.quantity

\* A change is of the exit the bracket holds, to the shares it has.
ResizeFits ==
  Requested("resize") => check.request.id = bracket.exit /\ check.request.quantity = bracket.quantity

\* What the book and the broker hold of one order.
Fits(w, r) ==
  /\ r.filled <= r.quantity
  /\ r.status = "open" => w.fold.state \in InFlight
  /\ r.status \in {"not-found", "rejected"} => r.filled = 0
  /\ r.status = "filled" => r.filled > 0
  /\ w.fold.filled <= r.filled
  /\ w.fold.state \in Ended => w.fold.filled = r.filled
  /\ w.fold.state \in {"rejected", "failed"} => r.filled = 0
  /\ w.fold.state \in Resting \cup {"cancelling"} => r.status # "not-found"
OrderSound(o) == Fits(order[o], broker[o])
OrdersSound == \A o \in Orders : OrderSound(o)

\* Two exits are never in flight at once.
OneInFlight == \A o, p \in Exits : State(o) \in InFlight /\ State(p) \in InFlight => o = p

EntryKept == bracket.entry_filled <= order[Entry].fold.filled /\ broker[Entry].quantity = Quantity

\* Until the process stops, an exit in flight is the one the bracket holds or is placing.
KnowsItsExit == \A o \in Exits : State(o) \in InFlight => o = AtWork

\* The shares the entry bought and the exits, but for the one at work, have not sold.
Left == bracket.entry_filled - (sold - SoldByIt)
SharesKept ==
  /\ sold <= bracket.entry_filled
  /\ AtWork # NoOne => broker[AtWork].quantity <= Left /\ order[AtWork].quantity <= Left
  /\ Live(bracket) /\ bracket.phase # "waiting" => bracket.quantity <= Left

IInv ==
  /\ Types /\ CheckSound /\ BracketSound /\ PlaceFits /\ ResizeFits /\ OrdersSound /\ OneInFlight /\ EntryKept
  /\ crashes = 0 => KnowsItsExit /\ SharesKept

\* The bracket's shares exactly, where no change and no reading is lost: its own count,
\* what it knows of its exit, what a decision sees of it, a change that is a growth, and
\* what was placed.
Counts     == Live(bracket) /\ bracket.phase # "waiting" => bracket.quantity = Left
KnowsQty   == HasExit(bracket) /\ broker[bracket.exit].status = "open" => bracket.at_qty = broker[bracket.exit].quantity
SeesQty    == check.at = "deciding" /\ HasExit(bracket) /\ State(bracket.exit) \in Resting =>
                order[bracket.exit].quantity = broker[bracket.exit].quantity /\ bracket.at_qty = broker[bracket.exit].quantity
ChangeGrows == Requested("resize") => check.request.quantity > broker[bracket.exit].quantity
PlacedQty  == check.at \in {"placing", "answered"} /\ broker[check.id].status = "open" =>
                broker[check.id].quantity = check.request.quantity
Exact == Counts /\ KnowsQty /\ SeesQty /\ ChangeGrows /\ PlacedQty

------------------------------------------------------------------------------
(* What the rules decide: the steps, by what they record and ask for. *)

Exit_ == [id : Exits, role : Role_, fold : Fold_, cancel_asked : BOOLEAN, price : Int, quantity : Nat]

\* What an engine's bracket is handed.
Seen_(seen) ==
  /\ seen.tape \in Tape_ /\ seen.entry \in Fold_ /\ seen.entry_id = Entry /\ seen.fill_price = FillPrice
  /\ seen.exit = NoExit \/ seen.exit \in Exit_
  /\ seen.closed = FALSE /\ seen.key \in Keys /\ seen.class \in RefusalClass

Arms(b, seen, d) ==
  b.phase = "waiting" /\ seen.entry.filled > 0 /\ d = Records(<<Armed(seen.entry.filled, FillPrice)>>)
Gives(b, d) == b.phase = "waiting" /\ d = Records(<<Ev("entry-ended")>>)
Grows(b, seen, d) ==
  /\ b.phase \notin {"waiting", "ended", "closing", "halted"} /\ seen.entry.filled > b.entry_filled
  /\ d = Records(<<Grown(seen.entry.filled)>>)
Clears(b, x, seen, d) ==
  /\ x # NoExit /\ x.fold.state \in Ended /\ b.phase \notin {"waiting", "ended"}
  /\ LET c == Cleared(x.fold.filled) IN
     \/ d = Records(<<c>>)
     \/ b.phase # "closing" /\ \E o \in Outcome_ : d = Records(<<c, EndedAs(o)>>)
     \/ d = Records(<<c, OffBroker>>)
     \/ d = Records(<<c, RefusedAs(x.role, seen.class, seen.key)>>)
Adopts(b, x, d) ==
  /\ x # NoExit /\ x.fold.state \in Resting /\ b.phase \in {"guarding", "target"}
  /\ HandPrice(b, x) > 0 \/ HandQty(b, x) > 0
  /\ d = Records(<<Adopted(HandPrice(b, x), HandQty(b, x))>>)
Closes(b, x, d) == x = NoExit /\ b.phase = "closing" /\ d = Records(<<Ev("done")>>)
Follows(b, seen, d) ==
  /\ b.stop # NoLeg /\ b.stop.trail > 0 /\ b.phase \in {"guarding", "target"}
  /\ seen.tape.last > b.stop.high
  /\ \E level \in Int : d = Records(<<TrailedTo(level, seen.tape.last)>>)
Returns(b, x, d) ==
  x = NoExit /\ <<b.phase, "guarding">> \in PhaseMoves /\ d = Records(<<Moved("guarding")>>)
Cancels(b, x, d) ==
  \/ d = Sends(<<>>, CancelOf(Entry))
  \/ /\ x # NoExit /\ b.phase \notin {"waiting", "ended"}
     /\ \/ d = Sends(<<>>, CancelOf(x.id))
        \/ d = Sends(<<Ev("cancel-asked")>>, CancelOf(x.id))
        \/ \E p \in {"to-target", "to-market", "back-to-stop"} :
             <<b.phase, p>> \in PhaseMoves /\ d = Sends(<<Moved(p), Ev("cancel-asked")>>, CancelOf(x.id))
Places(b, x, d) ==
  /\ x = NoExit /\ b.phase \notin {"waiting", "ended"} /\ b.quantity > 0
  /\ \E role \in Role_, price \in Int : d = Sends(<<>>, PlaceOf(role, price, b.quantity))
Resizes(b, x, d) ==
  /\ x # NoExit /\ x.fold.state \in Resting /\ b.phase \in {"guarding", "target"}
  /\ StatedQty(b, x) # b.quantity /\ b.quantity > 0
  /\ d = Sends(<<>>, ResizeOf(x.id, b.quantity))

\* A step of the engine's bracket is one of these.
Shape(b, x, seen, d) ==
  \/ d = Nothing
  \/ Arms(b, seen, d) \/ Gives(b, d) \/ Grows(b, seen, d) \/ Clears(b, x, seen, d) \/ Adopts(b, x, d)
  \/ Closes(b, x, d) \/ Follows(b, seen, d) \/ Returns(b, x, d)
  \/ Cancels(b, x, d) \/ Places(b, x, d) \/ Resizes(b, x, d)

\* A sell is for the bracket's shares, and asked only where there are any.
LEMMA PlaceShape ==
  ASSUME NEW b \in Bracket_, NEW seen, NEW x, x = NoExit, b.phase \notin {"waiting", "ended"},
         NEW role \in Role_, NEW price \in Int
  PROVE  Place(b, seen, role, price) = Nothing \/ Places(b, x, Place(b, seen, role, price))
BY DEF Place, Places, Bracket_

\* With no exit: a sell, a way back to guarding, or nothing.
LEMMA BareShape ==
  ASSUME NEW b \in Bracket_, NEW seen, NEW x, x = NoExit, b.phase \notin {"waiting", "ended"}
  PROVE  LET d == DecideBare(b, seen) IN d = Nothing \/ Places(b, x, d) \/ Returns(b, x, d)
<1>1. b.target \in Int /\ b.stop.level \in Int /\ 0 \in Int
  BY DEF Bracket_, Leg_
<1>2. \A role \in Role_, price \in Int : Place(b, seen, role, price) = Nothing \/ Places(b, x, Place(b, seen, role, price))
  BY PlaceShape
<1>3. {"market", "target", "stop"} \subseteq Role_
  BY DEF Role_
<1>4. b.phase \in Phase \ {"closing-for-sale", "selling"}
  BY DEF Bracket_
<1>5. CASE b.phase = "guarding"
  <2>1. DecideBare(b, seen) = Unguarded(b, seen)
    BY <1>5 DEF DecideBare
  <2> QED BY <2>1, <1>1, <1>2, <1>3 DEF Unguarded
<1>6. CASE b.phase \in {"to-target", "target"}
  <2>1. Returns(b, x, Records(<<Moved("guarding")>>))
    BY <1>6 DEF Returns, PhaseMoves
  <2>2. DecideBare(b, seen) = IF b.target = 0 THEN Records(<<Moved("guarding")>>) ELSE TowardsTarget(b, seen)
    BY <1>6 DEF DecideBare
  <2> QED BY <2>1, <2>2, <1>1, <1>2, <1>3 DEF TowardsTarget
<1>7. CASE b.phase \in {"back-to-stop", "firing"}
  <2>1. Returns(b, x, Records(<<Moved("guarding")>>))
    BY <1>7 DEF Returns, PhaseMoves
  <2>2. DecideBare(b, seen) = Records(<<Moved("guarding")>>)
    BY <1>7 DEF DecideBare
  <2> QED BY <2>1, <2>2
<1>8. CASE b.phase = "to-market"
  BY <1>8, <1>1, <1>2, <1>3 DEF DecideBare
<1>9. CASE b.phase \in {"closing", "halted"}
  BY <1>9 DEF DecideBare
<1> QED BY <1>4, <1>5, <1>6, <1>7, <1>8, <1>9 DEF Phase

\* With an exit held: its cancel, a change of it, or nothing.
LEMMA HeldShape ==
  ASSUME NEW b \in Bracket_, NEW seen, NEW x \in Exit_, x # NoExit, b.phase \notin {"waiting", "ended"}
  PROVE  LET d == DecideHeld(b, x, seen) IN d = Nothing \/ Cancels(b, x, d) \/ Resizes(b, x, d)
<1>1. Cancels(b, x, Sends(<<>>, CancelOf(x.id))) /\ Cancels(b, x, CancelExit(x))
  BY DEF Cancels, CancelExit
<1>2. AskAgain(x, seen) = Nothing \/ Cancels(b, x, AskAgain(x, seen))
  BY <1>1 DEF AskAgain
<1>3. KeepCancelling(x) = Nothing \/ Cancels(b, x, KeepCancelling(x))
  BY <1>1 DEF KeepCancelling
<1>4. ASSUME b.phase \in {"guarding", "target"}
      PROVE  LET d == KeepAt(b, x, seen) IN d = Nothing \/ Cancels(b, x, d) \/ Resizes(b, x, d)
  BY <1>1, <1>4 DEF KeepAt, Resize, ToResize, Resizes
<1>5. \A p \in {"to-target", "to-market", "back-to-stop"} :
        <<b.phase, p>> \in PhaseMoves => Cancels(b, x, CancelTo(x, p))
  BY DEF Cancels, CancelTo
<1>6. b.phase \in Phase \ {"closing-for-sale", "selling"}
  BY DEF Bracket_
<1>7. LET d == DecideResting(b, x, seen) IN d = Nothing \/ Cancels(b, x, d) \/ Resizes(b, x, d)
  <2>1. CASE b.phase = "guarding"
    <3>1. Cancels(b, x, CancelTo(x, "to-target"))
      BY <2>1, <1>5 DEF PhaseMoves
    <3>2. DecideResting(b, x, seen) \in {CancelTo(x, "to-target"), KeepAt(b, x, seen)}
      BY <2>1 DEF DecideResting
    <3> QED BY <3>1, <3>2, <1>4, <2>1
  <2>2. CASE b.phase = "target"
    <3>1. Cancels(b, x, CancelTo(x, "to-market")) /\ Cancels(b, x, CancelTo(x, "back-to-stop"))
      BY <2>2, <1>5 DEF PhaseMoves
    <3>2. DecideResting(b, x, seen) \in {CancelTo(x, "to-market"), CancelTo(x, "back-to-stop"), KeepAt(b, x, seen)}
      BY <2>2 DEF DecideResting
    <3> QED BY <3>1, <3>2, <1>4, <2>2
  <2>3. CASE b.phase \in {"to-target", "back-to-stop", "to-market"}
    BY <2>3, <1>1 DEF DecideResting
  <2>4. CASE b.phase \in {"firing", "closing", "halted"}
    BY <2>4 DEF DecideResting
  <2> QED BY <1>6, <2>1, <2>2, <2>3, <2>4 DEF Phase
<1> QED BY <1>2, <1>3, <1>7 DEF DecideHeld

\* An exit that ended is cleared, and what its end means comes with it.
LEMMA EndedShape ==
  ASSUME NEW b \in Bracket_, NEW seen, NEW x \in Exit_, x # NoExit, x.fold.state \in Ended,
         b.phase \notin {"waiting", "ended"}
  PROVE  Clears(b, x, seen, Records(ExitEnded(b, x, seen)))
<1> DEFINE c == Cleared(x.fold.filled)
<1>1. x.role \in Role_ /\ x.role # "sale" /\ b.phase # "closing-for-sale"
  BY DEF Exit_, Role_, Bracket_
<1>2. OutcomeOf(x.role) \in Outcome_
  BY <1>1 DEF OutcomeOf, Outcome_, Role_
<1>3. \/ ExitEnded(b, x, seen) = <<c>>
      \/ b.phase # "closing" /\ ExitEnded(b, x, seen) = <<c, EndedAs(OutcomeOf(x.role))>>
      \/ ExitEnded(b, x, seen) = <<c, OffBroker>>
      \/ ExitEnded(b, x, seen) = <<c, RefusedAs(x.role, seen.class, seen.key)>>
  BY <1>1 DEF ExitEnded
<1> QED BY <1>2, <1>3 DEF Clears

\* Whatever a bracket is handed, what it decides has one of the shapes.
LEMMA DecideShape ==
  ASSUME NEW b \in Bracket_, NEW seen, Seen_(seen),
         HasExit(b) <=> seen.exit # NoExit, b.phase \in {"waiting", "ended"} => ~HasExit(b)
  PROVE  Shape(b, seen.exit, seen, Decide(b, seen))
<1> DEFINE x == seen.exit  d == Decide(b, seen)
<1>1. x = NoExit \/ x \in Exit_
  BY DEF Seen_
<1>2. b.phase \in Phase \ {"closing-for-sale", "selling"}
  BY DEF Bracket_
<1>3. CASE Stopped(b) /\ seen.entry.state \in Resting
  <2>1. d = Sends(<<>>, CancelOf(Entry))
    BY <1>3 DEF Decide, Seen_
  <2> QED BY <2>1 DEF Shape, Cancels
<1>4. CASE ~(Stopped(b) /\ seen.entry.state \in Resting) /\ b.phase = "ended"
  BY <1>4 DEF Decide, Shape
<1>5. CASE ~(Stopped(b) /\ seen.entry.state \in Resting) /\ b.phase = "waiting"
  <2>1. d = Arm(seen)
    BY <1>5 DEF Decide
  <2>2. seen.entry.filled \in Nat /\ seen.fill_price = FillPrice
    BY DEF Seen_, Fold_
  <2>3. Arm(seen) = Nothing \/ Arms(b, seen, Arm(seen)) \/ Gives(b, Arm(seen))
    BY <1>5, <2>2 DEF Arm, Arms, Gives
  <2> QED BY <2>1, <2>3 DEF Shape
<1>6. CASE ~(Stopped(b) /\ seen.entry.state \in Resting) /\ b.phase \notin {"waiting", "ended"}
  <2>1. CASE seen.entry.filled > b.entry_filled /\ b.phase \notin {"closing", "halted"}
    BY <1>6, <2>1 DEF Decide, Shape, Grows
  <2>2. CASE ~(seen.entry.filled > b.entry_filled /\ b.phase \notin {"closing", "halted"})
    <3>1. ~(HasExit(b) /\ x = NoExit)
      OBVIOUS
    <3>2. CASE x # NoExit /\ x.fold.state \in Ended
      <4>1. d = Records(ExitEnded(b, x, seen))
        BY <1>6, <2>2, <3>2 DEF Decide
      <4> QED BY <4>1, <3>2, <1>1, <1>6, EndedShape DEF Shape
    <3>3. CASE ~(x # NoExit /\ x.fold.state \in Ended) /\ x # NoExit /\ ByHand(b, x)
      <4>1. d = Records(<<Adopted(HandPrice(b, x), HandQty(b, x))>>)
        BY <1>6, <2>2, <3>3 DEF Decide
      <4> QED BY <4>1, <3>3 DEF Shape, Adopts, ByHand
    <3>4. CASE ~(x # NoExit /\ x.fold.state \in Ended) /\ ~(x # NoExit /\ ByHand(b, x))
      <4>1. CASE b.phase = "closing"
        <5>1. d = DecideClosing(x, seen)
          BY <1>6, <2>2, <3>1, <3>4, <4>1 DEF Decide
        <5>2. CASE x = NoExit
          BY <5>1, <5>2, <4>1 DEF DecideClosing, Shape, Closes
        <5>3. CASE x # NoExit
          <6>1. d \in {Nothing, Sends(<<>>, CancelOf(x.id)), CancelExit(x)}
            BY <5>1, <5>3 DEF DecideClosing, AskAgain, KeepCancelling
          <6> QED BY <6>1, <5>3, <1>6 DEF CancelExit, Cancels, Shape
        <5> QED BY <5>2, <5>3
      <4>2. CASE b.phase = "halted"
        <5>1. d = DecideHalted(b, x, seen)
          BY <1>6, <2>2, <3>1, <3>4, <4>2 DEF Decide
        <5>2. d = Nothing \/ (x = NoExit /\ d = Place(b, seen, "market", 0))
          BY <5>1 DEF DecideHalted
        <5>3. "market" \in Role_ /\ 0 \in Int
          BY DEF Role_
        <5> QED BY <5>2, <5>3, <1>6, PlaceShape DEF Shape
      <4>3. CASE b.phase \notin {"closing", "halted"}
        <5>1. d = IF Trails(b, seen) THEN Records(<<TrailStep(b, seen)>>)
                  ELSE IF x = NoExit THEN DecideBare(b, seen) ELSE DecideHeld(b, x, seen)
          BY <1>2, <1>6, <2>2, <3>1, <3>4, <4>3 DEF Decide, Seen_
        <5>2. CASE Trails(b, seen)
          <6>1. b.stop # NoLeg /\ b.stop.trail > 0 /\ b.phase \in {"guarding", "target"}
                /\ seen.tape.last > b.stop.high /\ High(b, seen) = seen.tape.last
            BY <5>2 DEF Trails, High
          <6>2. High(b, seen) \in Int /\ b.stop.level \in Int /\ b.stop.trail \in Int
            BY DEF High, Bracket_, Leg_, Seen_, Tape_
          <6>3. Trailed(b.stop.trail, High(b, seen)) \in Int
            BY <6>2 DEF Trailed
          <6>4. \E level \in Int : TrailStep(b, seen) = TrailedTo(level, seen.tape.last)
            BY <6>1, <6>2, <6>3 DEF TrailStep
          <6> QED BY <5>1, <5>2, <6>1, <6>4 DEF Shape, Follows
        <5>3. CASE ~Trails(b, seen) /\ x = NoExit
          BY <5>1, <5>3, <1>6, BareShape DEF Shape
        <5>4. CASE ~Trails(b, seen) /\ x # NoExit
          BY <5>1, <5>4, <1>6, <1>1, HeldShape DEF Shape
        <5> QED BY <5>2, <5>3, <5>4
      <4> QED BY <4>1, <4>2, <4>3
    <3> QED BY <3>2, <3>3, <3>4
  <2> QED BY <2>1, <2>2
<1> QED BY <1>3, <1>4, <1>5, <1>6

------------------------------------------------------------------------------
(* What an event does to the bracket, as far as its shares and its exit go. *)

\* The events of a step, one after another.
LEMMA AfterEvents ==
  ASSUME NEW b
  PROVE  /\ AfterAll(b, <<>>) = b
         /\ \A e : AfterAll(b, <<e>>) = After(b, e)
BY DEF AfterAll, AfterOne

\* And of a step of two events.
LEMMA AfterTwo ==
  ASSUME NEW b, NEW e, NEW f
  PROVE  AfterAll(b, <<e, f>>) = After(After(b, e), f)
BY DEF AfterAll, AfterOne

\* Its shares and its exit stay as they are; it neither arms nor ends with an exit there.
Keeps(b, c) ==
  /\ c \in Bracket_
  /\ c.exit = b.exit /\ c.role = b.role /\ c.quantity = b.quantity /\ c.entry_filled = b.entry_filled
  /\ c.at_qty = b.at_qty
  /\ c.phase = "waiting" => b.phase = "waiting"
  /\ b.phase = "waiting" => c.phase \in {"waiting", "ended"}
  /\ c.phase = "ended" => b.phase = "ended" \/ ~HasExit(b)
  /\ b.phase = "ended" => c.phase = "ended"

\* Its exit is gone, and the shares it sold with it.
Loses(b, c, filled) ==
  /\ c \in Bracket_
  /\ c.exit = NoOne /\ c.role = "none" /\ c.quantity = b.quantity - filled /\ c.entry_filled = b.entry_filled
  /\ c.phase # "waiting"

\* One keeping after another is a keeping, and so is one after a losing.
LEMMA KeepsOn ==
  ASSUME NEW b, NEW c, NEW d, Keeps(c, d)
  PROVE  /\ Keeps(b, c) => Keeps(b, d)
         /\ \A n : Loses(b, c, n) => Loses(b, d, n)
BY DEF Keeps, Loses, HasExit

\* Nothing recorded, or a cancel asked.
LEMMA AfterCancelAsked ==
  ASSUME NEW b \in Bracket_
  PROVE  Keeps(b, b) /\ Keeps(b, After(b, Ev("cancel-asked")))
BY DEF Keeps, After, Move, Ev

\* The phase moves on, to one of a bracket still at work.
LEMMA AfterMoved ==
  ASSUME NEW b \in Bracket_, NEW p \in {"guarding", "to-target", "to-market", "back-to-stop"}
  PROVE  Keeps(b, After(b, Moved(p)))
<1>1. After(b, Moved(p)) = IF <<b.phase, p>> \in PhaseMoves THEN [b EXCEPT !.phase = p] ELSE b
  BY DEF After, IsMove, Move, Moved
<1>2. <<b.phase, p>> \in PhaseMoves => b.phase \notin {"waiting", "ended"}
  BY DEF PhaseMoves
<1>3. p \in Phase \ {"closing-for-sale", "selling", "waiting", "ended"}
  BY DEF Phase
<1> QED BY <1>1, <1>2, <1>3 DEF Keeps, Bracket_

\* A trailing stop follows the market.
LEMMA AfterTrailed ==
  ASSUME NEW b \in Bracket_, NEW level \in Int, NEW high \in Int
  PROVE  Keeps(b, After(b, TrailedTo(level, high)))
<1> DEFINE s == [b.stop EXCEPT !.level = level, !.high = high]
<1>1. s \in Leg_
  BY DEF Bracket_, Leg_
<1>2. After(b, TrailedTo(level, high)) \in {b, [b EXCEPT !.stop = s]}
  BY DEF After, Move, TrailedTo, Bracket_, Leg_
<1>3. [b EXCEPT !.stop = s] \in Bracket_
  BY <1>1 DEF Bracket_
<1> HIDE DEF s
<1> QED BY <1>2, <1>3 DEF Keeps, Bracket_

\* The legs are changed.
LEMMA AfterAdjusted ==
  ASSUME NEW b \in Bracket_, NEW stop \in Leg_, NEW target \in Nat
  PROVE  Keeps(b, After(b, Adjusted(stop, target)))
<1> DEFINE phase == IF b.phase = "halted" THEN "guarding" ELSE b.phase
           c == [b EXCEPT !.stop = stop, !.target = target, !.refused = NoRefusal, !.off_broker = FALSE,
                          !.phase = phase]
<1>1. After(b, Adjusted(stop, target)) = b \/ (b.phase # "ended" /\ After(b, Adjusted(stop, target)) = c)
  BY DEF After, IsMove, Move, OnAdjusted, Adjusted
<1>2. NoRefusal \in Refusal_
  BY DEF NoRefusal, Refusal_
<1>3. phase \in Phase \ {"closing-for-sale", "selling"} /\ (phase = b.phase \/ (b.phase = "halted" /\ phase = "guarding"))
  BY DEF Bracket_, Phase
<1> HIDE DEF phase
<1>4. c \in Bracket_ /\ c.exit = b.exit /\ c.role = b.role /\ c.quantity = b.quantity
      /\ c.entry_filled = b.entry_filled /\ c.at_qty = b.at_qty /\ c.phase = phase
  BY <1>2, <1>3 DEF Bracket_
<1>5. Keeps(b, c)
  BY <1>3, <1>4 DEF Keeps
<1> QED BY <1>1, <1>5, AfterCancelAsked

\* A refusal is remembered.
LEMMA AfterRefused ==
  ASSUME NEW b \in Bracket_, NEW role \in Role_, NEW class \in RefusalClass, NEW k \in Keys
  PROVE  Keeps(b, After(b, RefusedAs(role, class, k)))
<1> DEFINE as == IF role = "market" /\ class = "invalid" THEN "unknown" ELSE class
           again == b.refused.role = role /\ b.refused.class = as
           tries == IF again THEN AtMost(b.refused.tries + 1, UnknownTries) ELSE 1
           r == [role |-> role, class |-> as, key |-> k, tries |-> tries]
           phase == IF b.phase = "firing" /\ ~HasExit(b) THEN "guarding" ELSE b.phase
           c == [b EXCEPT !.refused = r, !.phase = phase]
<1>1. After(b, RefusedAs(role, class, k)) = b \/ (b.phase # "ended" /\ After(b, RefusedAs(role, class, k)) = c)
  BY DEF After, IsMove, Move, OnRefused, RefusedAs, Live
<1>2. r \in Refusal_
  <2>1. tries \in Nat
    BY DEF AtMost, Bracket_, Refusal_
  <2>2. as \in RefusalClass
    BY DEF RefusalClass
  <2> QED BY <2>1, <2>2 DEF Refusal_
<1> HIDE DEF r
<1>3. phase \in Phase \ {"closing-for-sale", "selling"} /\ (phase = b.phase \/ (b.phase = "firing" /\ phase = "guarding"))
  BY DEF Bracket_, Phase
<1> HIDE DEF phase
<1>4. c \in Bracket_ /\ c.exit = b.exit /\ c.role = b.role /\ c.quantity = b.quantity
      /\ c.entry_filled = b.entry_filled /\ c.at_qty = b.at_qty /\ c.phase = phase
  BY <1>2, <1>3 DEF Bracket_
<1>5. Keeps(b, c)
  BY <1>3, <1>4 DEF Keeps
<1> QED BY <1>1, <1>5, AfterCancelAsked

\* The cap halts it; a cancel at the broker is remembered; and it is over, or closing.
LEMMA AfterHalted ==
  ASSUME NEW b \in Bracket_
  PROVE  Keeps(b, After(b, Halted)) /\ Keeps(b, After(b, OffBroker))
<1>1. After(b, Halted) \in {b, [b EXCEPT !.phase = "halted"]}
      /\ (After(b, Halted) # b => b.phase \notin {"waiting", "ended"})
  BY DEF After, IsMove, Move, Halted, Ev
<1>2. After(b, OffBroker) \in {b, [b EXCEPT !.off_broker = TRUE]}
  BY DEF After, IsMove, Move, OffBroker, Ev
<1>3. "halted" \in Phase \ {"closing-for-sale", "selling"}
  BY DEF Phase
<1>4. b.phase \notin {"waiting", "ended"} => Keeps(b, [b EXCEPT !.phase = "halted"])
  BY <1>3 DEF Keeps, Bracket_
<1>5. Keeps(b, [b EXCEPT !.off_broker = TRUE])
  BY DEF Keeps, Bracket_
<1> QED BY <1>1, <1>2, <1>4, <1>5, AfterCancelAsked

\* An end with an exit there is a closing, which ends when the exit is gone.
LEMMA AfterOver ==
  ASSUME NEW b \in Bracket_
  PROVE  /\ \A o \in Outcome_ : Keeps(b, After(b, EndedAs(o)))
                                \/ (b.phase = "waiting" /\ HasExit(b))
         /\ Keeps(b, After(b, Ev("done")))
         /\ b.phase = "waiting" /\ ~HasExit(b) => Keeps(b, After(b, Ev("entry-ended")))
<1>1. ASSUME NEW o \in Outcome_, ~(b.phase = "waiting" /\ HasExit(b))
      PROVE  Keeps(b, After(b, EndedAs(o)))
  <2> DEFINE phase == IF HasExit(b) THEN "closing" ELSE "ended"
             c == [b EXCEPT !.outcome = o, !.sale = 0, !.phase = phase]
  <2>1. After(b, EndedAs(o)) = b \/ (b.phase # "ended" /\ After(b, EndedAs(o)) = c)
    BY DEF After, IsMove, Move, OnEnded, EndedAs
  <2>2. phase \in Phase \ {"closing-for-sale", "selling", "waiting"} /\ (phase = "ended" => ~HasExit(b))
        /\ (HasExit(b) \/ phase = "ended")
    BY DEF Phase
  <2> HIDE DEF phase
  <2>3. b.phase # "ended" => Keeps(b, c)
    <3>1. c \in Bracket_ /\ c.exit = b.exit /\ c.role = b.role /\ c.quantity = b.quantity
          /\ c.entry_filled = b.entry_filled /\ c.at_qty = b.at_qty /\ c.phase = phase
      BY <2>2 DEF Bracket_
    <3> QED BY <3>1, <2>2, <1>1 DEF Keeps
  <2> QED BY <2>1, <2>3, AfterCancelAsked
<1>2. Keeps(b, After(b, Ev("done")))
  <2>1. After(b, Ev("done")) = b \/ (b.phase = "closing" /\ ~HasExit(b) /\ After(b, Ev("done")) = [b EXCEPT !.phase = "ended"])
    BY DEF After, IsMove, Move, Ev
  <2>2. [b EXCEPT !.phase = "ended"] \in Bracket_
    BY DEF Bracket_, Phase
  <2>3. b.phase = "closing" /\ ~HasExit(b) => Keeps(b, [b EXCEPT !.phase = "ended"])
    BY <2>2 DEF Keeps, Bracket_
  <2> QED BY <2>1, <2>3, AfterCancelAsked
<1>3. b.phase = "waiting" /\ ~HasExit(b) => Keeps(b, After(b, Ev("entry-ended")))
  <2>1. b.phase = "waiting" => After(b, Ev("entry-ended")) = [b EXCEPT !.phase = "ended", !.outcome = "entry ended"]
    BY DEF After, IsMove, Move, Ev
  <2>2. [b EXCEPT !.phase = "ended", !.outcome = "entry ended"] \in Bracket_
    BY DEF Bracket_, Phase, Outcome_
  <2> QED BY <2>1, <2>2 DEF Keeps, Bracket_
<1> QED BY <1>1, <1>2, <1>3

\* It arms with what the entry has filled.
LEMMA AfterArmed ==
  ASSUME NEW b \in Bracket_, b.phase = "waiting", NEW n \in Nat
  PROVE  LET c == After(b, Armed(n, FillPrice)) IN
         /\ c \in Bracket_ /\ c.phase = "guarding" /\ c.exit = b.exit /\ c.role = b.role
         /\ c.quantity = n /\ c.entry_filled = n
<1> DEFINE s == IF b.stop.trail > 0 /\ FillPrice > 0
                THEN [b.stop EXCEPT !.high = FillPrice, !.level = Trailed(b.stop.trail, FillPrice)] ELSE b.stop
           c == [b EXCEPT !.quantity = n, !.entry_filled = n, !.phase = "guarding", !.stop = s]
<1>1. After(b, Armed(n, FillPrice)) = c
  BY DEF After, IsMove, Move, OnArmed, Armed, Bracket_
<1>2. s \in Leg_
  <2>1. b.stop \in Leg_ /\ Trailed(b.stop.trail, FillPrice) \in Int /\ FillPrice \in Int
    BY DEF Bracket_, Leg_, Trailed
  <2> QED BY <2>1 DEF Leg_
<1> HIDE DEF s
<1>3. "guarding" \in Phase \ {"closing-for-sale", "selling"} /\ n \in Int
  BY DEF Phase
<1>4. c \in Bracket_
  BY <1>2, <1>3 DEF Bracket_
<1>5. c.phase = "guarding" /\ c.exit = b.exit /\ c.role = b.role /\ c.quantity = n /\ c.entry_filled = n
  BY DEF Bracket_
<1> HIDE DEF c
<1> QED BY <1>1, <1>4, <1>5

\* It grows with the entry's fills.
LEMMA AfterGrown ==
  ASSUME NEW b \in Bracket_, b.phase \notin {"waiting", "ended", "closing"}, NEW n \in Nat, n > b.entry_filled
  PROVE  LET c == After(b, Grown(n)) IN
         /\ c \in Bracket_ /\ c.phase = b.phase /\ c.exit = b.exit /\ c.role = b.role /\ c.at_qty = b.at_qty
         /\ c.quantity = b.quantity + (n - b.entry_filled) /\ c.entry_filled = n
<1> DEFINE q == b.quantity + (n - b.entry_filled)
           c == [b EXCEPT !.quantity = q, !.entry_filled = n]
<1>1. After(b, Grown(n)) = c
  BY DEF After, IsMove, Move, OnGrown, Grown, Bracket_
<1>2. q \in Int
  BY DEF Bracket_
<1> HIDE DEF q
<1>3. c \in Bracket_ /\ c.phase = b.phase /\ c.exit = b.exit /\ c.role = b.role /\ c.at_qty = b.at_qty
      /\ c.quantity = q /\ c.entry_filled = n
  BY <1>2 DEF Bracket_
<1> QED BY <1>1, <1>3 DEF q

\* The exit it held is over.
LEMMA AfterCleared ==
  ASSUME NEW b \in Bracket_, HasExit(b), b.phase \notin {"waiting", "ended"}, NEW n \in Nat
  PROVE  Loses(b, After(b, Cleared(n)), n) /\ After(b, Cleared(n)).phase \notin {"waiting", "ended"}
         /\ (b.phase # "closing" => After(b, Cleared(n)).phase # "closing")
<1> DEFINE rest == b.quantity - n
           refused == IF n > 0 THEN NoRefusal ELSE b.refused
           phase == IF b.role = "market" /\ b.phase = "firing" THEN "guarding" ELSE b.phase
           c == [b EXCEPT !.exit = NoOne, !.role = "none", !.at_price = 0, !.at_qty = 0, !.quantity = rest,
                          !.refused = refused, !.outcome = b.outcome, !.phase = phase]
<1>1. b.role # "sale"
  BY DEF Bracket_, Role_
<1>2. After(b, Cleared(n)) = c
  BY <1>1 DEF After, IsMove, Move, OnCleared, Cleared
<1>3. refused \in Refusal_ /\ rest \in Int /\ 0 \in Int
  BY DEF NoRefusal, Refusal_, Bracket_
<1>4. phase \in Phase \ {"closing-for-sale", "selling", "waiting", "ended"}
      /\ (b.phase # "closing" => phase # "closing")
  BY DEF Bracket_, Phase
<1> HIDE DEF rest, refused, phase
<1>5. c \in Bracket_
  BY <1>3, <1>4 DEF Bracket_
<1>6. c.exit = NoOne /\ c.role = "none" /\ c.quantity = rest /\ c.entry_filled = b.entry_filled /\ c.phase = phase
  BY DEF Bracket_
<1> HIDE DEF c
<1> QED BY <1>2, <1>4, <1>5, <1>6 DEF Loses, rest

\* What was changed by hand is followed.
LEMMA AfterAdopted ==
  ASSUME NEW b \in Bracket_, HasExit(b), b.phase \in {"guarding", "target"}, NEW p \in Int, NEW n \in Nat
  PROVE  LET c == After(b, Adopted(p, n)) IN
         /\ c \in Bracket_ /\ c.phase = b.phase /\ c.exit = b.exit /\ c.role = b.role
         /\ c.entry_filled = b.entry_filled /\ c.quantity = (IF n > 0 THEN n ELSE b.quantity)
         /\ n = 0 => Keeps(b, c)
<1> DEFINE price == IF HasExit(b) /\ p > 0 THEN p ELSE b.at_price
           qty == IF HasExit(b) /\ n > 0 THEN n ELSE b.at_qty
           stop == IF b.role = "stop" /\ p > 0 /\ b.stop # NoLeg THEN [b.stop EXCEPT !.level = p] ELSE b.stop
           target == IF b.role = "target" /\ p > 0 THEN p ELSE b.target
           quantity == IF n > 0 THEN n ELSE b.quantity
           c == [b EXCEPT !.at_price = price, !.at_qty = qty, !.stop = stop, !.target = target, !.quantity = quantity]
<1>1. After(b, Adopted(p, n)) = c
  BY DEF After, IsMove, Move, OnAdopted, Adopted, Live
<1>2. price \in Int /\ qty \in Int /\ target \in Nat /\ quantity \in Int /\ stop \in Leg_
  BY DEF Bracket_, Leg_
<1>3. n = 0 => qty = b.at_qty /\ quantity = b.quantity
  OBVIOUS
<1>4. quantity = (IF n > 0 THEN n ELSE b.quantity)
  OBVIOUS
<1> HIDE DEF price, qty, stop, target, quantity
<1>5. c \in Bracket_ /\ c.phase = b.phase /\ c.exit = b.exit /\ c.role = b.role
      /\ c.entry_filled = b.entry_filled /\ c.quantity = quantity /\ c.at_qty = qty
  BY <1>2 DEF Bracket_
<1> QED BY <1>1, <1>3, <1>4, <1>5 DEF Keeps

\* The exit went out.
LEMMA AfterPlaced ==
  ASSUME NEW b \in Bracket_, ~HasExit(b), b.phase \notin {"waiting", "ended"},
         NEW role \in Role_, NEW o \in Exits, NEW price \in Int, NEW n \in Nat
  PROVE  LET c == After(b, Placed(role, o, price, n)) IN
         /\ c \in Bracket_ /\ c.phase \notin {"waiting", "ended"} /\ c.exit = o /\ c.role = role /\ c.at_qty = n
         /\ c.entry_filled = b.entry_filled /\ c.quantity = b.quantity
<1> DEFINE refused == IF b.refused.role = role THEN b.refused ELSE NoRefusal
           phase == CASE b.phase \in {"guarding", "to-target", "target"} /\ role = "target" -> "target"
                      [] role = "market" -> "firing"
                      [] OTHER -> b.phase
           c == [b EXCEPT !.exit = o, !.role = role, !.at_price = price, !.at_qty = n, !.refused = refused, !.phase = phase]
<1>1. After(b, Placed(role, o, price, n)) = c
  BY DEF After, IsMove, Move, OnPlaced, Placed
<1>2. refused \in Refusal_ /\ n \in Int
  BY DEF NoRefusal, Refusal_, Bracket_
<1>3. phase \in Phase \ {"closing-for-sale", "selling", "waiting", "ended"}
  BY DEF Bracket_, Phase, Role_
<1> HIDE DEF refused, phase
<1>4. c \in Bracket_
  BY <1>2, <1>3 DEF Bracket_
<1>5. c.phase = phase /\ c.exit = o /\ c.role = role /\ c.at_qty = n
      /\ c.entry_filled = b.entry_filled /\ c.quantity = b.quantity
  BY DEF Bracket_
<1> HIDE DEF c
<1> QED BY <1>1, <1>3, <1>4, <1>5

\* The exit was changed to another quantity.
LEMMA AfterResized ==
  ASSUME NEW b \in Bracket_, HasExit(b), NEW n \in Nat
  PROVE  LET c == After(b, Resized(n)) IN c \in Bracket_ /\ c = [b EXCEPT !.at_qty = n]
BY DEF After, IsMove, Move, Resized, Bracket_

------------------------------------------------------------------------------
(* One order, in the book and at the broker. *)

\* What a reading makes of the fold of an order in flight.
LEMMA ReadFold ==
  ASSUME NEW f \in Fold_, f.state \in InFlight, NEW s \in BrokerStatus, NEW n \in Nat, f.filled <= n,
         s \in {"not-found", "rejected"} => n = 0, s = "filled" => n > 0,
         f.state \in Resting \cup {"cancelling"} => s # "not-found"
  PROVE  LET g == Apply(f, Read(s, n)) IN
         /\ g \in Fold_ /\ g.state \notin {"unwritten", "dry", "sending"}
         /\ f.filled <= g.filled /\ g.filled <= n
         /\ s = "open" => g.state \in InFlight
         /\ s # "open" => g.state \in Ended
         /\ g.state \in Ended => g.filled = n /\ s # "open"
         /\ g.state \in {"rejected", "failed"} => n = 0
         /\ g.state \in Resting \cup {"cancelling"} => s # "not-found"
<1> DEFINE g == Apply(f, Read(s, n))
<1>1. Readable(f, s, n)
  BY DEF Readable, Fold_, InFlight
<1>2. g = OnRead(f, s, n)
  BY DEF Apply, Read
<1>3. CASE s = "not-found"
  <2>1. f.state \in Unanswered
    BY <1>3 DEF InFlight, Resting, Unanswered
  <2>2. g = [f EXCEPT !.state = "failed"]
    BY <1>1, <1>2, <1>3, <2>1 DEF OnRead
  <2>3. g \in Fold_ /\ g.state = "failed" /\ g.filled = f.filled /\ n = 0 /\ f.filled \in Nat
    BY <2>2, <1>3 DEF Fold_, OrderState
  <2>4. g.filled = n
    BY <2>3
  <2> QED BY <2>3, <2>4, <1>3 DEF InFlight, Ended, Resting
<1>4. CASE s # "not-found"
  <2>1. g = [f EXCEPT !.state = ReadState(f, s, n), !.filled = n]
    <3>1. Readable(f, s, n) /\ s # "not-found" /\ f.state \in InFlight
      BY <1>1, <1>4
    <3> QED BY <1>2, <3>1 DEF OnRead, InFlight, Fold_
  <2>2. s = "open" => ReadState(f, s, n) \in {"cancelling", "partly-filled", "pending"}
    BY DEF ReadState, Working
  <2>3. s # "open" => ReadState(f, s, n) = s /\ s \in {"filled", "cancelled", "expired", "rejected"}
    BY <1>4 DEF ReadState, BrokerStatus
  <2>4. g \in Fold_ /\ g.state = ReadState(f, s, n) /\ g.filled = n
    BY <2>1, <2>2, <2>3 DEF Fold_, OrderState
  <2> QED BY <2>2, <2>3, <2>4, <1>4 DEF InFlight, Ended, Resting, Fold_
<1> QED BY <1>3, <1>4

\* The cancel asked for, and the cancel turned down.
LEMMA AskFold ==
  ASSUME NEW f \in Fold_
  PROVE  /\ f.state \in Resting \cup {"cancelling"} =>
              Apply(f, CancelAsked) \in Fold_ /\ Apply(f, CancelAsked).state = "cancelling"
              /\ Apply(f, CancelAsked).filled = f.filled
         /\ LET g == Apply(f, CancelRefused) IN
            g \in Fold_ /\ g.filled = f.filled
            /\ (g.state = f.state \/ (f.state = "cancelling" /\ g.state \in Resting))
<1>1. Apply(f, CancelAsked) = IF f.state \in Resting THEN [f EXCEPT !.state = "cancelling"] ELSE f
  BY DEF Apply, CancelAsked
<1>2. Apply(f, CancelRefused) = IF f.state = "cancelling" THEN [f EXCEPT !.state = Working(f)] ELSE f
  BY DEF Apply, CancelRefused
<1>3. Working(f) \in Resting /\ Working(f) \in OrderState
  BY DEF Working, Resting, OrderState
<1> QED BY <1>1, <1>2, <1>3 DEF Fold_, OrderState, Resting

\* The answer to a create.
LEMMA HearFold ==
  ASSUME NEW f \in Fold_, f.state = "sending"
  PROVE  /\ LET g == Apply(f, Accepted) IN g \in Fold_ /\ g.state \in Resting /\ g.filled = f.filled
         /\ LET g == Apply(f, Unclear) IN g \in Fold_ /\ g.state = "unconfirmed" /\ g.filled = f.filled
         /\ LET g == Apply(f, Refused) IN g \in Fold_ /\ g.state = "rejected" /\ g.filled = f.filled
         /\ LET g == Apply(f, NotSent) IN g \in Fold_ /\ g.state = "failed" /\ g.filled = f.filled
<1>1. Working(f) \in Resting /\ Working(f) \in OrderState
  BY DEF Working, Resting, OrderState
<1>2. Apply(f, Accepted) = [f EXCEPT !.state = Working(f), !.broker_id = TRUE]
  BY DEF Apply, Accepted, OnAccepted, Unanswered
<1>3. /\ Apply(f, Unclear) = [f EXCEPT !.state = "unconfirmed"]
      /\ Apply(f, Refused) = [f EXCEPT !.state = "rejected"]
      /\ Apply(f, NotSent) = [f EXCEPT !.state = "failed"]
  BY DEF Apply, Unclear, Refused, NotSent, Unanswered
<1> QED BY <1>1, <1>2, <1>3 DEF Fold_, OrderState

\* Once in flight, an order fits the broker through all that either does.
LEMMA FitsAnswered ==
  ASSUME NEW w \in Order_, NEW v \in Order_, NEW r \in Broker_, Fits(w, r), v.fold.filled = w.fold.filled
  PROVE  /\ v.fold.state = w.fold.state => Fits(v, r)
         /\ w.fold.state \in Resting \cup {"cancelling"} /\ v.fold.state \in Resting \cup {"cancelling"} => Fits(v, r)
         /\ w.fold.state = "sending" /\ v.fold.state \in Resting \cup {"unconfirmed"} /\ r.status # "not-found" => Fits(v, r)
         /\ w.fold.state = "sending" /\ v.fold.state \in {"unconfirmed", "rejected", "failed"} /\ r.status = "not-found" => Fits(v, r)
BY DEF Fits, Order_, Fold_, Broker_, InFlight, Ended, Resting

\* The broker fills it.
LEMMA FitsFilled ==
  ASSUME NEW w \in Order_, NEW r \in Broker_, NEW q \in Broker_, Fits(w, r),
         r.status = "open", q.status \in {"open", "filled"}, q.quantity = r.quantity,
         q.filled > r.filled, q.filled <= q.quantity
  PROVE  Fits(w, q)
BY DEF Fits, Order_, Fold_, Broker_, InFlight, Ended, Resting

\* A new order fits, where it never got to the broker.
Written == [Unused EXCEPT !.fold = Start(FALSE)]
\* An order just written fits a broker that never got it.
LEMMA FitsLost ==
  /\ Written \in Order_ /\ Written.fold.state = "sending" /\ Written.quantity = 0 /\ Written.fold.filled = 0
  /\ NotThere \in Broker_ /\ NotThere.status = "not-found" /\ NotThere.quantity = 0 /\ NotThere.filled = 0
  /\ Fits(Written, NotThere)
<1>1. Start(FALSE) \in Fold_ /\ Start(FALSE).state = "sending" /\ Start(FALSE).filled = 0
  BY DEF Start, Fold_, OrderState
<1>2. Unused \in Order_ /\ Unused.quantity = 0
  BY DEF Unused, Order_, Fold_
<1>3. Written \in Order_ /\ Written.fold.state = "sending" /\ Written.fold.filled = 0 /\ Written.quantity = 0
  BY <1>1, <1>2 DEF Order_, Written
<1>4. NotThere \in Broker_ /\ NotThere.status = "not-found" /\ NotThere.quantity = 0 /\ NotThere.filled = 0
  BY DEF NotThere, Broker_, BrokerStatus
<1>5. Fits(Written, NotThere)
  BY <1>3, <1>4 DEF Fits, InFlight, Ended, Resting
<1> QED BY <1>3, <1>4, <1>5

\* And where it did.
LEMMA FitsNew ==
  ASSUME NEW role \in Role_, NEW price \in Int, NEW n \in Nat
  PROVE  /\ Open(role, price, n) \in Broker_ /\ Open(role, price, n).status = "open"
         /\ Open(role, price, n).filled = 0 /\ Open(role, price, n).quantity = n
         /\ Fits(Written, Open(role, price, n))
<1> DEFINE r == Open(role, price, n)
<1>1. r \in Broker_ /\ r.status = "open" /\ r.filled = 0 /\ r.quantity = n
  BY FitsLost DEF Open, Broker_, BrokerStatus
<1>2. Fits(Written, r)
  BY <1>1, FitsLost DEF Fits, InFlight, Ended, Resting
<1> QED BY <1>1, <1>2

------------------------------------------------------------------------------
(* The invariant: where it starts, and what each action does to it. *)

\* It holds at the start: the entry rests, nothing else is there.
LEMMA InitInv == Init => IInv
<1> SUFFICES ASSUME Init PROVE IInv
  OBVIOUS
<1> DEFINE w == [Unused EXCEPT !.fold = [state |-> "pending", broker_id |-> TRUE, filled |-> 0]]
           r == Open("entry", FillPrice, Quantity)
<1>1. PICK stop \in Stops, target \in Targets : bracket = Created(Quantity, stop, target)
  BY DEF Init
<1>2. bracket \in Bracket_ /\ bracket.exit = NoOne /\ bracket.role = "none" /\ bracket.phase = "waiting"
      /\ bracket.entry_filled = 0
  <2>1. stop \in Leg_ /\ target \in Nat /\ NoRefusal \in Refusal_ /\ Quantity \in Int
    BY DEF Leg_, NoRefusal, Refusal_
  <2> QED BY <1>1, <2>1 DEF Created, Bracket_, Phase, Outcome_
<1>3. w \in Order_ /\ w.fold.state = "pending" /\ w.fold.filled = 0
  <2> DEFINE f == [state |-> "pending", broker_id |-> TRUE, filled |-> 0]
  <2>1. f \in Fold_ /\ f.state = "pending" /\ f.filled = 0
    BY DEF Fold_, OrderState
  <2>2. Unused \in Order_
    BY DEF Unused, Order_, Fold_
  <2> HIDE DEF f
  <2>3. [Unused EXCEPT !.fold = f] \in Order_ /\ [Unused EXCEPT !.fold = f].fold = f
    BY <2>1, <2>2 DEF Order_
  <2> QED BY <2>1, <2>3 DEF f
<1>4. Unused \in Order_ /\ Unused.fold.state = "unwritten" /\ Unused.fold.filled = 0
  BY DEF Unused, Order_, Fold_
<1>5. NotThere \in Broker_ /\ NotThere.status = "not-found" /\ NotThere.quantity = 0 /\ NotThere.filled = 0
  BY DEF NotThere, Broker_, BrokerStatus
<1>6. r \in Broker_ /\ r.status = "open" /\ r.filled = 0 /\ r.quantity = Quantity
  <2>1. FillPrice \in Int /\ Quantity \in Nat
    OBVIOUS
  <2> QED BY <1>5, <2>1 DEF Open, Broker_, BrokerStatus
<1>7. Idle \in Check_ /\ Idle.at = "idle"
  BY DEF Idle, Check_, CheckStep, Tape_, NoTape, Request_
<1> HIDE DEF w, r
<1>8. /\ order = [o \in Orders |-> IF o = Entry THEN w ELSE Unused]
      /\ broker = [o \in Orders |-> IF o = Entry THEN r ELSE NotThere]
      /\ check = Idle /\ sold = 0 /\ crashes = 0 /\ tape \in Tapes /\ key \in Keys
  BY DEF Init, w, r
<1>9. order \in [Orders -> Order_] /\ broker \in [Orders -> Broker_]
  BY <1>3, <1>4, <1>5, <1>6, <1>8
<1>10. Entry \in Orders /\ \A o \in Exits : o \in Orders /\ o # Entry
  BY DEF Orders, Entry
<1>11. /\ order[Entry] = w /\ broker[Entry] = r
       /\ \A o \in Exits : order[o] = Unused /\ broker[o] = NotThere
  BY <1>8, <1>10
<1>12. Types
  BY <1>2, <1>7, <1>8, <1>9 DEF Types
<1>13. \A o \in Exits : State(o) = "unwritten"
  BY <1>4, <1>11 DEF State
<1>14. OrdersSound
  <2>1. Fits(w, r) /\ Fits(Unused, NotThere)
    BY <1>3, <1>4, <1>5, <1>6 DEF Fits, InFlight, Ended, Resting
  <2> QED BY <2>1, <1>11 DEF OrdersSound, OrderSound, Orders
<1>15. CheckSound /\ PlaceFits /\ ResizeFits
  BY <1>7, <1>8 DEF CheckSound, PlaceFits, ResizeFits, Requested
<1>16. BracketSound /\ ~HasExit(bracket)
  BY <1>2, <1>8 DEF BracketSound, HasExit
<1>17. OneInFlight /\ KnowsItsExit
  BY <1>13 DEF OneInFlight, KnowsItsExit, InFlight
<1>18. EntryKept
  BY <1>2, <1>3, <1>6, <1>11 DEF EntryKept
<1>19. SharesKept
  <2>1. AtWork = NoOne
    BY <1>7, <1>8, <1>16 DEF AtWork
  <2> QED BY <2>1, <1>2, <1>8 DEF SharesKept, Left, SoldByIt
<1> QED BY <1>12, <1>14, <1>15, <1>16, <1>17, <1>18, <1>19 DEF IInv

\* What a reading makes of an order in flight: it follows the broker.
LEMMA ReadFits ==
  ASSUME Types, NEW o \in Orders, OrderSound(o), State(o) \in InFlight
  PROVE  LET v == ReadOrder(o) IN
         /\ v \in Order_ /\ Fits(v, broker[o]) /\ v.fold.state \notin {"unwritten", "dry", "sending"}
         /\ order[o].fold.filled <= v.fold.filled
         /\ v.quantity \in {order[o].quantity, broker[o].quantity}
         /\ v.fold.state \in InFlight => broker[o].status = "open" /\ v.quantity = broker[o].quantity
<1> DEFINE r == broker[o]
           f == order[o].fold
           g == Apply(f, Read(r.status, r.filled))
           price == IF r.price > 0 THEN r.price ELSE order[o].price
           v == ReadOrder(o)
<1>1. order[o] \in Order_ /\ r \in Broker_ /\ f \in Fold_ /\ f.state \in InFlight
  BY DEF Types, State, Order_
<1>2. Fits(order[o], r)
  BY DEF OrderSound
<1>3. /\ g \in Fold_ /\ g.state \notin {"unwritten", "dry", "sending"}
      /\ f.filled <= g.filled /\ g.filled <= r.filled
      /\ r.status = "open" => g.state \in InFlight
      /\ r.status # "open" => g.state \in Ended
      /\ g.state \in Ended => g.filled = r.filled /\ r.status # "open"
      /\ g.state \in {"rejected", "failed"} => r.filled = 0
      /\ g.state \in Resting \cup {"cancelling"} => r.status # "not-found"
  BY <1>1, <1>2, ReadFold DEF Fits, Broker_
<1>4. price \in Int /\ r.quantity \in Nat
  BY <1>1 DEF Order_, Broker_
<1> HIDE DEF g, price
<1>5. v = IF r.status = "not-found" THEN [order[o] EXCEPT !.fold = g]
          ELSE [order[o] EXCEPT !.fold = g, !.price = price, !.quantity = r.quantity]
  BY <1>1 DEF ReadOrder, g, price, Order_
<1>6. v \in Order_ /\ v.fold = g /\ v.quantity = IF r.status = "not-found" THEN order[o].quantity ELSE r.quantity
  <2>1. CASE r.status = "not-found"
    BY <2>1, <1>1, <1>3, <1>5 DEF Order_
  <2>2. CASE r.status # "not-found"
    BY <2>2, <1>1, <1>3, <1>4, <1>5 DEF Order_
  <2> QED BY <2>1, <2>2
<1> HIDE DEF v
<1>7. Fits(v, r)
  BY <1>2, <1>3, <1>6 DEF Fits
<1>8. v.fold.state \in InFlight => r.status = "open"
  BY <1>3, <1>6 DEF InFlight, Ended
<1> QED BY <1>3, <1>6, <1>7, <1>8 DEF v

\* Readings, of orders in flight that are not just being placed.
LEMMA ReadsKeep ==
  ASSUME IInv, NEW S \in SUBSET Orders,
         \A o \in S : State(o) \in InFlight /\ ~BeingPlaced(o),
         order' = [o \in Orders |-> IF o \in S THEN ReadOrder(o) ELSE order[o]],
         check' \in Check_,
         check' = check \/ (check.at = "reading" /\ check'.at = "deciding"),
         UNCHANGED <<bracket, broker, tape, key, sold, crashes>>
  PROVE  IInv'
<1>1. Types /\ OrdersSound
  BY DEF IInv
<1>2. \A o \in S : LET v == ReadOrder(o) IN
         /\ v \in Order_ /\ Fits(v, broker[o]) /\ v.fold.state \notin {"unwritten", "dry", "sending"}
         /\ order[o].fold.filled <= v.fold.filled
         /\ v.quantity \in {order[o].quantity, broker[o].quantity}
         /\ v.fold.state \in InFlight => broker[o].status = "open" /\ v.quantity = broker[o].quantity
  BY <1>1, ReadFits DEF OrdersSound
<1>3. \A o \in Orders : order'[o] = IF o \in S THEN ReadOrder(o) ELSE order[o]
  OBVIOUS
<1>4. Types'
  BY <1>1, <1>2 DEF Types
<1>5. OrdersSound'
  <2> SUFFICES ASSUME NEW o \in Orders PROVE Fits(order'[o], broker'[o])
    BY DEF OrdersSound, OrderSound
  <2> QED BY <1>1, <1>2, <1>3 DEF OrdersSound, OrderSound
<1>6. \A o \in Orders : /\ State(o)' \in InFlight => State(o) \in InFlight
                        /\ order[o].fold.filled <= order'[o].fold.filled
                        /\ order'[o].quantity \in {order[o].quantity, broker[o].quantity}
                        /\ o \notin S => State(o)' = State(o)
                        /\ o \in S => State(o)' \notin {"unwritten", "sending"}
  <2> SUFFICES ASSUME NEW o \in Orders
               PROVE  /\ State(o)' \in InFlight => State(o) \in InFlight
                      /\ order[o].fold.filled <= order'[o].fold.filled
                      /\ order'[o].quantity \in {order[o].quantity, broker[o].quantity}
                      /\ o \notin S => State(o)' = State(o)
                      /\ o \in S => State(o)' \notin {"unwritten", "sending"}
    OBVIOUS
  <2>1. order[o] \in Order_ /\ order[o].fold.filled <= order[o].fold.filled
    BY <1>1 DEF Types, Order_, Fold_
  <2>2. CASE o \in S
    BY <2>2, <1>2, <1>3 DEF State
  <2>3. CASE o \notin S
    BY <2>3, <2>1, <1>3 DEF State
  <2> QED BY <2>2, <2>3
<1>7. check'.at \notin {"reading", "deciding"} => check' = check
  OBVIOUS
<1>8. CheckSound'
  <2>1. CheckSound
    BY DEF IInv
  <2>2. ASSUME check' = check PROVE CheckSound'
    <3>1. check.at \in {"placing", "answered"} => check.id \in Orders
      BY <2>1 DEF CheckSound, Orders
    <3>2. check.at = "placing" => check.id \notin S
      BY DEF BeingPlaced
    <3>3. check.at = "placing" => State(check.id)' = "sending"
      BY <2>1, <3>1, <3>2, <1>6 DEF CheckSound
    <3>4. check.at = "answered" => State(check.id)' \notin {"unwritten", "sending"}
      BY <2>1, <3>1, <1>6 DEF CheckSound
    <3> QED BY <2>1, <2>2, <3>3, <3>4 DEF CheckSound, State
  <2>3. ASSUME check'.at = "deciding" PROVE CheckSound'
    BY <2>3 DEF CheckSound
  <2> QED BY <2>2, <2>3
<1>9. BracketSound' /\ EntryKept'
  <2>1. Entry \in Orders
    BY DEF Orders
  <2>2. order[Entry].fold.filled \in Nat /\ order'[Entry].fold.filled \in Nat /\ bracket.entry_filled \in Nat
    BY <1>1, <1>4, <2>1 DEF Types, Order_, Fold_, Bracket_
  <2> QED BY <2>1, <2>2, <1>6 DEF IInv, BracketSound, EntryKept
<1>10. PlaceFits' /\ ResizeFits'
  BY DEF IInv, PlaceFits, ResizeFits, Requested
<1>11. OneInFlight'
  <2>1. Exits \subseteq Orders
    BY DEF Orders
  <2> QED BY <1>6, <2>1 DEF IInv, OneInFlight
<1>12. AtWork' = AtWork /\ SoldByIt' = SoldByIt /\ Left' = Left
  <2>1. AtWork' = AtWork
    BY DEF AtWork
  <2> QED BY <2>1 DEF SoldByIt, Left
<1>13. ASSUME crashes' = 0 PROVE KnowsItsExit' /\ SharesKept'
  <2>1. KnowsItsExit /\ SharesKept
    BY <1>13 DEF IInv
  <2>2. KnowsItsExit'
    <3>1. Exits \subseteq Orders
      BY DEF Orders
    <3> QED BY <2>1, <3>1, <1>6, <1>12 DEF KnowsItsExit
  <2>3. AtWork # NoOne => AtWork \in Orders
    BY <1>1 DEF IInv, AtWork, HasExit, CheckSound, Types, Bracket_, Orders
  <2>4. AtWork # NoOne => order'[AtWork].quantity \in {order[AtWork].quantity, broker[AtWork].quantity}
    BY <2>3, <1>6
  <2>5. AtWork # NoOne => order'[AtWork].quantity <= Left
    BY <2>1, <2>4 DEF SharesKept
  <2> QED BY <2>1, <2>2, <2>5, <1>12 DEF SharesKept
<1> QED BY <1>4, <1>5, <1>8, <1>9, <1>10, <1>11, <1>13 DEF IInv

\* The check's own readings, all of them or some, and the read-back's.
LEMMA ReadFirstInv == IInv /\ ReadFirst => IInv'
<1> SUFFICES ASSUME IInv, ReadFirst PROVE IInv'
  OBVIOUS
<1>1. PICK S \in SUBSET Awaited : order' = [o \in Orders |-> IF o \in S THEN ReadOrder(o) ELSE order[o]]
  <2>1. Awaited \in SUBSET Awaited
    OBVIOUS
  <2> QED BY <2>1 DEF ReadFirst
<1>2. check \in Check_ /\ check.at = "reading" /\ check' = [check EXCEPT !.at = "deciding"]
  BY DEF ReadFirst, IInv, Types
<1>3. check' \in Check_ /\ check'.at = "deciding"
  BY <1>2 DEF Check_, CheckStep
<1>4. Awaited \subseteq Orders
  BY DEF Awaited, Orders, IInv, Types, Bracket_, Entry, NoOne
<1>5. \A o \in S : State(o) \in InFlight /\ ~BeingPlaced(o)
  BY <1>2 DEF Awaited, BeingPlaced
<1>6. S \in SUBSET Orders /\ UNCHANGED <<bracket, broker, tape, key, sold, crashes>>
  BY <1>4 DEF ReadFirst
<1> QED BY <1>1, <1>2, <1>3, <1>5, <1>6, ReadsKeep

\* The order read-back, of one order.
LEMMA ReadBackInv == ASSUME NEW o \in Orders PROVE IInv /\ ReadBack(o) => IInv'
<1> SUFFICES ASSUME IInv, ReadBack(o) PROVE IInv'
  OBVIOUS
<1>1. order' = [p \in Orders |-> IF p \in {o} THEN ReadOrder(p) ELSE order[p]]
  <2>1. order \in [Orders -> Order_] /\ order' = [order EXCEPT ![o] = ReadOrder(o)]
    BY DEF ReadBack, IInv, Types
  <2> QED BY <2>1
<1>2. \A p \in {o} : State(p) \in InFlight /\ ~BeingPlaced(p)
  BY DEF ReadBack
<1>3. check' = check /\ check' \in Check_ /\ UNCHANGED <<bracket, broker, tape, key, sold, crashes>>
  BY DEF ReadBack, IInv, Types
<1>4. {o} \in SUBSET Orders
  OBVIOUS
<1> QED BY <1>1, <1>2, <1>3, <1>4, ReadsKeep

\* What the bracket keeps of its shares and its exit, the invariant keeps.
LEMMA BracketKeeps ==
  ASSUME IInv, Keeps(bracket, bracket'), check' \in Check_, CheckSound', PlaceFits', ResizeFits',
         AtWork' = AtWork,
         UNCHANGED <<order, broker, tape, key, sold, crashes>>
  PROVE  IInv'
<1>1. Types' /\ OrdersSound' /\ OneInFlight'
  BY DEF IInv, Types, OrdersSound, OrderSound, OneInFlight, State, Keeps
<1>2. BracketSound' /\ EntryKept'
  BY DEF IInv, BracketSound, EntryKept, Keeps, HasExit
<1>3. SoldByIt' = SoldByIt /\ Left' = Left
  BY DEF SoldByIt, Left, Keeps
<1>4. ASSUME crashes' = 0 PROVE KnowsItsExit' /\ SharesKept'
  <2>1. KnowsItsExit /\ SharesKept
    BY <1>4 DEF IInv
  <2>2. Live(bracket') /\ bracket'.phase # "waiting" => Live(bracket) /\ bracket.phase # "waiting"
    BY DEF Keeps, Live
  <2> QED BY <2>1, <2>2, <1>3 DEF KnowsItsExit, SharesKept, State, Keeps
<1> QED BY <1>1, <1>2, <1>4 DEF IInv

\* A check that is not placing, and whose request is none of a sell or a change, fits.
Calm_(c) ==
  /\ c \in Check_ /\ c.at \notin {"placing", "answered"}
  /\ c.at = "sending" => c.request \in Cancel_
  /\ c.at = "cancelling" => c.request \in Cancel_

\* A calm check asks nothing of the bracket.
LEMMA CalmFits ==
  ASSUME Calm_(check')
  PROVE  check' \in Check_ /\ CheckSound' /\ PlaceFits' /\ ResizeFits'
         /\ AtWork' = (IF HasExit(bracket') THEN bracket'.exit ELSE NoOne)
<1>1. \A r \in Cancel_ : r.kind = "cancel" /\ r # NoRequest
  BY DEF Cancel_, NoRequest
<1> QED BY <1>1 DEF Calm_, CheckSound, PlaceFits, ResizeFits, Requested, AtWork

\* Outside of a placing the exit at work is the one the bracket holds.
LEMMA NotPlacing ==
  ASSUME check.at \notin {"placing", "answered"}
  PROVE  AtWork = (IF HasExit(bracket) THEN bracket.exit ELSE NoOne)
BY DEF AtWork

\* So a calm check after a keeping keeps all.
LEMMA CalmKeeps ==
  ASSUME IInv, Keeps(bracket, bracket'), Calm_(check'), check.at \notin {"placing", "answered"},
         UNCHANGED <<order, broker, tape, key, sold, crashes>>
  PROVE  IInv'
<1>1. AtWork' = AtWork
  BY CalmFits, NotPlacing DEF Keeps, HasExit
<1> QED BY <1>1, CalmFits, BracketKeeps

\* A step of a calm check alone, on a bracket that keeps its exit and its shares.
CalmStep == /\ Keeps(bracket, bracket') /\ Calm_(check') /\ check.at \notin {"placing", "answered"}
            /\ check'.at # "deciding" /\ UNCHANGED <<order, broker, tape, key, sold, crashes>>

\* An idle check is calm.
LEMMA IdleCalm == Calm_(Idle)
BY DEF Calm_, Idle, Check_, CheckStep, Tape_, NoTape, Request_

\* The check begins.
LEMMA LookCalm == ASSUME IInv, NEW shown \in Tape_, Look(shown) PROVE CalmStep
<1>1. Idle \in Check_
  BY IdleCalm DEF Calm_
<1>2. check' = [Idle EXCEPT !.at = "reading", !.tape = shown]
  BY DEF Look
<1>3. Calm_(check') /\ check'.at = "reading"
  BY <1>1, <1>2 DEF Calm_, Check_, CheckStep
<1>4. bracket \in Bracket_ /\ Keeps(bracket, bracket)
  BY AfterCancelAsked DEF IInv, Types
<1>5. check.at \notin {"placing", "answered"} /\ UNCHANGED <<bracket, order, broker, tape, key, sold, crashes>>
  BY DEF Look
<1> QED BY <1>3, <1>4, <1>5 DEF CalmStep

\* The process stops.
LEMMA CrashInv == IInv /\ Crash => IInv'
<1> SUFFICES ASSUME IInv, Crash PROVE IInv'
  OBVIOUS
<1>1. check' = Idle /\ crashes' = crashes + 1 /\ crashes < MaxCrashes
      /\ UNCHANGED <<bracket, order, broker, tape, key, sold>>
  BY DEF Crash
<1>2. check' \in Check_ /\ CheckSound' /\ PlaceFits' /\ ResizeFits'
  BY <1>1, IdleCalm, CalmFits
<1>3. crashes \in Nat /\ crashes' \in 0 .. MaxCrashes /\ crashes' # 0
  BY <1>1 DEF IInv, Types
<1>4. Types' /\ OrdersSound' /\ OneInFlight' /\ BracketSound' /\ EntryKept'
  BY <1>1, <1>2, <1>3 DEF IInv, Types, OrdersSound, OrderSound, OneInFlight, State, BracketSound, EntryKept, HasExit
<1> QED BY <1>2, <1>3, <1>4 DEF IInv

\* A request the gate turns down, and the cap of the minute.
LEMMA TurnedDownCalm == ASSUME IInv, PlaceHeld \/ CancelHeld \/ Capped PROVE CalmStep
<1>1. bracket \in Bracket_
  BY DEF IInv, Types
<1>2. Keeps(bracket, bracket')
  BY <1>1, AfterCancelAsked, AfterHalted DEF PlaceHeld, CancelHeld, Capped
<1>3. check.at = "sending" /\ check' = Idle /\ UNCHANGED <<order, broker, tape, key, sold, crashes>>
  BY DEF PlaceHeld, CancelHeld, Capped, Requested
<1>4. check'.at # "deciding" /\ check.at \notin {"placing", "answered"}
  BY <1>3 DEF Idle
<1> QED BY <1>2, <1>3, <1>4, IdleCalm DEF CalmStep

\* What the rules see is what they need.
LEMMA SeenTyped ==
  ASSUME IInv, NEW waited \in BOOLEAN, NEW lapses \in BOOLEAN, NEW class \in RefusalClass
  PROVE  LET seen == SeenWith(check.tape, waited, lapses, class) IN
         /\ Seen_(seen) /\ seen.exit = ExitOf /\ seen.entry = order[Entry].fold /\ seen.class = class /\ seen.key = key
         /\ HasExit(bracket) <=> ExitOf # NoExit
         /\ HasExit(bracket) => ExitOf.id = bracket.exit /\ ExitOf.fold = order[bracket.exit].fold
                                /\ ExitOf.role = bracket.role /\ ExitOf.quantity = order[bracket.exit].quantity
                                /\ ExitOf \in Exit_ /\ bracket.exit \in Exits
<1> DEFINE seen == SeenWith(check.tape, waited, lapses, class)
<1>1. bracket \in Bracket_ /\ order \in [Orders -> Order_] /\ check \in Check_ /\ key \in Keys /\ BracketSound
  BY DEF IInv, Types
<1>2. Entry \in Orders /\ order[Entry] \in Order_ /\ order[Entry].fold \in Fold_
  BY <1>1 DEF Orders, Order_
<1>3. ASSUME HasExit(bracket)
      PROVE  /\ bracket.exit \in Exits
             /\ ExitOf.id = bracket.exit /\ ExitOf.fold = order[bracket.exit].fold
             /\ ExitOf.role = bracket.role /\ ExitOf.quantity = order[bracket.exit].quantity
             /\ ExitOf \in Exit_
  <2>1. bracket.exit \in Exits /\ bracket.role \in Role_
    BY <1>1, <1>3 DEF Bracket_, HasExit, BracketSound
  <2>2. order[bracket.exit] \in Order_
    BY <1>1, <2>1 DEF Orders
  <2>3. ExitOf = [id |-> bracket.exit, role |-> bracket.role, fold |-> order[bracket.exit].fold,
                  cancel_asked |-> order[bracket.exit].asked,
                  price |-> order[bracket.exit].price, quantity |-> order[bracket.exit].quantity]
    BY <1>3 DEF ExitOf
  <2> QED BY <2>1, <2>2, <2>3 DEF Exit_, Order_
<1>4. ~HasExit(bracket) => ExitOf = NoExit
  BY DEF ExitOf
<1>5. HasExit(bracket) => ExitOf # NoExit
  BY <1>3 DEF NoExit, NoOne
<1>6. /\ seen.tape = check.tape /\ seen.entry = order[Entry].fold /\ seen.entry_id = Entry
      /\ seen.fill_price = FillPrice /\ seen.exit = ExitOf /\ seen.closed = FALSE /\ seen.key = key
      /\ seen.class = class
  BY DEF SeenWith
<1>7. Seen_(seen)
  BY <1>1, <1>2, <1>3, <1>4, <1>6 DEF Seen_, Check_
<1> QED BY <1>3, <1>4, <1>5, <1>6, <1>7

\* A step recorded: what the check then is.
LEMMA TakeCheck ==
  ASSUME NEW now \in Check_, NEW es
  PROVE  /\ Take(Records(es), now) => bracket' = AfterAll(bracket, es) /\ check' = now
         /\ \A r : r # NoRequest /\ Take(Sends(es, r), now) =>
              bracket' = AfterAll(bracket, es) /\ check' = [now EXCEPT !.at = "sending", !.request = r, !.tape = NoTape]
BY DEF Take, Records, Sends

\* The check with its request out.
LEMMA SendingCheck ==
  ASSUME NEW now \in Check_, NEW r \in Request_
  PROVE  LET c == [now EXCEPT !.at = "sending", !.request = r, !.tape = NoTape] IN
         c \in Check_ /\ c.at = "sending" /\ c.request = r /\ c.id = now.id
<1>1. NoTape \in Tape_ /\ "sending" \in CheckStep
  BY DEF NoTape, Tape_, CheckStep
<1> QED BY <1>1 DEF Check_

\* A cancel is none of the other requests.
LEMMA RequestKinds ==
  ASSUME NEW o \in Orders, NEW role \in Role_, NEW price \in Int, NEW n \in Nat \ {0}, NEW e \in Exits
  PROVE  /\ CancelOf(o) \in Cancel_ /\ CancelOf(o) \in Request_ /\ CancelOf(o) # NoRequest /\ CancelOf(o).kind = "cancel"
         /\ LET p == PlaceOf(role, price, n) IN
            p \in Place_ /\ p \in Request_ /\ p # NoRequest /\ p.kind = "place" /\ p.quantity = n
         /\ LET z == ResizeOf(e, n) IN
            z \in Resize_ /\ z \in Request_ /\ z # NoRequest /\ z.kind = "resize" /\ z.quantity = n /\ z.id = e
BY DEF CancelOf, PlaceOf, ResizeOf, NoRequest, Request_, Cancel_, Place_, Resize_

\* A step that arms the bracket, with what the entry filled.
LEMMA ArmsInv ==
  ASSUME IInv, check.at = "deciding", Calm_(check'), bracket.phase = "waiting",
         bracket' = After(bracket, Armed(order[Entry].fold.filled, FillPrice)),
         UNCHANGED <<order, broker, tape, key, sold, crashes>>
  PROVE  IInv'
<1> DEFINE n == order[Entry].fold.filled
<1>1. bracket \in Bracket_ /\ BracketSound /\ order \in [Orders -> Order_] /\ Entry \in Orders /\ sold \in Nat
  BY DEF IInv, Types, Orders
<1>2. n \in Nat
  BY <1>1 DEF Order_, Fold_
<1> HIDE DEF n
<1>3. /\ bracket' \in Bracket_ /\ bracket'.phase = "guarding" /\ bracket'.exit = bracket.exit
      /\ bracket'.role = bracket.role /\ bracket'.quantity = n /\ bracket'.entry_filled = n
  BY <1>1, <1>2, AfterArmed DEF n
<1>4. ~HasExit(bracket) /\ bracket.entry_filled = 0
  BY <1>1 DEF BracketSound
<1>5. AtWork = NoOne /\ AtWork' = NoOne /\ ~HasExit(bracket)'
  BY <1>3, <1>4, CalmFits, NotPlacing DEF HasExit
<1>6. check' \in Check_ /\ CheckSound' /\ PlaceFits' /\ ResizeFits'
  BY CalmFits
<1>7. Types' /\ OrdersSound' /\ OneInFlight' /\ BracketSound' /\ EntryKept'
  <2>1. n <= n
    BY <1>2
  <2> QED BY <1>1, <1>3, <1>4, <1>5, <1>6, <2>1
          DEF IInv, Types, OrdersSound, OrderSound, OneInFlight, State, BracketSound, EntryKept, HasExit, n
<1>8. ASSUME crashes' = 0 PROVE KnowsItsExit' /\ SharesKept'
  <2>1. KnowsItsExit /\ sold = 0
    BY <1>1, <1>4, <1>8 DEF IInv, SharesKept
  <2>2. KnowsItsExit'
    BY <2>1, <1>5 DEF KnowsItsExit, State
  <2>3. SoldByIt' = 0 /\ Left' = n - (0 - 0)
    BY <2>1, <1>3, <1>5 DEF SoldByIt, Left
  <2>4. SharesKept'
    BY <1>2, <1>3, <1>5, <2>1, <2>3 DEF SharesKept
  <2> QED BY <2>2, <2>4
<1> QED BY <1>6, <1>7, <1>8 DEF IInv

\* A step that grows the bracket, with what the entry filled since.
LEMMA GrowsInv ==
  ASSUME IInv, check.at = "deciding", Calm_(check'), bracket.phase \notin {"waiting", "ended", "closing"},
         order[Entry].fold.filled > bracket.entry_filled,
         bracket' = After(bracket, Grown(order[Entry].fold.filled)),
         UNCHANGED <<order, broker, tape, key, sold, crashes>>
  PROVE  IInv'
<1> DEFINE n == order[Entry].fold.filled
<1>1. bracket \in Bracket_ /\ BracketSound /\ order \in [Orders -> Order_] /\ Entry \in Orders /\ sold \in Nat
      /\ broker \in [Orders -> Broker_]
  BY DEF IInv, Types, Orders
<1>2. n \in Nat /\ bracket.entry_filled \in Nat /\ bracket.quantity \in Int /\ n > bracket.entry_filled
  BY <1>1 DEF Order_, Fold_, Bracket_
<1> HIDE DEF n
<1>3. /\ bracket' \in Bracket_ /\ bracket'.phase = bracket.phase /\ bracket'.exit = bracket.exit
      /\ bracket'.role = bracket.role /\ bracket'.quantity = bracket.quantity + (n - bracket.entry_filled)
      /\ bracket'.entry_filled = n
  BY <1>1, <1>2, AfterGrown DEF n
<1>4. AtWork' = AtWork
  BY <1>3, CalmFits, NotPlacing DEF HasExit
<1>5. check' \in Check_ /\ CheckSound' /\ PlaceFits' /\ ResizeFits'
  BY CalmFits
<1>6. Types' /\ OrdersSound' /\ OneInFlight' /\ BracketSound' /\ EntryKept'
  <2>1. n <= n
    BY <1>2
  <2> QED BY <1>1, <1>3, <1>4, <1>5, <2>1
          DEF IInv, Types, OrdersSound, OrderSound, OneInFlight, State, BracketSound, EntryKept, HasExit, n
<1>7. ASSUME crashes' = 0 PROVE KnowsItsExit' /\ SharesKept'
  <2>1. KnowsItsExit /\ SharesKept
    BY <1>7 DEF IInv
  <2>2. KnowsItsExit'
    BY <2>1, <1>4 DEF KnowsItsExit, State
  <2>3. AtWork # NoOne => AtWork \in Orders
    BY <1>1, NotPlacing DEF HasExit, Bracket_, Orders
  <2>4. SoldByIt \in Nat /\ (AtWork # NoOne => broker[AtWork].quantity \in Nat /\ order[AtWork].quantity \in Nat)
    BY <1>1, <2>3 DEF SoldByIt, Broker_, Order_
  <2>5. SoldByIt' = SoldByIt
    BY <1>4 DEF SoldByIt
  <2>6. Left' = Left + (n - bracket.entry_filled) /\ Left \in Int
    BY <1>1, <1>2, <1>3, <2>4, <2>5 DEF Left
  <2>7. Left <= Left' /\ bracket.entry_filled <= n
    BY <2>6, <1>2
  <2>8. sold <= bracket'.entry_filled
    BY <2>1, <1>1, <1>2, <1>3 DEF SharesKept
  <2>9. AtWork # NoOne => broker[AtWork].quantity <= Left' /\ order[AtWork].quantity <= Left'
    BY <2>1, <2>4, <2>6, <1>2 DEF SharesKept
  <2>10. Live(bracket') /\ bracket'.phase # "waiting" => bracket'.quantity <= Left'
    BY <2>1, <2>6, <1>2, <1>3 DEF SharesKept, Live
  <2> QED BY <2>2, <2>8, <2>9, <2>10, <1>4 DEF SharesKept
<1> QED BY <1>5, <1>6, <1>7 DEF IInv

\* A step that clears an exit that ended: what it sold is off the bracket's shares.
LEMMA ClearsInv ==
  ASSUME IInv, check.at = "deciding", Calm_(check'), HasExit(bracket), State(bracket.exit) \in Ended,
         Loses(bracket, bracket', order[bracket.exit].fold.filled),
         UNCHANGED <<order, broker, tape, key, sold, crashes>>
  PROVE  IInv'
<1> DEFINE o == bracket.exit
           n == order[o].fold.filled
<1>1. bracket \in Bracket_ /\ BracketSound /\ order \in [Orders -> Order_] /\ sold \in Nat
      /\ broker \in [Orders -> Broker_] /\ OrdersSound
  BY DEF IInv, Types
<1>2. o \in Exits /\ o \in Orders /\ bracket.phase \notin {"waiting", "ended"}
  BY <1>1 DEF HasExit, Bracket_, Orders, BracketSound
<1>3. n \in Nat /\ bracket.entry_filled \in Nat /\ bracket.quantity \in Int /\ broker[o].filled \in Nat
  BY <1>1, <1>2 DEF Order_, Fold_, Bracket_, Broker_
<1>4. n = broker[o].filled
  BY <1>1, <1>2 DEF OrdersSound, OrderSound, Fits, State
<1>5. AtWork = o /\ SoldByIt = n
  BY <1>2, <1>4, NotPlacing DEF SoldByIt, HasExit
<1> HIDE DEF n
<1>6. /\ bracket' \in Bracket_ /\ bracket'.exit = NoOne /\ bracket'.role = "none"
      /\ bracket'.quantity = bracket.quantity - n /\ bracket'.entry_filled = bracket.entry_filled
      /\ bracket'.phase # "waiting"
  BY DEF Loses, n
<1>7. ~HasExit(bracket)' /\ AtWork' = NoOne
  BY <1>6, CalmFits DEF HasExit
<1>8. check' \in Check_ /\ CheckSound' /\ PlaceFits' /\ ResizeFits'
  BY CalmFits
<1>9. Types' /\ OrdersSound' /\ OneInFlight' /\ BracketSound' /\ EntryKept'
  BY <1>1, <1>6, <1>7, <1>8
     DEF IInv, Types, OrdersSound, OrderSound, OneInFlight, State, BracketSound, EntryKept, HasExit
<1>10. ASSUME crashes' = 0 PROVE KnowsItsExit' /\ SharesKept'
  <2>1. KnowsItsExit /\ SharesKept
    BY <1>10 DEF IInv
  <2>2. State(o) \notin InFlight
    BY DEF Ended, InFlight
  <2>3. \A p \in Exits : State(p) \notin InFlight
    BY <2>1, <2>2, <1>5 DEF KnowsItsExit
  <2>4. KnowsItsExit'
    BY <2>3 DEF KnowsItsExit, State
  <2>5. SoldByIt' = 0
    BY <1>7 DEF SoldByIt
  <2>6. Left' = Left - n /\ Left \in Int
    BY <1>1, <1>3, <1>5, <1>6, <2>5 DEF Left
  <2>7. bracket.quantity <= Left
    BY <2>1, <1>2 DEF SharesKept, Live
  <2>8. bracket'.quantity <= Left'
    BY <2>6, <2>7, <1>3, <1>6
  <2> QED BY <2>1, <2>4, <2>8, <1>6, <1>7 DEF SharesKept
<1> QED BY <1>8, <1>9, <1>10 DEF IInv

\* A step that follows a quantity the broker states.
LEMMA AdoptsInv ==
  ASSUME IInv, check.at = "deciding", Calm_(check'), HasExit(bracket), bracket.phase \in {"guarding", "target"},
         NEW p \in Int, NEW n \in {0, order[bracket.exit].quantity},
         bracket' = After(bracket, Adopted(p, n)),
         UNCHANGED <<order, broker, tape, key, sold, crashes>>
  PROVE  IInv'
<1>1. bracket \in Bracket_ /\ BracketSound /\ order \in [Orders -> Order_]
  BY DEF IInv, Types
<1>2. bracket.exit \in Exits /\ bracket.exit \in Orders
  BY <1>1 DEF HasExit, Bracket_, Orders
<1>3. n \in Nat
  BY <1>1, <1>2 DEF Order_
<1>4. /\ bracket' \in Bracket_ /\ bracket'.phase = bracket.phase /\ bracket'.exit = bracket.exit
      /\ bracket'.role = bracket.role /\ bracket'.entry_filled = bracket.entry_filled
      /\ bracket'.quantity = (IF n > 0 THEN n ELSE bracket.quantity)
  BY <1>1, <1>3, AfterAdopted
<1>5. AtWork = bracket.exit /\ AtWork' = AtWork
  BY <1>2, <1>4, CalmFits, NotPlacing DEF HasExit
<1>6. check' \in Check_ /\ CheckSound' /\ PlaceFits' /\ ResizeFits'
  BY CalmFits
<1>7. Types' /\ OrdersSound' /\ OneInFlight' /\ BracketSound' /\ EntryKept'
  BY <1>1, <1>4, <1>6
     DEF IInv, Types, OrdersSound, OrderSound, OneInFlight, State, BracketSound, EntryKept, HasExit
<1>8. ASSUME crashes' = 0 PROVE KnowsItsExit' /\ SharesKept'
  <2>1. KnowsItsExit /\ SharesKept
    BY <1>8 DEF IInv
  <2>2. SoldByIt' = SoldByIt /\ Left' = Left
    BY <1>4, <1>5 DEF SoldByIt, Left
  <2>3. AtWork # NoOne
    BY <1>5 DEF HasExit
  <2>4. order[bracket.exit].quantity <= Left
    BY <2>1, <2>3, <1>5 DEF SharesKept
  <2>5. bracket.quantity <= Left
    BY <2>1 DEF SharesKept, Live
  <2>6. bracket'.quantity <= Left
    BY <2>4, <2>5, <1>3, <1>4
  <2> QED BY <2>1, <2>2, <2>6, <1>4, <1>5 DEF KnowsItsExit, SharesKept, State
<1> QED BY <1>6, <1>7, <1>8 DEF IInv

\* What a step of the check does: what it keeps, or the one thing it changes or asks for.
StepKeeps  == Keeps(bracket, bracket') /\ Calm_(check')
StepArms   == bracket.phase = "waiting" /\ Calm_(check')
              /\ bracket' = After(bracket, Armed(order[Entry].fold.filled, FillPrice))
StepGrows  == /\ bracket.phase \notin {"waiting", "ended", "closing"} /\ Calm_(check')
              /\ order[Entry].fold.filled > bracket.entry_filled
              /\ bracket' = After(bracket, Grown(order[Entry].fold.filled))
StepClears == /\ HasExit(bracket) /\ State(bracket.exit) \in Ended /\ Calm_(check')
              /\ Loses(bracket, bracket', order[bracket.exit].fold.filled)
StepAdopts == /\ HasExit(bracket) /\ State(bracket.exit) \in Resting /\ bracket.phase \in {"guarding", "target"}
              /\ Calm_(check')
              /\ \E p \in Int, n \in {0, order[bracket.exit].quantity} :
                   (n # 0 => n # bracket.at_qty) /\ bracket' = After(bracket, Adopted(p, n))
StepPlaces == /\ ~HasExit(bracket) /\ bracket.phase \notin {"waiting", "ended"} /\ bracket' = bracket
              /\ check' \in Check_ /\ check'.at = "sending" /\ check'.request \in Place_
              /\ check'.request.quantity = bracket.quantity
StepResizes == /\ HasExit(bracket) /\ State(bracket.exit) \in Resting /\ bracket' = bracket
               /\ check' \in Check_ /\ check'.at = "sending" /\ check'.request \in Resize_
               /\ check'.request.id = bracket.exit /\ check'.request.quantity = bracket.quantity
               /\ StatedQty(bracket, ExitOf) # bracket.quantity

\* A step of the check is one of these, whatever it decides.
LEMMA StepCases ==
  ASSUME NEW waited \in BOOLEAN, IInv, Step(waited)
  PROVE  /\ check.at = "deciding" /\ UNCHANGED <<order, broker, tape, key, sold, crashes>>
         /\ \/ StepKeeps \/ StepArms \/ StepGrows \/ StepClears \/ StepAdopts \/ StepPlaces \/ StepResizes
<1>1. /\ check.at = "deciding" /\ UNCHANGED <<order, broker, tape, key, sold, crashes>>
      /\ bracket \in Bracket_ /\ check \in Check_ /\ BracketSound /\ order \in [Orders -> Order_] /\ key \in Keys
  BY DEF Step, IInv, Types
<1>2. Keeps(bracket, bracket)
  BY <1>1, AfterCancelAsked
<1>3. PICK lapses \in {FALSE, MayLapse}, class \in Words \cup {"unknown"} :
        LET d == Decide(bracket, SeenWith(check.tape, waited, lapses, class)) IN
        \/ check' = Idle /\ UNCHANGED bracket
        \/ d # Nothing /\ check.steps < MaxSteps /\ Take(d, [check EXCEPT !.steps = @ + 1])
  BY DEF Step
<1> DEFINE seen == SeenWith(check.tape, waited, lapses, class)
           d == Decide(bracket, seen)
           x == ExitOf
           now == [check EXCEPT !.steps = check.steps + 1]
<1>4. CASE check' = Idle /\ UNCHANGED bracket
  BY <1>1, <1>2, <1>4, IdleCalm DEF StepKeeps
<1>5. CASE d # Nothing /\ check.steps < MaxSteps /\ Take(d, now)
  <2>1. class \in RefusalClass /\ lapses \in BOOLEAN
    BY DEF Words, RefusalClass
  <2>2. /\ Seen_(seen) /\ seen.exit = x /\ seen.entry = order[Entry].fold /\ seen.class = class /\ seen.key = key
        /\ HasExit(bracket) <=> x # NoExit
        /\ HasExit(bracket) => x.id = bracket.exit /\ x.fold = order[bracket.exit].fold
                               /\ x.role = bracket.role /\ x.quantity = order[bracket.exit].quantity
                               /\ x \in Exit_ /\ bracket.exit \in Exits
    BY <2>1, SeenTyped
  <2>3. Shape(bracket, x, seen, d)
    BY <1>1, <2>2, DecideShape DEF BracketSound
  <2>4. now \in Check_ /\ now.at = "deciding" /\ Calm_(now)
    <3>1. check.steps + 1 \in 0 .. MaxSteps
      BY <1>1, <1>5 DEF Check_
    <3> QED BY <1>1, <3>1 DEF Check_, Calm_
  <2> HIDE DEF now, d, seen, x
  <2>5. \A e : d = Records(<<e>>) => bracket' = After(bracket, e) /\ Calm_(check')
    <3> SUFFICES ASSUME NEW e, d = Records(<<e>>) PROVE bracket' = After(bracket, e) /\ Calm_(check')
      OBVIOUS
    <3>1. Take(Records(<<e>>), now)
      BY <1>5
    <3>2. bracket' = AfterAll(bracket, <<e>>) /\ check' = now
      BY <3>1, <2>4, TakeCheck
    <3> QED BY <3>2, <2>4, AfterEvents
  <2>6. \A e, f : d = Records(<<e, f>>) => bracket' = After(After(bracket, e), f) /\ Calm_(check')
    <3> SUFFICES ASSUME NEW e, NEW f, d = Records(<<e, f>>) PROVE bracket' = After(After(bracket, e), f) /\ Calm_(check')
      OBVIOUS
    <3>1. Take(Records(<<e, f>>), now)
      BY <1>5
    <3>2. bracket' = AfterAll(bracket, <<e, f>>) /\ check' = now
      BY <3>1, <2>4, TakeCheck
    <3>3. AfterAll(bracket, <<e, f>>) = After(After(bracket, e), f)
      BY AfterTwo
    <3> QED BY <3>2, <3>3, <2>4
  <2>7. CASE Arms(bracket, seen, d)
    BY <2>2, <2>5, <2>7, <1>1 DEF Arms, StepArms
  <2>8. CASE Gives(bracket, d)
    <3>1. Keeps(bracket, bracket')
      BY <2>5, <2>8, <1>1, AfterOver DEF Gives, BracketSound
    <3> QED BY <3>1, <2>5, <2>8, <1>1 DEF Gives, StepKeeps
  <2>9. CASE Grows(bracket, seen, d)
    BY <2>2, <2>5, <2>9, <1>1 DEF Grows, StepGrows
  <2>10. CASE Clears(bracket, x, seen, d)
    <3> DEFINE n == order[bracket.exit].fold.filled
               c == After(bracket, Cleared(n))
    <3>1. HasExit(bracket) /\ State(bracket.exit) \in Ended /\ bracket.phase \notin {"waiting", "ended"} /\ x.fold.filled = n
      BY <2>2, <2>10 DEF Clears, State
    <3>2. n \in Nat
      BY <1>1, <2>2, <3>1 DEF Orders, Order_, Fold_
    <3>3. Loses(bracket, c, n) /\ c.phase \notin {"waiting", "ended"} /\ c \in Bracket_
      BY <1>1, <3>1, <3>2, AfterCleared DEF Loses
    <3> HIDE DEF c
    <3>4. x.role \in Role_ /\ seen.class \in RefusalClass /\ seen.key \in Keys
      BY <2>1, <2>2, <3>1, <1>1 DEF Exit_
    <3>5. Keeps(c, After(c, OffBroker)) /\ Keeps(c, After(c, RefusedAs(x.role, seen.class, seen.key)))
      BY <3>3, <3>4, AfterHalted, AfterRefused
    <3>6. \A o \in Outcome_ : Keeps(c, After(c, EndedAs(o)))
      BY <3>3, AfterOver
    <3>7. Loses(bracket, bracket', n) /\ Calm_(check')
      <4>1. CASE d = Records(<<Cleared(n)>>)
        BY <4>1, <2>5, <3>3 DEF c
      <4>2. CASE \E o \in Outcome_ : d = Records(<<Cleared(n), EndedAs(o)>>)
        <5>1. PICK o \in Outcome_ : d = Records(<<Cleared(n), EndedAs(o)>>)
          BY <4>2
        <5>2. bracket' = After(c, EndedAs(o)) /\ Calm_(check')
          BY <5>1, <2>6 DEF c
        <5> QED BY <5>2, <3>3, <3>6, KeepsOn
      <4>3. CASE d = Records(<<Cleared(n), OffBroker>>)
        <5>1. bracket' = After(c, OffBroker) /\ Calm_(check')
          BY <4>3, <2>6 DEF c
        <5> QED BY <5>1, <3>3, <3>5, KeepsOn
      <4>4. CASE d = Records(<<Cleared(n), RefusedAs(x.role, seen.class, seen.key)>>)
        <5>1. bracket' = After(c, RefusedAs(x.role, seen.class, seen.key)) /\ Calm_(check')
          BY <4>4, <2>6 DEF c
        <5> QED BY <5>1, <3>3, <3>5, KeepsOn
      <4> QED BY <2>10, <3>1, <4>1, <4>2, <4>3, <4>4 DEF Clears
    <3> QED BY <3>1, <3>7, <1>1 DEF StepClears
  <2>11. CASE Adopts(bracket, x, d)
    <3>1. HasExit(bracket) /\ bracket.phase \in {"guarding", "target"} /\ State(bracket.exit) \in Resting
          /\ bracket' = After(bracket, Adopted(HandPrice(bracket, x), HandQty(bracket, x))) /\ Calm_(check')
      BY <2>2, <2>5, <2>11 DEF Adopts, State
    <3>2. PICK p \in Int : p = HandPrice(bracket, x)
      BY <2>2, <3>1 DEF HandPrice, Exit_
    <3>3. PICK n \in {0, order[bracket.exit].quantity} : n = HandQty(bracket, x) /\ (n # 0 => n # bracket.at_qty)
      BY <2>2, <3>1 DEF HandQty
    <3> QED BY <1>1, <3>1, <3>2, <3>3 DEF StepAdopts
  <2>12. CASE Closes(bracket, x, d)
    <3>1. Keeps(bracket, bracket') /\ Calm_(check')
      BY <2>5, <2>12, <1>1, AfterOver DEF Closes
    <3> QED BY <3>1, <1>1 DEF StepKeeps
  <2>13. CASE Follows(bracket, seen, d)
    <3>1. PICK level \in Int, high \in Int : d = Records(<<TrailedTo(level, high)>>)
      BY <2>2, <2>13 DEF Follows, Seen_, Tape_
    <3>2. Keeps(bracket, bracket') /\ Calm_(check')
      BY <3>1, <2>5, <1>1, AfterTrailed
    <3> QED BY <3>2, <1>1 DEF StepKeeps
  <2>14. CASE Returns(bracket, x, d)
    <3>1. Keeps(bracket, bracket') /\ Calm_(check')
      BY <2>5, <2>14, <1>1, AfterMoved DEF Returns
    <3> QED BY <3>1, <1>1 DEF StepKeeps
  <2>15. CASE Cancels(bracket, x, d)
    <3>1. ASSUME NEW es, NEW o \in Orders, d = Sends(es, CancelOf(o)), Keeps(bracket, AfterAll(bracket, es))
          PROVE  StepKeeps
      <4>1. CancelOf(o) \in Cancel_ /\ CancelOf(o) \in Request_ /\ CancelOf(o) # NoRequest
        BY DEF CancelOf, Cancel_, Request_, NoRequest
      <4>2. bracket' = AfterAll(bracket, es)
            /\ check' = [now EXCEPT !.at = "sending", !.request = CancelOf(o), !.tape = NoTape]
        BY <4>1, <3>1, <1>5, <2>4, TakeCheck
      <4>3. Calm_(check')
        BY <4>1, <4>2, <2>4, SendingCheck DEF Calm_
      <4> QED BY <4>2, <4>3, <3>1, <1>1 DEF StepKeeps
    <3>2. Entry \in Orders /\ (HasExit(bracket) => x.id \in Orders)
      BY <2>2 DEF Orders
    <3>3. Keeps(bracket, AfterAll(bracket, <<>>)) /\ Keeps(bracket, AfterAll(bracket, <<Ev("cancel-asked")>>))
      BY <1>1, AfterCancelAsked, AfterEvents
    <3>4. ASSUME NEW p \in {"to-target", "to-market", "back-to-stop"}
          PROVE  Keeps(bracket, AfterAll(bracket, <<Moved(p), Ev("cancel-asked")>>))
      <4> DEFINE c == After(bracket, Moved(p))
      <4>1. Keeps(bracket, c) /\ c \in Bracket_
        BY <1>1, AfterMoved DEF Keeps
      <4> HIDE DEF c
      <4>2. Keeps(c, After(c, Ev("cancel-asked")))
        BY <4>1, AfterCancelAsked
      <4>3. Keeps(bracket, After(c, Ev("cancel-asked")))
        BY <4>1, <4>2, KeepsOn
      <4> QED BY <4>3, AfterTwo DEF c
    <3> QED BY <1>1, <2>2, <2>15, <3>1, <3>2, <3>3, <3>4 DEF Cancels
  <2>16. CASE Places(bracket, x, d)
    <3>1. PICK role \in Role_, price \in Int : d = Sends(<<>>, PlaceOf(role, price, bracket.quantity))
      BY <2>16 DEF Places
    <3> DEFINE r == PlaceOf(role, price, bracket.quantity)
    <3>2. ~HasExit(bracket) /\ bracket.phase \notin {"waiting", "ended"} /\ bracket.quantity \in Nat \ {0}
      BY <1>1, <2>2, <2>16 DEF Places, Bracket_
    <3>3. r \in Place_ /\ r \in Request_ /\ r # NoRequest /\ r.kind = "place" /\ r.quantity = bracket.quantity
      BY <3>2 DEF PlaceOf, Place_, Request_, NoRequest
    <3> HIDE DEF r
    <3>4. bracket' = bracket /\ check' = [now EXCEPT !.at = "sending", !.request = r, !.tape = NoTape]
      BY <3>1, <3>3, <1>5, <2>4, TakeCheck, AfterEvents DEF r
    <3>5. check' \in Check_ /\ check'.at = "sending" /\ check'.request = r
      BY <3>3, <3>4, <2>4, SendingCheck
    <3> QED BY <1>1, <3>2, <3>3, <3>4, <3>5 DEF StepPlaces
  <2>17. CASE Resizes(bracket, x, d)
    <3> DEFINE r == ResizeOf(x.id, bracket.quantity)
    <3>1. d = Sends(<<>>, r) /\ x.id = bracket.exit /\ x.id \in Exits /\ bracket.quantity \in Nat \ {0}
      BY <1>1, <2>2, <2>17 DEF Resizes, Bracket_
    <3>3. r \in Resize_ /\ r \in Request_ /\ r # NoRequest /\ r.kind = "resize" /\ r.quantity = bracket.quantity
          /\ r.id = bracket.exit
      BY <3>1 DEF ResizeOf, Resize_, Request_, NoRequest
    <3> HIDE DEF r
    <3>4. bracket' = bracket /\ check' = [now EXCEPT !.at = "sending", !.request = r, !.tape = NoTape]
      BY <3>1, <3>3, <1>5, <2>4, TakeCheck, AfterEvents
    <3>5. check' \in Check_ /\ check'.at = "sending" /\ check'.request = r
      BY <3>3, <3>4, <2>4, SendingCheck
    <3>6. HasExit(bracket) /\ State(bracket.exit) \in Resting /\ StatedQty(bracket, ExitOf) # bracket.quantity
      BY <2>2, <2>17 DEF Resizes, State, x
    <3> QED BY <1>1, <3>3, <3>4, <3>5, <3>6 DEF StepResizes
  <2> QED BY <1>5, <2>3, <2>7, <2>8, <2>9, <2>10, <2>11, <2>12, <2>13, <2>14, <2>15, <2>16, <2>17 DEF Shape
<1> QED BY <1>1, <1>3, <1>4, <1>5

\* A step of the check, whatever it decides.
LEMMA StepInv == ASSUME NEW waited \in BOOLEAN PROVE IInv /\ Step(waited) => IInv'
<1> SUFFICES ASSUME IInv, Step(waited) PROVE IInv'
  OBVIOUS
<1>1. /\ check.at = "deciding" /\ UNCHANGED <<order, broker, tape, key, sold, crashes>>
      /\ \/ StepKeeps \/ StepArms \/ StepGrows \/ StepClears \/ StepAdopts \/ StepPlaces \/ StepResizes
  BY StepCases
<1>2. bracket \in Bracket_ /\ Keeps(bracket, bracket)
  BY AfterCancelAsked DEF IInv, Types
<1>3. CASE StepKeeps
  BY <1>1, <1>3, CalmKeeps DEF StepKeeps
<1>4. CASE StepArms
  BY <1>1, <1>4, ArmsInv DEF StepArms
<1>5. CASE StepGrows
  BY <1>1, <1>5, GrowsInv DEF StepGrows
<1>6. CASE StepClears
  BY <1>1, <1>6, ClearsInv DEF StepClears
<1>7. CASE StepAdopts
  BY <1>1, <1>7, AdoptsInv DEF StepAdopts
<1>8. CASE StepPlaces
  <2>1. \A r \in Place_ : r.kind = "place" /\ r # NoRequest
    BY DEF Place_, NoRequest
  <2>2. CheckSound' /\ PlaceFits' /\ ResizeFits' /\ AtWork' = AtWork
    BY <1>1, <1>8, <2>1 DEF StepPlaces, CheckSound, PlaceFits, ResizeFits, Requested, HasExit, AtWork
  <2> QED BY <1>1, <1>2, <1>8, <2>2, BracketKeeps DEF StepPlaces
<1>9. CASE StepResizes
  <2>1. \A r \in Resize_ : r.kind = "resize" /\ r # NoRequest
    BY DEF Resize_, NoRequest
  <2>2. CheckSound' /\ PlaceFits' /\ ResizeFits' /\ AtWork' = AtWork
    BY <1>1, <1>9, <2>1 DEF StepResizes, CheckSound, PlaceFits, ResizeFits, Requested, HasExit, AtWork
  <2> QED BY <1>1, <1>2, <1>9, <2>2, BracketKeeps DEF StepResizes
<1> QED BY <1>1, <1>3, <1>4, <1>5, <1>6, <1>7, <1>8, <1>9

\* One order changed in the book and at the broker: the others fit as before.
LEMMA OneChanged ==
  ASSUME Types, OrdersSound, NEW o \in Orders, NEW v \in Order_, NEW q \in Broker_, Fits(v, q),
         order' = [order EXCEPT ![o] = v], broker' = [broker EXCEPT ![o] = q]
  PROVE  /\ order' \in [Orders -> Order_] /\ broker' \in [Orders -> Broker_] /\ OrdersSound'
         /\ order'[o] = v /\ broker'[o] = q /\ State(o)' = v.fold.state
         /\ \A p \in Orders \ {o} : order'[p] = order[p] /\ broker'[p] = broker[p] /\ State(p)' = State(p)
<1>1. order' \in [Orders -> Order_] /\ broker' \in [Orders -> Broker_] /\ order'[o] = v /\ broker'[o] = q
  BY DEF Types
<1>2. \A p \in Orders \ {o} : order'[p] = order[p] /\ broker'[p] = broker[p]
  BY DEF Types
<1>3. OrdersSound'
  BY <1>1, <1>2 DEF OrdersSound, OrderSound
<1> QED BY <1>1, <1>2, <1>3 DEF State

\* A sell written and sent, as the only exit in flight, for the shares the bracket has.
LEMMA PlaceSentInv == IInv /\ PlaceSent => IInv'
<1> SUFFICES ASSUME IInv, PlaceSent PROVE IInv'
  OBVIOUS
<1> DEFINE w == Written
<1>0. PICK o \in Room, r \in {check.request} : o = CHOOSE x \in Room : TRUE
  BY DEF PlaceSent
<1>1. /\ Requested("place") /\ ~AnInFlight /\ r = check.request
      /\ order' = [order EXCEPT ![o] = w]
      /\ \E there \in {Open(r.role, r.price, r.quantity), NotThere} : broker' = [broker EXCEPT ![o] = there]
      /\ check' = [check EXCEPT !.at = "placing", !.id = o]
      /\ UNCHANGED <<bracket, tape, key, sold, crashes>>
  BY <1>0 DEF PlaceSent, Written
<1>2. o \in Exits /\ o \in Orders /\ o # Entry /\ o # NoOne /\ Entry \in Orders
  BY DEF Room, Orders, Entry, NoOne
<1>3. /\ Types /\ CheckSound /\ BracketSound /\ OrdersSound /\ EntryKept
      /\ ~HasExit(bracket) /\ bracket.phase \notin {"waiting", "ended"} /\ r.quantity = bracket.quantity
      /\ check.at = "sending"
  BY <1>1 DEF IInv, PlaceFits, Requested
<1>4. r \in Place_
  <2>1. r \in Request_ /\ r.kind = "place"
    BY <1>1, <1>3 DEF Requested, Types, Check_
  <2> QED BY <2>1 DEF Request_, NoRequest, Cancel_, Resize_
<1>5. PICK there \in {Open(r.role, r.price, r.quantity), NotThere} : broker' = [broker EXCEPT ![o] = there]
  BY <1>1
<1> HIDE DEF w
<1>6. /\ w \in Order_ /\ w.fold.state = "sending" /\ w.quantity = 0
      /\ there \in Broker_ /\ there.filled = 0 /\ there.quantity \in {0, r.quantity} /\ Fits(w, there)
  <2>1. r.role \in Role_ /\ r.price \in Int /\ r.quantity \in Nat
    BY <1>4 DEF Place_
  <2>2. Open(r.role, r.price, r.quantity) \in Broker_ /\ Open(r.role, r.price, r.quantity).filled = 0
        /\ Open(r.role, r.price, r.quantity).quantity = r.quantity /\ Fits(w, Open(r.role, r.price, r.quantity))
    BY <2>1, FitsNew DEF w
  <2>3. NotThere \in Broker_ /\ NotThere.filled = 0 /\ NotThere.quantity = 0 /\ Fits(w, NotThere)
        /\ w \in Order_ /\ w.fold.state = "sending" /\ w.quantity = 0
    BY FitsLost DEF w
  <2> QED BY <2>2, <2>3
<1>7. /\ order' \in [Orders -> Order_] /\ broker' \in [Orders -> Broker_] /\ OrdersSound'
      /\ order'[o] = w /\ broker'[o] = there /\ State(o)' = "sending"
      /\ \A p \in Orders \ {o} : order'[p] = order[p] /\ broker'[p] = broker[p] /\ State(p)' = State(p)
  BY <1>1, <1>2, <1>3, <1>5, <1>6, OneChanged
<1>8. check' \in Check_ /\ check'.at = "placing" /\ check'.id = o /\ check'.request = r
  BY <1>1, <1>2, <1>3 DEF Types, Check_, CheckStep
<1>9. Types'
  BY <1>1, <1>3, <1>7, <1>8 DEF Types
<1>10. CheckSound' /\ PlaceFits' /\ ResizeFits'
  BY <1>1, <1>2, <1>3, <1>4, <1>7, <1>8 DEF CheckSound, PlaceFits, ResizeFits, Requested, HasExit, State
<1>11. BracketSound' /\ EntryKept'
  <2>1. order'[Entry] = order[Entry] /\ broker'[Entry] = broker[Entry]
    BY <1>2, <1>7
  <2> QED BY <2>1, <1>1, <1>3 DEF BracketSound, EntryKept, HasExit
<1>12. \A p \in Exits : State(p) \notin InFlight
  BY <1>1 DEF AnInFlight, InFlightExits
<1>13. \A p \in Exits : State(p)' \in InFlight => p = o
  BY <1>7, <1>12 DEF Orders
<1>14. OneInFlight'
  BY <1>13 DEF OneInFlight
<1>15. AtWork = NoOne /\ AtWork' = o
  BY <1>1, <1>3, <1>8 DEF AtWork, HasExit
<1>16. ASSUME crashes' = 0 PROVE KnowsItsExit' /\ SharesKept'
  <2>1. SharesKept
    BY <1>1, <1>16 DEF IInv
  <2>2. sold \in Nat /\ bracket.entry_filled \in Nat /\ bracket.quantity \in Int
    BY <1>3 DEF Types, Bracket_
  <2>3. Left = bracket.entry_filled - sold /\ Left' = bracket.entry_filled - sold
    BY <1>1, <1>2, <1>6, <1>7, <1>15, <2>2 DEF Left, SoldByIt
  <2>4. bracket.quantity <= Left /\ sold <= bracket.entry_filled
    BY <1>3, <2>1 DEF SharesKept, Live
  <2>5. 0 <= Left /\ there.quantity <= Left
    BY <1>3, <1>6, <2>2, <2>3, <2>4
  <2>6. SharesKept'
    BY <1>1, <1>6, <1>7, <1>15, <2>3, <2>4, <2>5 DEF SharesKept
  <2> QED BY <2>6, <1>13, <1>15 DEF KnowsItsExit
<1> QED BY <1>9, <1>7, <1>10, <1>11, <1>14, <1>16 DEF IInv

\* The answer to the create, whatever it is.
LEMMA HearInv == IInv /\ Hear => IInv'
<1> SUFFICES ASSUME IInv, Hear PROVE IInv'
  OBVIOUS
<1>1. Types /\ CheckSound /\ BracketSound /\ PlaceFits /\ OrdersSound /\ OneInFlight /\ EntryKept
  BY DEF IInv
<1>2. check.at = "placing" /\ check.id \in Exits /\ State(check.id) = "sending" /\ check.request \in Place_
  BY <1>1 DEF Hear, CheckSound
<1>3. PICK o \in Exits : o = check.id
  BY <1>2
<1>4. PICK e \in {Accepted, Unclear, Refused, NotSent} :
        /\ order' = [order EXCEPT ![check.id].fold = Apply(@, e)]
        /\ broker[check.id].status # "not-found" => e \in {Accepted, Unclear}
        /\ broker[check.id].status = "not-found" => e \in {Refused, NotSent, Unclear}
  BY DEF Hear
<1> DEFINE g == Apply(order[o].fold, e)
           v == [order[o] EXCEPT !.fold = g]
<1>5. /\ check' = [check EXCEPT !.at = "answered"]
      /\ UNCHANGED <<bracket, broker, tape, key, sold, crashes>>
  BY DEF Hear
<1>6. o \in Orders /\ o # Entry /\ o # NoOne /\ Entry \in Orders
  BY DEF Orders, Entry, NoOne
<1>7. order[o] \in Order_ /\ broker[o] \in Broker_ /\ Fits(order[o], broker[o]) /\ order[o].fold \in Fold_
      /\ order[o].fold.state = "sending"
  BY <1>1, <1>2, <1>3, <1>6 DEF Types, OrdersSound, OrderSound, State, Order_
<1>8. /\ g \in Fold_ /\ g.filled = order[o].fold.filled
      /\ e = Accepted => g.state \in Resting
      /\ e = Unclear => g.state = "unconfirmed"
      /\ e = Refused => g.state = "rejected"
      /\ e = NotSent => g.state = "failed"
  BY <1>7, HearFold
<1>9. order' = [order EXCEPT ![o] = v]
  BY <1>1, <1>3, <1>4, <1>6 DEF Types
<1> HIDE DEF g
<1>10. v \in Order_ /\ v.fold = g /\ v.quantity = order[o].quantity
  BY <1>7, <1>8 DEF Order_
<1> HIDE DEF v
<1>11. Fits(v, broker[o])
  BY <1>3, <1>4, <1>7, <1>8, <1>10, FitsAnswered
<1>12. PICK q \in Broker_ : q = broker[o]
  BY <1>7
<1>13. broker' = [broker EXCEPT ![o] = q]
  BY <1>1, <1>5, <1>12 DEF Types
<1>14. PICK u \in Order_ : u = v
  BY <1>10
<1>15. /\ order' \in [Orders -> Order_] /\ OrdersSound'
       /\ order'[o] = v /\ State(o)' = g.state
       /\ \A p \in Orders \ {o} : order'[p] = order[p] /\ State(p)' = State(p)
  <2>1. order' = [order EXCEPT ![o] = u] /\ Fits(u, q)
    BY <1>9, <1>11, <1>12, <1>14
  <2> QED BY <2>1, <1>1, <1>6, <1>10, <1>13, <1>14, OneChanged
<1>16. check' \in Check_ /\ check'.at = "answered" /\ check'.id = o /\ check'.request = check.request
  BY <1>1, <1>3, <1>5 DEF Types, Check_, CheckStep
<1>17. Types'
  BY <1>1, <1>5, <1>15, <1>16 DEF Types
<1>18. g.state \notin {"unwritten", "sending"}
  BY <1>4, <1>8 DEF Resting
<1>19. CheckSound' /\ PlaceFits' /\ ResizeFits'
  BY <1>1, <1>2, <1>5, <1>15, <1>16, <1>18 DEF CheckSound, PlaceFits, ResizeFits, Requested, HasExit, State
<1>20. BracketSound' /\ EntryKept'
  BY <1>1, <1>5, <1>6, <1>15 DEF BracketSound, EntryKept, HasExit
<1>21. \A p \in Exits : State(p)' \in InFlight => State(p) \in InFlight
  BY <1>2, <1>3, <1>15 DEF InFlight, Orders
<1>22. OneInFlight'
  BY <1>1, <1>21 DEF OneInFlight
<1>23. AtWork = o /\ AtWork' = o
  BY <1>1, <1>2, <1>3, <1>5, <1>16 DEF AtWork, HasExit, PlaceFits
<1>24. ASSUME crashes' = 0 PROVE KnowsItsExit' /\ SharesKept'
  <2>1. SharesKept /\ KnowsItsExit
    BY <1>5, <1>24 DEF IInv
  <2>2. Left' = Left
    BY <1>5, <1>6, <1>23 DEF Left, SoldByIt
  <2>3. SharesKept'
    BY <2>1, <2>2, <1>5, <1>6, <1>10, <1>15, <1>23 DEF SharesKept
  <2> QED BY <2>1, <2>3, <1>21, <1>23 DEF KnowsItsExit
<1> QED BY <1>15, <1>17, <1>19, <1>20, <1>22, <1>24 DEF IInv

\* The bracket's own log of it: the exit is held, or the refusal remembered.
LEMMA RecordPlacedInv == IInv /\ RecordPlaced => IInv'
<1> SUFFICES ASSUME IInv, RecordPlaced PROVE IInv'
  OBVIOUS
<1>1. Types /\ CheckSound /\ BracketSound /\ PlaceFits /\ OrdersSound /\ OneInFlight /\ EntryKept /\ bracket \in Bracket_
  BY DEF IInv, Types
<1>2. check.at = "answered" /\ check.id \in Exits /\ check.request \in Place_
  BY <1>1 DEF RecordPlaced, CheckSound
<1>3. ~HasExit(bracket) /\ bracket.phase \notin {"waiting", "ended"} /\ check.request.quantity = bracket.quantity
  BY <1>1, <1>2 DEF PlaceFits
<1>4. PICK o \in Exits : o = check.id
  BY <1>2
<1>5. o \in Orders /\ o # NoOne
  BY DEF Orders, NoOne
<1>6. check' = Idle /\ UNCHANGED <<order, broker, tape, key, sold, crashes>>
  BY DEF RecordPlaced
<1>7. AtWork = o /\ SoldByIt = broker[o].filled
  BY <1>2, <1>3, <1>4, <1>5 DEF AtWork, SoldByIt
<1>8. check' \in Check_ /\ CheckSound' /\ PlaceFits' /\ ResizeFits'
      /\ AtWork' = (IF HasExit(bracket') THEN bracket'.exit ELSE NoOne)
  BY <1>6, IdleCalm, CalmFits
<1>9. OrdersSound' /\ OneInFlight'
  BY <1>1, <1>6 DEF OrdersSound, OrderSound, OneInFlight, State
<1>10. check.request.role \in Role_ /\ check.request.price \in Int /\ check.request.quantity \in Nat /\ key \in Keys
  BY <1>1, <1>2 DEF Place_, Types
<1>11. CASE State(o) \in {"rejected", "failed"}
  <2>1. PICK class \in RefusalClass : bracket' = After(bracket, RefusedAs(check.request.role, class, key))
    BY <1>4, <1>11 DEF RecordPlaced, Words, RefusalClass
  <2>2. Keeps(bracket, bracket')
    BY <1>1, <1>10, <2>1, AfterRefused
  <2>3. Types' /\ BracketSound' /\ EntryKept'
    BY <1>1, <1>6, <1>8, <2>2 DEF Types, BracketSound, EntryKept, Keeps, HasExit
  <2>4. broker[o].filled = 0
    BY <1>1, <1>5, <1>11 DEF OrdersSound, OrderSound, Fits, State
  <2>5. AtWork' = NoOne /\ SoldByIt = 0 /\ SoldByIt' = 0
    BY <1>3, <1>7, <1>8, <2>2, <2>4 DEF Keeps, HasExit, SoldByIt
  <2>6. Left' = Left
    BY <1>6, <2>2, <2>5 DEF Left, Keeps
  <2>7. ASSUME crashes' = 0 PROVE KnowsItsExit' /\ SharesKept'
    <3>1. KnowsItsExit /\ SharesKept
      BY <1>6, <2>7 DEF IInv
    <3>2. \A p \in Exits : State(p) \notin InFlight
      BY <3>1, <1>7, <1>11 DEF KnowsItsExit, InFlight
    <3>3. SharesKept'
      BY <3>1, <1>3, <1>6, <2>2, <2>5, <2>6 DEF SharesKept, Keeps, Live
    <3> QED BY <3>2, <3>3, <1>6 DEF KnowsItsExit, State
  <2> QED BY <1>8, <1>9, <2>3, <2>7 DEF IInv
<1>12. CASE State(o) \notin {"rejected", "failed"}
  <2>1. bracket' = After(bracket, Placed(check.request.role, o, check.request.price, check.request.quantity))
    BY <1>4, <1>12 DEF RecordPlaced
  <2>2. /\ bracket' \in Bracket_ /\ bracket'.phase \notin {"waiting", "ended"} /\ bracket'.exit = o
        /\ bracket'.role = check.request.role /\ bracket'.entry_filled = bracket.entry_filled
        /\ bracket'.quantity = bracket.quantity
    BY <1>1, <1>3, <1>10, <2>1, AfterPlaced
  <2>3. bracket'.role # "none" /\ HasExit(bracket')
    BY <1>5, <1>10, <2>2 DEF Role_, HasExit
  <2>4. Types' /\ BracketSound' /\ EntryKept'
    BY <1>1, <1>6, <1>8, <2>2, <2>3 DEF Types, BracketSound, EntryKept, HasExit
  <2>5. AtWork' = o /\ SoldByIt' = SoldByIt /\ Left' = Left
    BY <1>5, <1>6, <1>7, <1>8, <2>2, <2>3 DEF SoldByIt, Left
  <2>6. ASSUME crashes' = 0 PROVE KnowsItsExit' /\ SharesKept'
    <3>1. KnowsItsExit /\ SharesKept
      BY <1>6, <2>6 DEF IInv
    <3> QED BY <3>1, <1>3, <1>6, <1>7, <2>2, <2>5 DEF KnowsItsExit, SharesKept, State, Live
  <2> QED BY <1>8, <1>9, <2>4, <2>6 DEF IInv
<1> QED BY <1>11, <1>12

\* The same bracket, but for where it knows its exit to stand.
Alike(b, c) ==
  /\ c \in Bracket_
  /\ c.exit = b.exit /\ c.role = b.role /\ c.quantity = b.quantity /\ c.entry_filled = b.entry_filled
  /\ c.phase = b.phase

\* One order moves in the book or at the broker, and nothing fills.
LEMMA OneMoves ==
  ASSUME IInv, NEW o \in Orders, NEW v \in Order_, NEW q \in Broker_, Fits(v, q),
         order' = [order EXCEPT ![o] = v], broker' = [broker EXCEPT ![o] = q],
         v.fold.state \in InFlight => State(o) \in InFlight,
         v.fold.state = State(o) \/ (State(o) # "sending" /\ v.fold.state \notin {"unwritten", "sending"}),
         v.fold.filled = order[o].fold.filled, v.quantity = order[o].quantity, q.filled = broker[o].filled,
         q.quantity = broker[o].quantity \/ (o # Entry /\ (crashes = 0 /\ o = AtWork => q.quantity <= Left)),
         check' = check \/ (Calm_(check') /\ check.at \notin {"placing", "answered"}),
         Alike(bracket, bracket'), UNCHANGED <<tape, key, sold, crashes>>
  PROVE  IInv'
<1>1. /\ Types /\ CheckSound /\ BracketSound /\ PlaceFits /\ ResizeFits /\ OrdersSound /\ OneInFlight /\ EntryKept
  BY DEF IInv
<1>2. /\ order' \in [Orders -> Order_] /\ broker' \in [Orders -> Broker_] /\ OrdersSound'
      /\ order'[o] = v /\ broker'[o] = q /\ State(o)' = v.fold.state
      /\ \A p \in Orders \ {o} : order'[p] = order[p] /\ broker'[p] = broker[p] /\ State(p)' = State(p)
  BY <1>1, OneChanged
<1>3. \A p \in Orders : /\ State(p)' \in InFlight => State(p) \in InFlight
                        /\ State(p) = "sending" => State(p)' = "sending"
                        /\ State(p) \notin {"unwritten", "sending"} => State(p)' \notin {"unwritten", "sending"}
                        /\ order'[p].fold.filled = order[p].fold.filled /\ order'[p].quantity = order[p].quantity
                        /\ broker'[p].filled = broker[p].filled
  BY <1>2
<1>4. Exits \subseteq Orders /\ Entry \in Orders
  BY DEF Orders
<1>5. check' \in Check_ /\ CheckSound' /\ PlaceFits' /\ ResizeFits' /\ AtWork' = AtWork
  <2>1. CASE check' = check
    <3>1. check' \in Check_ /\ PlaceFits' /\ ResizeFits' /\ AtWork' = AtWork
      BY <2>1, <1>1 DEF Types, PlaceFits, ResizeFits, Requested, HasExit, AtWork, Alike
    <3>2. check.at \in {"placing", "answered"} => check.id \in Orders
      BY <1>1, <1>4 DEF CheckSound
    <3>3. check.at = "placing" => State(check.id)' = "sending"
      BY <1>1, <1>3, <3>2 DEF CheckSound
    <3>4. check.at = "answered" => State(check.id)' \notin {"unwritten", "sending"}
      BY <1>1, <1>3, <3>2 DEF CheckSound
    <3>5. CheckSound'
      BY <2>1, <1>1, <3>3, <3>4 DEF CheckSound, State
    <3> QED BY <3>1, <3>5
  <2>2. CASE Calm_(check') /\ check.at \notin {"placing", "answered"}
    BY <2>2, CalmFits, NotPlacing DEF Alike, HasExit
  <2> QED BY <2>1, <2>2
<1>6. Types'
  BY <1>1, <1>2, <1>5 DEF Types, Alike
<1>7. BracketSound'
  BY <1>1 DEF BracketSound, HasExit, Alike
<1>8. EntryKept'
  <2>1. broker'[Entry].quantity = broker[Entry].quantity
    BY <1>2, <1>4
  <2> QED BY <2>1, <1>1, <1>3, <1>4 DEF EntryKept, Alike
<1>9. OneInFlight'
  BY <1>1, <1>3, <1>4 DEF OneInFlight
<1>10. ASSUME crashes' = 0 PROVE KnowsItsExit' /\ SharesKept'
  <2>1. KnowsItsExit /\ SharesKept /\ crashes = 0
    BY <1>10 DEF IInv
  <2>2. KnowsItsExit'
    BY <2>1, <1>3, <1>4, <1>5 DEF KnowsItsExit
  <2>3. AtWork # NoOne => AtWork \in Orders
    BY <1>1, <1>4 DEF AtWork, HasExit, CheckSound, Types, Bracket_
  <2>4. SoldByIt' = SoldByIt /\ Left' = Left
    <3>1. SoldByIt' = SoldByIt
      BY <1>3, <1>5, <2>3 DEF SoldByIt
    <3> QED BY <3>1 DEF Left, Alike
  <2>5. AtWork # NoOne => broker'[AtWork].quantity <= Left
    BY <1>2, <2>1, <2>3 DEF SharesKept
  <2>6. SharesKept'
    BY <1>3, <1>5, <2>1, <2>3, <2>4, <2>5 DEF SharesKept, Alike, Live
  <2> QED BY <2>2, <2>6
<1> QED BY <1>2, <1>5, <1>6, <1>7, <1>8, <1>9, <1>10 DEF IInv

\* The bracket is like itself, and an order that stays as it is is no change.
LEMMA Unmoved ==
  ASSUME IInv, NEW o \in Orders
  PROVE  /\ Alike(bracket, bracket)
         /\ order[o] \in Order_ /\ broker[o] \in Broker_ /\ Fits(order[o], broker[o])
         /\ order[o].fold \in Fold_ /\ order[o].fold.filled \in Nat /\ order[o].fold.state = State(o)
         /\ order = [order EXCEPT ![o] = order[o]] /\ broker = [broker EXCEPT ![o] = broker[o]]
BY DEF Alike, IInv, Types, OrdersSound, OrderSound, Order_, Fold_, State

\* A cancel recorded as asked, and noted or not by the broker.
LEMMA AskOne ==
  ASSUME NEW w \in Order_, NEW r \in Broker_, Fits(w, r), w.fold.state \in Resting \cup {"cancelling"}
  PROVE  LET v == [w EXCEPT !.fold = Apply(w.fold, CancelAsked), !.asked = TRUE] IN
         /\ v \in Order_ /\ Fits(v, r) /\ v.fold.state = "cancelling" /\ v.fold.filled = w.fold.filled
         /\ v.quantity = w.quantity
<1> DEFINE g == Apply(w.fold, CancelAsked)
           v == [w EXCEPT !.fold = g, !.asked = TRUE]
<1>1. w.fold \in Fold_
  BY DEF Order_
<1>2. g \in Fold_ /\ g.state = "cancelling" /\ g.filled = w.fold.filled
  BY <1>1, AskFold
<1> HIDE DEF g
<1>3. v \in Order_ /\ v.fold = g /\ v.quantity = w.quantity
  BY <1>2 DEF Order_
<1> HIDE DEF v
<1>4. Fits(v, r)
  BY <1>2, <1>3, FitsAnswered
<1> QED BY <1>2, <1>3, <1>4 DEF v, g

\* The cancel turned down.
LEMMA RefuseOne ==
  ASSUME NEW w \in Order_, NEW r \in Broker_, Fits(w, r)
  PROVE  \E u \in Order_ :
           /\ u = [w EXCEPT !.fold = Apply(w.fold, CancelRefused)]
           /\ Fits(u, r) /\ u.fold.filled = w.fold.filled /\ u.quantity = w.quantity
           /\ u.fold.state = w.fold.state \/ (w.fold.state = "cancelling" /\ u.fold.state \in Resting)
<1> DEFINE g == Apply(w.fold, CancelRefused)
           v == [w EXCEPT !.fold = g]
<1>1. w.fold \in Fold_
  BY DEF Order_
<1>2. g \in Fold_ /\ g.filled = w.fold.filled
      /\ (g.state = w.fold.state \/ (w.fold.state = "cancelling" /\ g.state \in Resting))
  BY <1>1, AskFold
<1> HIDE DEF g
<1>3. v \in Order_ /\ v.fold = g /\ v.quantity = w.quantity
  BY <1>2 DEF Order_
<1>0. v = [w EXCEPT !.fold = Apply(w.fold, CancelRefused)]
  BY DEF g
<1> HIDE DEF v
<1>4. Fits(v, r)
  BY <1>2, <1>3, FitsAnswered
<1> QED BY <1>0, <1>2, <1>3, <1>4

\* What the broker may note of an order without filling it.
Noted(r, t)   == [r EXCEPT !.cancelling = t]
Priced(r, p)  == [r EXCEPT !.price = p]
Sized(r, n)   == [r EXCEPT !.quantity = n]
EndedIn(r, s) == [r EXCEPT !.status = s]

\* The broker notes a cancel of an order.
LEMMA NoteCancel ==
  ASSUME NEW w \in Order_, NEW r \in Broker_, Fits(w, r), NEW t \in BOOLEAN
  PROVE  LET q == Noted(r, t) IN q \in Broker_ /\ Fits(w, q) /\ q.filled = r.filled /\ q.quantity = r.quantity
<1> DEFINE q == Noted(r, t)
<1>1. q \in Broker_ /\ q.filled = r.filled /\ q.quantity = r.quantity /\ q.status = r.status /\ r.filled \in Nat
  BY DEF Noted, Broker_, BrokerStatus
<1> HIDE DEF q
<1>2. r.filled <= q.quantity
  BY <1>1 DEF Fits
<1>3. Fits(w, q)
  BY <1>1, <1>2 DEF Fits
<1> QED BY <1>1, <1>3 DEF q

\* The person moves it at the broker.
LEMMA NotePrice ==
  ASSUME NEW w \in Order_, NEW r \in Broker_, Fits(w, r), NEW p \in Int
  PROVE  LET q == Priced(r, p) IN q \in Broker_ /\ Fits(w, q) /\ q.filled = r.filled /\ q.quantity = r.quantity
<1> DEFINE q == Priced(r, p)
<1>1. q \in Broker_ /\ q.filled = r.filled /\ q.quantity = r.quantity /\ q.status = r.status /\ r.filled \in Nat
  BY DEF Priced, Broker_, BrokerStatus
<1> HIDE DEF q
<1>2. r.filled <= q.quantity
  BY <1>1 DEF Fits
<1>3. Fits(w, q)
  BY <1>1, <1>2 DEF Fits
<1> QED BY <1>1, <1>3 DEF q

\* The broker changes its quantity, to more than has filled.
LEMMA NoteQuantity ==
  ASSUME NEW w \in Order_, NEW r \in Broker_, Fits(w, r), NEW n \in Nat, n > r.filled
  PROVE  LET q == Sized(r, n) IN q \in Broker_ /\ Fits(w, q) /\ q.filled = r.filled /\ q.quantity = n
<1> DEFINE q == Sized(r, n)
<1>1. q \in Broker_ /\ q.filled = r.filled /\ q.quantity = n /\ q.status = r.status /\ r.filled \in Nat
  BY DEF Sized, Broker_, BrokerStatus
<1> HIDE DEF q
<1>2. r.filled <= q.quantity
  BY <1>1 DEF Fits
<1>3. Fits(w, q)
  BY <1>1, <1>2 DEF Fits
<1> QED BY <1>1, <1>3 DEF q

\* The broker ends it.
LEMMA NoteEnd ==
  ASSUME NEW w \in Order_, NEW r \in Broker_, Fits(w, r), NEW s \in {"cancelled", "expired", "rejected"},
         r.status = "open", s = "rejected" => r.filled = 0
  PROVE  LET q == EndedIn(r, s) IN q \in Broker_ /\ Fits(w, q) /\ q.filled = r.filled /\ q.quantity = r.quantity
<1> DEFINE q == EndedIn(r, s)
<1>1. q \in Broker_ /\ q.filled = r.filled /\ q.quantity = r.quantity /\ q.status = s /\ r.filled \in Nat
  BY DEF EndedIn, Broker_, BrokerStatus
<1> HIDE DEF q
<1>2. r.filled <= q.quantity
  BY <1>1 DEF Fits
<1>3. Fits(w, q)
  BY <1>1, <1>2 DEF Fits
<1> QED BY <1>1, <1>3 DEF q

\* A cancel asked: nothing else moves.
LEMMA AskedMoves ==
  ASSUME IInv, NEW o \in Orders, State(o) \in Resting \cup {"cancelling"}, AskCancel(o),
         Cancel(o) \/ UNCHANGED broker,
         check' = check \/ (Calm_(check') /\ check.at \notin {"placing", "answered"}),
         UNCHANGED <<bracket, tape, key, sold, crashes>>
  PROVE  IInv'
<1> DEFINE v == [order[o] EXCEPT !.fold = Apply(order[o].fold, CancelAsked), !.asked = TRUE]
           t == broker[o].status = "open"
           q == IF Cancel(o) THEN [broker[o] EXCEPT !.cancelling = t] ELSE broker[o]
<1>1. /\ Alike(bracket, bracket) /\ order[o] \in Order_ /\ broker[o] \in Broker_ /\ Fits(order[o], broker[o])
      /\ order[o].fold \in Fold_ /\ order[o].fold.state = State(o)
  BY Unmoved
<1>2. order \in [Orders -> Order_] /\ broker \in [Orders -> Broker_]
  BY DEF IInv, Types
<1>3. order' = [order EXCEPT ![o] = v]
  BY <1>1, <1>2 DEF AskCancel
<1>4. broker' = [broker EXCEPT ![o] = q]
  <2>1. CASE Cancel(o)
    BY <2>1, <1>2 DEF Cancel
  <2>2. CASE ~Cancel(o)
    BY <2>2, <1>2
  <2> QED BY <2>1, <2>2
<1>5. v \in Order_ /\ v.fold.state = "cancelling" /\ v.fold.filled = order[o].fold.filled
      /\ v.quantity = order[o].quantity /\ Fits(v, broker[o])
  BY <1>1, AskOne
<1> HIDE DEF v
<1>6. q \in Broker_ /\ Fits(v, q) /\ q.filled = broker[o].filled /\ q.quantity = broker[o].quantity
  <2>1. t \in BOOLEAN /\ [broker[o] EXCEPT !.cancelling = t] = Noted(broker[o], t)
    BY DEF Noted
  <2> HIDE DEF t
  <2>2. LET z == Noted(broker[o], t) IN
        z \in Broker_ /\ Fits(v, z) /\ z.filled = broker[o].filled /\ z.quantity = broker[o].quantity
    BY <1>1, <1>5, <2>1, NoteCancel
  <2> QED BY <1>1, <1>5, <2>1, <2>2
<1> HIDE DEF q
<1>7. PICK u \in Order_, z \in Broker_ : u = v /\ z = q
  BY <1>5, <1>6
<1>8. "cancelling" \in InFlight /\ "cancelling" \notin {"unwritten", "sending"} /\ "sending" \notin Resting
      /\ Resting \subseteq InFlight
  BY DEF InFlight, Resting
<1>9. Alike(bracket, bracket')
  BY <1>1
<1>10. /\ order' = [order EXCEPT ![o] = u] /\ broker' = [broker EXCEPT ![o] = z] /\ Fits(u, z)
       /\ u.fold.state = "cancelling" /\ u.fold.filled = order[o].fold.filled /\ u.quantity = order[o].quantity
       /\ z.filled = broker[o].filled /\ z.quantity = broker[o].quantity
  BY <1>3, <1>4, <1>5, <1>6, <1>7
<1>11. State(o) \in InFlight /\ State(o) # "sending"
  BY <1>8
<1> QED BY <1>8, <1>9, <1>10, <1>11, OneMoves

\* A cancel sent by the check.
LEMMA CancelSentInv == IInv /\ CancelSent => IInv'
<1> SUFFICES ASSUME IInv, CancelSent PROVE IInv'
  OBVIOUS
<1>1. check \in Check_ /\ check.at = "sending" /\ check.request.kind = "cancel"
  BY DEF IInv, Types, CancelSent, Requested
<1>2. check.request \in Cancel_
  BY <1>1 DEF Check_, Request_, NoRequest, Place_, Resize_
<1>3. PICK o \in Orders : o = check.request.id
  BY <1>2 DEF Cancel_
<1>4. State(o) \in Resting \cup {"cancelling"} /\ AskCancel(o) /\ UNCHANGED broker
      /\ check' = [check EXCEPT !.at = "cancelling"] /\ UNCHANGED <<bracket, tape, key, sold, crashes>>
  BY <1>3 DEF CancelSent, AskCancel
<1>5. Calm_(check')
  BY <1>1, <1>2, <1>4 DEF Calm_, Check_, CheckStep
<1> QED BY <1>1, <1>4, <1>5, AskedMoves

\* The sweep, of an exit nothing holds.
LEMMA SweepInv == ASSUME NEW o \in Orders PROVE IInv /\ Sweep(o) => IInv'
<1> SUFFICES ASSUME IInv, Sweep(o) PROVE IInv'
  OBVIOUS
<1>1. /\ State(o) \in Resting \cup {"cancelling"} /\ AskCancel(o) /\ (Cancel(o) \/ UNCHANGED broker)
      /\ check' = check /\ UNCHANGED <<bracket, tape, key, sold, crashes>>
  BY DEF Sweep
<1> QED BY <1>1, AskedMoves

\* The answer to the cancel.
LEMMA CancelAnsweredInv == IInv /\ CancelAnswered => IInv'
<1> SUFFICES ASSUME IInv, CancelAnswered PROVE IInv'
  OBVIOUS
<1>1. Types /\ CheckSound /\ check.at = "cancelling" /\ check.request \in Cancel_ /\ check' = Idle
      /\ UNCHANGED <<bracket, tape, key, sold, crashes>>
  BY DEF IInv, CheckSound, CancelAnswered
<1>2. PICK o \in Orders : o = check.request.id
  BY <1>1 DEF Cancel_
<1>3. /\ Alike(bracket, bracket') /\ order[o] \in Order_ /\ broker[o] \in Broker_ /\ Fits(order[o], broker[o])
      /\ order[o].fold \in Fold_ /\ order[o].fold.filled \in Nat /\ order[o].fold.state = State(o)
      /\ order = [order EXCEPT ![o] = order[o]] /\ broker = [broker EXCEPT ![o] = broker[o]]
  BY <1>1, Unmoved
<1>4. Calm_(check') /\ check.at \notin {"placing", "answered"}
  BY <1>1, IdleCalm
<1>5. CASE Cancel(o) /\ UNCHANGED order
  <2>1. PICK t \in BOOLEAN : t = (broker[o].status = "open")
    OBVIOUS
  <2>2. PICK z \in Broker_ : z = Noted(broker[o], t) /\ Fits(order[o], z)
                             /\ z.filled = broker[o].filled /\ z.quantity = broker[o].quantity
    BY <1>3, NoteCancel
  <2>3. broker' = [broker EXCEPT ![o] = z]
    BY <1>1, <1>5, <2>1, <2>2 DEF Cancel, Types, Noted
  <2>4. PICK u \in Order_ : u = order[o]
    BY <1>3
  <2>5. order' = [order EXCEPT ![o] = u] /\ Fits(u, z) /\ u.fold.state = State(o)
        /\ u.fold.filled = order[o].fold.filled /\ u.quantity = order[o].quantity
    BY <1>3, <1>5, <2>2, <2>4
  <2> QED BY <1>1, <1>3, <1>4, <2>2, <2>3, <2>5, OneMoves
<1>6. CASE UNCHANGED <<broker, order>>
  <2>1. PICK u \in Order_, z \in Broker_ : u = order[o] /\ z = broker[o]
    BY <1>3
  <2>2. order' = [order EXCEPT ![o] = u] /\ broker' = [broker EXCEPT ![o] = z] /\ Fits(u, z) /\ u.fold.state = State(o)
        /\ u.fold.filled = order[o].fold.filled /\ u.quantity = order[o].quantity
        /\ z.filled = broker[o].filled /\ z.quantity = broker[o].quantity
    BY <1>3, <1>6, <2>1
  <2> QED BY <1>1, <1>3, <1>4, <2>2, OneMoves
<1>7. CASE order' = [order EXCEPT ![o].fold = Apply(@, CancelRefused)] /\ UNCHANGED broker
  <2>1. PICK u \in Order_ : u = [order[o] EXCEPT !.fold = Apply(order[o].fold, CancelRefused)]
                            /\ Fits(u, broker[o]) /\ u.fold.filled = order[o].fold.filled /\ u.quantity = order[o].quantity
                            /\ (u.fold.state = State(o) \/ (State(o) = "cancelling" /\ u.fold.state \in Resting))
    BY <1>3, RefuseOne
  <2>2. order' = [order EXCEPT ![o] = u]
    BY <1>1, <1>7, <2>1 DEF Types
  <2>3. PICK z \in Broker_ : z = broker[o]
    BY <1>3
  <2>4. broker' = [broker EXCEPT ![o] = z] /\ Fits(u, z) /\ z.filled = broker[o].filled /\ z.quantity = broker[o].quantity
    BY <1>3, <1>7, <2>1, <2>3
  <2>5. (u.fold.state \in InFlight => State(o) \in InFlight)
        /\ (u.fold.state = State(o) \/ (State(o) # "sending" /\ u.fold.state \notin {"unwritten", "sending"}))
    BY <2>1 DEF InFlight, Resting
  <2> QED BY <1>1, <1>3, <1>4, <2>1, <2>2, <2>4, <2>5, OneMoves
<1>8. \/ Cancel(o) /\ UNCHANGED order
      \/ UNCHANGED <<broker, order>>
      \/ order' = [order EXCEPT ![o].fold = Apply(@, CancelRefused)] /\ UNCHANGED broker
  BY <1>2 DEF CancelAnswered, Cancel
<1> QED BY <1>5, <1>6, <1>7, <1>8

\* A change of the resting exit's quantity: taken, gone unanswered, or turned down.
LEMMA ResizeSentInv == IInv /\ ResizeSent => IInv'
<1> SUFFICES ASSUME IInv, ResizeSent PROVE IInv'
  OBVIOUS
<1>1. Types /\ ResizeFits /\ BracketSound /\ check \in Check_ /\ bracket \in Bracket_ /\ check.at = "sending"
      /\ check.request.kind = "resize" /\ UNCHANGED <<order, tape, key, sold, crashes>>
  BY DEF IInv, Types, ResizeSent, Requested
<1>2. check.request \in Resize_
  BY <1>1 DEF Check_, Request_, NoRequest, Place_, Cancel_
<1>3. PICK o \in Exits, n \in Nat \ {0} : o = check.request.id /\ n = check.request.quantity
  BY <1>2 DEF Resize_
<1>4. o = bracket.exit /\ n = bracket.quantity /\ HasExit(bracket) /\ bracket.phase \notin {"waiting", "ended"}
  BY <1>1, <1>3 DEF ResizeFits, Requested, HasExit, NoOne, BracketSound
<1>5. o \in Orders /\ o # Entry
  BY DEF Orders, Entry
<1>6. \/ check' = Idle /\ UNCHANGED <<bracket, broker>>
      \/ bracket' = After(bracket, Resized(n)) /\ check' = Idle /\ (ChangeAtBroker(o, n) \/ UNCHANGED broker)
      \/ check' = [check EXCEPT !.request = CancelOf(o)] /\ UNCHANGED <<bracket, broker>>
  BY <1>3 DEF ResizeSent
<1>7. CASE UNCHANGED <<bracket, broker>> /\ (check' = Idle \/ check' = [check EXCEPT !.request = CancelOf(o)])
  <2>1. Keeps(bracket, bracket')
    BY <1>1, <1>7, AfterCancelAsked
  <2>2. CancelOf(o) \in Cancel_ /\ CancelOf(o) \in Request_
    BY <1>5 DEF CancelOf, Cancel_, Request_
  <2>3. Calm_([check EXCEPT !.request = CancelOf(o)])
    BY <1>1, <2>2 DEF Calm_, Check_
  <2> QED BY <1>1, <1>7, <2>1, <2>3, IdleCalm, CalmKeeps
<1>8. CASE bracket' = After(bracket, Resized(n)) /\ check' = Idle /\ (ChangeAtBroker(o, n) \/ UNCHANGED broker)
  <2>1. bracket' \in Bracket_ /\ bracket' = [bracket EXCEPT !.at_qty = n]
    BY <1>1, <1>4, <1>8, AfterResized
  <2>2. Alike(bracket, bracket')
    BY <1>1, <2>1 DEF Alike, Bracket_
  <2>3. /\ order[o] \in Order_ /\ broker[o] \in Broker_ /\ Fits(order[o], broker[o]) /\ order[o].fold.state = State(o)
        /\ order = [order EXCEPT ![o] = order[o]] /\ broker = [broker EXCEPT ![o] = broker[o]]
    BY <1>5, Unmoved
  <2>4. crashes = 0 => n <= Left
    BY <1>1, <1>4 DEF IInv, SharesKept, Live
  <2>5. PICK z \in Broker_ : /\ broker' = [broker EXCEPT ![o] = z] /\ Fits(order[o], z) /\ z.filled = broker[o].filled
                             /\ z.quantity = broker[o].quantity \/ z.quantity = n
    <3>1. CASE broker' = broker
      BY <2>3, <3>1
    <3>2. CASE broker' # broker
      <4>1. n > broker[o].filled /\ broker' = [broker EXCEPT ![o].quantity = n]
        BY <1>8, <3>2 DEF ChangeAtBroker
      <4>2. \E z \in Broker_ : z = Sized(broker[o], n) /\ Fits(order[o], z) /\ z.filled = broker[o].filled
                               /\ z.quantity = n
        BY <2>3, <4>1, NoteQuantity
      <4>3. broker' = [broker EXCEPT ![o] = Sized(broker[o], n)]
        BY <1>1, <4>1 DEF Types, Sized
      <4> QED BY <4>2, <4>3
    <3> QED BY <3>1, <3>2
  <2>6. PICK u \in Order_ : u = order[o]
    BY <2>3
  <2>7. /\ order' = [order EXCEPT ![o] = u] /\ Fits(u, z) /\ u.fold.state = State(o)
        /\ u.fold.filled = order[o].fold.filled /\ u.quantity = order[o].quantity
    BY <1>1, <2>3, <2>5, <2>6
  <2>8. z.quantity = broker[o].quantity \/ (o # Entry /\ (crashes = 0 /\ o = AtWork => z.quantity <= Left))
    BY <1>5, <2>4, <2>5
  <2>9. Calm_(check') /\ check.at \notin {"placing", "answered"}
    BY <1>1, <1>8, IdleCalm
  <2> QED BY <1>1, <1>5, <2>2, <2>5, <2>7, <2>8, <2>9, OneMoves
<1> QED BY <1>6, <1>7, <1>8

\* What the person asks, recorded; and its cancel, where it has one, sent.
LEMMA PersonCalm ==
  ASSUME IInv, check.at = "idle", NEW step, NEW now, Take(step, now), Calm_(now), now.at # "deciding",
         \/ step.request = NoRequest
         \/ \E o \in Orders : step.request = CancelOf(o),
         Keeps(bracket, AfterAll(bracket, step.events)),
         UNCHANGED <<order, broker, tape, key, sold, crashes>>
  PROVE  CalmStep
<1>1. bracket' = AfterAll(bracket, step.events)
  BY DEF Take
<1>2. now \in Check_
  BY DEF Calm_
<1>3. Calm_(check') /\ check'.at # "deciding"
  <2>1. CASE step.request = NoRequest
    BY <2>1 DEF Take
  <2>2. CASE step.request # NoRequest
    <3>1. PICK o \in Orders : step.request = CancelOf(o)
      BY <2>2
    <3>2. CancelOf(o) \in Cancel_ /\ CancelOf(o) \in Request_
      BY DEF CancelOf, Cancel_, Request_
    <3>3. check' = [now EXCEPT !.at = "sending", !.request = CancelOf(o), !.tape = NoTape]
      BY <2>2, <3>1 DEF Take
    <3> QED BY <1>2, <3>2, <3>3, SendingCheck DEF Calm_
  <2> QED BY <2>1, <2>2
<1> QED BY <1>1, <1>3 DEF CalmStep

\* An end asked by the person, whatever the exit.
LEMMA EndKeeps ==
  ASSUME IInv, NEW outcome \in Outcome_
  PROVE  LET step == End(ExitOf, outcome) IN
         /\ Keeps(bracket, AfterAll(bracket, step.events))
         /\ \/ step.request = NoRequest
            \/ \E o \in Orders : step.request = CancelOf(o)
<1> DEFINE c == After(bracket, EndedAs(outcome))
<1>1. bracket \in Bracket_ /\ BracketSound
  BY DEF IInv, Types
<1>2. Keeps(bracket, c) /\ c \in Bracket_
  BY <1>1, AfterOver DEF BracketSound, Keeps
<1>3. Keeps(bracket, AfterAll(bracket, <<EndedAs(outcome)>>))
  BY <1>2, AfterEvents
<1> HIDE DEF c
<1>4. Keeps(bracket, After(c, Ev("cancel-asked")))
  BY <1>2, AfterCancelAsked, KeepsOn
<1>5. Keeps(bracket, AfterAll(bracket, <<EndedAs(outcome), Ev("cancel-asked")>>))
  BY <1>4, AfterTwo DEF c
<1>6. ExitOf # NoExit => ExitOf.id \in Orders
  <2>1. ExitOf # NoExit => HasExit(bracket) /\ ExitOf.id = bracket.exit
    BY DEF ExitOf
  <2> QED BY <1>1, <2>1 DEF HasExit, Bracket_, Orders
<1>7. End(ExitOf, outcome) = Records(<<EndedAs(outcome)>>)
      \/ (ExitOf # NoExit /\ End(ExitOf, outcome) = Sends(<<EndedAs(outcome), Ev("cancel-asked")>>, CancelOf(ExitOf.id)))
  BY DEF End
<1> QED BY <1>3, <1>5, <1>6, <1>7 DEF Records, Sends

\* A leg moved or taken off.
LEMMA AdjustCalm == ASSUME IInv, Adjust PROVE CalmStep
<1> DEFINE now == [Idle EXCEPT !.at = "reading", !.by = "person"]
<1>1. PICK stop \in StopsFor(bracket.stop), target \in Targets \cup {0, bracket.target} :
        Take(AdjustTo(ExitOf, stop, target), now)
  BY DEF Adjust
<1>2. bracket \in Bracket_ /\ check.at = "idle" /\ UNCHANGED <<order, broker, tape, key, sold, crashes>>
  BY DEF IInv, Types, Adjust
<1>3. target \in Nat
  <2>1. bracket.target \in Nat
    BY <1>2 DEF Bracket_
  <2>2. Targets \subseteq Nat /\ 0 \in Nat
    OBVIOUS
  <2> QED BY <2>1, <2>2
<1>4. stop \in Leg_
  <2>1. bracket.stop \in Leg_ /\ NoLeg \in Leg_ /\ Stops \subseteq Leg_
    BY <1>2 DEF Bracket_, Leg_, NoLeg
  <2>2. \A s \in Stops : s.trail \in Int
    BY <2>1 DEF Leg_
  <2>3. ASSUME NEW s \in Stops
        PROVE  [bracket.stop EXCEPT !.trail = s.trail,
                  !.level = IF bracket.stop.high > 0 THEN Trailed(s.trail, bracket.stop.high) ELSE bracket.stop.level] \in Leg_
    <3>1. s.trail \in Int /\ bracket.stop.high \in Int /\ bracket.stop.level \in Int
          /\ Trailed(s.trail, bracket.stop.high) \in Int
      BY <2>1, <2>2 DEF Leg_, Trailed
    <3> QED BY <2>1, <3>1 DEF Leg_
  <2>4. \/ stop \in {bracket.stop, NoLeg} \cup Stops
        \/ \E s \in Stops : stop = [bracket.stop EXCEPT !.trail = s.trail,
                  !.level = IF bracket.stop.high > 0 THEN Trailed(s.trail, bracket.stop.high) ELSE bracket.stop.level]
    BY <2>1 DEF StopsFor, Leg_
  <2> QED BY <2>1, <2>3, <2>4
<1>5. Calm_(now) /\ now.at # "deciding"
  <2>1. Idle \in Check_
    BY IdleCalm DEF Calm_, Idle
  <2> QED BY <2>1 DEF Calm_, Check_, CheckStep
<1> HIDE DEF now
<1>6. CASE stop = NoLeg /\ target = 0
  <2>1. "both legs removed" \in Outcome_
    BY DEF Outcome_
  <2>2. AdjustTo(ExitOf, stop, target) = End(ExitOf, "both legs removed")
    BY <1>6 DEF AdjustTo
  <2> QED BY <1>1, <1>2, <1>5, <2>1, <2>2, EndKeeps, PersonCalm
<1>7. CASE ~(stop = NoLeg /\ target = 0)
  <2>1. AdjustTo(ExitOf, stop, target) = Records(<<Adjusted(stop, target)>>)
    BY <1>7 DEF AdjustTo
  <2>2. Keeps(bracket, After(bracket, Adjusted(stop, target)))
    BY <1>2, <1>3, <1>4, AfterAdjusted
  <2>3. Keeps(bracket, AfterAll(bracket, <<Adjusted(stop, target)>>))
    BY <2>2, AfterEvents
  <2> QED BY <1>1, <1>2, <1>5, <2>1, <2>3, PersonCalm DEF Records
<1> QED BY <1>6, <1>7

\* The bracket called off.
LEMMA CancelBracketCalm == ASSUME IInv, CancelBracket PROVE CalmStep
<1> DEFINE now == [Idle EXCEPT !.by = "person"]
<1>1. Take(End(ExitOf, "cancelled by the user"), now) /\ check.at = "idle"
      /\ UNCHANGED <<order, broker, tape, key, sold, crashes>>
  BY DEF CancelBracket
<1>2. "cancelled by the user" \in Outcome_
  BY DEF Outcome_
<1>3. Calm_(now) /\ now.at # "deciding"
  <2>1. Idle \in Check_ /\ Idle.at = "idle"
    BY IdleCalm DEF Calm_, Idle
  <2> QED BY <2>1 DEF Calm_, Check_
<1> HIDE DEF now
<1> QED BY <1>1, <1>2, <1>3, EndKeeps, PersonCalm

\* The broker fills an order: an exit's fill is of shares the bracket still had.
LEMMA FillInv == ASSUME NEW o \in Orders PROVE IInv /\ Fill(o) => IInv'
<1> SUFFICES ASSUME IInv, Fill(o) PROVE IInv'
  OBVIOUS
<1> DEFINE r == broker[o]
<1>1. /\ Types /\ CheckSound /\ BracketSound /\ PlaceFits /\ ResizeFits /\ OrdersSound /\ OneInFlight /\ EntryKept
      /\ order \in [Orders -> Order_] /\ broker \in [Orders -> Broker_] /\ sold \in Nat /\ bracket \in Bracket_
  BY DEF IInv, Types
<1>2. UNCHANGED <<bracket, order, tape, key, check, crashes>> /\ r.status = "open"
  BY DEF Fill
<1>3. PICK n \in 1 .. r.quantity - r.filled :
        /\ broker' = [broker EXCEPT ![o].filled = @ + n,
                        ![o].status = IF broker[o].filled + n = broker[o].quantity THEN "filled" ELSE @]
        /\ sold' = IF o = Entry THEN sold ELSE sold + n
  BY DEF Fill
<1>4. PICK f \in Nat : f = r.filled + n
  <2>1. r.filled \in Nat /\ r.quantity \in Nat
    BY <1>1 DEF Broker_
  <2> QED BY <2>1
<1>5. PICK s \in {"open", "filled"} : s = IF r.filled + n = r.quantity THEN "filled" ELSE "open"
  OBVIOUS
<1> DEFINE q == [r EXCEPT !.filled = f, !.status = s]
<1>6. r \in Broker_ /\ order[o] \in Order_ /\ Fits(order[o], r) /\ r.filled \in Nat /\ r.quantity \in Nat
  BY <1>1 DEF OrdersSound, OrderSound, Broker_
<1>7. broker' = [broker EXCEPT ![o] = q]
  BY <1>1, <1>2, <1>3, <1>4, <1>5
<1>8. q \in Broker_ /\ q.filled = f /\ q.status = s /\ q.quantity = r.quantity
  BY <1>6 DEF Broker_, BrokerStatus
<1> HIDE DEF q
<1>9. f > r.filled /\ f <= r.quantity
  BY <1>3, <1>4, <1>6
<1>10. Fits(order[o], q)
  BY <1>2, <1>6, <1>8, <1>9, FitsFilled
<1>11. PICK u \in Order_, z \in Broker_ : u = order[o] /\ z = q
  BY <1>6, <1>8
<1>12. /\ order' = [order EXCEPT ![o] = u] /\ broker' = [broker EXCEPT ![o] = z] /\ Fits(u, z)
       /\ z.filled = f /\ z.quantity = r.quantity
  BY <1>1, <1>2, <1>7, <1>8, <1>10, <1>11
<1>13. /\ broker' \in [Orders -> Broker_] /\ OrdersSound' /\ broker'[o] = z
       /\ \A p \in Orders \ {o} : broker'[p] = broker[p]
  BY <1>1, <1>12, OneChanged
<1>14. sold' \in Nat
  BY <1>1, <1>3
<1>15. Types' /\ CheckSound' /\ BracketSound' /\ PlaceFits' /\ ResizeFits' /\ OneInFlight'
  BY <1>1, <1>2, <1>13, <1>14
     DEF Types, CheckSound, BracketSound, PlaceFits, ResizeFits, OneInFlight, Requested, HasExit, State
<1>16. EntryKept'
  <2>1. Entry \in Orders
    BY DEF Orders
  <2> QED BY <1>1, <1>2, <1>12, <1>13, <2>1 DEF EntryKept
<1>17. AtWork' = AtWork
  BY <1>2 DEF AtWork, HasExit
<1>18. ASSUME crashes' = 0 PROVE KnowsItsExit' /\ SharesKept'
  <2>1. KnowsItsExit /\ SharesKept
    BY <1>2, <1>18 DEF IInv
  <2>2. KnowsItsExit'
    BY <2>1, <1>2, <1>17 DEF KnowsItsExit, State
  <2>3. AtWork # NoOne => AtWork \in Exits /\ AtWork \in Orders /\ AtWork # Entry
    BY <1>1 DEF AtWork, HasExit, CheckSound, Bracket_, Orders, Entry, NoOne
  <2>4. bracket.entry_filled \in Nat /\ bracket.quantity \in Int
    BY <1>1 DEF Bracket_
  <2>5. CASE o = Entry
    <3>1. SoldByIt' = SoldByIt /\ sold' = sold /\ (AtWork # NoOne => broker'[AtWork] = broker[AtWork])
      BY <1>3, <1>13, <1>17, <2>3, <2>5 DEF SoldByIt
    <3>2. Left' = Left
      BY <1>2, <3>1 DEF Left
    <3> QED BY <2>1, <2>2, <1>2, <1>17, <3>1, <3>2 DEF SharesKept
  <2>6. CASE o # Entry
    <3>1. o \in Exits /\ State(o) \in InFlight
      BY <1>2, <1>6, <2>6 DEF Orders, Fits, State
    <3>2. o = AtWork /\ AtWork # NoOne
      BY <2>1, <3>1 DEF KnowsItsExit, NoOne
    <3>3. SoldByIt = r.filled /\ SoldByIt' = f /\ sold' = sold + n
      BY <1>3, <1>12, <1>13, <1>17, <2>6, <3>2 DEF SoldByIt
    <3>4. Left = bracket.entry_filled - (sold - r.filled) /\ Left' = bracket.entry_filled - ((sold + n) - f)
      BY <1>2, <3>3 DEF Left
    <3>5. Left' = Left /\ Left \in Int
      BY <1>1, <1>4, <1>6, <2>4, <3>4
    <3>6. r.quantity <= Left
      BY <2>1, <3>2 DEF SharesKept
    <3>7. sold' <= bracket.entry_filled
      BY <1>1, <1>3, <1>6, <2>4, <3>3, <3>4, <3>6
    <3>8. broker'[AtWork].quantity = broker[AtWork].quantity
      BY <1>12, <1>13, <3>2
    <3>9. SharesKept'
      BY <2>1, <1>2, <1>17, <3>5, <3>7, <3>8 DEF SharesKept
    <3> QED BY <2>2, <3>9
  <2> QED BY <2>5, <2>6
<1> QED BY <1>2, <1>13, <1>15, <1>16, <1>18 DEF IInv

\* The broker ends an order.
LEMMA EndAtBrokerInv == ASSUME NEW o \in Orders PROVE IInv /\ EndAtBroker(o) => IInv'
<1> SUFFICES ASSUME IInv, EndAtBroker(o) PROVE IInv'
  OBVIOUS
<1>1. broker[o].status = "open" /\ UNCHANGED <<bracket, order, tape, key, sold, check, crashes>>
  BY DEF EndAtBroker
<1>2. PICK s \in {"cancelled", "expired", "rejected"} :
        (s = "rejected" => broker[o].filled = 0) /\ broker' = [broker EXCEPT ![o].status = s]
  BY DEF EndAtBroker
<1>3. /\ Alike(bracket, bracket') /\ order[o] \in Order_ /\ broker[o] \in Broker_ /\ Fits(order[o], broker[o])
      /\ order[o].fold.state = State(o) /\ order = [order EXCEPT ![o] = order[o]] /\ broker \in [Orders -> Broker_]
  BY <1>1, Unmoved DEF IInv, Types
<1>4. PICK z \in Broker_ : z = EndedIn(broker[o], s) /\ Fits(order[o], z) /\ z.filled = broker[o].filled
                           /\ z.quantity = broker[o].quantity
  BY <1>1, <1>2, <1>3, NoteEnd
<1>5. broker' = [broker EXCEPT ![o] = z]
  BY <1>2, <1>3, <1>4 DEF EndedIn
<1>6. PICK u \in Order_ : u = order[o]
  BY <1>3
<1>7. /\ order' = [order EXCEPT ![o] = u] /\ Fits(u, z) /\ u.fold.state = State(o)
      /\ u.fold.filled = order[o].fold.filled /\ u.quantity = order[o].quantity
  BY <1>1, <1>3, <1>4, <1>6
<1> QED BY <1>1, <1>3, <1>4, <1>5, <1>7, OneMoves

\* The person moves an exit at the broker.
LEMMA MoveByHandInv == ASSUME NEW o \in Orders PROVE IInv /\ MoveByHand(o) => IInv'
<1> SUFFICES ASSUME IInv, MoveByHand(o) PROVE IInv'
  OBVIOUS
<1>1. UNCHANGED <<bracket, order, tape, key, sold, check, crashes>>
  BY DEF MoveByHand
<1>2. PICK p \in HandPrices \ {broker[o].price} : broker' = [broker EXCEPT ![o].price = p]
  BY DEF MoveByHand
<1>3. p \in Int
  BY <1>2
<1>4. /\ Alike(bracket, bracket') /\ order[o] \in Order_ /\ broker[o] \in Broker_ /\ Fits(order[o], broker[o])
      /\ order[o].fold.state = State(o) /\ order = [order EXCEPT ![o] = order[o]] /\ broker \in [Orders -> Broker_]
  BY <1>1, Unmoved DEF IInv, Types
<1>5. PICK z \in Broker_ : z = Priced(broker[o], p) /\ Fits(order[o], z) /\ z.filled = broker[o].filled
                           /\ z.quantity = broker[o].quantity
  BY <1>3, <1>4, NotePrice
<1>6. broker' = [broker EXCEPT ![o] = z]
  BY <1>2, <1>4, <1>5 DEF Priced
<1>7. PICK u \in Order_ : u = order[o]
  BY <1>4
<1>8. /\ order' = [order EXCEPT ![o] = u] /\ Fits(u, z) /\ u.fold.state = State(o)
      /\ u.fold.filled = order[o].fold.filled /\ u.quantity = order[o].quantity
  BY <1>1, <1>4, <1>5, <1>7
<1> QED BY <1>1, <1>4, <1>5, <1>6, <1>8, OneMoves

\* The market moves, and how things stand; or nothing at all.
LEMMA OutsideInv ==
  ASSUME IInv, UNCHANGED <<bracket, order, broker, check, sold, crashes>>, tape' \in Tapes, key' \in Keys
  PROVE  IInv'
<1>1. Types' /\ CheckSound' /\ BracketSound' /\ PlaceFits' /\ ResizeFits' /\ OrdersSound' /\ OneInFlight' /\ EntryKept'
  BY DEF IInv, Types, CheckSound, BracketSound, PlaceFits, ResizeFits, OrdersSound, OrderSound, OneInFlight, EntryKept,
         Requested, HasExit, State
<1>2. AtWork' = AtWork /\ SoldByIt' = SoldByIt /\ Left' = Left
  <2>1. AtWork' = AtWork
    BY DEF AtWork, HasExit
  <2> QED BY <2>1 DEF SoldByIt, Left
<1>3. KnowsItsExit /\ SharesKept => KnowsItsExit' /\ SharesKept'
  BY <1>2 DEF KnowsItsExit, SharesKept, State, Live
<1> QED BY <1>1, <1>3 DEF IInv

\* A calm step keeps it.
LEMMA CalmStepInv == IInv /\ CalmStep => IInv'
BY CalmKeeps DEF CalmStep

\* Every step keeps the invariant.
LEMMA NextInv == IInv /\ [Next]_vars => IInv'
<1> SUFFICES ASSUME IInv, [Next]_vars PROVE IInv'
  OBVIOUS
<1>1. tape \in Tapes /\ tape \in Tape_ /\ NoTape \in Tape_ /\ key \in Keys
  BY DEF IInv, Types, Tape_, NoTape
<1>2. CASE Checking
  <2>1. CASE Look(tape) \/ Look(NoTape)
    BY <1>1, <2>1, LookCalm, CalmStepInv
  <2>2. CASE ReadFirst
    BY <2>2, ReadFirstInv
  <2>3. CASE \E waited \in BOOLEAN : Step(waited)
    BY <2>3, StepInv
  <2>4. CASE Sending
    BY <2>4, TurnedDownCalm, CalmStepInv, PlaceSentInv, HearInv, RecordPlacedInv, CancelSentInv, CancelAnsweredInv, ResizeSentInv
       DEF Sending
  <2> QED BY <1>2, <2>1, <2>2, <2>3, <2>4 DEF Checking
<1>3. CASE Beside
  <2>1. CASE Adjust \/ CancelBracket \/ Crash
    BY <2>1, AdjustCalm, CancelBracketCalm, CalmStepInv, CrashInv
  <2>2. CASE \E o \in Orders : ReadBack(o) \/ Sweep(o)
    BY <2>2, ReadBackInv, SweepInv
  <2> QED BY <1>3, <2>1, <2>2 DEF Beside
<1>4. CASE World
  <2>1. CASE Trade
    BY <1>1, <2>1, OutsideInv DEF Trade
  <2>2. CASE KeyChanges
    BY <1>1, <2>2, OutsideInv DEF KeyChanges
  <2>3. CASE \E o \in Orders : Fill(o) \/ EndAtBroker(o) \/ MoveByHand(o)
    BY <2>3, FillInv, EndAtBrokerInv, MoveByHandInv
  <2> QED BY <1>4, <2>1, <2>2, <2>3 DEF World
<1>5. CASE UNCHANGED vars
  BY <1>1, <1>5, OutsideInv DEF vars
<1> QED BY <1>2, <1>3, <1>4, <1>5 DEF Next

\* The inductive invariant holds of the bracket, wherever the process stops and whatever is lost.
THEOREM Invariance == Spec => []IInv
<1> QED BY InitInv, NextInv, PTL DEF Spec

------------------------------------------------------------------------------
(* What it gives: the properties the runs check. *)

\* Every variable keeps its type; the bracket has an exit exactly when it has its role,
\* and never counts more of the entry than the entry was for.
THEOREM Typing == Spec => []TypeOK
<1>1. IInv => TypeOK
  <2> SUFFICES ASSUME IInv PROVE TypeOK
    OBVIOUS
  <2>1. Types /\ BracketSound /\ EntryKept /\ OrdersSound /\ bracket \in Bracket_ /\ check \in Check_
        /\ order \in [Orders -> Order_] /\ broker \in [Orders -> Broker_]
    BY DEF IInv, Types
  <2>2. bracket.phase \in Phase /\ bracket.role \in ExitRole \cup {"none"} /\ bracket.exit \in Exits \cup {NoOne}
        /\ bracket.quantity \in Int
    BY <2>1 DEF Bracket_, Role_, ExitRole
  <2>3. bracket.entry_filled \in 0 .. Quantity
    <3>1. Entry \in Orders
      BY DEF Orders
    <3>2. broker[Entry] \in Broker_ /\ order[Entry] \in Order_ /\ Fits(order[Entry], broker[Entry])
      BY <2>1, <3>1 DEF OrdersSound, OrderSound
    <3>3. bracket.entry_filled \in Nat /\ order[Entry].fold.filled \in Nat /\ broker[Entry].filled \in Nat
          /\ broker[Entry].quantity \in Nat
      BY <2>1, <3>2 DEF Bracket_, Broker_, Order_, Fold_
    <3>4. bracket.entry_filled <= order[Entry].fold.filled /\ order[Entry].fold.filled <= broker[Entry].filled
          /\ broker[Entry].filled <= broker[Entry].quantity /\ broker[Entry].quantity = Quantity
      BY <2>1, <3>2 DEF EntryKept, Fits
    <3> QED BY <3>3, <3>4
  <2>4. ASSUME NEW o \in Orders
        PROVE  /\ order[o].fold \in Fold \/ order[o].fold.state = "unwritten"
               /\ broker[o].status \in BrokerStatus /\ broker[o].filled \in 0 .. broker[o].quantity
    <3>1. broker[o] \in Broker_ /\ order[o] \in Order_ /\ Fits(order[o], broker[o]) /\ order[o].fold \in Fold_
      BY <2>1 DEF OrdersSound, OrderSound, Order_
    <3>2. order[o].fold \in Fold \/ order[o].fold.state = "unwritten"
      BY <3>1 DEF Fold_, Fold
    <3>3. broker[o].filled \in Nat /\ broker[o].quantity \in Nat /\ broker[o].filled <= broker[o].quantity
          /\ broker[o].status \in BrokerStatus
      BY <3>1 DEF Broker_, Fits
    <3> QED BY <3>2, <3>3
  <2>5. check.at \in CheckStep /\ check.steps \in 0 .. MaxSteps + 1
    BY <2>1 DEF Check_
  <2> QED BY <2>1, <2>2, <2>3, <2>4, <2>5 DEF TypeOK, Types, BracketSound
<1> QED BY Invariance, <1>1, PTL

\* One exit of a bracket is at the broker at most: the gate places none while one may be
\* there, whatever was lost and wherever the process stopped.
THEOREM OneOnly == Spec => []OneAtBroker
<1>1. IInv => OneAtBroker
  <2> SUFFICES ASSUME IInv PROVE OneAtBroker
    OBVIOUS
  <2> DEFINE S == {o \in Exits : broker[o].status = "open"}
  <2>1. ASSUME NEW o \in S PROVE o \in Exits /\ State(o) \in InFlight
    <3>1. o \in Exits /\ o \in Orders /\ broker[o].status = "open"
      BY DEF Orders
    <3> QED BY <3>1 DEF IInv, OrdersSound, OrderSound, Fits, State
  <2>2. OneInFlight
    BY DEF IInv
  <2>3. ASSUME NEW o \in S, NEW p \in S PROVE o = p
    BY <2>1, <2>2 DEF OneInFlight
  <2> HIDE DEF S
  <2>4. Cardinality(S) <= 1
    <3>1. CASE S = {}
      <4>1. Cardinality(S) = 0
        BY <3>1, FS_EmptySet
      <4> QED BY <4>1
    <3>2. CASE S # {}
      <4>1. PICK o : o \in S
        BY <3>2
      <4>2. S = {o}
        BY <2>3, <4>1
      <4>3. Cardinality(S) = 1
        BY <4>2, FS_Singleton
      <4> QED BY <4>3
    <3> QED BY <3>1, <3>2
  <2> QED BY <2>4 DEF OneAtBroker, S
<1> QED BY Invariance, <1>1, PTL

\* Until the process stops, a bracket that is over has nothing at the broker, however
\* often a cancel was lost or turned down.
THEOREM OverAlone == Spec => []EndsAlone
<1>1. IInv => EndsAlone
  <2> SUFFICES ASSUME IInv, bracket.phase = "ended", crashes = 0, NEW o \in Exits PROVE broker[o].status # "open"
    BY DEF EndsAlone
  <2>1. ~HasExit(bracket) /\ check.at \notin {"placing", "answered"}
    BY DEF IInv, BracketSound, PlaceFits
  <2>2. AtWork = NoOne
    BY <2>1, NotPlacing
  <2>3. State(o) \notin InFlight
    BY <2>2 DEF IInv, KnowsItsExit, NoOne
  <2> QED BY <2>3 DEF IInv, OrdersSound, OrderSound, Fits, State, Orders
<1> QED BY Invariance, <1>1, PTL

\* Until the process stops, the exits sell no more than the entry bought: through part
\* fills, growths, changes taken, lost or turned down, and quantities changed by hand.
THEOREM NothingOversold == Spec => [](crashes = 0 => NeverOversold)
<1>1. IInv => (crashes = 0 => NeverOversold)
  <2> SUFFICES ASSUME IInv, crashes = 0 PROVE sold <= broker[Entry].filled
    BY DEF NeverOversold
  <2>1. Types /\ Entry \in Orders
    BY DEF IInv, Orders
  <2>2. sold \in Nat /\ bracket.entry_filled \in Nat /\ order[Entry].fold.filled \in Nat /\ broker[Entry].filled \in Nat
    BY <2>1 DEF Types, Bracket_, Order_, Fold_, Broker_
  <2>3. sold <= bracket.entry_filled /\ bracket.entry_filled <= order[Entry].fold.filled
    BY DEF IInv, SharesKept, EntryKept
  <2>4. order[Entry].fold.filled <= broker[Entry].filled
    BY <2>1 DEF IInv, OrdersSound, OrderSound, Fits
  <2> QED BY <2>2, <2>3, <2>4
<1> QED BY Invariance, <1>1, PTL

\* So a bracket of a process that does not stop never sells more than it bought.
COROLLARY NothingOversoldInOneRun == ASSUME MaxCrashes = 0 PROVE Spec => []NeverOversold
<1>1. IInv => crashes = 0
  BY DEF IInv, Types
<1> QED BY Invariance, NothingOversold, <1>1, PTL

\* A step's first event, and the second after it, are moves: so all of its events are.
LEMMA MovesOfOne ==
  ASSUME NEW b, NEW e, IsMove(b, e)
  PROVE  AllMoves(b, <<e>>)
BY DEF AllMoves, AfterOne

\* Nothing recorded is nothing refused.
LEMMA MovesOfNone == ASSUME NEW b PROVE AllMoves(b, <<>>)
BY DEF AllMoves, AfterOne

\* And of two.
LEMMA MovesOfTwo ==
  ASSUME NEW b, NEW e, NEW f, IsMove(b, e), IsMove(After(b, e), f)
  PROVE  AllMoves(b, <<e, f>>)
BY DEF AllMoves, AfterOne

\* Whatever the engine's bracket decides is allowed where it stands.
LEMMA ShapeMoves ==
  ASSUME NEW b \in Bracket_, NEW x, x = NoExit \/ x \in Exit_, HasExit(b) <=> x # NoExit,
         b.phase \in {"waiting", "ended"} => ~HasExit(b),
         NEW seen, Seen_(seen), NEW d, Shape(b, x, seen, d)
  PROVE  AllMoves(b, d.events)
<1>1. Nothing.events = <<>> /\ (\A es : Records(es).events = es) /\ (\A es, r : Sends(es, r).events = es)
  BY DEF Nothing, Records, Sends
<1>2. CASE d = Nothing \/ Places(b, x, d) \/ Resizes(b, x, d)
  BY <1>1, <1>2, MovesOfNone DEF Places, Resizes
<1>3. CASE Arms(b, seen, d) \/ Gives(b, d)
  <2>1. b.phase = "waiting" => IsMove(b, Armed(seen.entry.filled, FillPrice)) /\ IsMove(b, Ev("entry-ended"))
    BY DEF IsMove, Armed, Ev
  <2> QED BY <1>1, <1>3, <2>1, MovesOfOne DEF Arms, Gives
<1>4. CASE Grows(b, seen, d)
  <2>1. IsMove(b, Grown(seen.entry.filled))
    BY <1>4 DEF Grows, IsMove, Grown
  <2> QED BY <1>1, <1>4, <2>1, MovesOfOne DEF Grows
<1>5. CASE Clears(b, x, seen, d)
  <2> DEFINE e == Cleared(x.fold.filled)
             c == After(b, e)
  <2>1. HasExit(b) /\ b.phase \notin {"waiting", "ended"} /\ x.fold.filled \in Nat
    BY <1>5 DEF Clears, Exit_, Fold_
  <2>2. IsMove(b, e)
    BY <2>1 DEF IsMove, Cleared
  <2>3. c.phase \notin {"waiting", "ended"} /\ (b.phase # "closing" => c.phase # "closing")
    BY <2>1, AfterCleared
  <2> HIDE DEF e, c
  <2>4. IsMove(c, OffBroker) /\ IsMove(c, RefusedAs(x.role, seen.class, seen.key))
    BY <2>3 DEF IsMove, OffBroker, RefusedAs, Ev, Live
  <2>5. \A o \in Outcome_ : b.phase # "closing" => IsMove(c, EndedAs(o))
    BY <2>3 DEF IsMove, EndedAs
  <2>6. /\ AllMoves(b, <<e>>) /\ AllMoves(b, <<e, OffBroker>>)
        /\ AllMoves(b, <<e, RefusedAs(x.role, seen.class, seen.key)>>)
    BY <2>2, <2>4, MovesOfOne, MovesOfTwo DEF c
  <2>7. \A o \in Outcome_ : b.phase # "closing" => AllMoves(b, <<e, EndedAs(o)>>)
    BY <2>2, <2>5, MovesOfTwo DEF c
  <2> QED BY <1>1, <1>5, <2>6, <2>7 DEF Clears, e
<1>6. CASE Adopts(b, x, d)
  <2>1. IsMove(b, Adopted(HandPrice(b, x), HandQty(b, x)))
    BY <1>6 DEF Adopts, IsMove, Adopted, Live
  <2> QED BY <1>1, <1>6, <2>1, MovesOfOne DEF Adopts
<1>7. CASE Closes(b, x, d)
  <2>1. IsMove(b, Ev("done"))
    BY <1>7 DEF Closes, IsMove, Ev
  <2> QED BY <1>1, <1>7, <2>1, MovesOfOne DEF Closes
<1>8. CASE Follows(b, seen, d)
  <2>1. PICK level \in Int : d = Records(<<TrailedTo(level, seen.tape.last)>>)
    BY <1>8 DEF Follows
  <2>2. IsMove(b, TrailedTo(level, seen.tape.last))
    BY <1>8 DEF Follows, IsMove, TrailedTo
  <2> QED BY <1>1, <2>1, <2>2, MovesOfOne
<1>9. CASE Returns(b, x, d)
  <2>1. IsMove(b, Moved("guarding"))
    BY <1>9 DEF Returns, IsMove, Moved
  <2> QED BY <1>1, <1>9, <2>1, MovesOfOne DEF Returns
<1>10. CASE Cancels(b, x, d)
  <2>1. CASE d.events = <<>>
    BY <2>1, MovesOfNone
  <2>2. CASE HasExit(b) /\ d.events = <<Ev("cancel-asked")>>
    <3>1. IsMove(b, Ev("cancel-asked"))
      BY <2>2 DEF IsMove, Ev
    <3> QED BY <2>2, <3>1, MovesOfOne
  <2>3. ASSUME HasExit(b), NEW p \in {"to-target", "to-market", "back-to-stop"}, <<b.phase, p>> \in PhaseMoves
        PROVE  AllMoves(b, <<Moved(p), Ev("cancel-asked")>>)
    <3>1. IsMove(b, Moved(p))
      BY <2>3 DEF IsMove, Moved
    <3>2. HasExit(After(b, Moved(p)))
      BY <2>3, AfterMoved DEF Keeps, HasExit
    <3>3. IsMove(After(b, Moved(p)), Ev("cancel-asked"))
      BY <3>2 DEF IsMove, Ev
    <3> QED BY <3>1, <3>3, MovesOfTwo
  <2> QED BY <1>1, <1>10, <2>1, <2>2, <2>3 DEF Cancels
<1> QED BY <1>2, <1>3, <1>4, <1>5, <1>6, <1>7, <1>8, <1>9, <1>10 DEF Shape

\* Every event a check decides is a move from where the bracket then stands.
THEOREM OnlyMoves == Spec => []MovesAllowed
<1>1. IInv => MovesAllowed
  <2> SUFFICES ASSUME IInv, NEW waited \in BOOLEAN, NEW lapses \in {FALSE, MayLapse}, NEW class \in Words \cup {"unknown"}
               PROVE  AllMoves(bracket, Decide(bracket, SeenWith(check.tape, waited, lapses, class)).events)
    BY DEF MovesAllowed
  <2> DEFINE seen == SeenWith(check.tape, waited, lapses, class)
             d == Decide(bracket, seen)
             x == ExitOf
  <2>1. class \in RefusalClass /\ lapses \in BOOLEAN
    BY DEF Words, RefusalClass
  <2>2. bracket \in Bracket_ /\ (bracket.phase \in {"waiting", "ended"} => ~HasExit(bracket))
    BY DEF IInv, Types, BracketSound
  <2>3. /\ Seen_(seen) /\ seen.exit = x /\ (HasExit(bracket) <=> x # NoExit)
        /\ x = NoExit \/ x \in Exit_
    BY <2>1, SeenTyped
  <2>4. Shape(bracket, x, seen, d)
    BY <2>2, <2>3, DecideShape
  <2> HIDE DEF seen, d, x
  <2> QED BY <2>2, <2>3, <2>4, ShapeMoves DEF d, seen
<1> QED BY Invariance, <1>1, PTL

------------------------------------------------------------------------------
(* The bracket's shares, exactly: where no change of an exit and no reading is lost. *)

\* The exit at work is one of the orders.
LEMMA WorkIsOrder == IInv => (AtWork # NoOne => AtWork \in Exits /\ AtWork \in Orders)
BY DEF IInv, Types, Bracket_, CheckSound, AtWork, HasExit, Orders

\* What is left stays, where nothing fills and the same exit is at work.
LEMMA LeftStays ==
  ASSUME IInv, AtWork' = AtWork, sold' = sold, bracket'.entry_filled = bracket.entry_filled,
         \A o \in Orders : broker'[o].filled = broker[o].filled
  PROVE  Left' = Left
<1>1. SoldByIt' = SoldByIt
  BY WorkIsOrder DEF SoldByIt
<1> QED BY <1>1 DEF Left

\* The count is exact while the bracket and the broker's quantities stay.
LEMMA ExactStays ==
  ASSUME Exact, bracket'.exit = bracket.exit, bracket'.quantity = bracket.quantity, bracket'.at_qty = bracket.at_qty,
         bracket.exit \in Exits \cup {NoOne},
         Live(bracket') /\ bracket'.phase # "waiting" => Live(bracket) /\ bracket.phase # "waiting",
         Left' = Left,
         \A o \in Exits : broker'[o].quantity = broker[o].quantity
                          /\ (broker'[o].status = "open" => broker[o].status = "open"),
         check'.at = "deciding" /\ HasExit(bracket) /\ order'[bracket.exit].fold.state \in Resting =>
           order'[bracket.exit].quantity = broker[bracket.exit].quantity
           /\ bracket.at_qty = broker[bracket.exit].quantity,
         Requested("resize")' => Requested("resize") /\ check'.request = check.request /\ HasExit(bracket),
         check'.at \in {"placing", "answered"} =>
           check.at \in {"placing", "answered"} /\ check'.id = check.id /\ check'.request = check.request /\ check.id \in Exits
  PROVE  Exact'
<1>1. Counts'
  BY DEF Exact, Counts
<1>2. HasExit(bracket)' = HasExit(bracket) /\ (HasExit(bracket) => bracket.exit \in Exits)
  BY DEF HasExit
<1>3. KnowsQty'
  BY <1>2 DEF Exact, KnowsQty
<1>4. SeesQty'
  BY <1>2 DEF SeesQty, State
<1>5. ChangeGrows'
  BY <1>2 DEF Exact, ChangeGrows
<1>6. PlacedQty'
  BY DEF Exact, PlacedQty
<1> QED BY <1>1, <1>3, <1>4, <1>5, <1>6 DEF Exact

\* So it is by a calm check.
LEMMA ExactCalm ==
  ASSUME Exact, IInv, Keeps(bracket, bracket'), Calm_(check'), check.at \notin {"placing", "answered"}, sold' = sold,
         \A o \in Orders : /\ broker'[o].filled = broker[o].filled /\ broker'[o].quantity = broker[o].quantity
                           /\ broker'[o].status = broker[o].status,
         check'.at = "deciding" => check.at = "deciding" /\ order' = order
  PROVE  Exact'
<1>1. AtWork' = AtWork
  BY CalmFits, NotPlacing DEF Keeps, HasExit
<1>2. Left' = Left
  BY <1>1, LeftStays DEF Keeps
<1>3. bracket.exit \in Exits \cup {NoOne} /\ Exits \subseteq Orders
  BY DEF IInv, Types, Bracket_, Orders
<1>4. ~Requested("resize")' /\ check'.at \notin {"placing", "answered"}
  BY DEF Calm_, Cancel_, Requested
<1>5. check'.at = "deciding" /\ HasExit(bracket) /\ order'[bracket.exit].fold.state \in Resting =>
        order'[bracket.exit].quantity = broker[bracket.exit].quantity
        /\ bracket.at_qty = broker[bracket.exit].quantity
  BY DEF Exact, SeesQty, State
<1> QED BY <1>2, <1>3, <1>4, <1>5, ExactStays DEF Keeps, Live

\* And while the check stays where it is.
LEMMA ExactBeside ==
  ASSUME Exact, IInv, UNCHANGED <<bracket, check>>, Left' = Left,
         \A o \in Exits : broker'[o].quantity = broker[o].quantity
                          /\ (broker'[o].status = "open" => broker[o].status = "open"),
         check.at = "deciding" /\ HasExit(bracket) /\ order'[bracket.exit].fold.state \in Resting =>
           order'[bracket.exit].quantity = broker[bracket.exit].quantity
           /\ bracket.at_qty = broker[bracket.exit].quantity
  PROVE  Exact'
<1>1. bracket.exit \in Exits \cup {NoOne}
  BY DEF IInv, Types, Bracket_
<1>2. check.at \in {"placing", "answered"} => check.id \in Exits
  BY DEF IInv, CheckSound
<1>3. Requested("resize") => HasExit(bracket)
  <2>1. Requested("resize") => check.request \in Resize_
    BY DEF IInv, Types, Check_, Requested, Request_, NoRequest, Place_, Cancel_
  <2> QED BY <2>1 DEF IInv, ResizeFits, HasExit, Resize_, NoOne
<1>4. Requested("resize")' = Requested("resize")
  BY DEF Requested
<1> QED BY <1>1, <1>2, <1>3, <1>4, ExactStays

\* It is exact at the start.
LEMMA InitExact == Init => Exact
<1> SUFFICES ASSUME Init PROVE Exact
  OBVIOUS
<1>1. bracket.phase = "waiting" /\ ~HasExit(bracket) /\ check.at = "idle"
  BY DEF Init, Created, Idle, HasExit
<1> QED BY <1>1 DEF Exact, Counts, KnowsQty, SeesQty, ChangeGrows, PlacedQty, Requested

\* The check's steps keep the count exact: a growth is counted, what a cleared exit sold is taken off.
LEMMA StepExact ==
  ASSUME NEW waited \in BOOLEAN, IInv, Exact, crashes = 0, Step(waited)
  PROVE  Exact'
<1>1. /\ check.at = "deciding" /\ UNCHANGED <<order, broker, tape, key, sold, crashes>>
      /\ \/ StepKeeps \/ StepArms \/ StepGrows \/ StepClears \/ StepAdopts \/ StepPlaces \/ StepResizes
  BY StepCases
<1>2. /\ bracket \in Bracket_ /\ BracketSound /\ order \in [Orders -> Order_] /\ broker \in [Orders -> Broker_]
      /\ sold \in Nat /\ SharesKept /\ OrdersSound /\ Keeps(bracket, bracket)
  BY AfterCancelAsked DEF IInv, Types
<1>3. bracket.exit \in Exits \cup {NoOne} /\ (HasExit(bracket) => bracket.exit \in Exits /\ bracket.exit \in Orders)
      /\ (HasExit(bracket) => Live(bracket) /\ bracket.phase # "waiting")
  BY <1>2 DEF Bracket_, HasExit, Orders, BracketSound, Live
<1>4. AtWork = IF HasExit(bracket) THEN bracket.exit ELSE NoOne
  BY <1>1, NotPlacing
<1>5. CASE StepKeeps
  BY <1>1, <1>5, ExactCalm DEF StepKeeps
<1>6. CASE StepArms
  <2>1. PICK n \in Nat : n = order[Entry].fold.filled
    BY <1>2 DEF Order_, Fold_, Orders
  <2>2. /\ bracket'.phase = "guarding" /\ bracket'.exit = bracket.exit /\ bracket'.quantity = n
        /\ bracket'.entry_filled = n /\ Calm_(check')
    BY <1>2, <1>6, <2>1, AfterArmed DEF StepArms
  <2>3. ~HasExit(bracket) /\ ~HasExit(bracket)' /\ sold = 0
    BY <1>2, <1>6, <2>2 DEF StepArms, BracketSound, SharesKept, HasExit
  <2>4. AtWork' = NoOne
    BY <2>2, <2>3, CalmFits
  <2>5. Left' = n
    BY <1>1, <2>2, <2>3, <2>4 DEF Left, SoldByIt
  <2>6. ~Requested("resize")' /\ check'.at \notin {"placing", "answered"}
    BY <2>2 DEF Calm_, Cancel_, Requested
  <2> QED BY <2>2, <2>3, <2>5, <2>6 DEF Exact, Counts, KnowsQty, SeesQty, ChangeGrows, PlacedQty
<1>7. CASE StepGrows
  <2>1. PICK n \in Nat : n = order[Entry].fold.filled
    BY <1>2 DEF Order_, Fold_, Orders
  <2>2. /\ bracket'.phase = bracket.phase /\ bracket'.exit = bracket.exit /\ bracket'.at_qty = bracket.at_qty
        /\ bracket'.quantity = bracket.quantity + (n - bracket.entry_filled)
        /\ bracket'.entry_filled = n /\ Calm_(check')
    BY <1>2, <1>7, <2>1, AfterGrown DEF StepGrows
  <2>3. HasExit(bracket)' = HasExit(bracket) /\ AtWork' = AtWork
    BY <1>4, <2>2, CalmFits DEF HasExit
  <2>4. SoldByIt' = SoldByIt /\ SoldByIt \in Nat
    BY <1>1, <1>2, <1>3, <1>4, <2>3 DEF SoldByIt, Broker_
  <2>5. Left' = Left + (n - bracket.entry_filled)
    BY <1>1, <1>2, <2>2, <2>4 DEF Left, Bracket_
  <2>6. ~Requested("resize")' /\ check'.at \notin {"placing", "answered"}
    BY <2>2 DEF Calm_, Cancel_, Requested
  <2>7. Counts'
    BY <2>2, <2>5 DEF Exact, Counts, Live
  <2>8. KnowsQty' /\ SeesQty'
    BY <1>1, <2>2, <2>3 DEF Exact, KnowsQty, SeesQty, State
  <2> QED BY <2>6, <2>7, <2>8 DEF Exact, ChangeGrows, PlacedQty
<1>8. CASE StepClears
  <2>1. PICK o \in Exits : o = bracket.exit /\ o \in Orders
    BY <1>3, <1>8 DEF StepClears
  <2>2. PICK n \in Nat : n = order[o].fold.filled
    BY <1>2, <2>1 DEF Order_, Fold_
  <2>3. n = broker[o].filled
    BY <1>2, <1>8, <2>1, <2>2 DEF StepClears, OrdersSound, OrderSound, Fits, State
  <2>4. /\ bracket'.exit = NoOne /\ bracket'.quantity = bracket.quantity - n
        /\ bracket'.entry_filled = bracket.entry_filled /\ Calm_(check') /\ HasExit(bracket)
    BY <1>8, <2>1, <2>2 DEF StepClears, Loses
  <2>5. ~HasExit(bracket)' /\ AtWork' = NoOne /\ AtWork = o /\ o # NoOne
    BY <1>4, <2>1, <2>4, CalmFits DEF HasExit
  <2>6. SoldByIt = n /\ SoldByIt' = 0
    BY <2>3, <2>5 DEF SoldByIt
  <2>7. Left' = Left - n /\ Left \in Int
    BY <1>1, <1>2, <2>4, <2>6 DEF Left, Bracket_
  <2>8. Counts'
    BY <1>3, <2>4, <2>7 DEF Exact, Counts
  <2>9. ~Requested("resize")' /\ check'.at \notin {"placing", "answered"}
    BY <2>4 DEF Calm_, Cancel_, Requested
  <2> QED BY <2>5, <2>8, <2>9 DEF Exact, KnowsQty, SeesQty, ChangeGrows, PlacedQty
<1>9. CASE StepAdopts
  <2>1. PICK p \in Int, n \in {0, order[bracket.exit].quantity} :
          (n # 0 => n # bracket.at_qty) /\ bracket' = After(bracket, Adopted(p, n))
    BY <1>9 DEF StepAdopts
  <2>2. n = 0
    BY <1>1, <1>9, <2>1 DEF StepAdopts, Exact, SeesQty
  <2>3. Keeps(bracket, bracket') /\ Calm_(check')
    BY <1>2, <1>9, <2>1, <2>2, AfterAdopted DEF StepAdopts
  <2> QED BY <1>1, <2>3, ExactCalm
<1>10. CASE StepPlaces
  <2>1. check'.at = "sending" /\ check'.request \in Place_ /\ bracket' = bracket
    BY <1>10 DEF StepPlaces
  <2>2. ~Requested("resize")'
    BY <2>1 DEF Requested, Place_
  <2>3. AtWork' = AtWork
    BY <1>4, <2>1 DEF AtWork, HasExit
  <2>4. Left' = Left
    BY <1>1, <2>1, <2>3, LeftStays
  <2> QED BY <1>1, <1>3, <2>1, <2>2, <2>4, ExactStays
<1>11. CASE StepResizes
  <2>1. /\ check'.at = "sending" /\ check'.request.quantity = bracket.quantity /\ bracket' = bracket
        /\ HasExit(bracket) /\ State(bracket.exit) \in Resting /\ StatedQty(bracket, ExitOf) # bracket.quantity
    BY <1>11 DEF StepResizes
  <2>2. AtWork' = AtWork
    BY <1>4, <2>1 DEF AtWork, HasExit
  <2>3. Left' = Left
    BY <1>1, <2>1, <2>2, LeftStays
  <2>4. order[bracket.exit].quantity = broker[bracket.exit].quantity /\ bracket.at_qty = broker[bracket.exit].quantity
    BY <1>1, <2>1 DEF Exact, SeesQty
  <2>5. ExitOf.quantity = order[bracket.exit].quantity
    BY <2>1 DEF ExitOf
  <2>6. bracket.quantity # broker[bracket.exit].quantity
    BY <2>1, <2>4, <2>5 DEF StatedQty
  <2>7. bracket.quantity = Left /\ broker[bracket.exit].quantity <= Left
    BY <1>2, <1>3, <1>4, <2>1 DEF Exact, Counts, SharesKept, HasExit
  <2>8. bracket.quantity \in Int /\ broker[bracket.exit].quantity \in Nat
    BY <1>2, <1>3, <2>1 DEF Bracket_, Broker_
  <2>9. bracket.quantity > broker[bracket.exit].quantity
    BY <2>6, <2>7, <2>8
  <2>10. ChangeGrows'
    BY <1>1, <2>1, <2>9 DEF ChangeGrows
  <2>11. Counts' /\ KnowsQty'
    BY <1>1, <2>1, <2>3 DEF Exact, Counts, KnowsQty, HasExit, Live
  <2>12. SeesQty' /\ PlacedQty'
    BY <2>1 DEF SeesQty, PlacedQty
  <2> QED BY <2>10, <2>11, <2>12 DEF Exact
<1> QED BY <1>1, <1>5, <1>6, <1>7, <1>8, <1>9, <1>10, <1>11

\* A calm step keeps it exact.
LEMMA CalmStepExact == ASSUME IInv, Exact, CalmStep PROVE Exact'
BY ExactCalm DEF CalmStep

\* The check's readings, all of which are answered: what it then decides on is the broker's.
LEMMA ReadFirstExact == ASSUME LostReads = FALSE, IInv, Exact, ReadFirst PROVE Exact'
<1>1. /\ order' = [o \in Orders |-> IF o \in Awaited THEN ReadOrder(o) ELSE order[o]]
      /\ check.at = "reading" /\ check' = [check EXCEPT !.at = "deciding"]
      /\ UNCHANGED <<bracket, broker, tape, key, sold, crashes>>
  BY DEF ReadFirst
<1>2. /\ Types /\ OrdersSound /\ bracket.exit \in Exits \cup {NoOne} /\ check'.at = "deciding"
  BY <1>1 DEF IInv, Types, Bracket_, Check_
<1>3. AtWork' = AtWork
  BY <1>1, <1>2 DEF AtWork, HasExit
<1>4. Left' = Left
  BY <1>1, <1>3, LeftStays
<1>5. ASSUME HasExit(bracket), order'[bracket.exit].fold.state \in Resting
      PROVE  order'[bracket.exit].quantity = broker[bracket.exit].quantity
             /\ bracket.at_qty = broker[bracket.exit].quantity
  <2>1. PICK o \in Exits : o = bracket.exit /\ o \in Orders
    BY <1>2, <1>5 DEF HasExit, Orders
  <2>2. order'[o] = IF State(o) \in InFlight THEN ReadOrder(o) ELSE order[o]
    BY <1>1, <2>1 DEF Awaited
  <2>3. Resting \subseteq InFlight
    BY DEF InFlight, Resting
  <2>4. State(o) \in InFlight /\ order'[o] = ReadOrder(o) /\ ReadOrder(o).fold.state \in InFlight
    BY <1>5, <2>1, <2>2, <2>3 DEF State
  <2>5. broker[o].status = "open" /\ ReadOrder(o).quantity = broker[o].quantity
    BY <1>2, <2>1, <2>4, ReadFits DEF OrdersSound
  <2> QED BY <1>5, <2>1, <2>4, <2>5 DEF Exact, KnowsQty
<1>6. ~Requested("resize")' /\ check'.at \notin {"placing", "answered"}
  BY <1>2 DEF Requested
<1> QED BY <1>1, <1>2, <1>4, <1>5, <1>6, ExactStays

\* A read-back: of the exit, what it states is known; of another order, nothing of it is.
LEMMA ReadBackExact == ASSUME IInv, Exact, NEW o \in Orders, ReadBack(o) PROVE Exact'
<1>1. /\ order' = [order EXCEPT ![o] = ReadOrder(o)] /\ State(o) \in InFlight
      /\ UNCHANGED <<bracket, broker, tape, key, check, sold, crashes>>
  BY DEF ReadBack
<1>2. /\ Types /\ OrdersSound /\ order \in [Orders -> Order_] /\ (HasExit(bracket) => bracket.exit \in Orders)
  BY DEF IInv, Types, Bracket_, HasExit, Orders
<1>3. AtWork' = AtWork
  BY <1>1 DEF AtWork, HasExit
<1>4. Left' = Left
  BY <1>1, <1>3, LeftStays
<1>5. ASSUME check.at = "deciding", HasExit(bracket), order'[bracket.exit].fold.state \in Resting
      PROVE  order'[bracket.exit].quantity = broker[bracket.exit].quantity
             /\ bracket.at_qty = broker[bracket.exit].quantity
  <2>1. CASE o = bracket.exit
    <3>1. order'[o] = ReadOrder(o) /\ ReadOrder(o).fold.state \in InFlight
      BY <1>1, <1>2, <1>5, <2>1 DEF InFlight, Resting
    <3>2. broker[o].status = "open" /\ ReadOrder(o).quantity = broker[o].quantity
      BY <1>1, <1>2, <3>1, ReadFits DEF OrdersSound
    <3> QED BY <1>5, <2>1, <3>1, <3>2 DEF Exact, KnowsQty
  <2>2. CASE o # bracket.exit
    <3>1. order'[bracket.exit] = order[bracket.exit]
      BY <1>1, <1>2, <1>5, <2>2
    <3> QED BY <1>5, <3>1 DEF Exact, SeesQty, State
  <2> QED BY <2>1, <2>2
<1> QED BY <1>1, <1>4, <1>5, ExactBeside

\* A cancel noted by the broker changes nothing it counts.
LEMMA CancelSame ==
  ASSUME Types, NEW o \in Orders, Cancel(o) \/ UNCHANGED broker
  PROVE  \A p \in Orders : /\ broker'[p].filled = broker[p].filled /\ broker'[p].quantity = broker[p].quantity
                           /\ broker'[p].status = broker[p].status
<1> SUFFICES ASSUME NEW p \in Orders
             PROVE  /\ broker'[p].filled = broker[p].filled /\ broker'[p].quantity = broker[p].quantity
                    /\ broker'[p].status = broker[p].status
  OBVIOUS
<1>1. broker \in [Orders -> Broker_] /\ broker[p] \in Broker_
  BY DEF Types
<1>2. CASE UNCHANGED broker
  BY <1>2
<1>3. CASE Cancel(o)
  <2>1. PICK t \in BOOLEAN : t = (broker[o].status = "open")
    OBVIOUS
  <2>2. broker' = [broker EXCEPT ![o].cancelling = t]
    BY <1>3, <2>1 DEF Cancel
  <2> QED BY <1>1, <2>2 DEF Broker_
<1> QED BY <1>2, <1>3

\* The sweep's cancel is of no exit of the bracket's.
LEMMA SweepExact == ASSUME IInv, Exact, NEW o \in Orders, Sweep(o) PROVE Exact'
<1>1. /\ AskCancel(o) /\ (Cancel(o) \/ UNCHANGED broker) /\ bracket.exit # o
      /\ UNCHANGED <<bracket, tape, key, check, sold, crashes>>
  BY DEF Sweep, Unheld
<1>2. \A p \in Orders : /\ broker'[p].filled = broker[p].filled /\ broker'[p].quantity = broker[p].quantity
                        /\ broker'[p].status = broker[p].status
  BY <1>1, CancelSame DEF IInv
<1>3. order \in [Orders -> Order_] /\ (HasExit(bracket) => bracket.exit \in Orders) /\ Exits \subseteq Orders
  BY DEF IInv, Types, Bracket_, HasExit, Orders
<1>4. HasExit(bracket) => order'[bracket.exit] = order[bracket.exit]
  BY <1>1, <1>3 DEF AskCancel
<1>5. AtWork' = AtWork
  BY <1>1 DEF AtWork, HasExit
<1>6. Left' = Left
  BY <1>1, <1>2, <1>5, LeftStays
<1>7. check.at = "deciding" /\ HasExit(bracket) /\ order'[bracket.exit].fold.state \in Resting =>
        order'[bracket.exit].quantity = broker[bracket.exit].quantity
        /\ bracket.at_qty = broker[bracket.exit].quantity
  BY <1>4 DEF Exact, SeesQty, State
<1> QED BY <1>1, <1>2, <1>3, <1>6, <1>7, ExactBeside

\* A cancel of the check's own, sent and answered.
LEMMA CancelExact == ASSUME IInv, Exact, CancelSent \/ CancelAnswered PROVE Exact'
<1>1. Types /\ CheckSound /\ bracket \in Bracket_ /\ check \in Check_ /\ Keeps(bracket, bracket)
  BY AfterCancelAsked DEF IInv, Types
<1>2. CASE CancelSent
  <2>1. check.at = "sending" /\ check.request.kind = "cancel" /\ UNCHANGED <<bracket, broker, tape, key, sold, crashes>>
        /\ check' = [check EXCEPT !.at = "cancelling"]
    BY <1>2 DEF CancelSent, Requested
  <2>2. check.request \in Cancel_
    BY <1>1, <2>1 DEF Check_, Request_, NoRequest, Place_, Resize_
  <2>3. Calm_(check') /\ check'.at # "deciding"
    BY <1>1, <2>1, <2>2 DEF Calm_, Check_, CheckStep
  <2> QED BY <1>1, <2>1, <2>3, ExactCalm
<1>3. CASE CancelAnswered
  <2>1. check.at = "cancelling" /\ check.request \in Cancel_ /\ check' = Idle /\ UNCHANGED <<bracket, tape, key, sold, crashes>>
    BY <1>1, <1>3 DEF CancelAnswered, CheckSound
  <2>2. PICK o \in Orders : o = check.request.id
    BY <2>1 DEF Cancel_
  <2>3. Cancel(o) \/ UNCHANGED broker
    BY <1>3, <2>2 DEF CancelAnswered, Cancel
  <2>4. \A p \in Orders : /\ broker'[p].filled = broker[p].filled /\ broker'[p].quantity = broker[p].quantity
                          /\ broker'[p].status = broker[p].status
    BY <1>1, <2>3, CancelSame
  <2>5. Calm_(check') /\ check'.at # "deciding"
    BY <2>1, IdleCalm DEF Idle
  <2> QED BY <1>1, <2>1, <2>4, <2>5, ExactCalm
<1> QED BY <1>2, <1>3

\* A sell placed is for the bracket's shares.
LEMMA PlaceSentExact == ASSUME IInv, Exact, PlaceSent PROVE Exact'
<1>1. PICK o \in Room, r \in {check.request} :
        /\ Requested("place") /\ check' = [check EXCEPT !.at = "placing", !.id = o]
        /\ \E there \in {Open(r.role, r.price, r.quantity), NotThere} : broker' = [broker EXCEPT ![o] = there]
        /\ UNCHANGED <<bracket, tape, key, sold, crashes>>
  BY DEF PlaceSent
<1>2. /\ Types /\ CheckSound /\ ~HasExit(bracket) /\ check.at = "sending" /\ broker \in [Orders -> Broker_]
      /\ bracket \in Bracket_ /\ check \in Check_ /\ sold \in Nat
  BY <1>1 DEF IInv, PlaceFits, Requested, Types
<1>3. o \in Exits /\ o \in Orders /\ o # NoOne
  BY DEF Room, Orders, NoOne
<1>4. check'.at = "placing" /\ check'.id = o /\ check'.request = r
  BY <1>1, <1>2, <1>3 DEF Check_
<1>5. PICK there \in {Open(r.role, r.price, r.quantity), NotThere} : broker' = [broker EXCEPT ![o] = there]
  BY <1>1
<1>6. broker'[o] = there /\ there.filled = 0 /\ (there.status = "open" => there.quantity = r.quantity)
  <2>1. \A role, price, n : Open(role, price, n).filled = 0 /\ Open(role, price, n).quantity = n
    BY DEF Open, NotThere
  <2>2. NotThere.filled = 0 /\ NotThere.status # "open"
    BY DEF NotThere
  <2> QED BY <1>2, <1>3, <1>5, <2>1, <2>2
<1>7. AtWork = NoOne /\ AtWork' = o
  BY <1>1, <1>2, <1>4 DEF AtWork, HasExit
<1>8. Left' = Left
  BY <1>1, <1>3, <1>6, <1>7 DEF Left, SoldByIt
<1>9. Counts' /\ KnowsQty' /\ SeesQty' /\ ChangeGrows'
  BY <1>1, <1>2, <1>4, <1>8 DEF Exact, Counts, KnowsQty, SeesQty, ChangeGrows, Requested, HasExit
<1>10. PlacedQty'
  BY <1>4, <1>6 DEF PlacedQty
<1> QED BY <1>9, <1>10 DEF Exact

\* Its answer moves nothing at the broker.
LEMMA HearExact == ASSUME IInv, Exact, Hear PROVE Exact'
<1>1. check.at = "placing" /\ check' = [check EXCEPT !.at = "answered"]
      /\ UNCHANGED <<bracket, broker, tape, key, sold, crashes>>
  BY DEF Hear
<1>2. check \in Check_ /\ check.id \in Exits /\ bracket.exit \in Exits \cup {NoOne}
  BY <1>1 DEF IInv, Types, CheckSound, Bracket_
<1>3. check'.at = "answered" /\ check'.id = check.id /\ check'.request = check.request
  BY <1>1, <1>2 DEF Check_
<1>4. AtWork' = AtWork
  BY <1>1, <1>3 DEF AtWork, HasExit
<1>5. Left' = Left
  BY <1>1, <1>4, LeftStays
<1>6. ~Requested("resize")'
  BY <1>3 DEF Requested
<1> QED BY <1>1, <1>2, <1>3, <1>5, <1>6, ExactStays

\* The exit held is known by what was placed; one refused sold nothing.
LEMMA RecordPlacedExact == ASSUME IInv, Exact, RecordPlaced PROVE Exact'
<1>1. check.at = "answered" /\ check' = Idle /\ UNCHANGED <<order, broker, tape, key, sold, crashes>>
  BY DEF RecordPlaced
<1>2. /\ Types /\ CheckSound /\ OrdersSound /\ bracket \in Bracket_ /\ check.id \in Exits /\ check.request \in Place_
      /\ ~HasExit(bracket) /\ bracket.phase \notin {"waiting", "ended"}
  BY <1>1 DEF IInv, Types, CheckSound, PlaceFits
<1>3. PICK o \in Exits : o = check.id /\ o \in Orders /\ o # NoOne
  BY <1>2 DEF Orders, NoOne
<1>4. check.request.role \in Role_ /\ check.request.price \in Int /\ check.request.quantity \in Nat /\ key \in Keys
  BY <1>2 DEF Place_, Types
<1>5. AtWork = o
  BY <1>1, <1>2, <1>3 DEF AtWork
<1>6. Calm_(check') /\ check'.at = "idle"
  BY <1>1, IdleCalm DEF Idle
<1>7. AtWork' = (IF HasExit(bracket') THEN bracket'.exit ELSE NoOne)
  BY <1>6, CalmFits
<1>8. CASE State(o) \in {"rejected", "failed"}
  <2>1. PICK class \in RefusalClass : bracket' = After(bracket, RefusedAs(check.request.role, class, key))
    BY <1>3, <1>8 DEF RecordPlaced, Words, RefusalClass
  <2>2. Keeps(bracket, bracket')
    BY <1>2, <1>4, <2>1, AfterRefused
  <2>3. broker[o].filled = 0
    BY <1>2, <1>3, <1>8 DEF OrdersSound, OrderSound, Fits, State
  <2>4. SoldByIt = 0 /\ SoldByIt' = 0
    BY <1>2, <1>3, <1>5, <1>7, <2>2, <2>3 DEF SoldByIt, Keeps, HasExit
  <2>5. Left' = Left
    BY <1>1, <2>2, <2>4 DEF Left, Keeps
  <2>6. ~HasExit(bracket')
    BY <1>2, <2>2 DEF Keeps, HasExit
  <2>7. Counts'
    BY <1>2, <2>2, <2>5 DEF Exact, Counts, Keeps, Live
  <2> QED BY <1>6, <2>6, <2>7 DEF Exact, KnowsQty, SeesQty, ChangeGrows, PlacedQty, Requested
<1>9. CASE State(o) \notin {"rejected", "failed"}
  <2>1. bracket' = After(bracket, Placed(check.request.role, o, check.request.price, check.request.quantity))
    BY <1>3, <1>9 DEF RecordPlaced
  <2>2. /\ bracket'.exit = o /\ bracket'.at_qty = check.request.quantity
        /\ bracket'.entry_filled = bracket.entry_filled /\ bracket'.quantity = bracket.quantity
    BY <1>2, <1>4, <2>1, AfterPlaced
  <2>3. AtWork' = o /\ HasExit(bracket')
    BY <1>3, <1>7, <2>2 DEF HasExit
  <2>4. SoldByIt' = SoldByIt
    BY <1>1, <1>5, <2>3 DEF SoldByIt
  <2>5. Left' = Left
    BY <1>1, <2>2, <2>4 DEF Left
  <2>6. Counts'
    BY <1>2, <2>2, <2>5 DEF Exact, Counts, Live
  <2>7. KnowsQty'
    BY <1>1, <1>3, <2>2 DEF Exact, PlacedQty, KnowsQty
  <2> QED BY <1>6, <2>6, <2>7 DEF Exact, SeesQty, ChangeGrows, PlacedQty, Requested
<1> QED BY <1>8, <1>9

\* A change that is taken for made is made: it is a growth, so the broker has room for it.
LEMMA ResizeSentExact == ASSUME LostChanges = FALSE, IInv, Exact, ResizeSent PROVE Exact'
<1>1. /\ Types /\ OrdersSound /\ ResizeFits /\ BracketSound /\ check \in Check_ /\ bracket \in Bracket_
      /\ check.at = "sending" /\ check.request.kind = "resize" /\ Requested("resize")
      /\ UNCHANGED <<order, tape, key, sold, crashes>> /\ broker \in [Orders -> Broker_]
  BY DEF IInv, Types, ResizeSent, Requested
<1>2. check.request \in Resize_
  BY <1>1 DEF Check_, Request_, NoRequest, Place_, Cancel_
<1>3. PICK o \in Exits, n \in Nat \ {0} : o = check.request.id /\ n = check.request.quantity
  BY <1>2 DEF Resize_
<1>4. o = bracket.exit /\ n = bracket.quantity /\ HasExit(bracket) /\ o \in Orders
  BY <1>1, <1>3 DEF ResizeFits, HasExit, NoOne, Orders
<1>5. \/ check' = Idle /\ UNCHANGED <<bracket, broker>>
      \/ bracket' = After(bracket, Resized(n)) /\ check' = Idle /\ ChangeAtBroker(o, n)
      \/ check' = [check EXCEPT !.request = CancelOf(o)] /\ UNCHANGED <<bracket, broker>>
  BY <1>3 DEF ResizeSent
<1>6. CASE UNCHANGED <<bracket, broker>> /\ (check' = Idle \/ check' = [check EXCEPT !.request = CancelOf(o)])
  <2>1. Keeps(bracket, bracket')
    BY <1>1, <1>6, AfterCancelAsked
  <2>2. CancelOf(o) \in Cancel_ /\ CancelOf(o) \in Request_
    BY <1>4 DEF CancelOf, Cancel_, Request_
  <2>3. Calm_([check EXCEPT !.request = CancelOf(o)])
    BY <1>1, <2>2 DEF Calm_, Check_
  <2>4. check'.at # "deciding"
    BY <1>1, <1>6 DEF Idle, Check_
  <2>5. CalmStep
    BY <1>1, <1>6, <2>1, <2>3, <2>4, IdleCalm DEF CalmStep
  <2> QED BY <2>5, CalmStepExact
<1>7. CASE bracket' = After(bracket, Resized(n)) /\ check' = Idle /\ ChangeAtBroker(o, n)
  <2>1. bracket' = [bracket EXCEPT !.at_qty = n]
    BY <1>1, <1>4, <1>7, AfterResized
  <2>2. /\ bracket'.at_qty = n /\ bracket'.exit = o /\ bracket'.quantity = bracket.quantity
        /\ bracket'.entry_filled = bracket.entry_filled /\ bracket'.phase = bracket.phase
    BY <1>1, <1>4, <2>1 DEF Bracket_
  <2>3. broker[o].filled \in Nat /\ broker[o].quantity \in Nat /\ broker[o].filled <= broker[o].quantity
        /\ broker[o].quantity < n
    BY <1>1, <1>3, <1>4 DEF Exact, ChangeGrows, OrdersSound, OrderSound, Fits, Broker_
  <2>4. n > broker[o].filled
    BY <2>3
  <2>5. \A p \in Orders : broker'[p].filled = broker[p].filled
    BY <1>1, <1>7 DEF ChangeAtBroker, Broker_
  <2>6. broker'[o].status = "open" => broker'[o].quantity = n
    BY <1>1, <1>4, <1>7, <2>4 DEF ChangeAtBroker, Broker_
  <2>7. Calm_(check') /\ check'.at = "idle"
    BY <1>7, IdleCalm DEF Idle
  <2>8. AtWork' = AtWork
    BY <1>1, <1>4, <2>2, <2>7, CalmFits, NotPlacing DEF HasExit
  <2>9. Left' = Left
    BY <1>1, <2>2, <2>5, <2>8, LeftStays
  <2>10. Counts' /\ KnowsQty'
    BY <2>2, <2>6, <2>9 DEF Exact, Counts, KnowsQty, Live
  <2> QED BY <2>7, <2>10 DEF Exact, SeesQty, ChangeGrows, PlacedQty, Requested
<1> QED BY <1>5, <1>6, <1>7

\* A fill of an exit is of the exit at work, whose shares are still the bracket's.
LEMMA FillExact == ASSUME IInv, Exact, crashes = 0, NEW o \in Orders, Fill(o) PROVE Exact'
<1>1. UNCHANGED <<bracket, order, tape, key, check, crashes>> /\ broker[o].status = "open"
  BY DEF Fill
<1>2. /\ Types /\ CheckSound /\ OrdersSound /\ KnowsItsExit /\ bracket \in Bracket_ /\ sold \in Nat
      /\ broker \in [Orders -> Broker_] /\ broker[o] \in Broker_
  BY DEF IInv, Types
<1>3. PICK n \in 1 .. broker[o].quantity - broker[o].filled :
        /\ broker' = [broker EXCEPT ![o].filled = @ + n,
                        ![o].status = IF broker[o].filled + n = broker[o].quantity THEN "filled" ELSE @]
        /\ sold' = IF o = Entry THEN sold ELSE sold + n
  BY DEF Fill
<1>4. broker'[o].filled = broker[o].filled + n /\ n \in Nat /\ broker[o].filled \in Nat
  BY <1>2, <1>3 DEF Broker_
<1>5. \A p \in Orders : /\ broker'[p].quantity = broker[p].quantity
                        /\ broker'[p].status = "open" => broker[p].status = "open"
                        /\ p # o => broker'[p].filled = broker[p].filled
  BY <1>1, <1>2, <1>3 DEF Broker_
<1>6. AtWork' = AtWork /\ (AtWork # NoOne => AtWork \in Exits /\ AtWork \in Orders /\ AtWork # Entry)
  BY <1>1, WorkIsOrder DEF AtWork, HasExit, Entry
<1>7. Left' = Left
  <2>1. CASE o = Entry
    <3>1. SoldByIt' = SoldByIt
      BY <1>5, <1>6, <2>1 DEF SoldByIt
    <3> QED BY <1>1, <1>3, <2>1, <3>1 DEF Left
  <2>2. CASE o # Entry
    <3>1. State(o) \in InFlight /\ o \in Exits /\ o # NoOne
      BY <1>1, <1>2, <2>2 DEF OrdersSound, OrderSound, Fits, State, Orders, NoOne
    <3>2. o = AtWork
      BY <1>2, <3>1 DEF KnowsItsExit
    <3>3. SoldByIt = broker[o].filled /\ SoldByIt' = broker[o].filled + n /\ sold' = sold + n
      BY <1>3, <1>4, <1>6, <2>2, <3>1, <3>2 DEF SoldByIt
    <3>4. bracket.entry_filled \in Nat
      BY <1>2 DEF Bracket_
    <3> QED BY <1>1, <1>2, <1>4, <3>3, <3>4 DEF Left
  <2> QED BY <2>1, <2>2
<1> QED BY <1>1, <1>5, <1>7, ExactBeside DEF Exact, SeesQty, State, Orders

\* What else the broker does to an order, and what the market does.
LEMMA OutsideExact ==
  ASSUME IInv, Exact,
         \/ \E o \in Orders : EndAtBroker(o) \/ MoveByHand(o)
         \/ UNCHANGED <<bracket, order, broker, check, sold, crashes>>
  PROVE  Exact'
<1>1. UNCHANGED <<bracket, order, check, sold, crashes>>
  BY DEF EndAtBroker, MoveByHand
<1>2. broker \in [Orders -> Broker_]
  BY DEF IInv, Types
<1>3. \A p \in Orders : /\ broker'[p].filled = broker[p].filled /\ broker'[p].quantity = broker[p].quantity
                        /\ broker'[p].status = "open" => broker[p].status = "open"
  BY <1>2 DEF EndAtBroker, MoveByHand, Broker_
<1>4. AtWork' = AtWork
  BY <1>1 DEF AtWork, HasExit
<1>5. Left' = Left
  BY <1>1, <1>3, <1>4, LeftStays
<1> QED BY <1>1, <1>3, <1>5, ExactBeside DEF Exact, SeesQty, State, Orders

\* So every step keeps it, until the process stops.
LEMMA NextExact ==
  ASSUME LostChanges = FALSE, LostReads = FALSE, IInv, crashes = 0 => Exact, [Next]_vars
  PROVE  (crashes = 0 => Exact)'
<1> SUFFICES ASSUME crashes' = 0 PROVE Exact'
  OBVIOUS
<1>1. tape \in Tape_ /\ NoTape \in Tape_ /\ crashes \in Nat
  BY DEF IInv, Types, Tape_, NoTape
<1>2. ~Crash
  BY <1>1 DEF Crash
<1>3. crashes = 0 /\ Exact
  <2>1. crashes' = crashes
    BY <1>2 DEF Next, Checking, Look, ReadFirst, Step, Sending, PlaceHeld, Capped, PlaceSent, Hear, RecordPlaced, CancelHeld,
                CancelSent, CancelAnswered, ResizeSent, Beside, Adjust, CancelBracket, ReadBack, Sweep, World, Fill,
                EndAtBroker, MoveByHand, Trade, KeyChanges, vars
  <2> QED BY <2>1
<1>4. CASE Checking
  <2>1. CASE Look(tape) \/ Look(NoTape)
    BY <1>1, <1>3, <2>1, LookCalm, CalmStepExact
  <2>2. CASE ReadFirst
    BY <1>3, <2>2, ReadFirstExact
  <2>3. CASE \E waited \in BOOLEAN : Step(waited)
    BY <1>3, <2>3, StepExact
  <2>4. CASE Sending
    BY <1>3, <2>4, TurnedDownCalm, CalmStepExact, PlaceSentExact, HearExact, RecordPlacedExact, CancelExact, ResizeSentExact
       DEF Sending
  <2> QED BY <1>4, <2>1, <2>2, <2>3, <2>4 DEF Checking
<1>5. CASE Beside
  <2>1. CASE Adjust \/ CancelBracket
    BY <1>3, <2>1, AdjustCalm, CancelBracketCalm, CalmStepExact
  <2>2. CASE \E o \in Orders : ReadBack(o) \/ Sweep(o)
    BY <1>3, <2>2, ReadBackExact, SweepExact
  <2> QED BY <1>2, <1>5, <2>1, <2>2 DEF Beside
<1>6. CASE World
  <2>1. CASE Trade \/ KeyChanges
    BY <1>3, <2>1, OutsideExact DEF Trade, KeyChanges
  <2>2. CASE \E o \in Orders : Fill(o) \/ EndAtBroker(o) \/ MoveByHand(o)
    BY <1>3, <2>2, FillExact, OutsideExact
  <2> QED BY <1>6, <2>1, <2>2 DEF World
<1>7. CASE UNCHANGED vars
  BY <1>3, <1>7, OutsideExact DEF vars
<1> QED BY <1>4, <1>5, <1>6, <1>7 DEF Next

\* Where the broker's answers to changes and readings arrive, and until the process stops,
\* the bracket's shares are what its entry bought and no exit has sold: nothing bought is
\* left unguarded and nothing is counted twice, however the fills and the steps fall.
THEOREM SharesAccounted ==
  ASSUME LostChanges = FALSE, LostReads = FALSE
  PROVE  Spec => [](crashes = 0 => QuantityKept)
<1> DEFINE J == IInv /\ (crashes = 0 => Exact)
<1>1. Init => J
  BY InitInv, InitExact
<1>2. J /\ [Next]_vars => J'
  BY NextInv, NextExact
<1>3. J => (crashes = 0 => QuantityKept)
  BY DEF Exact, Counts, QuantityKept, Left
<1> HIDE DEF J
<1> QED BY <1>1, <1>2, <1>3, PTL DEF Spec

------------------------------------------------------------------------------
(* A check ends of itself. *)

\* Steps left, of a bracket b whose exit is x, the entry filled that far and the market there.
Owed(b, x, filled, last) ==
  IF b.phase = "ended" THEN 0
  ELSE One(b.phase # "guarding") + One(filled > b.entry_filled) + One(HasExit(b))
       + One(HasExit(b) /\ (HandPrice(b, x) > 0 \/ HandQty(b, x) > 0))
       + One(b.stop.trail > 0 /\ last > b.stop.high)

\* With each fact no truer than before, and one of them true no more, fewer are left.
LEMMA FewerLeft ==
  ASSUME NEW b \in Bracket_, NEW x, NEW c \in Bracket_, NEW y, NEW filled \in Nat, NEW last \in Nat, b.phase # "ended",
         c.phase # "ended" =>
           /\ b.phase = "guarding" => c.phase = "guarding"
           /\ filled > c.entry_filled => filled > b.entry_filled
           /\ HasExit(c) => HasExit(b)
           /\ HasExit(c) /\ (HandPrice(c, y) > 0 \/ HandQty(c, y) > 0) =>
                HasExit(b) /\ (HandPrice(b, x) > 0 \/ HandQty(b, x) > 0)
           /\ c.stop.trail > 0 /\ last > c.stop.high => b.stop.trail > 0 /\ last > b.stop.high,
         \/ b.phase # "guarding" /\ c.phase \in {"guarding", "ended"}
         \/ filled > b.entry_filled /\ (c.phase = "ended" \/ filled <= c.entry_filled)
         \/ HasExit(b) /\ (c.phase = "ended" \/ ~HasExit(c))
         \/ /\ HasExit(b) /\ (HandPrice(b, x) > 0 \/ HandQty(b, x) > 0)
            /\ c.phase = "ended" \/ ~(HandPrice(c, y) > 0 \/ HandQty(c, y) > 0)
         \/ b.stop.trail > 0 /\ last > b.stop.high /\ (c.phase = "ended" \/ last <= c.stop.high)
  PROVE  Owed(c, y, filled, last) < Owed(b, x, filled, last)
<1> DEFINE hb == HasExit(b) /\ (HandPrice(b, x) > 0 \/ HandQty(b, x) > 0)
           hc == HasExit(c) /\ (HandPrice(c, y) > 0 \/ HandQty(c, y) > 0)
           tb == b.stop.trail > 0 /\ last > b.stop.high
           tc == c.stop.trail > 0 /\ last > c.stop.high
           gb == filled > b.entry_filled
           gc == filled > c.entry_filled
<1>1. /\ {hb, hc, tb, tc, gb, gc, HasExit(b), HasExit(c), b.phase # "guarding", c.phase # "guarding"} \subseteq BOOLEAN
      /\ b.entry_filled \in Nat /\ c.entry_filled \in Nat /\ b.stop.high \in Int /\ c.stop.high \in Int
  BY DEF HasExit, Bracket_, Leg_
<1>2. /\ Owed(b, x, filled, last) = One(b.phase # "guarding") + One(gb) + One(HasExit(b)) + One(hb) + One(tb)
      /\ Owed(c, y, filled, last) = IF c.phase = "ended" THEN 0
                                     ELSE One(c.phase # "guarding") + One(gc) + One(HasExit(c)) + One(hc) + One(tc)
  BY DEF Owed
<1>3. c.phase # "ended" =>
           /\ b.phase = "guarding" => c.phase = "guarding"
           /\ gc => gb
           /\ HasExit(c) => HasExit(b)
           /\ hc => hb
           /\ tc => tb
  OBVIOUS
<1>4. \/ b.phase # "guarding" /\ c.phase \in {"guarding", "ended"}
      \/ gb /\ (c.phase = "ended" \/ ~gc)
      \/ HasExit(b) /\ (c.phase = "ended" \/ ~HasExit(c))
      \/ hb /\ (c.phase = "ended" \/ ~hc)
      \/ tb /\ (c.phase = "ended" \/ ~tc)
  BY <1>1
<1> HIDE DEF hb, hc, tb, tc, gb, gc
<1>5. CASE c.phase = "ended"
  <2>1. b.phase # "guarding" \/ gb \/ HasExit(b) \/ hb \/ tb
    BY <1>4
  <2> QED BY <1>1, <1>2, <1>5, <2>1 DEF One
<1>6. CASE c.phase # "ended"
  BY <1>1, <1>2, <1>3, <1>4, <1>6 DEF One
<1> QED BY <1>5, <1>6

\* Arming brings the bracket to guard and notes the entry's fills: fewer are left, though a high be among them.
LEMMA ArmsFewer ==
  ASSUME NEW b \in Bracket_, b.phase = "waiting", ~HasExit(b), b.entry_filled = 0, NEW x,
         NEW filled \in Nat \ {0}, NEW last \in Nat,
         NEW c \in Bracket_, c.phase = "guarding", c.exit = b.exit, c.entry_filled = filled, NEW y
  PROVE  Owed(c, y, filled, last) < Owed(b, x, filled, last)
<1> DEFINE tb == b.stop.trail > 0 /\ last > b.stop.high
           tc == c.stop.trail > 0 /\ last > c.stop.high
<1>1. Owed(b, x, filled, last) = 2 + One(tb)
  BY DEF Owed, One, HasExit
<1>2. Owed(c, y, filled, last) = One(tc)
  BY DEF Owed, One, HasExit
<1>3. One(tb) \in {0, 1} /\ One(tc) \in {0, 1}
  BY DEF One
<1> HIDE DEF tb, tc
<1> QED BY <1>1, <1>2, <1>3

\* What a cleared exit leaves of what is counted: no exit, and all else as it was or back to guarding.
LEMMA ClearedLeaves ==
  ASSUME NEW b \in Bracket_, HasExit(b), NEW n \in Nat
  PROVE  LET c == After(b, Cleared(n)) IN
         /\ c.exit = NoOne /\ c.stop = b.stop /\ c.entry_filled = b.entry_filled
         /\ c.phase = b.phase \/ c.phase = "guarding"
<1>1. b.role # "sale"
  BY DEF Bracket_, Role_
<1> QED BY <1>1 DEF After, IsMove, Move, OnCleared, Cleared, Bracket_

\* A cancel at the broker, or a refusal, leaves them all, but that the bracket may be back to guarding.
LEMMA ToldLeaves ==
  ASSUME NEW b \in Bracket_, NEW role, NEW class, NEW k, NEW e \in {OffBroker, RefusedAs(role, class, k)}
  PROVE  LET c == After(b, e) IN
         /\ c.exit = b.exit /\ c.stop = b.stop /\ c.entry_filled = b.entry_filled
         /\ c.phase = b.phase \/ c.phase = "guarding"
<1>1. CASE e = OffBroker
  BY <1>1 DEF After, IsMove, Move, OffBroker, Ev, Bracket_
<1>2. CASE e = RefusedAs(role, class, k)
  <2> DEFINE phase == IF b.phase = "firing" /\ ~HasExit(b) THEN "guarding" ELSE b.phase
  <2>1. After(b, e) = b \/ \E r : After(b, e) = [b EXCEPT !.refused = r, !.phase = phase]
    BY <1>2 DEF After, IsMove, Move, OnRefused, RefusedAs
  <2>2. phase = b.phase \/ phase = "guarding"
    OBVIOUS
  <2> HIDE DEF phase
  <2>3. \A r : LET c == [b EXCEPT !.refused = r, !.phase = phase] IN
          c.exit = b.exit /\ c.stop = b.stop /\ c.entry_filled = b.entry_filled /\ c.phase = phase
    BY DEF Bracket_
  <2> QED BY <2>1, <2>2, <2>3
<1> QED BY <1>1, <1>2

\* An end is the end, where no exit is held.
LEMMA OverLeaves ==
  ASSUME NEW b \in Bracket_
  PROVE  /\ \A o : ~HasExit(b) /\ b.phase \notin {"closing", "ended"} => After(b, EndedAs(o)).phase = "ended"
         /\ ~HasExit(b) /\ b.phase = "closing" => After(b, Ev("done")).phase = "ended"
         /\ b.phase = "waiting" => After(b, Ev("entry-ended")).phase = "ended"
BY DEF After, IsMove, Move, OnEnded, EndedAs, Ev, Bracket_

\* A stop that followed the market has its high.
LEMMA TrailedLeaves ==
  ASSUME NEW b \in Bracket_, NEW level \in Int, NEW high \in Int, b.stop # NoLeg, b.phase \in {"guarding", "target"}
  PROVE  LET c == After(b, TrailedTo(level, high)) IN
         /\ c.exit = b.exit /\ c.role = b.role /\ c.at_price = b.at_price /\ c.at_qty = b.at_qty
         /\ c.entry_filled = b.entry_filled /\ c.phase = b.phase /\ c.stop.high = high
<1> DEFINE s == [b.stop EXCEPT !.level = level, !.high = high]
<1>1. s \in Leg_ /\ s.high = high
  BY DEF Bracket_, Leg_
<1>2. After(b, TrailedTo(level, high)) = [b EXCEPT !.stop = s]
  BY DEF After, IsMove, Move, TrailedTo, Bracket_, Leg_
<1> HIDE DEF s
<1> QED BY <1>1, <1>2 DEF Bracket_

\* One that grew has noted the entry's fills.
LEMMA GrownLeaves ==
  ASSUME NEW b \in Bracket_, b.phase \notin {"waiting", "ended", "closing"}, NEW n \in Nat, n > b.entry_filled
  PROVE  LET c == After(b, Grown(n)) IN
         /\ c.exit = b.exit /\ c.role = b.role /\ c.at_price = b.at_price /\ c.at_qty = b.at_qty
         /\ c.entry_filled = n /\ c.phase = b.phase /\ c.stop = b.stop
BY DEF After, IsMove, Move, OnGrown, Grown, Bracket_

\* One back to guarding guards.
LEMMA ReturnedLeaves ==
  ASSUME NEW b \in Bracket_, <<b.phase, "guarding">> \in PhaseMoves
  PROVE  LET c == After(b, Moved("guarding")) IN
         c.phase = "guarding" /\ c.exit = b.exit /\ c.entry_filled = b.entry_filled /\ c.stop = b.stop
BY DEF After, IsMove, Move, Moved, Bracket_

\* One that adopted what was done by hand has nothing more of it to note.
LEMMA AdoptedLeaves ==
  ASSUME NEW b \in Bracket_, HasExit(b), b.phase \in {"guarding", "target"}, NEW x \in Exit_
  PROVE  LET c == After(b, Adopted(HandPrice(b, x), HandQty(b, x))) IN
         /\ c.exit = b.exit /\ c.role = b.role /\ c.entry_filled = b.entry_filled /\ c.phase = b.phase
         /\ c.stop.high = b.stop.high /\ c.stop.trail = b.stop.trail
         /\ ~(HandPrice(c, x) > 0 \/ HandQty(c, x) > 0)
<1> DEFINE p == HandPrice(b, x)  n == HandQty(b, x)
           price == IF p > 0 THEN p ELSE b.at_price
           qty == IF n > 0 THEN n ELSE b.at_qty
           stop == IF b.role = "stop" /\ p > 0 /\ b.stop # NoLeg THEN [b.stop EXCEPT !.level = p] ELSE b.stop
           target == IF b.role = "target" /\ p > 0 THEN p ELSE b.target
           quantity == IF n > 0 THEN n ELSE b.quantity
           c == [b EXCEPT !.at_price = price, !.at_qty = qty, !.stop = stop, !.target = target, !.quantity = quantity]
<1>1. After(b, Adopted(p, n)) = c
  BY DEF After, IsMove, Move, OnAdopted, Adopted, Live
<1>2. stop.high = b.stop.high /\ stop.trail = b.stop.trail
  BY DEF Bracket_, Leg_
<1>3. ~((IF Leg(x) /\ x.price # price THEN x.price ELSE 0) > 0) /\ ~((IF x.quantity # qty THEN x.quantity ELSE 0) > 0)
  BY DEF HandPrice, HandQty, Bracket_, Exit_
<1> HIDE DEF p, n, price, qty, stop, target, quantity
<1>4. /\ c.exit = b.exit /\ c.role = b.role /\ c.entry_filled = b.entry_filled /\ c.phase = b.phase
      /\ c.stop = stop /\ c.at_price = price /\ c.at_qty = qty
  BY DEF Bracket_
<1> HIDE DEF c
<1> QED BY <1>1, <1>2, <1>3, <1>4 DEF HandPrice, HandQty, p, n

\* Such a step is a step of the check.
LEMMA TakenIs ==
  ASSUME IInv, [Next]_vars, StepTaken
  PROVE  \E waited \in BOOLEAN : Step(waited)
<1>1. check' # check
  BY DEF StepTaken
<1>2. CASE Checking
  <2>1. ~(Look(tape) \/ Look(NoTape) \/ ReadFirst)
    BY DEF StepTaken, Look, ReadFirst
  <2>2. ~Sending
    BY DEF StepTaken, Sending, Requested, PlaceHeld, Capped, PlaceSent, Hear, RecordPlaced, CancelHeld, CancelSent,
           CancelAnswered, ResizeSent
  <2> QED BY <1>2, <2>1, <2>2 DEF Checking
<1>3. CASE Beside
  <2>1. ~Adjust /\ ~CancelBracket
    BY DEF StepTaken, Adjust, CancelBracket
  <2>2. ~Crash
    BY DEF StepTaken, Crash, Idle
  <2> QED BY <1>1, <1>3, <2>1, <2>2 DEF Beside, ReadBack, Sweep
<1>4. CASE World
  BY <1>1, <1>4 DEF World, Trade, KeyChanges, Fill, EndAtBroker, MoveByHand
<1>5. CASE UNCHANGED vars
  BY <1>1, <1>5 DEF vars
<1> QED BY <1>2, <1>3, <1>4, <1>5 DEF Next

\* Such a step leaves the check fewer.
LEMMA StepFewer ==
  ASSUME IInv, NEW waited \in BOOLEAN, Step(waited), StepTaken
  PROVE  StepsLeft' < StepsLeft
<1> DEFINE x == ExitOf  filled == order[Entry].fold.filled  last == check.tape.last  now == [check EXCEPT !.steps = @ + 1]
<1>1. /\ check.at = "deciding" /\ check'.at = "deciding" /\ UNCHANGED order
      /\ bracket \in Bracket_ /\ check \in Check_ /\ BracketSound /\ order \in [Orders -> Order_] /\ key \in Keys
  BY DEF Step, StepTaken, IInv, Types
<1>2. bracket' \in Bracket_
  BY StepInv DEF IInv, Types
<1>3. PICK lapses \in {FALSE, MayLapse}, class \in Words \cup {"unknown"} :
        LET d == Decide(bracket, SeenWith(check.tape, waited, lapses, class)) IN
        \/ check' = Idle
        \/ d # Nothing /\ check.steps < MaxSteps /\ Take(d, now)
  BY DEF Step
<1> DEFINE seen == SeenWith(check.tape, waited, lapses, class)
           d == Decide(bracket, seen)
<1>4. check' # Idle
  BY <1>1 DEF Idle
<1>5. class \in RefusalClass /\ lapses \in BOOLEAN
  BY DEF Words, RefusalClass
<1>6. /\ Seen_(seen) /\ seen.exit = x /\ seen.entry.filled = filled
      /\ HasExit(bracket) <=> x # NoExit
      /\ HasExit(bracket) => x \in Exit_
  BY <1>5, SeenTyped
<1>7. seen.tape = check.tape
  BY DEF SeenWith
<1>8. Shape(bracket, x, seen, d)
  BY <1>1, <1>6, DecideShape DEF BracketSound
<1>9. d # Nothing /\ Take(d, now)
  BY <1>3, <1>4
<1>10. filled \in Nat /\ last \in Nat
  BY <1>1 DEF Orders, Order_, Fold_, Check_, Tape_
<1>11. now \in Check_
  <2>1. check.steps + 1 \in 0 .. MaxSteps
    BY <1>1, <1>3, <1>4 DEF Check_
  <2> QED BY <1>1, <2>1 DEF Check_
<1>12. d.request = NoRequest /\ check' = now
  <2> HIDE DEF d, now
  <2>1. ~(check' = [now EXCEPT !.at = "sending", !.request = d.request, !.tape = NoTape])
    BY <1>1, <1>11 DEF Check_
  <2> QED BY <1>9, <2>1 DEF Take
<1>13. check'.tape = check.tape
  BY <1>1, <1>12 DEF Check_
<1>14. /\ StepsLeft = Owed(bracket, x, filled, last)
       /\ StepsLeft' = Owed(bracket', ExitOf', filled, last)
  BY <1>1, <1>13 DEF StepsLeft, Owed
<1>15. bracket'.exit = bracket.exit /\ bracket'.role = bracket.role => ExitOf' = x
  BY <1>1 DEF ExitOf, HasExit
<1>16. bracket' = AfterAll(bracket, d.events)
  BY <1>9 DEF Take
<1> HIDE DEF seen, d, now, x, filled, last
<1>17. /\ \A e : d = Records(<<e>>) => bracket' = After(bracket, e)
       /\ \A e, f : d = Records(<<e, f>>) => bracket' = After(After(bracket, e), f)
  <2>1. \A es : d = Records(es) => d.events = es
    BY DEF Records
  <2> QED BY <1>16, <2>1, AfterEvents, AfterTwo
<1>18. \A es, r : r # NoRequest => d # Sends(es, r)
  BY <1>12 DEF Sends
<1>19. ~Cancels(bracket, x, d) /\ ~Places(bracket, x, d) /\ ~Resizes(bracket, x, d)
  <2>1. /\ \A o : CancelOf(o) # NoRequest
        /\ \A role, price, n : PlaceOf(role, price, n) # NoRequest
        /\ \A o, n : ResizeOf(o, n) # NoRequest
    BY DEF CancelOf, PlaceOf, ResizeOf, NoRequest
  <2> QED BY <1>18, <2>1 DEF Cancels, Places, Resizes
<1>20. SUFFICES Owed(bracket', ExitOf', filled, last) < Owed(bracket, x, filled, last)
  BY <1>14
<1>21. /\ bracket.phase = "waiting" => ~HasExit(bracket) /\ bracket.entry_filled = 0
       /\ bracket.stop.trail \in Int /\ bracket.stop.high \in Int /\ bracket.entry_filled \in Nat
  BY <1>1 DEF BracketSound, Bracket_, Leg_
<1>22. CASE Arms(bracket, seen, d)
  <2>1. bracket' = After(bracket, Armed(filled, FillPrice)) /\ bracket.phase = "waiting" /\ filled > 0
    BY <1>6, <1>17, <1>22 DEF Arms
  <2>2. bracket'.phase = "guarding" /\ bracket'.exit = bracket.exit /\ bracket'.entry_filled = filled
    BY <1>1, <1>10, <2>1, AfterArmed
  <2> QED BY <1>1, <1>2, <1>10, <1>21, <2>1, <2>2, ArmsFewer
<1>23. CASE Gives(bracket, d) \/ Closes(bracket, x, d)
  <2>1. bracket.phase \in {"waiting", "closing"} /\ bracket'.phase = "ended"
    BY <1>1, <1>6, <1>17, <1>23, OverLeaves DEF Gives, Closes
  <2> QED BY <1>1, <1>2, <1>10, <2>1, FewerLeft
<1>24. CASE Grows(bracket, seen, d)
  <2>1. bracket' = After(bracket, Grown(filled)) /\ filled > bracket.entry_filled
        /\ bracket.phase \notin {"waiting", "ended", "closing"}
    BY <1>6, <1>17, <1>24 DEF Grows
  <2>2. /\ bracket'.exit = bracket.exit /\ bracket'.role = bracket.role /\ bracket'.at_price = bracket.at_price
        /\ bracket'.at_qty = bracket.at_qty /\ bracket'.entry_filled = filled /\ bracket'.phase = bracket.phase
        /\ bracket'.stop = bracket.stop
    BY <1>1, <1>10, <2>1, GrownLeaves
  <2>3. HandPrice(bracket', x) = HandPrice(bracket, x) /\ HandQty(bracket', x) = HandQty(bracket, x) /\ ExitOf' = x
    BY <1>15, <2>2 DEF HandPrice, HandQty
  <2> QED BY <1>1, <1>2, <1>10, <2>1, <2>2, <2>3, FewerLeft DEF HasExit
<1>25. CASE Clears(bracket, x, seen, d)
  <2> DEFINE n == x.fold.filled  c == After(bracket, Cleared(n))
  <2>1. HasExit(bracket) /\ bracket.phase \notin {"waiting", "ended"} /\ n \in Nat
    BY <1>6, <1>25 DEF Clears, Exit_, Fold_
  <2>2. /\ c \in Bracket_ /\ c.exit = NoOne /\ c.stop = bracket.stop /\ c.entry_filled = bracket.entry_filled
        /\ c.phase = bracket.phase \/ c.phase = "guarding"
        /\ c.phase \notin {"waiting", "ended"} /\ (bracket.phase # "closing" => c.phase # "closing")
    BY <1>1, <2>1, ClearedLeaves, AfterCleared DEF Loses
  <2>3. \/ bracket'.phase = "ended"
        \/ /\ bracket'.exit = NoOne /\ bracket'.stop = bracket.stop /\ bracket'.entry_filled = bracket.entry_filled
           /\ bracket'.phase = bracket.phase \/ bracket'.phase = "guarding"
    <3>1. CASE d = Records(<<Cleared(n)>>)
      BY <1>17, <2>2, <3>1
    <3>2. CASE bracket.phase # "closing" /\ \E o \in Outcome_ : d = Records(<<Cleared(n), EndedAs(o)>>)
      <4>1. PICK o \in Outcome_ : bracket' = After(c, EndedAs(o))
        BY <1>17, <3>2
      <4> HIDE DEF c
      <4> QED BY <2>2, <3>2, <4>1, OverLeaves DEF HasExit
    <3>3. CASE d = Records(<<Cleared(n), OffBroker>>) \/ d = Records(<<Cleared(n), RefusedAs(x.role, seen.class, seen.key)>>)
      <4>1. bracket' = After(c, OffBroker) \/ bracket' = After(c, RefusedAs(x.role, seen.class, seen.key))
        BY <1>17, <3>3
      <4> HIDE DEF c
      <4>2. \A e \in {OffBroker, RefusedAs(x.role, seen.class, seen.key)} :
              /\ After(c, e).exit = c.exit /\ After(c, e).stop = c.stop /\ After(c, e).entry_filled = c.entry_filled
              /\ After(c, e).phase = c.phase \/ After(c, e).phase = "guarding"
        BY <2>2, ToldLeaves
      <4> QED BY <2>2, <4>1, <4>2
    <3> QED BY <1>25, <3>1, <3>2, <3>3 DEF Clears
  <2> QED BY <1>1, <1>2, <1>10, <2>1, <2>3, FewerLeft DEF HasExit
<1>26. CASE Adopts(bracket, x, d)
  <2>1. /\ bracket' = After(bracket, Adopted(HandPrice(bracket, x), HandQty(bracket, x)))
        /\ HandPrice(bracket, x) > 0 \/ HandQty(bracket, x) > 0
        /\ HasExit(bracket) /\ bracket.phase \in {"guarding", "target"} /\ x \in Exit_
    BY <1>6, <1>17, <1>26 DEF Adopts
  <2>2. /\ bracket'.exit = bracket.exit /\ bracket'.role = bracket.role /\ bracket'.entry_filled = bracket.entry_filled
        /\ bracket'.phase = bracket.phase
        /\ bracket'.stop.high = bracket.stop.high /\ bracket'.stop.trail = bracket.stop.trail
        /\ ~(HandPrice(bracket', x) > 0 \/ HandQty(bracket', x) > 0)
    BY <1>1, <2>1, AdoptedLeaves
  <2>3. ExitOf' = x
    BY <1>15, <2>2
  <2> QED BY <1>1, <1>2, <1>10, <2>1, <2>2, <2>3, FewerLeft DEF HasExit
<1>27. CASE Follows(bracket, seen, d)
  <2>1. /\ bracket.stop # NoLeg /\ bracket.stop.trail > 0 /\ bracket.phase \in {"guarding", "target"}
        /\ last > bracket.stop.high
        /\ \E level \in Int : bracket' = After(bracket, TrailedTo(level, last))
    BY <1>7, <1>17, <1>27 DEF Follows, last
  <2>2. /\ bracket'.exit = bracket.exit /\ bracket'.role = bracket.role /\ bracket'.at_price = bracket.at_price
        /\ bracket'.at_qty = bracket.at_qty /\ bracket'.entry_filled = bracket.entry_filled
        /\ bracket'.phase = bracket.phase /\ bracket'.stop.high = last
    BY <1>1, <1>10, <2>1, TrailedLeaves
  <2>3. HandPrice(bracket', x) = HandPrice(bracket, x) /\ HandQty(bracket', x) = HandQty(bracket, x) /\ ExitOf' = x
    BY <1>15, <2>2 DEF HandPrice, HandQty
  <2> QED BY <1>1, <1>2, <1>10, <2>1, <2>2, <2>3, FewerLeft DEF HasExit
<1>28. CASE Returns(bracket, x, d)
  <2>1. bracket' = After(bracket, Moved("guarding")) /\ <<bracket.phase, "guarding">> \in PhaseMoves /\ ~HasExit(bracket)
    BY <1>6, <1>17, <1>28 DEF Returns
  <2>2. bracket'.phase = "guarding" /\ bracket'.exit = bracket.exit /\ bracket'.entry_filled = bracket.entry_filled
        /\ bracket'.stop = bracket.stop /\ bracket.phase \notin {"guarding", "ended"}
    BY <1>1, <2>1, ReturnedLeaves DEF PhaseMoves
  <2> QED BY <1>1, <1>2, <1>10, <2>1, <2>2, FewerLeft DEF HasExit
<1> QED BY <1>8, <1>9, <1>19, <1>22, <1>23, <1>24, <1>25, <1>26, <1>27, <1>28 DEF Shape

\* A check comes to an end of itself: every step it takes without sending leaves fewer of the five
\* things there may be to note, wherever the bracket stands and whatever else goes on; a step undoes none that
\* one before it took, and so none is taken for ever.
THEOREM EndsOfItself == Spec => ComesToAnEnd
<1>1. IInv /\ [Next]_vars => (StepTaken => StepsLeft' < StepsLeft)
  BY TakenIs, StepFewer
<1>2. IInv /\ [Next]_vars => [StepTaken => StepsLeft' < StepsLeft]_vars
  BY <1>1
<1> QED BY <1>2, Invariance, PTL DEF Spec, ComesToAnEnd
==============================================================================
