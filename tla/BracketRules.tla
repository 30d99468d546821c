----------------------------- MODULE BracketRules -----------------------------
(***************************************************************************)
(* A bracket's rules (core/src/bracket.rs): its phases, what each event    *)
(* does to it, and `Decide`, the one step it takes from where it stands.   *)
(* Nothing here acts: the caller hands in what is seen, records the        *)
(* events, and sends the request through the gate.                         *)
(*                                                                         *)
(* A price is a whole number of steps, a step being the least a trailing   *)
(* stop moves by; 0 is no price.  A percent trail is left to the amount    *)
(* trail.  The clock is two facts handed in: that a wait of the rules      *)
(* (thirty seconds) is over, and that the broker will soon let the exit    *)
(* lapse.  A bracket imported from the earlier format is left out.         *)
(***************************************************************************)
EXTENDS OrderFold, Integers, Sequences

CONSTANTS
  BackOff,       \* how far under the target the limit gives way to the stop
  UnknownTries   \* refusals of an unknown shape a bracket asks past

ASSUME RulesAssumption == BackOff \in Nat /\ UnknownTries \in Nat

Phase == {"waiting", "guarding", "to-target", "target", "back-to-stop", "to-market", "firing",
          "closing-for-sale", "selling", "closing", "halted", "ended"}
ExitRole == {"stop", "target", "market", "sale"}
RefusalClass == {"invalid", "state", "unknown", "no-answer"}

NoOne     == 0                                     \* no exit: order ids are positive
NoRefusal == [role |-> "none", class |-> "none", key |-> 0, tries |-> 0]
NoTape    == [last |-> 0, bid |-> 0]
NoLeg     == [level |-> 0, trail |-> 0, high |-> 0]
NoExit    == [id |-> NoOne]
NoRequest == [kind |-> "none"]

\* As its first event makes it.
Created(quantity, stop, target) ==
  [phase |-> "waiting", quantity |-> quantity, stop |-> stop, target |-> target,
   exit |-> NoOne, role |-> "none", at_price |-> 0, at_qty |-> 0, refused |-> NoRefusal,
   entry_filled |-> 0, off_broker |-> FALSE, outcome |-> "none", sale |-> 0]

Live(b)    == b.phase # "ended"
HasExit(b) == b.exit # NoOne
AtMost(n, most) == IF n <= most THEN n ELSE most
Trailed(trail, high) == high - trail

------------------------------------------------------------------------------
(* Events: whether one is a move from where the bracket stands, and the move. *)

Ev(kind)                 == [kind |-> kind]
Armed(quantity, high)    == [kind |-> "armed", quantity |-> quantity, high |-> high]
TrailedTo(level, high)   == [kind |-> "trailed", level |-> level, high |-> high]
Adopted(price, quantity) == [kind |-> "adopted", price |-> price, quantity |-> quantity]
Adjusted(stop, target)   == [kind |-> "adjusted", stop |-> stop, target |-> target]
Placed(role, id, price, quantity) ==
  [kind |-> "placed", role |-> role, id |-> id, price |-> price, quantity |-> quantity]
RefusedAs(role, class, key) == [kind |-> "refused", role |-> role, class |-> class, key |-> key]
Cleared(filled)          == [kind |-> "cleared", filled |-> filled]
Moved(to)                == [kind |-> "moved", to |-> to]
EndedAs(outcome)         == [kind |-> "ended", outcome |-> outcome]
SaleAsked(quantity)      == [kind |-> "sale-asked", quantity |-> quantity]
SaleSent(id, quantity)   == [kind |-> "sale-sent", id |-> id, quantity |-> quantity]
Grown(total)             == [kind |-> "grown", total |-> total]
Resized(quantity)        == [kind |-> "resized", quantity |-> quantity]
OffBroker                == Ev("off-broker")
Halted                   == Ev("halted")

\* Mutant of the next definition: no way back from the target to the stop.
PhaseMovesNoBack ==
  {<<"guarding", "to-target">>, <<"guarding", "target">>, <<"to-target", "target">>,
   <<"to-target", "guarding">>, <<"target", "to-market">>, <<"target", "guarding">>,
   <<"to-market", "firing">>, <<"to-market", "guarding">>, <<"selling", "to-market">>,
   <<"selling", "guarding">>}
PhaseMoves ==
  {<<"guarding", "to-target">>, <<"guarding", "target">>, <<"to-target", "target">>,
   <<"to-target", "guarding">>, <<"target", "to-market">>, <<"target", "back-to-stop">>,
   <<"target", "guarding">>, <<"back-to-stop", "guarding">>, <<"to-market", "firing">>,
   <<"to-market", "guarding">>, <<"firing", "guarding">>, <<"selling", "to-market">>,
   <<"selling", "guarding">>}

\* Whether the event is a move from where the bracket stands.
IsMove(b, e) ==
  CASE e.kind \in {"armed", "entry-ended"} -> b.phase = "waiting"
    [] e.kind = "trailed"      -> b.stop # NoLeg /\ b.phase \notin {"ended", "waiting"}
    [] e.kind \in {"adopted", "refused", "off-broker"} -> Live(b)
    [] e.kind = "adjusted"     -> b.phase \notin {"ended", "closing", "closing-for-sale"}
    [] e.kind = "placed"       -> ~HasExit(b) /\ b.phase \notin {"ended", "waiting"}
    [] e.kind \in {"cleared", "cancel-asked", "resized"} -> HasExit(b)
    [] e.kind = "moved"        -> <<b.phase, e.to>> \in PhaseMoves
    [] e.kind = "ended"        -> b.phase \notin {"closing", "ended"}
    [] e.kind = "done"         -> b.phase = "closing" /\ ~HasExit(b)
    [] e.kind = "halted"       -> b.phase \notin {"ended", "closing", "waiting"}
    [] e.kind = "sale-asked"   -> b.phase \notin {"waiting", "closing", "ended", "closing-for-sale", "selling"}
    [] e.kind = "sale-dropped" -> b.phase = "closing-for-sale"
    [] e.kind = "sale-sent"    -> b.phase = "closing-for-sale" /\ ~HasExit(b)
    [] e.kind = "grown"        -> b.phase \notin {"ended", "waiting", "closing"} /\ e.total > b.entry_filled

\* A trailing stop starts from the fill price.
OnArmed(b, e) ==
  [b EXCEPT !.quantity = e.quantity, !.entry_filled = e.quantity, !.phase = "guarding",
            !.stop = IF @.trail > 0 /\ e.high > 0
                     THEN [@ EXCEPT !.high = e.high, !.level = Trailed(b.stop.trail, e.high)] ELSE @]

\* Mutant of the next definition: the leg follows, where the exit stands is not noted.
OnAdoptedLeg(b, e) ==
  [b EXCEPT !.stop   = IF b.role = "stop" /\ e.price > 0 /\ @ # NoLeg THEN [@ EXCEPT !.level = e.price] ELSE @,
            !.target = IF b.role = "target" /\ e.price > 0 THEN e.price ELSE @,
            !.quantity = IF e.quantity > 0 THEN e.quantity ELSE @]

\* What was changed by hand at the broker is followed, on the leg the exit is.
OnAdopted(b, e) ==
  [b EXCEPT !.at_price = IF HasExit(b) /\ e.price > 0 THEN e.price ELSE @,
            !.at_qty   = IF HasExit(b) /\ e.quantity > 0 THEN e.quantity ELSE @,
            !.stop     = IF b.role = "stop" /\ e.price > 0 /\ @ # NoLeg THEN [@ EXCEPT !.level = e.price] ELSE @,
            !.target   = IF b.role = "target" /\ e.price > 0 THEN e.price ELSE @,
            !.quantity = IF e.quantity > 0 THEN e.quantity ELSE @]

\* The person acting is the change a halt, a refusal or a broker's cancel waits for.
OnAdjusted(b, e) ==
  [b EXCEPT !.stop = e.stop, !.target = e.target, !.refused = NoRefusal, !.off_broker = FALSE,
            !.phase = IF @ = "halted" THEN "guarding" ELSE @]

OnPlaced(b, e) ==
  [b EXCEPT !.exit = e.id, !.role = e.role, !.at_price = e.price, !.at_qty = e.quantity,
            \* a refusal of this role stands until an exit of it fills or the person acts
            !.refused = IF @.role = e.role THEN @ ELSE NoRefusal,
            !.phase = CASE @ \in {"guarding", "to-target", "target"} /\ e.role = "target" -> "target"
                        [] e.role = "market" -> "firing"
                        [] OTHER -> @]

\* A market sell is never left unsent for a wrong request.  Tries are counted up
\* to UnknownTries, past which nothing tells them apart.
OnRefused(b, e) ==
  LET class == IF e.role = "market" /\ e.class = "invalid" THEN "unknown" ELSE e.class
      again == b.refused.role = e.role /\ b.refused.class = class
  IN  [b EXCEPT !.refused = [role |-> e.role, class |-> class, key |-> e.key,
                             tries |-> IF again THEN AtMost(b.refused.tries + 1, UnknownTries) ELSE 1],
                !.phase = IF @ = "firing" /\ ~HasExit(b) THEN "guarding" ELSE @]

\* Mutants of the next definition: the role of the exit is kept; and its part fill
\* is not taken off.
OnClearedRole(b, e) == [b EXCEPT !.exit = NoOne, !.at_price = 0, !.at_qty = 0, !.quantity = @ - e.filled]
OnClearedKeeping(b, e) ==
  [b EXCEPT !.exit = NoOne, !.role = "none", !.at_price = 0, !.at_qty = 0,
            !.phase = IF b.role = "market" /\ @ = "firing" THEN "guarding" ELSE @]

\* The exit is over; what it filled is no longer the bracket's.
OnCleared(b, e) ==
  LET rest == b.quantity - e.filled
      sold == b.role = "sale" /\ rest <= 0
  IN  [b EXCEPT !.exit = NoOne, !.role = "none", !.at_price = 0, !.at_qty = 0, !.quantity = rest,
                !.refused = IF e.filled > 0 THEN NoRefusal ELSE @,
                !.outcome = IF sold THEN "sold from the ticket" ELSE @,
                !.phase = CASE sold -> "ended"
                            [] ~sold /\ b.role = "sale" /\ @ = "selling" -> "guarding"
                            [] b.role = "market" /\ @ = "firing" -> "guarding"
                            [] OTHER -> @]

\* Mutant of the next definition: the bracket is over with its exit still there.
OnEndedOutright(b, e) == [b EXCEPT !.outcome = e.outcome, !.sale = 0, !.phase = "ended"]

OnEnded(b, e) ==
  [b EXCEPT !.outcome = e.outcome, !.sale = 0, !.phase = IF HasExit(b) THEN "closing" ELSE "ended"]

\* Mutant of the next definition: the growth is taken and not remembered.
OnGrownAgain(b, e) == [b EXCEPT !.quantity = @ + (e.total - b.entry_filled)]

\* The bracket's shares grow with the entry's fills.
OnGrown(b, e) == [b EXCEPT !.quantity = @ + (e.total - b.entry_filled), !.entry_filled = e.total]

\* Mutant of the next definition: the bracket waits on for a sale that will not come.
OnSaleDroppedStays(b) == [b EXCEPT !.sale = 0]
OnSaleDropped(b) == [b EXCEPT !.sale = 0, !.phase = "guarding"]

\* The bracket after an event that is a move.
Move(b, e) ==
  CASE e.kind = "armed"        -> OnArmed(b, e)
    [] e.kind = "entry-ended"  -> [b EXCEPT !.phase = "ended", !.outcome = "entry ended"]
    [] e.kind = "trailed"      -> [b EXCEPT !.stop.level = e.level, !.stop.high = e.high]
    [] e.kind = "adopted"      -> OnAdopted(b, e)
    [] e.kind = "adjusted"     -> OnAdjusted(b, e)
    [] e.kind = "placed"       -> OnPlaced(b, e)
    [] e.kind = "refused"      -> OnRefused(b, e)
    [] e.kind = "cleared"      -> OnCleared(b, e)
    [] e.kind = "cancel-asked" -> b
    [] e.kind = "moved"        -> [b EXCEPT !.phase = e.to]
    [] e.kind = "ended"        -> OnEnded(b, e)
    [] e.kind = "done"         -> [b EXCEPT !.phase = "ended"]
    [] e.kind = "halted"       -> [b EXCEPT !.phase = "halted"]
    [] e.kind = "sale-asked"   -> [b EXCEPT !.sale = e.quantity, !.phase = "closing-for-sale"]
    [] e.kind = "sale-dropped" -> OnSaleDropped(b)
    [] e.kind = "sale-sent"    -> [b EXCEPT !.sale = 0, !.exit = e.id, !.role = "sale", !.at_price = 0,
                                            !.at_qty = e.quantity, !.phase = "selling"]
    [] e.kind = "grown"        -> OnGrown(b, e)
    [] e.kind = "resized"      -> [b EXCEPT !.at_qty = e.quantity]
    [] e.kind = "off-broker"   -> [b EXCEPT !.off_broker = TRUE]

\* The bracket after an event: one that is not a move changes nothing.
After(b, e) == IF IsMove(b, e) THEN Move(b, e) ELSE b
AfterOne(b, events, i) == IF i \in DOMAIN events THEN After(b, events[i]) ELSE b

\* After all of a step's events: none has more than three (ExitEnded).
AfterAll(b, events) == AfterOne(AfterOne(AfterOne(b, events, 1), events, 2), events, 3)

------------------------------------------------------------------------------
(* What a bracket is handed to decide on:                                     *)
(*   tape    the last price and the bid, while the market is open             *)
(*   entry   the entry's fold                                                 *)
(*   exit    the exit it holds, as the broker last stated it, or NoExit:      *)
(*           [id, role, fold, cancel_asked, price, quantity]                  *)
(*   closed  the book shows the position closed elsewhere                     *)
(*   key     how things stand for a refusal that depends on them              *)
(*   selling the ticket's sale is being sent by this run                      *)
(*   waited  thirty seconds have gone by since the cancel, or the resize      *)
(*   lapses  the broker will soon let the exit lapse                          *)
(*   class   the class the broker's words for a rejected exit are in          *)

Nothing          == [events |-> <<>>, request |-> NoRequest]
Records(events)  == [events |-> events, request |-> NoRequest]
Sends(events, r) == [events |-> events, request |-> r]

PlaceOf(role, price, quantity) == [kind |-> "place", role |-> role, price |-> price, quantity |-> quantity]
CancelOf(id)                   == [kind |-> "cancel", id |-> id]
ResizeOf(id, quantity)         == [kind |-> "resize", id |-> id, quantity |-> quantity]

WaitingOn(x)  == x.fold.state \in Unanswered
CancelOut(x)  == x.fold.state = "cancelling"
Hit(b, seen)  == b.stop # NoLeg /\ seen.tape # NoTape /\ seen.tape.bid <= b.stop.level
AtTarget(b, seen)  == b.target > 0 /\ seen.tape # NoTape /\ seen.tape.bid >= b.target
OffTarget(b, seen) == b.target > 0 /\ seen.tape # NoTape /\ seen.tape.bid < b.target - BackOff

\* Mutant of the next definition: a refusal of any role holds every role back.
MaySendNone(b, role, key) == b.refused = NoRefusal

\* Whether a request for the role may go out, under the refusal the bracket stands under.
MaySend(b, role, key) ==
  LET r == b.refused
      changed == r.key # key
  IN  \/ r.role # role
      \/ r.class = "no-answer"
      \/ r.class = "state" /\ changed
      \/ r.class = "unknown" /\ r.tries < UnknownTries /\ (role = "market" \/ changed)

\* A sell for the bracket's shares, unless a refusal holds this role back or the
\* broker cancelled an exit and only a market sell may go out.
Place(b, seen, role, price) ==
  IF MaySend(b, role, seen.key) /\ (b.off_broker => role = "market") /\ b.quantity > 0
  THEN Sends(<<>>, PlaceOf(role, price, b.quantity)) ELSE Nothing

CancelExit(x)        == Sends(<<Ev("cancel-asked")>>, CancelOf(x.id))
CancelTo(x, phase)   == Sends(<<Moved(phase), Ev("cancel-asked")>>, CancelOf(x.id))
AskAgain(x, seen)    == IF seen.waited THEN Sends(<<>>, CancelOf(x.id)) ELSE Nothing
KeepCancelling(x)    == IF CancelOut(x) \/ WaitingOn(x) THEN Nothing ELSE CancelExit(x)

\* End the bracket, its exit's cancel sent with it.
End(x, outcome) ==
  IF x # NoExit /\ x.fold.state \in Resting
  THEN Sends(<<EndedAs(outcome), Ev("cancel-asked")>>, CancelOf(x.id))
  ELSE Records(<<EndedAs(outcome)>>)

\* The person changes the legs: with both gone the bracket ends.
AdjustTo(x, stop, target) ==
  IF stop = NoLeg /\ target = 0 THEN End(x, "both legs removed") ELSE Records(<<Adjusted(stop, target)>>)

\* Where the exit's leg stands now, and where the broker states the exit.
LegLevel(b, x)    == IF x.role = "stop" THEN b.stop.level ELSE b.target
StatedPrice(b, x) == IF x.price > 0 THEN x.price ELSE b.at_price
StatedQty(b, x)   == IF x.quantity > 0 THEN x.quantity ELSE b.at_qty
Leg(x)            == x.role \in {"stop", "target"}

\* Mutant of the next definition: only the quantity is looked at.
StaleQuantity(b, x) == Leg(x) /\ StatedQty(b, x) # b.quantity

\* A resting exit that no longer stands where the bracket does.
Stale(b, x) == Leg(x) /\ (StatedPrice(b, x) # LegLevel(b, x) \/ StatedQty(b, x) # b.quantity)

\* At the bracket's level with another quantity: changed in place, not replaced.
ToResize(b, x) ==
  /\ Leg(x) /\ x.fold.state \in Resting /\ ~x.cancel_asked
  /\ StatedPrice(b, x) = LegLevel(b, x) /\ StatedQty(b, x) # b.quantity /\ b.quantity > 0
Resize(b, x, seen) ==
  IF seen.entry.state \in Final \/ seen.waited THEN Sends(<<>>, ResizeOf(x.id, b.quantity)) ELSE Nothing

RollDue(x, seen) == seen.lapses /\ x.fold.state \in Resting /\ ~x.cancel_asked

\* A resting exit of a leg, left where it is or brought where the bracket stands.
KeepAt(b, x, seen) ==
  IF ToResize(b, x) THEN Resize(b, x, seen)
  ELSE IF Stale(b, x) \/ RollDue(x, seen) THEN CancelExit(x) ELSE Nothing

------------------------------------------------------------------------------
(* The one step a bracket takes. *)

OutcomeOf(role) ==
  CASE role = "target" -> "target" [] role \in {"stop", "market"} -> "stopped" [] role = "sale" -> "sold from the ticket"

\* The exit ended: cleared first, and what its end means.  A fill ends the bracket;
\* a cancel nobody here asked for is told and waited on; a rejection is a refusal.
ExitEnded(b, x, seen) ==
  LET cleared == Cleared(x.fold.filled)
      over == EndedAs(OutcomeOf(x.role))
      s == x.fold.state
  IN  CASE b.phase = "closing" \/ x.role = "sale" -> <<cleared>>
        [] b.phase # "closing" /\ x.role # "sale" /\ s = "filled" ->
             IF b.phase = "closing-for-sale" THEN <<cleared, Ev("sale-dropped"), over>> ELSE <<cleared, over>>
        [] b.phase # "closing" /\ x.role # "sale" /\ s = "cancelled" /\ ~x.cancel_asked -> <<cleared, OffBroker>>
        [] b.phase # "closing" /\ x.role # "sale" /\ s = "rejected" ->
             <<cleared, RefusedAs(x.role, seen.class, seen.key)>>
        [] OTHER -> <<cleared>>

\* What the broker states of the resting exit that the bracket does not know: 0 is
\* no change by hand.
HandPrice(b, x) == IF Leg(x) /\ x.price # b.at_price THEN x.price ELSE 0
HandQty(b, x)   == IF x.quantity # b.at_qty THEN x.quantity ELSE 0
ByHand(b, x) ==
  /\ x.fold.state \in Resting /\ ~x.cancel_asked /\ b.phase \in {"guarding", "target"}
  /\ HandPrice(b, x) > 0 \/ HandQty(b, x) > 0

\* A trailing stop follows the high while it guards or while the limit rests; its
\* level moves by a step at least, which is what a price here is counted in.
High(b, seen) == IF seen.tape.last > b.stop.high THEN seen.tape.last ELSE b.stop.high
Trails(b, seen) ==
  /\ b.stop # NoLeg /\ b.stop.trail > 0 /\ seen.tape # NoTape
  /\ b.phase = "target" \/ (b.phase = "guarding" /\ ~AtTarget(b, seen))
  /\ High(b, seen) # b.stop.high
TrailStep(b, seen) ==
  LET new == Trailed(b.stop.trail, High(b, seen))
  IN  TrailedTo(IF new > b.stop.level THEN new ELSE b.stop.level, High(b, seen))

Arm(seen) ==
  CASE seen.entry.state = "dry" -> Nothing
    [] seen.entry.state # "dry" /\ seen.entry.filled > 0 -> Records(<<Armed(seen.entry.filled, seen.fill_price)>>)
    [] seen.entry.state # "dry" /\ seen.entry.filled = 0 /\ seen.entry.state \in InFlight -> Nothing
    [] OTHER -> Records(<<Ev("entry-ended")>>)

\* Watching with nothing at the broker.
Unguarded(b, seen) ==
  IF Hit(b, seen) THEN Place(b, seen, "market", 0)
  ELSE IF AtTarget(b, seen) /\ MaySend(b, "target", seen.key) /\ ~b.off_broker
       THEN Place(b, seen, "target", b.target)
  ELSE IF b.stop # NoLeg THEN Place(b, seen, "stop", b.stop.level) ELSE Nothing

\* Making for the target with nothing at the broker.
TowardsTarget(b, seen) ==
  IF Hit(b, seen) THEN Place(b, seen, "market", 0)
  ELSE IF OffTarget(b, seen) THEN Records(<<Moved("guarding")>>)
  ELSE Place(b, seen, "target", b.target)

\* With no exit, by phase.
DecideBare(b, seen) ==
  CASE b.phase = "guarding" -> Unguarded(b, seen)
    [] b.phase \in {"to-target", "target"} ->
         IF b.target = 0 THEN Records(<<Moved("guarding")>>) ELSE TowardsTarget(b, seen)
    [] b.phase \in {"back-to-stop", "firing", "selling"} -> Records(<<Moved("guarding")>>)
    [] b.phase = "to-market" -> Place(b, seen, "market", 0)
    [] OTHER -> Nothing

\* With an exit resting at the broker, by phase.
DecideResting(b, x, seen) ==
  CASE b.phase = "guarding" ->
         IF AtTarget(b, seen) /\ ~b.off_broker THEN CancelTo(x, "to-target") ELSE KeepAt(b, x, seen)
    [] b.phase = "target" ->
         IF Hit(b, seen) THEN CancelTo(x, "to-market")
         ELSE IF OffTarget(b, seen) THEN CancelTo(x, "back-to-stop") ELSE KeepAt(b, x, seen)
    [] b.phase \in {"to-target", "back-to-stop", "to-market", "closing-for-sale"} -> CancelExit(x)
    [] b.phase = "selling" -> IF Hit(b, seen) THEN CancelTo(x, "to-market") ELSE Nothing
    [] OTHER -> Nothing

\* With an exit held: one whose answer is not known is waited for, one whose
\* cancel is out is waited for and asked again.
DecideHeld(b, x, seen) ==
  IF b.phase \in {"to-target", "target"} /\ b.target = 0
  THEN IF x.role = "target" THEN KeepCancelling(x) ELSE Nothing
  ELSE IF WaitingOn(x) THEN Nothing
  ELSE IF b.phase = "firing" THEN Nothing
  ELSE IF CancelOut(x) THEN AskAgain(x, seen)
  ELSE DecideResting(b, x, seen)

\* The stop fired, or has sold.
Stopped(b) ==
  \/ b.phase \in {"to-market", "firing"}
  \/ b.phase \in {"closing", "ended"} /\ b.outcome = "stopped"

DecideClosing(x, seen) ==
  IF x = NoExit THEN Records(<<Ev("done")>>)
  ELSE IF CancelOut(x) THEN AskAgain(x, seen) ELSE KeepCancelling(x)

\* Halted sends nothing more, but a reached stop with nothing resting still sells.
DecideHalted(b, x, seen) ==
  IF Hit(b, seen) /\ x = NoExit THEN Place(b, seen, "market", 0) ELSE Nothing

Decide(b, seen) ==
  LET x == seen.exit IN
  IF Stopped(b) /\ seen.entry.state \in Resting THEN Sends(<<>>, CancelOf(seen.entry_id))
  ELSE IF b.phase = "ended" THEN Nothing
  ELSE IF b.phase = "waiting" THEN Arm(seen)
  ELSE IF seen.entry.filled > b.entry_filled /\ b.phase \notin {"closing", "halted"}
       THEN Records(<<Grown(seen.entry.filled)>>)
  ELSE IF HasExit(b) /\ x = NoExit THEN Nothing
  ELSE IF x # NoExit /\ x.fold.state \in Ended THEN Records(ExitEnded(b, x, seen))
  ELSE IF x # NoExit /\ ByHand(b, x) THEN Records(<<Adopted(HandPrice(b, x), HandQty(b, x))>>)
  ELSE IF b.phase = "closing" THEN DecideClosing(x, seen)
  ELSE IF b.phase = "halted" THEN DecideHalted(b, x, seen)
  ELSE IF b.phase = "closing-for-sale" /\ ~seen.selling /\ (x # NoExit => ~WaitingOn(x))
       THEN Records(<<Ev("sale-dropped")>>)
  ELSE IF x = NoExit /\ b.phase # "closing-for-sale" /\ seen.closed THEN End(NoExit, "closed elsewhere")
  ELSE IF Trails(b, seen) THEN Records(<<TrailStep(b, seen)>>)
  ELSE IF x = NoExit THEN DecideBare(b, seen)
  ELSE DecideHeld(b, x, seen)
==============================================================================
