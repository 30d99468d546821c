------------------------------ MODULE OrderFold ------------------------------
(***************************************************************************)
(* An order as its own log makes it (core/src/order.rs): the states, and   *)
(* the state after each event.  An order's state is the fold of its        *)
(* events; an event that is not allowed where it falls changes nothing,    *)
(* so `Apply` returns the fold it was given.                               *)
(*                                                                         *)
(* Kept of an order: its state, whether the broker's id for it is known,   *)
(* and how much has filled.  Average price, reasons and codes are words    *)
(* nothing here branches on.  Quantities are whole shares.                 *)
(***************************************************************************)
EXTENDS Naturals

OrderState == {"dry", "sending", "unconfirmed", "pending", "partly-filled",
               "filled", "cancelling", "cancelled", "expired", "rejected", "failed"}

\* With the broker, or possibly with it: it can fill.
InFlight == {"sending", "unconfirmed", "pending", "partly-filled", "cancelling"}

\* Nothing more will happen to it at the broker.
Final == OrderState \ InFlight

\* Written, and the broker's answer is not known.
Unanswered == {"sending", "unconfirmed"}

\* With the broker, and no cancel asked for.
Resting == {"pending", "partly-filled"}

\* Orders the broker ended.
Ended == {"filled", "cancelled", "expired", "rejected", "failed"}

BrokerStatus == {"open", "filled", "cancelled", "expired", "rejected", "not-found"}

Fold == [state : OrderState, broker_id : BOOLEAN, filled : Nat]

------------------------------------------------------------------------------
(* Events. *)

NotSent       == [kind |-> "not-sent"]
Accepted      == [kind |-> "accepted"]
Refused       == [kind |-> "refused"]
Unclear       == [kind |-> "unclear"]
CancelAsked   == [kind |-> "cancel-asked"]
CancelRefused == [kind |-> "cancel-refused"]
Read(status, filled) == [kind |-> "read", status |-> status, filled |-> filled]

------------------------------------------------------------------------------
\* The order as its first event makes it: written, dry when orders are off.
Start(dry) == [state |-> IF dry THEN "dry" ELSE "sending", broker_id |-> FALSE, filled |-> 0]

\* The state that working at the broker means, with what has filled.
Working(f) == IF f.filled > 0 THEN "partly-filled" ELSE "pending"

\* The broker's own answer to the create: it has the order, under its id.  An
\* answer after a read-back already moved the order only teaches the id.
OnAccepted(f) ==
  CASE f.state \in Unanswered ->
         [f EXCEPT !.state = Working(f), !.broker_id = TRUE]
    [] f.state \in {"pending", "partly-filled", "cancelling", "filled", "cancelled", "expired"} ->
         [f EXCEPT !.broker_id = TRUE]
    [] OTHER -> f

\* Mutant of the next definition: the broker's lower reading is taken too.
ReadableAnyAge(f, status, filled) == ~(status = "filled" /\ filled = 0) /\ f.state # "dry"

\* A reading that cannot be so, or is older than what is known, is refused.
Readable(f, status, filled) ==
  /\ ~(status = "filled" /\ filled = 0)
  /\ filled >= f.filled
  /\ f.state # "dry"

\* Mutant of the next definition: the broker's word kept as the state.
ReadStateRaw(f, status, filled) == status

\* The state a reading of an order in flight leaves it in.
ReadState(f, status, filled) ==
  CASE status = "open" /\ f.state = "cancelling" -> "cancelling"
    [] status = "open" /\ f.state # "cancelling" -> Working([f EXCEPT !.filled = filled])
    [] status # "open" -> status

\* Mutants of the next definition: the reading taken as what newly filled; and
\* what filled before the order ended left out.
OnReadAdds(f, status, filled) ==
  IF Readable(f, status, filled) /\ f.state \in InFlight /\ status # "not-found"
  THEN [f EXCEPT !.state = ReadState(f, status, filled), !.filled = @ + filled] ELSE f
OnReadEnds(f, status, filled) ==
  IF Readable(f, status, filled) /\ f.state \in InFlight /\ status # "not-found"
  THEN [f EXCEPT !.state = ReadState(f, status, filled),
                 !.filled = IF status \in {"open", "filled"} THEN filled ELSE @]
  ELSE f

\* A read-back of the order.
OnRead(f, status, filled) ==
  CASE ~Readable(f, status, filled) -> f
    [] Readable(f, status, filled) /\ status = "not-found" ->
         IF f.state \in Unanswered THEN [f EXCEPT !.state = "failed"] ELSE f
    [] Readable(f, status, filled) /\ status # "not-found" /\ f.state \in InFlight ->
         [f EXCEPT !.state = ReadState(f, status, filled), !.filled = filled]
    \* the fill wins over a cancel or an expiry it raced
    [] Readable(f, status, filled) /\ f.state \in {"cancelled", "expired"} /\ status = "filled" ->
         [f EXCEPT !.state = "filled", !.filled = filled]
    \* a fill read late on an ended order is booked
    [] Readable(f, status, filled) /\ f.state \in {"filled", "cancelled", "expired"}
                                   /\ status \in {f.state, "open"} ->
         [f EXCEPT !.filled = filled]
    [] OTHER -> f

\* The order after one event.
Apply(f, e) ==
  CASE e.kind = "not-sent" /\ f.state = "sending"         -> [f EXCEPT !.state = "failed"]
    [] e.kind = "refused"  /\ f.state \in Unanswered      -> [f EXCEPT !.state = "rejected"]
    [] e.kind = "unclear"  /\ f.state = "sending"         -> [f EXCEPT !.state = "unconfirmed"]
    [] e.kind = "cancel-asked" /\ f.state \in Resting     -> [f EXCEPT !.state = "cancelling"]
    [] e.kind = "cancel-refused" /\ f.state = "cancelling" -> [f EXCEPT !.state = Working(f)]
    [] e.kind = "accepted" -> OnAccepted(f)
    [] e.kind = "read" -> OnRead(f, e.status, e.filled)
    [] OTHER -> f
==============================================================================
