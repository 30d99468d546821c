----------------------------- MODULE OrderPromise -----------------------------
(***************************************************************************)
(* What the rest of the app may count on of an order it has handed to the  *)
(* gate, the threads and the messages left out: the bracket that places    *)
(* the next exit once one is let go of, the ticket that sells what a       *)
(* cancelled exit held, the pages that show what has filled.               *)
(*                                                                         *)
(* An order is at risk from the moment it is handed over until it is let   *)
(* go of; it is let go of only once it is over, with all that it traded    *)
(* known; and it trades at most once its quantity.                         *)
(***************************************************************************)
EXTENDS Naturals

CONSTANTS Orders, Quantity

VARIABLES stage,    \* what the app holds of the order
          told,     \* what the app holds as filled of it
          life,     \* where it is: not at the broker yet, there, or over
          sold      \* what it has traded

vars == <<stage, told, life, sold>>

Init ==
  /\ stage = [o \in Orders |-> "unplaced"]
  /\ told = [o \in Orders |-> 0]
  /\ life = [o \in Orders |-> "away"]
  /\ sold = [o \in Orders |-> 0]

\* Handed over: to be sent, or only written down.
Place(o) ==
  /\ stage[o] = "unplaced"
  /\ \/ stage' = [stage EXCEPT ![o] = "at-risk"] /\ UNCHANGED life
     \/ stage' = [stage EXCEPT ![o] = "dry"] /\ life' = [life EXCEPT ![o] = "over"]
  /\ UNCHANGED <<told, sold>>

Arrive(o) ==
  /\ stage[o] = "at-risk"
  /\ life[o] = "away"
  /\ life' = [life EXCEPT ![o] = "open"]
  /\ UNCHANGED <<stage, told, sold>>

\* Never to arrive: refused, lost, or the app stopped before it sent them.
Vanish ==
  /\ \E gone \in SUBSET {o \in Orders : stage[o] = "at-risk" /\ life[o] = "away"} :
       life' = [o \in Orders |-> IF o \in gone THEN "over" ELSE life[o]]
  /\ UNCHANGED <<stage, told, sold>>

Trade(o) ==
  /\ life[o] = "open"
  /\ \E n \in sold[o] + 1 .. Quantity :
       /\ sold' = [sold EXCEPT ![o] = n]
       /\ life' = [life EXCEPT ![o] = IF n = Quantity THEN "over" ELSE "open"]
  /\ UNCHANGED <<stage, told>>

Close(o) ==
  /\ life[o] = "open"
  /\ life' = [life EXCEPT ![o] = "over"]
  /\ UNCHANGED <<stage, told, sold>>

\* Something of it is learnt, never more than is so; and it is let go of once all is.
Learn(o) ==
  /\ stage[o] = "at-risk"
  /\ \E n \in told[o] .. sold[o] : told' = [told EXCEPT ![o] = n]
  /\ \/ UNCHANGED stage
     \/ /\ life[o] = "over"
        /\ told'[o] = sold[o]
        /\ stage' = [stage EXCEPT ![o] = "settled"]
  /\ UNCHANGED <<life, sold>>

Next ==
  \/ \E o \in Orders : Place(o) \/ Arrive(o) \/ Trade(o) \/ Close(o) \/ Learn(o)
  \/ Vanish

Spec == Init /\ [][Next]_vars
==============================================================================
