-------------------------- MODULE TicketSharesProofs --------------------------
(***************************************************************************)
(* That no share is offered twice, and that at rest the brackets guard     *)
(* exactly the shares that are left: for one sale from the ticket in a     *)
(* process that does not stop, with orders that fill whole, over any       *)
(* number of brackets of any number of shares.  The invariant, Sound, says *)
(* what each order, each bracket and the seller may be beside the others,  *)
(* and that three sums agree: what the seller takes, what the brackets     *)
(* have given the sale, and what nobody has sold.                          *)
(***************************************************************************)
EXTENDS TicketSaleProofs

USE RulesAssumption, SaleAssumption

\* One sale, in a process that goes on, with orders that fill at once or not at all.
OneSale == PartFills = FALSE /\ \E s : Sales = {s}

------------------------------------------------------------------------------
(* The inductive invariant, one actor at a time. *)

\* An order: what the book knows of it is so, if it knows how it ended; and it is at the
\* broker whole.
OrderOK(w, r) ==
  LET state == w.fold.state IN
  /\ r.filled = (IF r.status = "filled" THEN r.quantity ELSE 0)
  /\ w.fold.filled = (IF state = "filled" THEN r.quantity ELSE 0)
  /\ state \in {"unwritten", "sending", "unconfirmed", "pending", "cancelling", "filled", "cancelled", "failed", "rejected"}
  /\ state = "unwritten" => r.status = "not-found"
  /\ state \in {"rejected", "failed"} => r.status = "not-found"
  /\ state \in {"filled", "cancelled"} => r.status = state
  /\ state \in {"pending", "cancelling"} => r.status # "not-found"

\* A bracket c, beside its own order (own, r), the sale's state and the seller v: its own
\* order is for all its shares, the sale is its exit only once told, and it waits for a
\* sale only while one is being asked of it.
BracketOK(s, b, c, own, r, state, v) ==
  /\ IF c.phase = "ended" THEN c.quantity = 0 /\ c.exit = NoOne ELSE c.quantity > 0
  /\ own \in {"unwritten", "pending", "cancelling", "filled", "cancelled"}
  /\ c.exit = b => r.quantity = c.quantity /\ own # "unwritten"
  /\ c.exit # b => own \in {"unwritten", "filled", "cancelled"}
  /\ c.exit = s => /\ c.phase \in {"selling", "to-market"} /\ c.at_qty \in 1 .. c.quantity
                   /\ state \notin {"unwritten", "sending"} /\ v.at \in {"telling", "idle"} /\ b \notin v.todo
  /\ c.phase = "selling" => c.exit = s
  /\ c.phase = "closing-for-sale" =>
       /\ c.exit # s /\ b \in DOMAIN v.share
       /\ v.at = "marking" => b \notin v.todo
       /\ v.at \in {"telling", "dropping"} => b \in v.todo

Offering == {"sent", "settling", "telling"}   \* the sale is out, or about to be told of
Clear(c) == c.phase = "closing-for-sale" /\ c.exit = NoOne

\* The seller v, beside the sale's state: where it stands is where the sale does.
PlaceOK(v, state) ==
  /\ v.at = "idle" => DOMAIN v.share = {}
  /\ v.at \in {"marking", "watching", "sending"} => state = "unwritten"
  /\ v.at = "sent" <=> state = "sending"
  /\ v.at \in {"settling", "telling"} => state # "unwritten"
  /\ v.at = "dropping" => state \in {"unwritten", "cancelled", "failed", "rejected"}
  /\ v.at \in {"sending", "sent", "settling"} => v.todo = DOMAIN v.share

\* And beside a bracket c it takes shares of: they are the bracket's to give, and free once
\* the bracket was seen to be.
TakeOK(v, b, c) ==
  /\ v.share[b] > 0
  /\ c.phase # "ended" /\ v.at # "dropping" /\ (v.at = "telling" => b \in v.todo) => v.share[b] <= c.quantity
  /\ v.at = "watching" /\ v.clear /\ b \notin v.todo => Clear(c)
  /\ v.at \in {"sending"} \cup Offering /\ b \in v.todo => Clear(c)

\* What a seller takes of a bracket, and what the sale has of it.
Taken(v, b) == IF b \in DOMAIN v.share THEN v.share[b] ELSE 0
Given(s, b, c, v) ==
  IF c.exit = s THEN c.at_qty ELSE IF v.at \in Offering /\ b \in v.todo THEN v.share[b] ELSE 0

\* The shares of a bracket nobody has sold.
Left(s, b, c, v, own, sale) ==
  c.quantity - (IF c.exit = b THEN own.filled ELSE 0) - (IF sale.status = "filled" THEN Given(s, b, c, v) ELSE 0)

AllTaken(s) == SumOf([b \in Brackets |-> Taken(seller[s], b)], Brackets)
AllGiven(s) == SumOf([b \in Brackets |-> Given(s, b, bracket[b], seller[s])], Brackets)
AllLeft(s)  == SumOf([b \in Brackets |-> Left(s, b, bracket[b], seller[s], broker[b], broker[s])], Brackets)

OrdersOK     == \A o \in Orders : OrderOK(order[o], broker[o])
BracketsOK(s) == \A b \in Brackets : BracketOK(s, b, bracket[b], State(b), broker[b], State(s), seller[s])
SellerOK(s)  == /\ PlaceOK(seller[s], State(s)) /\ selling = DOMAIN seller[s].share
                /\ \A b \in DOMAIN seller[s].share : TakeOK(seller[s], b, bracket[b])

\* The sums: what the seller takes is what it sells; what the brackets give the sale is what
\* it is for; and what nobody has sold is what is left.
SumsOK(s) ==
  /\ AllTaken(s) = seller[s].quantity
  /\ broker[s].status = "open" => AllGiven(s) = broker[s].quantity
  /\ broker[s].status = "filled" => AllGiven(s) <= broker[s].quantity
  /\ AllLeft(s) = Held - sold

Sound(s) == OrdersOK /\ BracketsOK(s) /\ SellerOK(s) /\ SumsOK(s)

------------------------------------------------------------------------------
(* What the types say, for one sale. *)

LEMMA Known ==
  ASSUME Types, NEW s, Sales = {s}
  PROVE  /\ s \in Sales /\ s \in Orders /\ Orders = Brackets \cup {s} /\ s \notin Brackets
         /\ NoOne \notin Orders /\ NoOne # s
         /\ \A b \in Brackets : /\ b \in Orders /\ b # s /\ b # NoOne /\ b \in Nat
                                /\ bracket[b] \in Bracket_ /\ bracket[b].exit \in {NoOne, b, s}
                                /\ bracket[b].quantity \in Int /\ bracket[b].at_qty \in Int
                                /\ bracket[b].phase \in Phase_
                                /\ bracket[b].role = "sale" <=> bracket[b].exit = s
         /\ \A o \in Orders : /\ order[o] \in Order_ /\ order[o].fold \in Fold_ /\ order[o].fold.filled \in Nat
                              /\ broker[o] \in Broker_ /\ broker[o].quantity \in Nat /\ broker[o].filled \in Nat
                              /\ State(o) = order[o].fold.state
         /\ seller[s] \in Seller_ /\ seller[s].todo \subseteq DOMAIN seller[s].share /\ seller[s].quantity \in Nat
         /\ DOMAIN seller[s].share \subseteq Brackets /\ \A b \in DOMAIN seller[s].share : seller[s].share[b] \in Int
<1>1. /\ s \in Sales /\ s \in Orders /\ Orders = Brackets \cup {s} /\ s \notin Brackets
      /\ NoOne \notin Orders /\ NoOne # s /\ \A b \in Brackets : b \in Orders /\ b # s /\ b # NoOne /\ b \in Nat
  BY OrderSets
<1>2. ASSUME NEW b \in Brackets
      PROVE  /\ bracket[b] \in Bracket_ /\ bracket[b].exit \in {NoOne, b, s}
             /\ bracket[b].quantity \in Int /\ bracket[b].at_qty \in Int
             /\ bracket[b].phase \in Phase_
             /\ bracket[b].role = "sale" <=> bracket[b].exit = s
  <2>1. bracket[b] \in Bracket_ /\ ExitIs(b, bracket[b].exit, bracket[b].role)
    BY DEF Types
  <2> QED BY <1>1, <2>1 DEF Bracket_, ExitIs, Own_
<1>3. ASSUME NEW o \in Orders
      PROVE  /\ order[o] \in Order_ /\ order[o].fold \in Fold_ /\ order[o].fold.filled \in Nat
             /\ broker[o] \in Broker_ /\ broker[o].quantity \in Nat /\ broker[o].filled \in Nat
             /\ State(o) = order[o].fold.state
  BY DEF Types, Order_, Fold_, Broker_, State
<1>4. seller[s] \in Seller_ /\ seller[s].todo \subseteq DOMAIN seller[s].share /\ seller[s].quantity \in Nat
  BY DEF Types, Seller_
<1>5. DOMAIN seller[s].share \subseteq Brackets /\ \A b \in DOMAIN seller[s].share : seller[s].share[b] \in Int
  BY <1>4, ShareIs DEF Seller_
<1> QED BY <1>1, <1>2, <1>3, <1>4, <1>5

\* What is summed is a number.
LEMMA Numbers ==
  ASSUME Types, NEW s, Sales = {s}, NEW b \in Brackets
  PROVE  /\ Taken(seller[s], b) \in Int /\ Given(s, b, bracket[b], seller[s]) \in Int
         /\ Left(s, b, bracket[b], seller[s], broker[b], broker[s]) \in Int
<1>1. Taken(seller[s], b) \in Int
  BY Known DEF Taken
<1>2. Given(s, b, bracket[b], seller[s]) \in Int
  BY Known DEF Given
<1>3. Left(s, b, bracket[b], seller[s], broker[b], broker[s]) \in Int
  <2>1. bracket[b].quantity \in Int /\ broker[b].filled \in Int
    BY Known
  <2> QED BY <1>2, <2>1 DEF Left
<1> QED BY <1>1, <1>2, <1>3

\* Where no bracket's numbers change, no sum does.
LEMMA SumsKept ==
  ASSUME NEW s, SumsOK(s), sold' = sold,
         broker'[s].status = broker[s].status /\ broker'[s].quantity = broker[s].quantity,
         seller'[s].quantity = seller[s].quantity /\ seller'[s].share = seller[s].share,
         \A b \in Brackets : /\ Given(s, b, bracket'[b], seller'[s]) = Given(s, b, bracket[b], seller[s])
                             /\ Left(s, b, bracket'[b], seller'[s], broker'[b], broker'[s])
                                = Left(s, b, bracket[b], seller[s], broker[b], broker[s])
  PROVE  SumsOK(s)'
<1>1. AllTaken(s)' = AllTaken(s)
  BY DEF AllTaken, Taken
<1>2. AllGiven(s)' = AllGiven(s)
  BY DEF AllGiven
<1>3. AllLeft(s)' = AllLeft(s)
  BY DEF AllLeft
<1> QED BY <1>1, <1>2, <1>3 DEF SumsOK

------------------------------------------------------------------------------
(* An order, through all that may happen to it. *)

\* What the broker knows of it stays: its cancel is asked for, and may be turned down.
LEMMA OrderAsked ==
  ASSUME NEW f \in Fold_, f.filled = 0, f.state \in {"pending", "cancelling"},
         NEW g \in {Apply(f, CancelAsked), Apply(Apply(f, CancelAsked), CancelRefused)}
  PROVE  g.state \in {"pending", "cancelling"} /\ g.filled = 0
<1> DEFINE h == Apply(f, CancelAsked)  k == Apply(h, CancelRefused)
<1>1. h = IF f.state \in Resting THEN [f EXCEPT !.state = "cancelling"] ELSE f
  BY DEF Apply, CancelAsked
<1>2. h \in Fold_ /\ h.filled = 0 /\ h.state = "cancelling"
  BY <1>1 DEF Fold_, OrderState, Resting
<1> HIDE DEF h
<1>3. k = [h EXCEPT !.state = "pending"]
  BY <1>2 DEF Apply, CancelRefused, Working
<1>4. k.filled = 0 /\ k.state = "pending"
  BY <1>2, <1>3 DEF Fold_
<1> HIDE DEF k
<1> QED BY <1>2, <1>4 DEF h, k

\* A cancel asked of an order in the book.
LEMMA AskedOK ==
  ASSUME Types, OrdersOK, NEW o \in Orders, State(o) \in Resting \cup {"cancelling"}, CancelOrder(o)
  PROVE  /\ OrdersOK'
         /\ \A u \in Orders : /\ broker'[u].status = broker[u].status /\ broker'[u].filled = broker[u].filled
                              /\ broker'[u].quantity = broker[u].quantity
                              /\ \/ State(u)' = State(u)
                                 \/ {State(u), State(u)'} \subseteq {"pending", "cancelling"}
<1>1. OrderOK(order[o], broker[o]) /\ order[o].fold \in Fold_
  BY DEF OrdersOK, Types, Order_
<1>2. State(o) \in {"pending", "cancelling"} /\ order[o].fold.filled = 0 /\ State(o) = order[o].fold.state
  BY <1>1 DEF OrderOK, State, Resting
<1>3. /\ \A u \in Orders : /\ u # o => order'[u] = order[u]
                           /\ broker'[u].status = broker[u].status /\ broker'[u].filled = broker[u].filled
                           /\ broker'[u].quantity = broker[u].quantity
      /\ order'[o].fold \in {Apply(order[o].fold, CancelAsked), Apply(Apply(order[o].fold, CancelAsked), CancelRefused)}
  BY <1>2, CancelTypes
<1>4. order'[o].fold.state \in {"pending", "cancelling"} /\ order'[o].fold.filled = 0
  BY <1>1, <1>2, <1>3, OrderAsked
<1>5. OrderOK(order'[o], broker'[o])
  BY <1>1, <1>2, <1>3, <1>4 DEF OrderOK
<1>6. \A u \in Orders : u # o => OrderOK(order'[u], broker'[u])
  BY <1>3 DEF OrdersOK, OrderOK
<1> QED BY <1>2, <1>3, <1>4, <1>5, <1>6 DEF OrdersOK, State

\* An order read back.
LEMMA ReadOK ==
  ASSUME NEW w \in Order_, NEW r \in Broker_, OrderOK(w, r),
         w.fold.state \in {"unconfirmed", "pending", "cancelling"}
  PROVE  LET g == Apply(w.fold, Read(r.status, r.filled)) IN
         /\ OrderOK([w EXCEPT !.fold = g], r)
         /\ g.state \in {"unconfirmed", "pending", "cancelling", "filled", "cancelled", "failed"}
         /\ w.fold.state # "unconfirmed" => g.state \in {"pending", "cancelling", "filled", "cancelled"}
<1> DEFINE f == w.fold  g == Apply(f, Read(r.status, r.filled))  x == [w EXCEPT !.fold = g]
<1>1. f \in Fold_ /\ f.filled = 0 /\ r.filled \in Nat /\ f.state \in InFlight /\ f.state # "dry" /\ f.state # "unwritten"
  BY DEF Order_, Broker_, OrderOK, InFlight
<1>2. g = OnRead(f, r.status, r.filled)
  BY DEF Apply, Read
<1>3. g \in Fold_
  BY <1>1, FoldTypes DEF Broker_
<1>4. r.status \in {"open", "filled", "cancelled", "not-found"}
  BY DEF Broker_
<1>5. CASE r.status = "not-found"
  <2>1. f.state = "unconfirmed"
    BY <1>5 DEF OrderOK
  <2>2. Readable(f, r.status, r.filled)
    BY <1>1, <1>5 DEF Readable
  <2>3. g = [f EXCEPT !.state = "failed"]
    BY <1>2, <1>5, <2>1, <2>2 DEF OnRead, Unanswered
  <2>4. g.state = "failed" /\ g.filled = 0
    BY <1>1, <2>3 DEF Fold_
  <2> HIDE DEF g
  <2>5. x.fold.state = "failed" /\ x.fold.filled = 0
    BY <2>4 DEF Order_
  <2>6. OrderOK(x, r)
    BY <1>5, <2>5 DEF OrderOK
  <2> QED BY <2>1, <2>4, <2>6 DEF g
<1>6. CASE r.status = "filled" /\ r.filled = 0
  <2>1. ~Readable(f, r.status, r.filled)
    BY <1>6 DEF Readable
  <2>2. g = f
    BY <1>2, <2>1 DEF OnRead
  <2> HIDE DEF g
  <2>3. x = w
    BY <2>2 DEF Order_
  <2> QED BY <2>2, <2>3 DEF g
<1>7. CASE r.status # "not-found" /\ ~(r.status = "filled" /\ r.filled = 0)
  <2>1. Readable(f, r.status, r.filled)
    BY <1>1, <1>7 DEF Readable
  <2>2. g = [f EXCEPT !.state = ReadState(f, r.status, r.filled), !.filled = r.filled]
    BY <1>1, <1>2, <1>7, <2>1 DEF OnRead
  <2>3. ReadState(f, r.status, r.filled) = IF r.status = "open"
                                           THEN IF f.state = "cancelling" THEN "cancelling" ELSE "pending"
                                           ELSE r.status
    <3>1. CASE r.status = "open"
      <4>1. r.filled = 0 /\ [f EXCEPT !.filled = r.filled].filled = 0
        BY <1>1, <3>1 DEF OrderOK, Fold_
      <4> QED BY <3>1, <4>1 DEF ReadState, Working
    <3>2. CASE r.status # "open"
      BY <3>2 DEF ReadState
    <3> QED BY <3>1, <3>2
  <2>4. g.state = ReadState(f, r.status, r.filled) /\ g.filled = r.filled
    BY <1>1, <2>2 DEF Fold_
  <2> HIDE DEF g
  <2>5. x.fold.state = g.state /\ x.fold.filled = g.filled
    BY DEF Order_
  <2>6. OrderOK(x, r)
    BY <1>4, <1>7, <2>3, <2>4, <2>5 DEF OrderOK
  <2> QED BY <1>4, <1>7, <2>3, <2>4, <2>6 DEF g
<1> QED BY <1>4, <1>5, <1>6, <1>7

\* A bracket stays right as its own order and the sale move on.
LEMMA BracketFollows ==
  ASSUME NEW s, NEW b, NEW c, NEW own, NEW r, NEW state, NEW v, BracketOK(s, b, c, own, r, state, v),
         NEW own2, NEW r2, NEW state2,
         r2.quantity = r.quantity \/ c.exit # b,
         own2 = own \/ (own \in {"pending", "cancelling"} /\ own2 \in {"pending", "cancelling", "filled", "cancelled"}),
         state2 = state \/ state2 \notin {"unwritten", "sending"} \/ c.exit # s
  PROVE  BracketOK(s, b, c, own2, r2, state2, v)
BY DEF BracketOK

------------------------------------------------------------------------------
(* The start. *)

\* A sum of nothing but nothings.
LEMMA SumZero ==
  ASSUME NEW f, NEW S, IsFiniteSet(S), \A x \in S : f[x] = 0
  PROVE  SumOf(f, S) = 0
<1>1. SumOf(f, S) = 0 * Cardinality(S)
  BY 0 \in Int, SumConstant
<1>2. Cardinality(S) \in Nat
  BY FS_CardinalityType
<1> QED BY <1>1, <1>2

\* At first every bracket guards its own shares and nothing is asked.
LEMMA InitSound ==
  ASSUME Init, NEW s, Sales = {s}
  PROVE  Sound(s)
<1>1. Types
  BY InitTypes
<1>2. ASSUME NEW b \in Brackets
      PROVE  bracket[b].exit = NoOne /\ bracket[b].quantity = Part /\ bracket[b].phase = "guarding" /\ b \in Orders
  <2>1. bracket[b] = After(Created(Part, StopLeg, 0), Armed(Part, 0))
    BY DEF Init, StopLeg
  <2> QED BY <2>1, Armed_ DEF Stands, Orders
<1>3. \A o \in Orders : order[o] = Unwritten /\ broker[o] = NotThere
  BY DEF Init
<1>4. s \in Orders /\ s # NoOne /\ \A b \in Brackets : b # NoOne
  BY <1>1, Known
<1>5. seller[s] = Idle /\ selling = {} /\ sold = 0
  BY DEF Init
<1>6. OrdersOK
  BY <1>3, Starts DEF OrdersOK, OrderOK
<1>7. BracketsOK(s)
  <2>1. ASSUME NEW b \in Brackets PROVE BracketOK(s, b, bracket[b], State(b), broker[b], State(s), seller[s])
    <3>1. State(b) = "unwritten" /\ State(s) = "unwritten"
      BY <1>2, <1>3, <1>4, Starts DEF State
    <3>2. Part > 0
      BY DEF SaleAssumption
    <3> QED BY <1>2, <1>4, <3>1, <3>2 DEF BracketOK
  <2> QED BY <2>1 DEF BracketsOK
<1>8. SellerOK(s)
  BY <1>3, <1>4, <1>5, Starts DEF SellerOK, PlaceOK, State
<1>9. SumsOK(s)
  <2>1. AllTaken(s) = 0
    <3> DEFINE f == [b \in Brackets |-> Taken(seller[s], b)]
    <3>1. \A b \in Brackets : f[b] = 0
      BY <1>5, Starts DEF Taken
    <3> HIDE DEF f
    <3>2. SumOf(f, Brackets) = 0
      BY <3>1, OrderSets, SumZero
    <3> QED BY <3>2 DEF AllTaken, f
  <2>2. AllLeft(s) = Part * Cardinality(Brackets)
    <3> DEFINE f == [b \in Brackets |-> Left(s, b, bracket[b], seller[s], broker[b], broker[s])]
    <3>1. \A b \in Brackets : f[b] = Part
      BY <1>2, <1>3, <1>4, Starts DEF Left, SaleAssumption
    <3> HIDE DEF f
    <3>2. SumOf(f, Brackets) = Part * Cardinality(Brackets)
      <4>1. Part \in Int
        BY DEF SaleAssumption
      <4> QED BY <3>1, <4>1, OrderSets, SumConstant
    <3> QED BY <3>2 DEF AllLeft, f
  <2>3. Cardinality(Brackets) \in Nat /\ Part \in Nat
    BY OrderSets, FS_CardinalityType DEF SaleAssumption
  <2>4. AllLeft(s) = Held - sold
    BY <2>2, <2>3, <1>5 DEF Held
  <2>5. broker[s].status = "not-found" /\ seller[s].quantity = 0
    BY <1>3, <1>4, <1>5, Starts
  <2> QED BY <2>1, <2>4, <2>5 DEF SumsOK
<1> QED BY <1>6, <1>7, <1>8, <1>9 DEF Sound

------------------------------------------------------------------------------
(* A check of a bracket. *)

\* One bracket moves on, and nothing else.
LEMMA OneBracket ==
  ASSUME Types, NEW s, Sales = {s}, Sound(s), NEW b \in Brackets, NEW c, Becomes(b, c),
         UNCHANGED <<order, broker, seller, selling, sold>>,
         BracketOK(s, b, c, State(b), broker[b], State(s), seller[s]),
         b \in DOMAIN seller[s].share => TakeOK(seller[s], b, c),
         Given(s, b, c, seller[s]) = Given(s, b, bracket[b], seller[s]),
         Left(s, b, c, seller[s], broker[b], broker[s]) = Left(s, b, bracket[b], seller[s], broker[b], broker[s])
  PROVE  Sound(s)'
<1>1. bracket'[b] = c /\ \A d \in Brackets : d # b => bracket'[d] = bracket[d]
  BY DEF Becomes, Types
<1>2. OrdersOK'
  BY DEF Sound, OrdersOK
<1>3. BracketsOK(s)'
  BY <1>1 DEF Sound, BracketsOK, State
<1>4. SellerOK(s)'
  <2>1. DOMAIN seller[s].share \subseteq Brackets
    BY Known
  <2> QED BY <1>1, <2>1 DEF Sound, SellerOK, State
<1>5. SumsOK(s)'
  <2>1. \A d \in Brackets : /\ Given(s, d, bracket'[d], seller'[s]) = Given(s, d, bracket[d], seller[s])
                            /\ Left(s, d, bracket'[d], seller'[s], broker'[d], broker'[s])
                               = Left(s, d, bracket[d], seller[s], broker[d], broker[s])
    BY <1>1
  <2> QED BY <2>1, SumsKept DEF Sound
<1> QED BY <1>2, <1>3, <1>4, <1>5 DEF Sound

\* A bracket that places its own order places it for all its shares, and only with no exit.
LEMMA PlacedSound ==
  ASSUME Types, NEW s, Sales = {s}, Sound(s), NEW b \in Brackets, PlacedStep(b),
         UNCHANGED <<seller, selling, sold, crashes>>
  PROVE  Sound(s)'
<1> DEFINE old == bracket[b]
<1>1. PICK role \in Own_ : \E c :
         /\ Stands(c, b, role, old.quantity, old.quantity, IF role = "market" THEN "firing" ELSE old.phase)
         /\ Becomes(b, c)
  BY DEF PlacedStep
<1>2. PICK c : /\ Stands(c, b, role, old.quantity, old.quantity, IF role = "market" THEN "firing" ELSE old.phase)
               /\ Becomes(b, c)
  BY <1>1
<1>3. /\ old.exit = NoOne /\ old.phase \in {"guarding", "to-market"} /\ old.quantity > 0 /\ old.quantity \in Nat
      /\ b # s /\ b # NoOne /\ s # NoOne /\ b \in Orders /\ s \in Orders
  BY Known DEF PlacedStep, HasExit
<1>4. c.exit = b /\ c.quantity = old.quantity /\ c.phase \in {"firing", "guarding", "to-market"}
  BY <1>2, <1>3 DEF Stands
<1>5. bracket'[b] = c /\ \A d \in Brackets : d # b => bracket'[d] = bracket[d]
  BY <1>2 DEF Becomes, Types
<1> DEFINE w == [Unwritten EXCEPT !.fold = Apply(Start(FALSE), Accepted)]
<1>6. w.fold.state = "pending" /\ w.fold.filled = 0
  <2>1. Apply(Start(FALSE), Accepted) = [Start(FALSE) EXCEPT !.state = "pending", !.broker_id = TRUE]
    <3>1. Working(Start(FALSE)) = "pending"
      BY DEF Working, Start
    <3>2. Apply(Start(FALSE), Accepted) = OnAccepted(Start(FALSE))
      BY DEF Apply, Accepted
    <3> QED BY <3>1, <3>2, Starts DEF OnAccepted, Unanswered
  <2>2. Apply(Start(FALSE), Accepted).state = "pending" /\ Apply(Start(FALSE), Accepted).filled = 0
    BY <2>1, Starts DEF Fold_
  <2> QED BY <2>2, Starts DEF Order_
<1>7. order' = [order EXCEPT ![b] = w] /\ broker' = [broker EXCEPT ![b] = Open(old.quantity)]
  BY DEF PlacedStep
<1> HIDE DEF w
<1>8. /\ order'[b] = w /\ broker'[b] = Open(old.quantity)
      /\ \A o \in Orders : o # b => order'[o] = order[o] /\ broker'[o] = broker[o]
  BY <1>3, <1>7 DEF Types
<1>9. broker'[b].status = "open" /\ broker'[b].filled = 0 /\ broker'[b].quantity = old.quantity
  BY <1>3, <1>8, Starts
<1>10. OrdersOK'
  <2>1. OrderOK(order'[b], broker'[b])
    BY <1>6, <1>8, <1>9 DEF OrderOK
  <2> QED BY <2>1, <1>8 DEF Sound, OrdersOK
<1>11. BracketsOK(s)'
  <2>1. BracketOK(s, b, c, "pending", broker'[b], State(s), seller[s])
    BY <1>3, <1>4, <1>9 DEF BracketOK
  <2>2. State(b)' = "pending" /\ State(s)' = State(s)
    BY <1>3, <1>6, <1>8 DEF State
  <2>3. \A d \in Brackets : d # b => State(d)' = State(d) /\ broker'[d] = broker[d]
    BY <1>8, OrderSets DEF State
  <2> QED BY <2>1, <2>2, <2>3, <1>5 DEF Sound, BracketsOK
<1>12. SellerOK(s)'
  <2>1. DOMAIN seller[s].share \subseteq Brackets /\ State(s)' = State(s)
    BY Known, <1>3, <1>8 DEF State
  <2>2. b \in DOMAIN seller[s].share => TakeOK(seller[s], b, c)
    BY <1>3, <1>4 DEF Sound, SellerOK, TakeOK, Clear
  <2> QED BY <1>5, <2>1, <2>2 DEF Sound, SellerOK
<1>13. SumsOK(s)'
  <2>1. Given(s, b, c, seller[s]) = Given(s, b, old, seller[s])
    BY <1>3, <1>4 DEF Given
  <2>2. Left(s, b, c, seller[s], broker'[b], broker[s]) = Left(s, b, old, seller[s], broker[b], broker[s])
    <3>1. c.quantity - broker'[b].filled = old.quantity
      BY <1>3, <1>4, <1>9
    <3>2. c.quantity - (IF c.exit = b THEN broker'[b].filled ELSE 0) = old.quantity - (IF old.exit = b THEN broker[b].filled ELSE 0)
      BY <1>3, <1>4, <3>1
    <3> HIDE DEF old
    <3> QED BY <2>1, <3>2 DEF Left
  <2>3. broker'[s] = broker[s] /\ \A d \in Brackets : d # b => broker'[d] = broker[d]
    BY <1>3, <1>8, OrderSets
  <2> QED BY <2>1, <2>2, <2>3, <1>5, SumsKept DEF Sound
<1> QED BY <1>10, <1>11, <1>12, <1>13 DEF Sound

\* A bracket that asks for the cancel of its own order gives nothing away by it.
LEMMA CancelledSound ==
  ASSUME Types, NEW s, Sales = {s}, Sound(s), NEW b \in Brackets, CancelledStep(b),
         UNCHANGED <<seller, selling, sold, crashes>>
  PROVE  Sound(s)'
<1> DEFINE old == bracket[b]
<1>1. PICK c : /\ Stands(c, old.exit, old.role, old.quantity, old.at_qty, c.phase)
               /\ c.phase = old.phase \/ (old.phase = "selling" /\ c.phase = "to-market")
               /\ Becomes(b, c)
  BY DEF CancelledStep
<1>2. c.exit = old.exit /\ c.quantity = old.quantity /\ c.at_qty = old.at_qty
  BY <1>1 DEF Stands
<1>3. bracket'[b] = c /\ \A d \in Brackets : d # b => bracket'[d] = bracket[d]
  BY <1>1 DEF Becomes, Types
<1>4. old.exit \in Orders
  BY Known DEF CancelledStep, HasExit
<1>5. /\ OrdersOK'
      /\ \A u \in Orders : /\ broker'[u].status = broker[u].status /\ broker'[u].filled = broker[u].filled
                           /\ broker'[u].quantity = broker[u].quantity
                           /\ \/ State(u)' = State(u)
                              \/ {State(u), State(u)'} \subseteq {"pending", "cancelling"}
  <2>1. CASE SameOrders
    BY <2>1 DEF Sound, SameOrders, OrdersOK, State
  <2>2. CASE State(old.exit) \in Resting \cup {"cancelling"} /\ CancelOrder(old.exit)
    BY <2>2, <1>4, AskedOK DEF Sound
  <2> QED BY <2>1, <2>2 DEF CancelledStep
<1>6. BracketsOK(s)'
  <2>1. BracketOK(s, b, c, State(b), broker[b], State(s), seller[s])
    <3>1. BracketOK(s, b, old, State(b), broker[b], State(s), seller[s])
      BY DEF Sound, BracketsOK
    <3> QED BY <1>1, <1>2, <3>1 DEF BracketOK
  <2>2. \A d \in Brackets : BracketOK(s, d, bracket'[d], State(d), broker[d], State(s), seller[s])
    BY <2>1, <1>3 DEF Sound, BracketsOK
  <2>3. ASSUME NEW d \in Brackets
        PROVE  BracketOK(s, d, bracket'[d], State(d)', broker'[d], State(s)', seller[s])
    <3>1. d \in Orders /\ s \in Orders
      BY Known
    <3> QED BY <2>2, <1>5, <3>1, BracketFollows
  <2> QED BY <2>3 DEF BracketsOK
<1>7. SellerOK(s)'
  <2>1. DOMAIN seller[s].share \subseteq Brackets /\ s \in Orders
    BY Known
  <2>2. b \in DOMAIN seller[s].share => TakeOK(seller[s], b, c)
    BY <1>1, <1>2 DEF Sound, SellerOK, TakeOK, Clear
  <2>3. PlaceOK(seller[s], State(s)')
    BY <1>5, <2>1 DEF Sound, SellerOK, PlaceOK
  <2> QED BY <1>3, <2>1, <2>2, <2>3 DEF Sound, SellerOK
<1>8. SumsOK(s)'
  <2>1. Given(s, b, c, seller[s]) = Given(s, b, old, seller[s])
    BY <1>2 DEF Given
  <2>2. Left(s, b, c, seller[s], broker[b], broker[s]) = Left(s, b, old, seller[s], broker[b], broker[s])
    BY <1>2, <2>1 DEF Left
  <2>3. s \in Orders /\ \A d \in Brackets : d \in Orders
    BY Known
  <2>4. \A d \in Brackets : /\ Given(s, d, bracket'[d], seller'[s]) = Given(s, d, bracket[d], seller[s])
                            /\ Left(s, d, bracket'[d], seller'[s], broker'[d], broker'[s])
                               = Left(s, d, bracket[d], seller[s], broker[d], broker[s])
    <3>1. ASSUME NEW d \in Brackets
          PROVE  /\ Given(s, d, bracket'[d], seller[s]) = Given(s, d, bracket[d], seller[s])
                 /\ Left(s, d, bracket'[d], seller[s], broker[d], broker[s]) = Left(s, d, bracket[d], seller[s], broker[d], broker[s])
      BY <2>1, <2>2, <1>3
    <3>2. ASSUME NEW d \in Brackets
          PROVE  Left(s, d, bracket'[d], seller[s], broker'[d], broker'[s]) = Left(s, d, bracket'[d], seller[s], broker[d], broker[s])
      <4>1. broker'[d].filled = broker[d].filled /\ broker'[s].status = broker[s].status
        BY <1>5, <2>3
      <4> QED BY <4>1 DEF Left
    <3> QED BY <3>1, <3>2
  <2> QED BY <2>3, <2>4, <1>5, SumsKept DEF Sound
<1> QED BY <1>5, <1>6, <1>7, <1>8 DEF Sound

\* A bracket that was waiting for a sale nobody asks for any more goes back to its guard.
LEMMA EasedSound ==
  ASSUME Types, NEW s, Sales = {s}, Sound(s), NEW b \in Brackets, EasedStep(b),
         UNCHANGED <<seller, selling, sold, crashes>>
  PROVE  Sound(s)'
<1> DEFINE old == bracket[b]
<1>1. PICK c : Stands(c, old.exit, old.role, old.quantity, old.at_qty, "guarding") /\ Becomes(b, c)
  BY DEF EasedStep
<1>2. c.exit = old.exit /\ c.quantity = old.quantity /\ c.at_qty = old.at_qty /\ c.phase = "guarding"
  BY <1>1 DEF Stands
<1>3. BracketOK(s, b, old, State(b), broker[b], State(s), seller[s]) /\ selling = DOMAIN seller[s].share
  BY DEF Sound, BracketsOK, SellerOK
<1>4. old.exit = NoOne /\ old.phase = "firing" /\ NoOne # s /\ b # NoOne
  BY <1>3, Known DEF EasedStep, BracketOK, HasExit
<1>5. BracketOK(s, b, c, State(b), broker[b], State(s), seller[s])
  BY <1>2, <1>3, <1>4 DEF BracketOK
<1>6. b \in DOMAIN seller[s].share => TakeOK(seller[s], b, c)
  BY <1>2, <1>4 DEF Sound, SellerOK, TakeOK, Clear
<1>7. Given(s, b, c, seller[s]) = Given(s, b, old, seller[s])
  BY <1>2 DEF Given
<1>8. Left(s, b, c, seller[s], broker[b], broker[s]) = Left(s, b, old, seller[s], broker[b], broker[s])
  BY <1>2, <1>7 DEF Left
<1> QED BY <1>1, <1>5, <1>6, <1>7, <1>8, OneBracket DEF EasedStep, SameOrders

\* What the sale has of a bracket is never less than nothing.
LEMMA GivenNat ==
  ASSUME Types, NEW s, Sales = {s}, BracketsOK(s), SellerOK(s), NEW b \in Brackets
  PROVE  Given(s, b, bracket[b], seller[s]) >= 0
<1>1. bracket[b].exit = s => bracket[b].at_qty >= 0
  <2>1. bracket[b].at_qty \in Int
    BY Known
  <2> QED BY <2>1 DEF BracketsOK, BracketOK
<1>2. b \in seller[s].todo => seller[s].share[b] >= 0
  <2>1. seller[s].todo \subseteq DOMAIN seller[s].share /\ (b \in DOMAIN seller[s].share => seller[s].share[b] \in Int)
    BY Known
  <2> QED BY <2>1 DEF SellerOK, TakeOK
<1> QED BY <1>1, <1>2 DEF Given

\* What a bracket sold of a sale that is over is all of its part, or nothing.
LEMMA PartIs ==
  ASSUME Types, NEW s, Sales = {s}, Sound(s), NEW b \in Brackets, bracket[b].exit = s, State(s) \in Ended
  PROVE  PartOf(s, b) = IF State(s) = "filled" THEN bracket[b].at_qty ELSE 0
<1> DEFINE holders == {c \in Brackets : bracket[c].exit = s}
           likes   == {c \in holders : bracket[c] = bracket[b]}
           me      == Min(likes)
           before  == {c \in holders : c < me}
           qty     == [c \in holders |-> bracket[c].at_qty]
           given   == [c \in Brackets |-> Given(s, c, bracket[c], seller[s])]
           taken   == SumOf(qty, before)
           filled  == order[s].fold.filled
           part    == bracket[b].at_qty
<1>1. PartOf(s, b) = AtMost(filled - AtMost(taken, filled), part)
  BY DEF PartOf
<1>2. IsFiniteSet(Brackets) /\ IsFiniteSet(holders) /\ holders \subseteq Brackets /\ b \in holders
  BY OrderSets, FS_Subset
<1>3. \A c \in holders : qty[c] \in Int /\ qty[c] >= 1 /\ given[c] = qty[c]
  <2>1. ASSUME NEW c \in holders PROVE bracket[c].at_qty \in Int /\ bracket[c].at_qty >= 1 /\ Given(s, c, bracket[c], seller[s]) = bracket[c].at_qty
    <3>1. bracket[c].exit = s /\ bracket[c].quantity \in Int /\ bracket[c].at_qty \in Int
      BY Known
    <3>2. bracket[c].at_qty \in 1 .. bracket[c].quantity
      BY <3>1 DEF Sound, BracketsOK, BracketOK
    <3> QED BY <3>1, <3>2 DEF Given
  <2> QED BY <2>1
<1>4. me \in likes /\ me <= b /\ me \in Nat /\ b \in Nat
  <2>1. b \in likes /\ likes \in SUBSET Nat
    BY Known
  <2>2. PICK n \in likes : \A m \in likes : n <= m
    <3> HIDE DEF likes
    <3> QED BY <2>1, Least
  <2>3. me \in likes /\ \A m \in likes : me <= m
    <3> HIDE DEF likes
    <3> QED BY <2>2 DEF Min
  <2> QED BY <2>1, <2>3
<1>5. before \subseteq holders \ {b}
  <2>1. \A c \in holders : c \in Nat
    BY Known
  <2>2. b \notin before
    BY <1>4
  <2> QED BY <2>2
<1>6. \A c \in Brackets : given[c] \in Int /\ given[c] >= 0
  BY Numbers, GivenNat DEF Sound
<1>7. SumOf(given, Brackets) = AllGiven(s)
  BY DEF AllGiven
<1>8. part = qty[b]
  BY <1>2
<1> HIDE DEF holders, me, before, qty, given
<1>9. taken \in Int /\ taken >= 0
  <2>1. before \subseteq holders /\ IsFiniteSet(before) /\ \A c \in before : qty[c] \in Int /\ qty[c] >= 0
    BY <1>2, <1>3, <1>5, FS_Subset
  <2> QED BY <2>1, SumPart, SumType
<1>10. SumOf(qty, holders) = part + SumOf(qty, holders \ {b})
  BY <1>2, <1>3, <1>8, SumWithout
<1>11. taken <= SumOf(qty, holders \ {b}) /\ SumOf(qty, holders \ {b}) \in Int
  <2>1. IsFiniteSet(holders \ {b}) /\ \A c \in holders \ {b} : qty[c] \in Int /\ qty[c] >= 0
    BY <1>2, <1>3, FS_Subset
  <2> QED BY <2>1, <1>5, SumPart, SumType
<1>12. SumOf(qty, holders) = SumOf(given, holders)
  <2>1. \A c \in holders : qty[c] \in Int /\ given[c] = qty[c]
    BY <1>3
  <2> QED BY <2>1, <1>2, SumSame
<1>13. SumOf(given, holders) <= SumOf(given, Brackets) /\ SumOf(given, holders) \in Int /\ SumOf(given, Brackets) \in Int
  <2>1. \A c \in holders : given[c] \in Int
    BY <1>2, <1>6
  <2> QED BY <2>1, <1>2, <1>6, SumPart, SumType
<1>14. part \in Int /\ part >= 1
  BY <1>2, <1>3, <1>8
<1> HIDE DEF taken, part
<1>15. taken + part <= AllGiven(s) /\ AllGiven(s) \in Int
  BY <1>7, <1>9, <1>10, <1>11, <1>12, <1>13, <1>14
<1>16. OrderOK(order[s], broker[s]) /\ broker[s].quantity \in Nat /\ State(s) = order[s].fold.state
  BY Known DEF Sound, OrdersOK
<1>17. CASE State(s) = "filled"
  <2>1. filled = broker[s].quantity /\ broker[s].status = "filled"
    BY <1>16, <1>17 DEF OrderOK
  <2>2. AllGiven(s) <= broker[s].quantity
    BY <2>1 DEF Sound, SumsOK
  <2> HIDE DEF filled
  <2> QED BY <1>1, <1>9, <1>14, <1>15, <1>16, <1>17, <2>1, <2>2 DEF AtMost, part
<1>18. CASE State(s) # "filled"
  <2>1. filled = 0
    BY <1>16, <1>18 DEF OrderOK
  <2>2. PartOf(s, b) = AtMost(0 - AtMost(taken, 0), part)
    <3> HIDE DEF filled
    <3> QED BY <1>1, <2>1
  <2>3. AtMost(taken, 0) = 0
    BY <1>9 DEF AtMost
  <2>4. 0 - AtMost(taken, 0) = 0
    BY <2>3
  <2>5. PartOf(s, b) = AtMost(0, part)
    BY <2>2, <2>4
  <2>6. AtMost(0, part) = 0
    BY <1>14 DEF AtMost
  <2> QED BY <1>18, <2>5, <2>6
<1> QED BY <1>17, <1>18

\* A bracket that lets go of its exit keeps the shares that exit did not sell.
LEMMA ClearedSound ==
  ASSUME Types, NEW s, Sales = {s}, Sound(s), NEW b \in Brackets, ClearedStep(b),
         UNCHANGED <<seller, selling, sold, crashes>>
  PROVE  Sound(s)'
<1> DEFINE old == bracket[b]
<1>1. PICK c : /\ Stands(c, NoOne, "none", old.quantity - Sold(b), 0, c.phase)
               /\ old.role = "sale" => c.phase = IF old.quantity - Sold(b) <= 0 THEN "ended"
                                                 ELSE IF old.phase = "selling" THEN "guarding" ELSE old.phase
               /\ old.role # "sale" => IF State(old.exit) = "filled" THEN c.phase = "ended"
                                                                   ELSE c.phase \in {old.phase, "guarding"}
               /\ Becomes(b, c)
  BY DEF ClearedStep
<1>2. c.exit = NoOne /\ c.quantity = old.quantity - Sold(b) /\ c.at_qty = 0
  BY <1>1 DEF Stands
<1>3. BracketOK(s, b, old, State(b), broker[b], State(s), seller[s]) /\ PlaceOK(seller[s], State(s))
      /\ (b \in DOMAIN seller[s].share => TakeOK(seller[s], b, old))
  BY DEF Sound, BracketsOK, SellerOK
<1>4. /\ old.exit \in {b, s} /\ b # s /\ b # NoOne /\ s # NoOne /\ old.quantity \in Int /\ old.at_qty \in Int
      /\ (old.role = "sale" <=> old.exit = s) /\ b \in Orders /\ s \in Orders /\ b \notin Sales
      /\ broker[b].quantity \in Nat
  BY Known DEF ClearedStep, HasExit
<1>5. State(old.exit) \in Ended /\ old.phase # "ended" /\ SameOrders
  BY DEF ClearedStep
<1>6. CASE old.exit = b
  <2>1. State(b) \in {"filled", "cancelled"} /\ broker[b].quantity = old.quantity /\ old.quantity > 0
    BY <1>3, <1>5, <1>6 DEF BracketOK, Ended
  <2>2. Sold(b) = order[b].fold.filled /\ OrderOK(order[b], broker[b])
    BY <1>4, <1>6 DEF Sold, Sound, OrdersOK
  <2>3. IF State(b) = "filled" THEN c.quantity = 0 /\ c.phase = "ended" /\ broker[b].filled = old.quantity
        ELSE c.quantity = old.quantity /\ c.phase \in {old.phase, "guarding"} /\ broker[b].filled = 0
    <3>1. CASE State(b) = "filled"
      BY <1>1, <1>2, <1>4, <1>6, <2>1, <2>2, <3>1 DEF OrderOK, State
    <3>2. CASE State(b) # "filled"
      BY <1>1, <1>2, <1>4, <1>6, <2>1, <2>2, <3>2 DEF OrderOK, State
    <3> QED BY <3>1, <3>2
  <2>4. BracketOK(s, b, c, State(b), broker[b], State(s), seller[s])
    BY <1>2, <1>3, <1>4, <1>5, <1>6, <2>1, <2>3 DEF BracketOK
  <2>5. b \in DOMAIN seller[s].share => TakeOK(seller[s], b, c)
    BY <1>3, <1>4, <1>5, <1>6, <2>3 DEF TakeOK, Clear
  <2>6. Given(s, b, c, seller[s]) = Given(s, b, old, seller[s])
    BY <1>2, <1>4, <1>6 DEF Given
  <2>7. Left(s, b, c, seller[s], broker[b], broker[s]) = Left(s, b, old, seller[s], broker[b], broker[s])
    <3>1. c.quantity - (IF c.exit = b THEN broker[b].filled ELSE 0) = old.quantity - (IF old.exit = b THEN broker[b].filled ELSE 0)
      BY <1>2, <1>4, <1>6, <2>3
    <3> HIDE DEF old
    <3> QED BY <2>6, <3>1 DEF Left
  <2> QED BY <1>1, <1>5, <2>4, <2>5, <2>6, <2>7, OneBracket DEF SameOrders
<1>7. CASE old.exit = s
  <2>1. Sold(b) = IF State(s) = "filled" THEN old.at_qty ELSE 0
    BY <1>4, <1>5, <1>7, PartIs DEF Sold
  <2>2. /\ old.at_qty >= 1 /\ old.at_qty <= old.quantity /\ seller[s].at \in {"telling", "idle"} /\ b \notin seller[s].todo
        /\ old.phase \in {"selling", "to-market"}
    BY <1>3, <1>4, <1>7 DEF BracketOK
  <2>3. c.quantity \in Int /\ c.quantity >= 0 /\ c.phase = IF c.quantity <= 0 THEN "ended"
                                              ELSE IF old.phase = "selling" THEN "guarding" ELSE old.phase
    BY <1>1, <1>2, <1>4, <1>7, <2>1, <2>2
  <2>4. BracketOK(s, b, c, State(b), broker[b], State(s), seller[s])
    <3>1. State(b) \in {"unwritten", "filled", "cancelled"}
      BY <1>3, <1>4, <1>7 DEF BracketOK
    <3> QED BY <1>2, <1>4, <2>2, <2>3, <3>1 DEF BracketOK
  <2>5. b \in DOMAIN seller[s].share => TakeOK(seller[s], b, c)
    BY <1>3, <2>2 DEF TakeOK, PlaceOK, Offering
  <2>6. Given(s, b, c, seller[s]) = 0 /\ Given(s, b, old, seller[s]) = old.at_qty
    BY <1>2, <1>4, <1>7, <2>2 DEF Given
  <2>7. broker[s].status = "filled" <=> State(s) = "filled"
    <3>1. OrderOK(order[s], broker[s]) /\ State(s) = order[s].fold.state
      BY <1>4 DEF Sound, OrdersOK, State
    <3> QED BY <3>1, <1>5, <1>7 DEF OrderOK, Ended
  <2>8. Left(s, b, c, seller[s], broker[b], broker[s]) = Left(s, b, old, seller[s], broker[b], broker[s])
    <3>1. c.exit # b /\ old.exit # b
      BY <1>2, <1>4, <1>7
    <3>2. Left(s, b, c, seller[s], broker[b], broker[s]) = c.quantity
      BY <2>3, <2>6, <3>1 DEF Left
    <3>3. Left(s, b, old, seller[s], broker[b], broker[s]) = old.quantity - 0 - (IF broker[s].status = "filled" THEN old.at_qty ELSE 0)
      BY <2>6, <3>1 DEF Left
    <3> QED BY <1>2, <1>4, <2>1, <2>7, <3>2, <3>3
  <2>9. bracket'[b] = c /\ \A d \in Brackets : d # b => bracket'[d] = bracket[d]
    BY <1>1 DEF Becomes, Types
  <2>10. UNCHANGED <<order, broker, seller, selling, sold>>
    BY <1>5 DEF SameOrders
  <2>11. OrdersOK'
    BY <2>10 DEF Sound, OrdersOK
  <2>12. BracketsOK(s)'
    BY <2>4, <2>9, <2>10 DEF Sound, BracketsOK, State
  <2>13. SellerOK(s)'
    <3>1. DOMAIN seller[s].share \subseteq Brackets
      BY Known
    <3> QED BY <2>5, <2>9, <2>10, <3>1 DEF Sound, SellerOK, State
  <2>14. SumsOK(s)'
    <3>1. AllTaken(s)' = AllTaken(s)
      BY <2>10 DEF AllTaken
    <3>2. AllLeft(s)' = AllLeft(s)
      <4>1. \A d \in Brackets : Left(s, d, bracket'[d], seller'[s], broker'[d], broker'[s])
                               = Left(s, d, bracket[d], seller[s], broker[d], broker[s])
        BY <2>8, <2>9, <2>10
      <4> QED BY <4>1 DEF AllLeft
    <3>3. AllGiven(s)' <= AllGiven(s) /\ AllGiven(s)' \in Int /\ AllGiven(s) \in Int
      <4> DEFINE f == [d \in Brackets |-> Given(s, d, bracket[d], seller[s])]
                 g == [d \in Brackets |-> Given(s, d, bracket'[d], seller'[s])]
      <4>1. \A d \in Brackets : f[d] \in Int /\ (d # b => g[d] = f[d])
        BY <2>9, <2>10, Numbers
      <4>2. f[b] = old.at_qty /\ g[b] = 0
        BY <2>6, <2>9, <2>10
      <4>3. AllGiven(s) = SumOf(f, Brackets) /\ AllGiven(s)' = SumOf(g, Brackets)
        BY DEF AllGiven
      <4> HIDE DEF f, g
      <4>4. SumOf(g, Brackets) = SumOf(f, Brackets) + (g[b] - f[b]) /\ SumOf(f, Brackets) \in Int
        BY <4>1, <4>2, OrderSets, SumChanged, SumType
      <4> QED BY <4>2, <4>3, <4>4, <2>2, <1>4
    <3>4. broker[s].status # "open"
      <4>1. OrderOK(order[s], broker[s]) /\ State(s) = order[s].fold.state
        BY <1>4 DEF Sound, OrdersOK, State
      <4> QED BY <4>1, <1>5, <1>7 DEF OrderOK, Ended
    <3>5. broker[s].quantity \in Nat
      BY Known
    <3> QED BY <2>10, <3>1, <3>2, <3>3, <3>4, <3>5 DEF Sound, SumsOK
  <2> QED BY <2>11, <2>12, <2>13, <2>14 DEF Sound
<1> QED BY <1>4, <1>6, <1>7

\* Any step of a check.
LEMMA CheckSound ==
  ASSUME Types, NEW s, Sales = {s}, Sound(s), NEW b \in Brackets, Checking(b)
  PROVE  Sound(s)'
<1>1. PICK shown : Step(b, shown)
  BY DEF Checking
<1>2. /\ UNCHANGED <<seller, selling, sold, crashes>>
      /\ Still(b) \/ PlacedStep(b) \/ CancelledStep(b) \/ ClearedStep(b) \/ EasedStep(b)
  BY <1>1, StepShape
<1>3. CASE Still(b)
  <2>1. UNCHANGED <<bracket, order, broker, seller, selling, sold>>
    BY <1>2, <1>3 DEF Still, SameOrders
  <2> QED BY <2>1 DEF Sound, OrdersOK, BracketsOK, SellerOK, SumsOK, AllTaken, AllGiven, AllLeft, State
<1> QED BY <1>2, <1>3, PlacedSound, CancelledSound, ClearedSound, EasedSound

------------------------------------------------------------------------------
(* The sale's thread. *)

\* The thread goes on to another part of the sale, or has done with a bracket.
LEMMA GoesOn ==
  ASSUME Types, NEW s, Sales = {s}
  PROVE  /\ \A step : To(s, step) =>
              /\ seller'[s].at = step /\ seller'[s].todo = DOMAIN seller[s].share /\ seller'[s].clear = TRUE
              /\ seller'[s].share = seller[s].share /\ seller'[s].quantity = seller[s].quantity
         /\ \A clear : seller' = [seller EXCEPT ![s].todo = @ \ {NextOf(s)}, ![s].clear = clear] =>
              /\ seller'[s].at = seller[s].at /\ seller'[s].todo = seller[s].todo \ {NextOf(s)} /\ seller'[s].clear = clear
              /\ seller'[s].share = seller[s].share /\ seller'[s].quantity = seller[s].quantity
         /\ Visited(s) =>
              /\ seller'[s].at = seller[s].at /\ seller'[s].todo = seller[s].todo \ {NextOf(s)}
              /\ seller'[s].clear = seller[s].clear
              /\ seller'[s].share = seller[s].share /\ seller'[s].quantity = seller[s].quantity
<1>1. seller \in [Sales -> Seller_] /\ s \in Sales /\ seller[s] \in Seller_
  BY DEF Types
<1>2. ASSUME NEW step, To(s, step)
      PROVE  /\ seller'[s].at = step /\ seller'[s].todo = DOMAIN seller[s].share /\ seller'[s].clear = TRUE
             /\ seller'[s].share = seller[s].share /\ seller'[s].quantity = seller[s].quantity
  <2> DEFINE v == [seller[s] EXCEPT !.at = step, !.todo = DOMAIN seller[s].share, !.clear = TRUE]
  <2>1. seller' = [seller EXCEPT ![s] = v]
    BY <1>1, <1>2 DEF To, Seller_
  <2>2. /\ v.at = step /\ v.todo = DOMAIN seller[s].share /\ v.clear = TRUE
        /\ v.share = seller[s].share /\ v.quantity = seller[s].quantity
    BY <1>1 DEF Seller_
  <2> HIDE DEF v
  <2> QED BY <1>1, <2>1, <2>2
<1>3. ASSUME NEW clear, seller' = [seller EXCEPT ![s].todo = @ \ {NextOf(s)}, ![s].clear = clear]
      PROVE  /\ seller'[s].at = seller[s].at /\ seller'[s].todo = seller[s].todo \ {NextOf(s)} /\ seller'[s].clear = clear
             /\ seller'[s].share = seller[s].share /\ seller'[s].quantity = seller[s].quantity
  <2> DEFINE v == [seller[s] EXCEPT !.todo = @ \ {NextOf(s)}, !.clear = clear]
  <2>1. seller' = [seller EXCEPT ![s] = v]
    BY <1>1, <1>3 DEF Seller_
  <2>2. /\ v.at = seller[s].at /\ v.todo = seller[s].todo \ {NextOf(s)} /\ v.clear = clear
        /\ v.share = seller[s].share /\ v.quantity = seller[s].quantity
    BY <1>1 DEF Seller_
  <2> HIDE DEF v
  <2> QED BY <1>1, <2>1, <2>2
<1>4. ASSUME Visited(s)
      PROVE  /\ seller'[s].at = seller[s].at /\ seller'[s].todo = seller[s].todo \ {NextOf(s)}
             /\ seller'[s].clear = seller[s].clear
             /\ seller'[s].share = seller[s].share /\ seller'[s].quantity = seller[s].quantity
  <2> DEFINE v == [seller[s] EXCEPT !.todo = @ \ {NextOf(s)}]
  <2>1. seller' = [seller EXCEPT ![s] = v]
    BY <1>1, <1>4 DEF Visited, Seller_
  <2>2. /\ v.at = seller[s].at /\ v.todo = seller[s].todo \ {NextOf(s)} /\ v.clear = seller[s].clear
        /\ v.share = seller[s].share /\ v.quantity = seller[s].quantity
    BY <1>1 DEF Seller_
  <2> HIDE DEF v
  <2> QED BY <1>1, <2>1, <2>2
<1> QED BY <1>2, <1>3, <1>4

\* The thread takes a step, and with it brackets may: no order does.
LEMMA ThreadStep ==
  ASSUME Types, NEW s, Sales = {s}, Sound(s), UNCHANGED <<order, broker, sold>>,
         PlaceOK(seller'[s], State(s)), selling' = DOMAIN seller'[s].share, DOMAIN seller'[s].share \subseteq Brackets,
         AllTaken(s)' = seller'[s].quantity,
         \A b \in Brackets :
           /\ BracketOK(s, b, bracket'[b], State(b), broker[b], State(s), seller'[s])
           /\ b \in DOMAIN seller'[s].share => TakeOK(seller'[s], b, bracket'[b])
           /\ Given(s, b, bracket'[b], seller'[s]) = Given(s, b, bracket[b], seller[s])
           /\ bracket'[b].quantity = bracket[b].quantity /\ (bracket'[b].exit = b <=> bracket[b].exit = b)
  PROVE  Sound(s)'
<1>1. OrdersOK'
  BY DEF Sound, OrdersOK
<1>2. BracketsOK(s)'
  BY DEF BracketsOK, State
<1>3. SellerOK(s)'
  BY DEF SellerOK, State
<1>4. SumsOK(s)'
  <2>1. AllGiven(s)' = AllGiven(s)
    BY DEF AllGiven
  <2>2. AllLeft(s)' = AllLeft(s)
    <3>1. \A b \in Brackets : Left(s, b, bracket'[b], seller'[s], broker'[b], broker'[s])
                              = Left(s, b, bracket[b], seller[s], broker[b], broker[s])
      BY DEF Left
    <3> QED BY <3>1 DEF AllLeft
  <2> QED BY <2>1, <2>2 DEF Sound, SumsOK
<1> QED BY <1>1, <1>2, <1>3, <1>4 DEF Sound

\* The same, where the thread keeps what it takes.
LEMMA ThreadGoesOn ==
  ASSUME Types, NEW s, Sales = {s}, Sound(s), UNCHANGED <<order, broker, selling, sold>>,
         PlaceOK(seller'[s], State(s)),
         seller'[s].share = seller[s].share, seller'[s].quantity = seller[s].quantity,
         \A b \in Brackets :
           /\ BracketOK(s, b, bracket'[b], State(b), broker[b], State(s), seller'[s])
           /\ b \in DOMAIN seller[s].share => TakeOK(seller'[s], b, bracket'[b])
           /\ Given(s, b, bracket'[b], seller'[s]) = Given(s, b, bracket[b], seller[s])
           /\ bracket'[b].quantity = bracket[b].quantity /\ (bracket'[b].exit = b <=> bracket[b].exit = b)
  PROVE  Sound(s)'
<1>1. DOMAIN seller[s].share \subseteq Brackets
  BY Known
<1>2. AllTaken(s)' = AllTaken(s)
  BY DEF AllTaken, Taken
<1>3. AllTaken(s)' = seller'[s].quantity /\ selling' = DOMAIN seller'[s].share
  BY <1>2 DEF Sound, SumsOK, SellerOK
<1> QED BY <1>1, <1>3, ThreadStep

\* The numbers a sale is asked of: what nobody has sold is the brackets', and no more.
LEMMA LeftToGuard ==
  ASSUME Types, NEW s, Sales = {s}, Sound(s), broker[s].status # "filled"
  PROVE  LET q == [b \in Brackets |-> bracket[b].quantity] IN
         /\ \A b \in Brackets : q[b] \in Int /\ q[b] >= 0
         /\ AllLeft(s) <= SumOf(q, Brackets)
<1> DEFINE q == [b \in Brackets |-> bracket[b].quantity]
           f == [b \in Brackets |-> Left(s, b, bracket[b], seller[s], broker[b], broker[s])]
<1>1. \A b \in Brackets : q[b] \in Int /\ q[b] >= 0
  <2>1. ASSUME NEW b \in Brackets PROVE bracket[b].quantity \in Int /\ bracket[b].quantity >= 0
    <3>1. bracket[b].quantity \in Int
      BY Known
    <3> QED BY <3>1 DEF Sound, BracketsOK, BracketOK
  <2> QED BY <2>1
<1>2. \A b \in Brackets : f[b] \in Int /\ f[b] <= q[b]
  <2>1. ASSUME NEW b \in Brackets
        PROVE  LET left == Left(s, b, bracket[b], seller[s], broker[b], broker[s]) IN left \in Int /\ left <= bracket[b].quantity
    <3>1. bracket[b].quantity \in Int /\ broker[b].filled \in Nat
      BY Known
    <3> QED BY <3>1 DEF Left
  <2> QED BY <2>1
<1>3. AllLeft(s) = SumOf(f, Brackets)
  BY DEF AllLeft
<1> HIDE DEF f, q
<1>4. SumOf(f, Brackets) <= SumOf(q, Brackets)
  BY <1>1, <1>2, OrderSets, SumLeq
<1>5. AllLeft(s) <= SumOf(q, Brackets)
  BY <1>3, <1>4
<1> QED BY <1>1, <1>5 DEF q

\* A sale is asked: the brackets not ended give it what they can, and that is all of it.
LEMMA AskSound ==
  ASSUME Types, NEW s, Sales = {s}, Sound(s), Ask(s)
  PROVE  Sound(s)'
<1>1. PICK n \in 1 .. Held - sold :
        LET share == Shares(n) IN
        /\ seller' = [seller EXCEPT ![s] = [Idle EXCEPT !.at = "marking", !.quantity = n,
                                                        !.share = share, !.todo = DOMAIN share]]
        /\ selling' = selling \cup DOMAIN share
  BY DEF Ask
<1> DEFINE share == Shares(n)
           q     == [b \in Brackets |-> bracket[b].quantity]
           given == [b \in Brackets |-> IF b \in DOMAIN share THEN share[b] ELSE 0]
           v     == [Idle EXCEPT !.at = "marking", !.quantity = n, !.share = share, !.todo = DOMAIN share]
           qty   == [c \in Guarding |-> bracket[c].quantity]
           left(b) == n - SumOf(qty, {c \in Guarding : c < b})
<1>2. /\ s \in Sales /\ NoOne # s /\ seller[s].todo = {} /\ DOMAIN seller[s].share = {} /\ seller[s].at = "idle"
      /\ selling = {} /\ order[s] = Unwritten /\ State(s) = "unwritten" /\ broker[s].status = "not-found" /\ n \in Nat
  <2>1. s \in Orders /\ s \in Sales /\ NoOne # s
    BY Known
  <2>2. At(s, "idle") /\ order[s] = Unwritten /\ State(s) = "unwritten"
    BY Starts DEF Ask, State
  <2>3. PlaceOK(seller[s], State(s)) /\ selling = DOMAIN seller[s].share /\ OrderOK(order[s], broker[s])
    BY <2>1 DEF Sound, SellerOK, OrdersOK
  <2>4. DOMAIN seller[s].share = {} /\ broker[s].status = "not-found" /\ seller[s].at = "idle"
    BY <2>2, <2>3 DEF PlaceOK, At, OrderOK, State
  <2>5. seller[s].todo = {}
    BY <2>4, Known
  <2> QED BY <2>1, <2>2, <2>3, <2>4, <2>5
<1>3. ASSUME NEW b \in Brackets
      PROVE  /\ bracket[b].exit # s /\ bracket[b].phase # "closing-for-sale" /\ bracket[b].quantity \in Int
             /\ bracket[b].quantity >= 0
             /\ b \in Guarding <=> bracket[b].phase # "ended"
             /\ IF bracket[b].phase = "ended" THEN bracket[b].quantity = 0 ELSE bracket[b].quantity > 0
  <2>1. BracketOK(s, b, bracket[b], State(b), broker[b], State(s), seller[s])
    BY DEF Sound, BracketsOK
  <2>2. bracket[b].quantity \in Int /\ bracket[b].phase \in Phase_
    BY Known
  <2> QED BY <1>2, <2>1, <2>2 DEF BracketOK, Guarding, Phase_
<1>4. /\ Guarding \in SUBSET Nat /\ Guarding \subseteq Brackets /\ IsFiniteSet(Guarding) /\ IsFiniteSet(Brackets)
      /\ DOMAIN share \subseteq Guarding
  <2>1. Guarding \subseteq Brackets /\ DOMAIN share \subseteq Guarding
    BY <1>2, ShareType
  <2> QED BY <2>1, OrderSets, FS_Subset
<1>5. ASSUME NEW b \in Guarding PROVE left(b) \in Int
  <2>1. IsFiniteSet({c \in Guarding : c < b}) /\ \A c \in {c \in Guarding : c < b} : qty[c] \in Int
    BY <1>3, <1>4, FS_Subset
  <2>2. SumOf(qty, {c \in Guarding : c < b}) \in Int
    <3> HIDE DEF qty
    <3> QED BY <2>1, SumType
  <2> HIDE DEF qty
  <2> QED BY <1>2, <2>2
<1>6. share = [b \in {c \in Guarding : left(c) > 0} |-> AtMost(bracket[b].quantity, left(b))]
  BY DEF Shares
<1>7. \A b \in Guarding : given[b] = IF left(b) > 0 THEN AtMost(qty[b], left(b)) ELSE 0
  <2>1. ASSUME NEW b \in Guarding
        PROVE  (IF b \in DOMAIN share THEN share[b] ELSE 0) = IF left(b) > 0 THEN AtMost(bracket[b].quantity, left(b)) ELSE 0
    <3> HIDE DEF left, share
    <3> QED BY <1>6
  <2> HIDE DEF left, share
  <2> QED BY <2>1, <1>4
<1>8. \A b \in DOMAIN share : b \in Brackets /\ bracket[b].phase # "ended" /\ share[b] > 0 /\ share[b] <= bracket[b].quantity
  <2>1. ASSUME NEW b \in DOMAIN share
        PROVE  b \in Brackets /\ bracket[b].phase # "ended" /\ share[b] > 0 /\ share[b] <= bracket[b].quantity
    <3>1. b \in Guarding /\ b \in Brackets
      BY <1>4
    <3>2. left(b) \in Int /\ left(b) > 0 /\ share[b] = AtMost(bracket[b].quantity, left(b))
      <4>1. left(b) \in Int
        BY <3>1, <1>5
      <4> HIDE DEF left, share
      <4> QED BY <1>6, <4>1
    <3> HIDE DEF left, share
    <3> QED BY <1>3, <3>1, <3>2 DEF AtMost
  <2> QED BY <2>1
<1>9. SumOf(given, Brackets) = n
  <2>1. SumOf(given, Brackets) = SumOf(given, Guarding)
    <3>1. \A b \in Brackets : given[b] \in Int
      <4>1. \A b \in DOMAIN share : share[b] \in Int
        BY <1>2, ShareType, ShareIs
      <4> HIDE DEF share
      <4> QED BY <4>1
    <3>2. \A b \in Brackets \ Guarding : given[b] = 0
      <4> HIDE DEF share
      <4> QED BY <1>4
    <3> HIDE DEF given
    <3> QED BY <3>1, <3>2, <1>4, SumOfPart
  <2>2. SumOf(given, Guarding) = AtMost(n, SumOf(qty, Guarding))
    <3>1. \A b \in Guarding : qty[b] \in Int /\ qty[b] >= 0
      BY <1>3, <1>4
    <3> HIDE DEF given, qty
    <3> QED BY <1>2, <1>4, <1>7, <3>1, Greedy
  <2>3. SumOf(qty, Guarding) = SumOf(q, Brackets)
    <3>1. \A b \in Guarding : q[b] \in Int /\ qty[b] = q[b]
      BY <1>3, <1>4
    <3>2. \A b \in Brackets : q[b] \in Int /\ (b \notin Guarding => q[b] = 0)
      BY <1>3
    <3> HIDE DEF q, qty
    <3>3. SumOf(qty, Guarding) = SumOf(q, Guarding)
      BY <1>4, <3>1, SumSame
    <3>4. SumOf(q, Brackets) = SumOf(q, Guarding)
      BY <1>4, <3>2, SumOfPart
    <3> QED BY <3>3, <3>4
  <2>4. AllLeft(s) <= SumOf(q, Brackets) /\ SumOf(q, Brackets) \in Int
    <3>1. \A b \in Brackets : q[b] \in Int
      BY <1>3
    <3>2. AllLeft(s) <= SumOf(q, Brackets)
      BY <1>2, LeftToGuard
    <3> HIDE DEF q
    <3> QED BY <1>4, <3>1, <3>2, SumType
  <2>5. AllLeft(s) = Held - sold /\ Held - sold \in Int
    <3>1. Cardinality(Brackets) \in Nat /\ Part \in Nat /\ sold \in Nat
      BY <1>4, FS_CardinalityType DEF SaleAssumption, Types
    <3> QED BY <3>1 DEF Sound, SumsOK, Held
  <2> HIDE DEF given, qty, q
  <2>6. n <= SumOf(q, Brackets)
    BY <1>2, <2>4, <2>5
  <2> QED BY <1>2, <2>1, <2>2, <2>3, <2>4, <2>6 DEF AtMost
<1>10. seller'[s] = v /\ selling' = DOMAIN share
  BY <1>1, <1>2 DEF Types
<1>11. v.at = "marking" /\ v.todo = DOMAIN share /\ v.share = share /\ v.quantity = n
  BY <1>2 DEF Idle
<1> HIDE DEF v, share
<1>12. AllTaken(s)' = seller'[s].quantity
  <2>1. AllTaken(s)' = SumOf(given, Brackets)
    BY <1>10, <1>11 DEF AllTaken, Taken
  <2> QED BY <2>1, <1>9, <1>10, <1>11
<1>13. PlaceOK(v, State(s))
  BY <1>2, <1>11 DEF PlaceOK
<1>14. ASSUME NEW b \in Brackets
       PROVE  /\ BracketOK(s, b, bracket'[b], State(b), broker[b], State(s), v)
              /\ b \in DOMAIN share => TakeOK(v, b, bracket'[b])
              /\ Given(s, b, bracket'[b], v) = Given(s, b, bracket[b], seller[s])
  <2>1. bracket' = bracket
    BY DEF Ask
  <2>2. BracketOK(s, b, bracket[b], State(b), broker[b], State(s), seller[s])
    BY DEF Sound, BracketsOK
  <2>3. BracketOK(s, b, bracket'[b], State(b), broker[b], State(s), v)
    BY <1>2, <1>3, <1>11, <2>1, <2>2 DEF BracketOK
  <2>4. b \in DOMAIN share => TakeOK(v, b, bracket'[b])
    BY <1>8, <1>11, <2>1 DEF TakeOK, Offering
  <2>5. Given(s, b, bracket'[b], v) = Given(s, b, bracket[b], seller[s])
    BY <1>2, <1>3, <1>11, <2>1 DEF Given, Offering
  <2> QED BY <2>3, <2>4, <2>5
<1>15. UNCHANGED <<bracket, order, broker, sold>>
  BY DEF Ask
<1> QED BY <1>4, <1>10, <1>11, <1>12, <1>13, <1>14, <1>15, ThreadStep

\* The brackets are told a sale was asked, one by one.
LEMMA MarkSound ==
  ASSUME Types, NEW s, Sales = {s}, Sound(s), Mark(s)
  PROVE  Sound(s)'
<1> DEFINE n == NextOf(s)  v == seller'[s]
<1>1. /\ seller[s].at = "marking" /\ State(s) = "unwritten" /\ UNCHANGED <<order, broker, selling, sold>> /\ s \in Sales
      /\ DOMAIN seller[s].share \subseteq Brackets
  <2>1. seller[s].at = "marking" /\ UNCHANGED <<order, broker, selling, sold>>
    BY DEF Mark, Visiting, AllVisited, At
  <2> QED BY <2>1, Known DEF Sound, SellerOK, PlaceOK
<1>2. ASSUME NEW b \in Brackets
      PROVE  /\ BracketOK(s, b, bracket[b], State(b), broker[b], State(s), seller[s]) /\ bracket[b].exit # s
             /\ b \in DOMAIN seller[s].share => TakeOK(seller[s], b, bracket[b])
  BY <1>1 DEF Sound, BracketsOK, SellerOK, BracketOK
<1>3. CASE Visiting(s, "marking") /\ Visited(s)
           /\ bracket' = [bracket EXCEPT ![n] = After(@, SaleAsked(seller[s].share[n]))]
  <2>1. n \in seller[s].todo /\ n \in DOMAIN seller[s].share /\ n \in Brackets /\ seller[s].share[n] \in Int
    BY <1>1, <1>3, NextIs DEF Visiting
  <2>2. /\ v.at = seller[s].at /\ v.todo = seller[s].todo \ {n} /\ v.clear = seller[s].clear
        /\ v.share = seller[s].share /\ v.quantity = seller[s].quantity
    BY <1>3, GoesOn
  <2>3. bracket[n] \in Bracket_ /\ bracket[n].phase # "selling"
    <3>1. bracket[n] \in Bracket_
      BY <2>1, Known
    <3> QED BY <1>2, <2>1, <3>1 DEF BracketOK
  <2>4. Stands(bracket'[n], bracket[n].exit, bracket[n].role, bracket[n].quantity, bracket[n].at_qty,
               IF bracket[n].phase = "ended" THEN "ended" ELSE "closing-for-sale")
    <3>1. bracket'[n] = After(bracket[n], SaleAsked(seller[s].share[n]))
      BY <1>3, <2>1 DEF Types
    <3> QED BY <2>1, <2>3, <3>1, AfterSaleAsked
  <2>5. \A b \in Brackets : b # n => bracket'[b] = bracket[b]
    BY <1>3 DEF Types
  <2> HIDE DEF n, v
  <2>6. ASSUME NEW b \in Brackets
        PROVE  /\ BracketOK(s, b, bracket'[b], State(b), broker[b], State(s), v)
               /\ b \in DOMAIN seller[s].share => TakeOK(v, b, bracket'[b])
               /\ Given(s, b, bracket'[b], v) = Given(s, b, bracket[b], seller[s])
               /\ bracket'[b].quantity = bracket[b].quantity /\ (bracket'[b].exit = b <=> bracket[b].exit = b)
    <3>1. CASE b = n
      <4> DEFINE c == bracket'[n]
      <4>1. /\ c.exit = bracket[n].exit /\ c.quantity = bracket[n].quantity /\ c.at_qty = bracket[n].at_qty
            /\ c.phase = IF bracket[n].phase = "ended" THEN "ended" ELSE "closing-for-sale"
        BY <2>4 DEF Stands
      <4> HIDE DEF c
      <4>2. BracketOK(s, n, c, State(n), broker[n], State(s), v)
        BY <1>1, <1>2, <2>1, <2>2, <4>1 DEF BracketOK
      <4>3. TakeOK(v, n, c)
        BY <1>1, <1>2, <2>1, <2>2, <4>1 DEF TakeOK, Offering
      <4>4. Given(s, n, c, v) = Given(s, n, bracket[n], seller[s])
        BY <1>1, <1>2, <2>1, <2>2, <4>1 DEF Given, Offering
      <4> QED BY <3>1, <4>1, <4>2, <4>3, <4>4 DEF c
    <3>2. CASE b # n
      <4>1. BracketOK(s, b, bracket[b], State(b), broker[b], State(s), v)
        BY <1>1, <1>2, <2>2 DEF BracketOK
      <4>2. b \in DOMAIN seller[s].share => TakeOK(v, b, bracket[b])
        BY <1>1, <1>2, <2>2 DEF TakeOK, Offering
      <4>3. Given(s, b, bracket[b], v) = Given(s, b, bracket[b], seller[s])
        BY <1>1, <2>2 DEF Given, Offering
      <4> QED BY <2>5, <3>2, <4>1, <4>2, <4>3
    <3> QED BY <3>1, <3>2
  <2>7. PlaceOK(v, State(s))
    BY <1>1, <2>2 DEF PlaceOK
  <2> QED BY <1>1, <2>2, <2>6, <2>7, ThreadGoesOn DEF v
<1>4. CASE AllVisited(s, "marking") /\ To(s, "watching") /\ UNCHANGED bracket
  <2>1. /\ v.at = "watching" /\ v.todo = DOMAIN seller[s].share /\ v.share = seller[s].share /\ v.quantity = seller[s].quantity
    BY <1>4, GoesOn
  <2> HIDE DEF v
  <2>2. PlaceOK(v, State(s))
    BY <1>1, <2>1 DEF PlaceOK
  <2>3. ASSUME NEW b \in Brackets
        PROVE  /\ BracketOK(s, b, bracket[b], State(b), broker[b], State(s), v)
               /\ b \in DOMAIN seller[s].share => TakeOK(v, b, bracket[b])
               /\ Given(s, b, bracket[b], v) = Given(s, b, bracket[b], seller[s])
    <3>1. BracketOK(s, b, bracket[b], State(b), broker[b], State(s), v)
      BY <1>1, <1>2, <2>1 DEF BracketOK
    <3>2. b \in DOMAIN seller[s].share => TakeOK(v, b, bracket[b])
      BY <1>1, <1>2, <2>1 DEF TakeOK, Offering
    <3>3. Given(s, b, bracket[b], v) = Given(s, b, bracket[b], seller[s])
      BY <1>1, <1>2, <2>1 DEF Given, Offering
    <3> QED BY <3>1, <3>2, <3>3
  <2> QED BY <1>1, <1>4, <2>1, <2>2, <2>3, ThreadGoesOn DEF v
<1> QED BY <1>3, <1>4 DEF Mark

\* The brackets are looked at: the sale goes out with each of them seen clear, and with none
\* of them moved since.
LEMMA WatchSound ==
  ASSUME Types, NEW s, Sales = {s}, Sound(s), Watch(s) \/ GiveUp(s)
  PROVE  Sound(s)'
<1> DEFINE n == NextOf(s)  v == seller'[s]
<1>1. /\ seller[s].at = "watching" /\ State(s) = "unwritten" /\ UNCHANGED <<bracket, order, broker, selling, sold>> /\ s \in Sales
      /\ DOMAIN seller[s].share \subseteq Brackets
  <2>1. seller[s].at = "watching" /\ UNCHANGED <<bracket, order, broker, selling, sold>>
    BY DEF Watch, GiveUp, Visiting, AllVisited, At
  <2> QED BY <2>1, Known DEF Sound, SellerOK, PlaceOK
<1>2. ASSUME NEW b \in Brackets
      PROVE  /\ BracketOK(s, b, bracket[b], State(b), broker[b], State(s), seller[s]) /\ bracket[b].exit # s
             /\ b \in DOMAIN seller[s].share => TakeOK(seller[s], b, bracket[b])
  BY <1>1 DEF Sound, BracketsOK, SellerOK, BracketOK
<1>3. /\ v.share = seller[s].share /\ v.quantity = seller[s].quantity
      /\ \/ /\ v.at = "watching" /\ seller[s].todo # {} /\ v.todo = seller[s].todo \ {n}
            /\ v.clear = (seller[s].clear /\ ClearForSale(bracket[n]))
         \/ v.at \in {"watching", "dropping"} /\ v.todo = DOMAIN seller[s].share
         \/ v.at = "sending" /\ v.todo = DOMAIN seller[s].share /\ seller[s].todo = {} /\ seller[s].clear
  <2>1. CASE Visiting(s, "watching") /\ bracket[n].phase = "closing-for-sale"
    <3>1. seller' = [seller EXCEPT ![s].todo = @ \ {n}, ![s].clear = @ /\ ClearForSale(bracket[n])]
      BY <2>1 DEF Watch, GiveUp, AllVisited, Visiting
    <3>2. seller' = [seller EXCEPT ![s].todo = @ \ {n}, ![s].clear = seller[s].clear /\ ClearForSale(bracket[n])]
      BY <1>1, <3>1 DEF Types, Seller_
    <3>3. /\ v.at = seller[s].at /\ v.todo = seller[s].todo \ {n} /\ v.clear = (seller[s].clear /\ ClearForSale(bracket[n]))
          /\ v.share = seller[s].share /\ v.quantity = seller[s].quantity
      BY <3>2, GoesOn
    <3> HIDE DEF v, n
    <3> QED BY <1>1, <2>1, <3>3 DEF Visiting
  <2>2. CASE Visiting(s, "watching") /\ bracket[n].phase # "closing-for-sale"
    <3>1. To(s, "dropping")
      BY <2>2 DEF Watch, GiveUp, AllVisited, Visiting
    <3>2. v.at = "dropping" /\ v.todo = DOMAIN seller[s].share /\ v.share = seller[s].share /\ v.quantity = seller[s].quantity
      BY <3>1, GoesOn
    <3> HIDE DEF v, n
    <3> QED BY <3>2
  <2>3. CASE AllVisited(s, "watching")
    <3>1. (seller[s].clear /\ To(s, "sending")) \/ To(s, "watching") \/ To(s, "dropping")
      BY <2>3 DEF Watch, GiveUp, AllVisited, Visiting
    <3>2. seller[s].todo = {}
      BY <2>3 DEF AllVisited
    <3>3. CASE seller[s].clear /\ To(s, "sending")
      <4>1. v.at = "sending" /\ v.todo = DOMAIN seller[s].share /\ v.share = seller[s].share /\ v.quantity = seller[s].quantity
        BY <3>3, GoesOn
      <4> HIDE DEF v, n
      <4> QED BY <3>2, <3>3, <4>1
    <3>4. CASE To(s, "watching") \/ To(s, "dropping")
      <4>1. /\ v.at \in {"watching", "dropping"} /\ v.todo = DOMAIN seller[s].share
            /\ v.share = seller[s].share /\ v.quantity = seller[s].quantity
        BY <3>4, GoesOn
      <4> HIDE DEF v, n
      <4> QED BY <4>1
    <3> QED BY <3>1, <3>3, <3>4
  <2> QED BY <2>1, <2>2, <2>3 DEF Watch, GiveUp
<1>4. PlaceOK(v, State(s))
  BY <1>1, <1>3 DEF PlaceOK
<1> HIDE DEF n, v
<1>5. ASSUME NEW b \in Brackets
      PROVE  /\ BracketOK(s, b, bracket[b], State(b), broker[b], State(s), v)
             /\ b \in DOMAIN seller[s].share => TakeOK(v, b, bracket[b])
             /\ Given(s, b, bracket[b], v) = Given(s, b, bracket[b], seller[s])
  <2>1. BracketOK(s, b, bracket[b], State(b), broker[b], State(s), v)
    BY <1>1, <1>2, <1>3 DEF BracketOK
  <2>2. ASSUME b \in DOMAIN seller[s].share PROVE TakeOK(v, b, bracket[b])
    <3>1. TakeOK(seller[s], b, bracket[b])
      BY <1>2, <2>2
    <3>2. v.share[b] > 0 /\ (bracket[b].phase # "ended" => v.share[b] <= bracket[b].quantity)
      BY <1>1, <1>3, <3>1 DEF TakeOK
    <3>3. v.at = "watching" /\ v.clear /\ b \notin v.todo => Clear(bracket[b])
      <4>1. CASE b = n /\ v.todo = seller[s].todo \ {n} /\ v.clear = (seller[s].clear /\ ClearForSale(bracket[n]))
        BY <4>1 DEF ClearForSale, Clear, HasExit
      <4>2. CASE b # n /\ v.todo = seller[s].todo \ {n} /\ v.clear = (seller[s].clear /\ ClearForSale(bracket[n]))
        BY <1>1, <3>1, <4>2 DEF TakeOK
      <4> QED BY <1>3, <2>2, <4>1, <4>2
    <3>4. v.at \in {"sending"} \cup Offering => Clear(bracket[b])
      <4>1. v.at \in {"sending"} \cup Offering => seller[s].todo = {} /\ seller[s].clear
        BY <1>3 DEF Offering
      <4> QED BY <1>1, <3>1, <4>1 DEF TakeOK
    <3> QED BY <3>2, <3>3, <3>4 DEF TakeOK
  <2>3. Given(s, b, bracket[b], v) = Given(s, b, bracket[b], seller[s])
    BY <1>1, <1>2, <1>3 DEF Given, Offering
  <2> QED BY <2>1, <2>2, <2>3
<1> QED BY <1>1, <1>3, <1>4, <1>5, ThreadGoesOn DEF v

\* Each bracket is told of the sale that is its exit now, and holds what the sale was to have of it.
LEMMA TellSound ==
  ASSUME Types, NEW s, Sales = {s}, Sound(s), Tell(s)
  PROVE  Sound(s)'
<1> DEFINE n == NextOf(s)  v == seller'[s]  c == bracket'[n]  share == seller[s].share[n]
<1>1. /\ seller[s].at = "telling" /\ PlaceOK(seller[s], State(s)) /\ UNCHANGED <<order, broker, selling, sold>> /\ s \in Sales
      /\ DOMAIN seller[s].share \subseteq Brackets /\ s # NoOne /\ s \notin Brackets /\ NoOne \notin Brackets
  <2>1. seller[s].at = "telling" /\ UNCHANGED <<order, broker, selling, sold>>
    BY DEF Tell, Visiting, At
  <2> QED BY <2>1, Known DEF Sound, SellerOK
<1>2. ASSUME NEW b \in Brackets
      PROVE  /\ BracketOK(s, b, bracket[b], State(b), broker[b], State(s), seller[s])
             /\ b \in DOMAIN seller[s].share => TakeOK(seller[s], b, bracket[b])
             /\ bracket[b] \in Bracket_ /\ bracket[b].quantity \in Int
  BY Known DEF Sound, BracketsOK, SellerOK
<1>3. n \in seller[s].todo /\ n \in DOMAIN seller[s].share /\ n \in Brackets /\ share \in Int
  BY <1>1, NextIs DEF Tell, Visiting
<1>4. /\ v.at = seller[s].at /\ v.todo = seller[s].todo \ {n} /\ v.clear = seller[s].clear
      /\ v.share = seller[s].share /\ v.quantity = seller[s].quantity
  BY GoesOn DEF Tell
<1>5. Clear(bracket[n]) /\ share >= 1 /\ share <= bracket[n].quantity
  BY <1>1, <1>2, <1>3 DEF TakeOK, Offering, Clear
<1>6. c = After(bracket[n], SaleSent(s, share)) /\ \A b \in Brackets : b # n => bracket'[b] = bracket[b]
  BY <1>3 DEF Tell, Types
<1>7. c.exit = s /\ c.quantity = bracket[n].quantity /\ c.at_qty = share /\ c.phase = "selling"
  <2>1. Stands(After(bracket[n], SaleSent(s, share)), s, "sale", bracket[n].quantity, share, "selling")
    BY <1>1, <1>2, <1>3, <1>5, AfterSaleSent DEF Clear, HasExit
  <2> QED BY <1>6, <2>1 DEF Stands
<1>8. PlaceOK(v, State(s))
  BY <1>1, <1>4 DEF PlaceOK
<1> HIDE DEF n, v, c
<1>9. ASSUME NEW b \in Brackets
      PROVE  /\ BracketOK(s, b, bracket'[b], State(b), broker[b], State(s), v)
             /\ b \in DOMAIN seller[s].share => TakeOK(v, b, bracket'[b])
             /\ Given(s, b, bracket'[b], v) = Given(s, b, bracket[b], seller[s])
             /\ bracket'[b].quantity = bracket[b].quantity /\ (bracket'[b].exit = b <=> bracket[b].exit = b)
  <2>1. CASE b = n
    <3>1. BracketOK(s, n, c, State(n), broker[n], State(s), v)
      BY <1>1, <1>2, <1>3, <1>4, <1>5, <1>7 DEF BracketOK, Clear, PlaceOK
    <3>2. TakeOK(v, n, c)
      BY <1>1, <1>3, <1>4, <1>5, <1>7 DEF TakeOK, Offering
    <3>3. Given(s, n, c, v) = Given(s, n, bracket[n], seller[s])
      BY <1>1, <1>3, <1>4, <1>5, <1>7 DEF Given, Clear, Offering
    <3>4. c.exit # n /\ bracket[n].exit # n
      BY <1>1, <1>3, <1>5, <1>7 DEF Clear
    <3> QED BY <2>1, <1>7, <3>1, <3>2, <3>3, <3>4 DEF c
  <2>2. CASE b # n
    <3>1. BracketOK(s, b, bracket[b], State(b), broker[b], State(s), v)
      BY <1>1, <1>2, <1>4, <2>2 DEF BracketOK
    <3>2. b \in DOMAIN seller[s].share => TakeOK(v, b, bracket[b])
      BY <1>1, <1>2, <1>4, <2>2 DEF TakeOK, Offering
    <3>3. Given(s, b, bracket[b], v) = Given(s, b, bracket[b], seller[s])
      BY <1>1, <1>4, <2>2 DEF Given, Offering
    <3> QED BY <1>6, <2>2, <3>1, <3>2, <3>3
  <2> QED BY <2>1, <2>2
<1> QED BY <1>1, <1>4, <1>8, <1>9, ThreadGoesOn DEF v

\* A sale that came to nothing is dropped, bracket by bracket.
LEMMA DropSound ==
  ASSUME Types, NEW s, Sales = {s}, Sound(s), Drop(s)
  PROVE  Sound(s)'
<1> DEFINE n == NextOf(s)  v == seller'[s]  c == bracket'[n]
<1>1. /\ seller[s].at = "dropping" /\ PlaceOK(seller[s], State(s)) /\ UNCHANGED <<order, broker, selling, sold>> /\ s \in Sales
      /\ DOMAIN seller[s].share \subseteq Brackets
  <2>1. seller[s].at = "dropping" /\ UNCHANGED <<order, broker, selling, sold>>
    BY DEF Drop, Visiting, At
  <2> QED BY <2>1, Known DEF Sound, SellerOK
<1>2. ASSUME NEW b \in Brackets
      PROVE  /\ BracketOK(s, b, bracket[b], State(b), broker[b], State(s), seller[s]) /\ bracket[b].exit # s
             /\ b \in DOMAIN seller[s].share => TakeOK(seller[s], b, bracket[b])
             /\ bracket[b] \in Bracket_ /\ bracket[b].quantity \in Int
  BY <1>1, Known DEF Sound, BracketsOK, SellerOK, BracketOK
<1>3. n \in seller[s].todo /\ n \in DOMAIN seller[s].share /\ n \in Brackets
  BY <1>1, NextIs DEF Drop, Visiting
<1>4. /\ v.at = seller[s].at /\ v.todo = seller[s].todo \ {n} /\ v.clear = seller[s].clear
      /\ v.share = seller[s].share /\ v.quantity = seller[s].quantity
  BY GoesOn DEF Drop
<1>5. c = After(bracket[n], Ev("sale-dropped")) /\ \A b \in Brackets : b # n => bracket'[b] = bracket[b]
  BY <1>3 DEF Drop, Types
<1>6. /\ c.exit = bracket[n].exit /\ c.quantity = bracket[n].quantity /\ c.at_qty = bracket[n].at_qty
      /\ c.phase = IF bracket[n].phase = "closing-for-sale" THEN "guarding" ELSE bracket[n].phase
  <2>1. Stands(After(bracket[n], Ev("sale-dropped")), bracket[n].exit, bracket[n].role, bracket[n].quantity, bracket[n].at_qty,
               IF bracket[n].phase = "closing-for-sale" THEN "guarding" ELSE bracket[n].phase)
    BY <1>2, <1>3, AfterDropped
  <2> QED BY <1>5, <2>1 DEF Stands
<1>7. PlaceOK(v, State(s))
  BY <1>1, <1>4 DEF PlaceOK
<1> HIDE DEF n, v, c
<1>8. ASSUME NEW b \in Brackets
      PROVE  /\ BracketOK(s, b, bracket'[b], State(b), broker[b], State(s), v)
             /\ b \in DOMAIN seller[s].share => TakeOK(v, b, bracket'[b])
             /\ Given(s, b, bracket'[b], v) = Given(s, b, bracket[b], seller[s])
             /\ bracket'[b].quantity = bracket[b].quantity /\ (bracket'[b].exit = b <=> bracket[b].exit = b)
  <2>1. CASE b = n
    <3>1. BracketOK(s, n, c, State(n), broker[n], State(s), v)
      BY <1>1, <1>2, <1>3, <1>4, <1>6 DEF BracketOK
    <3>2. TakeOK(v, n, c)
      BY <1>1, <1>2, <1>3, <1>4, <1>6 DEF TakeOK, Offering
    <3>3. Given(s, n, c, v) = Given(s, n, bracket[n], seller[s])
      BY <1>1, <1>2, <1>3, <1>4, <1>6 DEF Given, Offering
    <3> QED BY <2>1, <1>6, <3>1, <3>2, <3>3 DEF c
  <2>2. CASE b # n
    <3>1. BracketOK(s, b, bracket[b], State(b), broker[b], State(s), v)
      BY <1>1, <1>2, <1>4, <2>2 DEF BracketOK
    <3>2. b \in DOMAIN seller[s].share => TakeOK(v, b, bracket[b])
      BY <1>1, <1>2, <1>4, <2>2 DEF TakeOK, Offering
    <3>3. Given(s, b, bracket[b], v) = Given(s, b, bracket[b], seller[s])
      BY <1>1, <1>2, <1>4 DEF Given, Offering
    <3> QED BY <1>5, <2>2, <3>1, <3>2, <3>3
  <2> QED BY <2>1, <2>2
<1> QED BY <1>1, <1>4, <1>7, <1>8, ThreadGoesOn DEF v

\* The call is over: no bracket waits for its sale any more.
LEMMA AnswerSound ==
  ASSUME Types, NEW s, Sales = {s}, Sound(s), Answer(s)
  PROVE  Sound(s)'
<1>1. /\ seller[s].at \in {"telling", "dropping"} /\ seller[s].todo = {} /\ s \in Sales
      /\ UNCHANGED <<bracket, order, broker, sold>> /\ seller'[s] = Idle /\ selling' = {}
      /\ PlaceOK(seller[s], State(s))
  <2>1. seller[s].at \in {"telling", "dropping"} /\ seller[s].todo = {} /\ UNCHANGED <<bracket, order, broker, sold>>
    BY DEF Answer, AllVisited, At
  <2>2. selling = DOMAIN seller[s].share /\ PlaceOK(seller[s], State(s)) /\ s \in Sales
    BY Known DEF Sound, SellerOK
  <2> QED BY <2>1, <2>2 DEF Answer, Types
<1>2. PlaceOK(Idle, State(s))
  BY <1>1, Starts DEF PlaceOK
<1>3. SumOf([b \in Brackets |-> Taken(Idle, b)], Brackets) = 0
  <2> DEFINE f == [b \in Brackets |-> Taken(Idle, b)]
  <2>1. \A b \in Brackets : f[b] = 0
    BY Starts DEF Taken
  <2> HIDE DEF f
  <2>2. SumOf(f, Brackets) = 0
    BY <2>1, OrderSets, SumZero
  <2> QED BY <2>2 DEF f
<1>4. AllTaken(s)' = seller'[s].quantity
  BY <1>1, <1>3, Starts DEF AllTaken
<1>5. ASSUME NEW b \in Brackets
      PROVE  /\ BracketOK(s, b, bracket[b], State(b), broker[b], State(s), Idle)
             /\ Given(s, b, bracket[b], Idle) = Given(s, b, bracket[b], seller[s])
  <2>1. BracketOK(s, b, bracket[b], State(b), broker[b], State(s), seller[s])
    BY DEF Sound, BracketsOK
  <2>2. BracketOK(s, b, bracket[b], State(b), broker[b], State(s), Idle)
    BY <1>1, <2>1, Starts DEF BracketOK
  <2>3. Given(s, b, bracket[b], Idle) = Given(s, b, bracket[b], seller[s])
    BY <1>1, Starts DEF Given
  <2> QED BY <2>2, <2>3
<1> QED BY <1>1, <1>2, <1>4, <1>5, Starts, ThreadStep

\* The sale's order moves on in the book, and the thread with it: told of to the brackets,
\* dropped if it came to nothing, or to be read back.
LEMMA SettledSound ==
  ASSUME Types, NEW s, Sales = {s}, Sound(s), UNCHANGED <<bracket, broker, selling, sold>>,
         seller[s].at \in {"sent", "settling"}, \A b \in Brackets : order'[b] = order[b],
         OrderOK(order'[s], broker[s]), State(s)' \notin {"unwritten", "sending"},
         NEW step \in {"settling", "telling", "dropping"}, To(s, step),
         step = "dropping" => State(s)' \in {"cancelled", "failed", "rejected"}
  PROVE  Sound(s)'
<1> DEFINE v == seller'[s]
<1>1. /\ v.at = step /\ v.todo = DOMAIN seller[s].share /\ v.share = seller[s].share /\ v.quantity = seller[s].quantity
      /\ seller[s].todo = DOMAIN seller[s].share /\ DOMAIN seller[s].share \subseteq Brackets
      /\ selling = DOMAIN seller[s].share /\ s \in Orders /\ Orders = Brackets \cup {s}
  <2>1. PlaceOK(seller[s], State(s)) /\ selling = DOMAIN seller[s].share
    BY DEF Sound, SellerOK
  <2> QED BY <2>1, GoesOn, Known DEF PlaceOK
<1> HIDE DEF v
<1>2. OrdersOK'
  BY <1>1 DEF Sound, OrdersOK
<1>3. ASSUME NEW b \in Brackets
      PROVE  /\ BracketOK(s, b, bracket[b], State(b), broker[b], State(s), seller[s]) /\ bracket[b].exit # s
             /\ b \in DOMAIN seller[s].share => TakeOK(seller[s], b, bracket[b])
             /\ State(b)' = State(b)
  BY DEF Sound, BracketsOK, SellerOK, BracketOK, State
<1>4. BracketsOK(s)'
  <2>1. ASSUME NEW b \in Brackets PROVE BracketOK(s, b, bracket[b], State(b), broker[b], State(s)', v)
    BY <1>1, <1>3 DEF BracketOK
  <2> QED BY <1>3, <2>1 DEF BracketsOK, v
<1>5. SellerOK(s)'
  <2>1. PlaceOK(v, State(s)')
    BY <1>1 DEF PlaceOK
  <2>2. ASSUME NEW b \in DOMAIN seller[s].share PROVE TakeOK(v, b, bracket[b])
    BY <1>1, <1>3 DEF TakeOK, Offering, Clear
  <2> QED BY <1>1, <2>1, <2>2 DEF SellerOK, v
<1>6. SumsOK(s)'
  <2>1. AllTaken(s)' = AllTaken(s)
    BY <1>1 DEF AllTaken, Taken, v
  <2>2. CASE step # "dropping"
    <3>1. \A b \in Brackets : Given(s, b, bracket[b], v) = Given(s, b, bracket[b], seller[s])
      BY <1>1, <2>2 DEF Given, Offering
    <3>2. \A b \in Brackets : Left(s, b, bracket[b], v, broker[b], broker[s]) = Left(s, b, bracket[b], seller[s], broker[b], broker[s])
      BY <3>1 DEF Left
    <3>3. AllGiven(s)' = AllGiven(s) /\ AllLeft(s)' = AllLeft(s)
      BY <3>1, <3>2 DEF AllGiven, AllLeft, v
    <3> QED BY <1>1, <2>1, <3>3 DEF Sound, SumsOK, v
  <2>3. CASE step = "dropping"
    <3>1. broker[s].status \notin {"open", "filled"}
      BY <2>3 DEF OrderOK, State
    <3>2. \A b \in Brackets : Left(s, b, bracket[b], v, broker[b], broker[s]) = Left(s, b, bracket[b], seller[s], broker[b], broker[s])
      BY <3>1 DEF Left
    <3>3. AllLeft(s)' = AllLeft(s)
      BY <3>2 DEF AllLeft, v
    <3> QED BY <1>1, <2>1, <3>1, <3>3 DEF Sound, SumsOK, v
  <2> QED BY <2>2, <2>3
<1> QED BY <1>2, <1>4, <1>5, <1>6 DEF Sound

\* No answer, read back.
LEMMA SettleSound ==
  ASSUME Types, NEW s, Sales = {s}, Sound(s), Settle(s)
  PROVE  Sound(s)'
<1>1. seller[s].at = "settling" /\ UNCHANGED <<bracket, order, broker, selling, sold>>
  BY DEF Settle, At
<1>2. PlaceOK(seller[s], State(s)) /\ OrderOK(order[s], broker[s]) /\ State(s) = order[s].fold.state
  BY Known DEF Sound, SellerOK, OrdersOK
<1>3. State(s)' = State(s) /\ State(s) \notin {"unwritten", "sending"}
  BY <1>1, <1>2 DEF PlaceOK, State
<1>4. CASE State(s) \in InFlight \cup {"filled"}
  <2>1. To(s, "telling")
    BY <1>4 DEF Settle, Settled
  <2> QED BY <1>1, <1>2, <1>3, <2>1, SettledSound
<1>5. CASE State(s) \notin InFlight \cup {"filled"}
  <2>1. To(s, "dropping")
    BY <1>5 DEF Settle, Settled
  <2>2. State(s) \in {"cancelled", "failed", "rejected"}
    BY <1>2, <1>3, <1>5 DEF OrderOK, InFlight
  <2> QED BY <1>1, <1>2, <1>3, <2>1, <2>2, SettledSound
<1> QED BY <1>4, <1>5

\* The answer to the create.
LEMMA HearSound ==
  ASSUME Types, NEW s, Sales = {s}, Sound(s), Hear(s)
  PROVE  Sound(s)'
<1> DEFINE f == order[s].fold
<1>1. seller[s].at = "sent" /\ UNCHANGED <<bracket, broker, selling, sold>>
  BY DEF Hear, At
<1>2. /\ PlaceOK(seller[s], State(s)) /\ OrderOK(order[s], broker[s]) /\ State(s) = f.state /\ s \in Orders
      /\ f \in Fold_ /\ order[s] \in Order_ /\ s \notin Brackets
      /\ order \in [Orders -> Order_] /\ \A b \in Brackets : b \in Orders
  BY Known DEF Sound, SellerOK, OrdersOK, Types
<1>3. f.state = "sending" /\ f.filled = 0
  BY <1>1, <1>2 DEF PlaceOK, OrderOK
<1>4. PICK e \in {Refused, NotSent, Accepted, Unclear} :
         /\ e \in {Refused, NotSent} => broker[s].status = "not-found"
         /\ e = Accepted => broker[s].status # "not-found"
         /\ order' = [order EXCEPT ![s].fold = Apply(@, e)]
         /\ IF e = Unclear THEN To(s, "settling") ELSE Settled(s, order'[s].fold.state)
  <2>1. PICK e \in (IF broker[s].status = "not-found" THEN {Refused, NotSent} ELSE {Accepted})
                   \cup (IF LostAnswers THEN {Unclear} ELSE {}) :
           /\ order' = [order EXCEPT ![s].fold = Apply(@, e)]
           /\ IF e = Unclear THEN To(s, "settling") ELSE Settled(s, order'[s].fold.state)
    BY DEF Hear
  <2>2. Accepted # Unclear /\ Accepted # Refused /\ Accepted # NotSent /\ Unclear # Refused /\ Unclear # NotSent
    BY DEF Accepted, Unclear, Refused, NotSent
  <2> QED BY <2>1, <2>2
<1> DEFINE g == Apply(f, e)
<1>5. /\ e = Refused => g = [f EXCEPT !.state = "rejected"]
      /\ e = NotSent => g = [f EXCEPT !.state = "failed"]
      /\ e = Unclear => g = [f EXCEPT !.state = "unconfirmed"]
      /\ e = Accepted => g = [f EXCEPT !.state = "pending", !.broker_id = TRUE]
  <2>1. e = Refused => g = [f EXCEPT !.state = "rejected"]
    BY <1>3 DEF Apply, Refused, Unanswered
  <2>2. e = NotSent => g = [f EXCEPT !.state = "failed"]
    BY <1>3 DEF Apply, NotSent
  <2>3. e = Unclear => g = [f EXCEPT !.state = "unconfirmed"]
    BY <1>3 DEF Apply, Unclear
  <2>4. e = Accepted => g = [f EXCEPT !.state = "pending", !.broker_id = TRUE]
    <3>1. Working(f) = "pending"
      BY <1>3 DEF Working
    <3>2. e = Accepted => g = OnAccepted(f)
      BY DEF Apply, Accepted
    <3> QED BY <1>3, <3>1, <3>2 DEF OnAccepted, Unanswered
  <2> QED BY <2>1, <2>2, <2>3, <2>4
<1>6. /\ e = Refused => g.state = "rejected" /\ g.filled = 0
      /\ e = NotSent => g.state = "failed" /\ g.filled = 0
      /\ e = Unclear => g.state = "unconfirmed" /\ g.filled = 0
      /\ e = Accepted => g.state = "pending" /\ g.filled = 0
  BY <1>2, <1>3, <1>5 DEF Fold_
<1> HIDE DEF g
<1> DEFINE w == [order[s] EXCEPT !.fold = g]
<1>7. w.fold = g
  BY <1>2 DEF Order_
<1>8. order'[s] = w /\ \A b \in Brackets : order'[b] = order[b]
  <2>1. order' = [order EXCEPT ![s] = w]
    BY <1>2, <1>4 DEF g, Order_
  <2> HIDE DEF w
  <2> QED BY <1>2, <2>1
<1> HIDE DEF w
<1>9. OrderOK(order'[s], broker[s]) /\ State(s)' = g.state /\ order'[s].fold.state = g.state
  <2>1. OrderOK(w, broker[s])
    BY <1>2, <1>4, <1>6, <1>7 DEF OrderOK
  <2> QED BY <1>7, <1>8, <2>1 DEF State
<1>10. CASE e = Unclear
  BY <1>1, <1>4, <1>6, <1>8, <1>9, <1>10, SettledSound
<1>11. CASE e = Accepted
  <2>1. g.state \in InFlight \cup {"filled"} /\ e # Unclear
    BY <1>6, <1>11 DEF InFlight, Accepted, Unclear
  <2>2. To(s, "telling")
    BY <1>4, <1>9, <2>1 DEF Settled
  <2> QED BY <1>1, <1>6, <1>8, <1>9, <1>11, <2>2, SettledSound
<1>12. CASE e \in {Refused, NotSent}
  <2>1. g.state \notin InFlight \cup {"filled"} /\ e # Unclear
    BY <1>6, <1>12 DEF InFlight, Refused, NotSent, Unclear
  <2>2. To(s, "dropping")
    BY <1>4, <1>9, <2>1 DEF Settled
  <2> QED BY <1>1, <1>6, <1>8, <1>9, <1>12, <2>2, SettledSound
<1> QED BY <1>4, <1>10, <1>11, <1>12

\* The sale goes out, for what the brackets give it: the exits of all of them are gone.
LEMMA SendSound ==
  ASSUME Types, NEW s, Sales = {s}, Sound(s), Send(s)
  PROVE  Sound(s)'
<1> DEFINE v == seller'[s]
<1>1. /\ seller[s].at = "sending" /\ UNCHANGED <<bracket, selling, sold>>
      /\ order' = [order EXCEPT ![s].fold = Start(FALSE)] /\ To(s, "sent")
  BY DEF Send, At
<1>2. /\ PlaceOK(seller[s], State(s)) /\ OrderOK(order[s], broker[s]) /\ s \in Orders /\ s \notin Brackets
      /\ seller[s].quantity \in Nat /\ selling = DOMAIN seller[s].share /\ DOMAIN seller[s].share \subseteq Brackets
      /\ Orders = Brackets \cup {s} /\ State(s) = order[s].fold.state
  BY Known DEF Sound, SellerOK, OrdersOK
<1>3. State(s) = "unwritten" /\ seller[s].todo = DOMAIN seller[s].share /\ broker[s].status = "not-found"
  BY <1>1, <1>2 DEF PlaceOK, OrderOK
<1>4. /\ v.at = "sent" /\ v.todo = DOMAIN seller[s].share
      /\ v.share = seller[s].share /\ v.quantity = seller[s].quantity
  BY <1>1, GoesOn
<1>5. order'[s].fold.state = "sending" /\ order'[s].fold.filled = 0 /\ \A b \in Brackets : order'[b] = order[b]
  <2> DEFINE w == [order[s] EXCEPT !.fold = Start(FALSE)]
  <2>1. order \in [Orders -> Order_] /\ order[s] \in Order_
    BY <1>2 DEF Types
  <2>2. order' = [order EXCEPT ![s] = w]
    BY <1>1, <1>2, <2>1 DEF Order_
  <2>3. w.fold = Start(FALSE)
    BY <2>1 DEF Order_
  <2> HIDE DEF w
  <2> QED BY <1>2, <2>1, <2>2, <2>3, Starts
<1>6. PICK there \in {Open(seller[s].quantity), NotThere} : broker' = [broker EXCEPT ![s] = there]
  BY DEF Send
<1>7. broker'[s] = there /\ \A b \in Brackets : broker'[b] = broker[b]
  BY <1>2, <1>6 DEF Types
<1>8. /\ there.filled = 0 /\ there.status \in {"open", "not-found"} /\ there.status # "filled"
      /\ there.status = "open" => there.quantity = seller[s].quantity
  <2>1. /\ Open(seller[s].quantity).status = "open" /\ Open(seller[s].quantity).filled = 0
        /\ Open(seller[s].quantity).quantity = seller[s].quantity
    BY <1>2, Starts
  <2> QED BY <2>1, Starts
<1> HIDE DEF v
<1>9. OrdersOK'
  <2>1. OrderOK(order'[s], broker'[s])
    BY <1>5, <1>7, <1>8 DEF OrderOK
  <2> QED BY <1>2, <1>5, <1>7, <2>1 DEF Sound, OrdersOK
<1>10. ASSUME NEW b \in Brackets
       PROVE  /\ BracketOK(s, b, bracket[b], State(b), broker[b], State(s), seller[s]) /\ bracket[b].exit # s
              /\ b \in DOMAIN seller[s].share => TakeOK(seller[s], b, bracket[b])
              /\ State(b)' = State(b)
  BY <1>3, <1>5 DEF Sound, BracketsOK, SellerOK, BracketOK, State
<1>11. State(s)' = "sending"
  BY <1>5 DEF State
<1>12. BracketsOK(s)'
  <2>1. ASSUME NEW b \in Brackets PROVE BracketOK(s, b, bracket[b], State(b), broker[b], "sending", v)
    BY <1>1, <1>4, <1>10 DEF BracketOK
  <2> QED BY <1>1, <1>7, <1>10, <1>11, <2>1 DEF BracketsOK, v
<1>13. SellerOK(s)'
  <2>1. PlaceOK(v, "sending")
    BY <1>4 DEF PlaceOK
  <2>2. ASSUME NEW b \in DOMAIN seller[s].share PROVE TakeOK(v, b, bracket[b])
    BY <1>1, <1>2, <1>3, <1>4, <1>10 DEF TakeOK, Offering, Clear
  <2> QED BY <1>1, <1>2, <1>4, <1>11, <2>1, <2>2 DEF SellerOK, v
<1>14. SumsOK(s)'
  <2>1. AllTaken(s)' = AllTaken(s) /\ AllTaken(s) = seller[s].quantity
    BY <1>4 DEF AllTaken, Taken, v, Sound, SumsOK
  <2>2. AllGiven(s)' = AllTaken(s)
    <3>1. \A b \in Brackets : Given(s, b, bracket[b], v) = Taken(seller[s], b)
      BY <1>4, <1>10 DEF Given, Taken, Offering
    <3> QED BY <1>1, <3>1 DEF AllGiven, AllTaken, v
  <2>3. AllLeft(s)' = AllLeft(s)
    <3>1. \A b \in Brackets : Left(s, b, bracket[b], v, broker[b], there) = Left(s, b, bracket[b], seller[s], broker[b], broker[s])
      BY <1>3, <1>8 DEF Left
    <3> QED BY <1>1, <1>7, <3>1 DEF AllLeft, v
  <2> QED BY <1>1, <1>4, <1>7, <1>8, <2>1, <2>2, <2>3 DEF Sound, SumsOK, v
<1> QED BY <1>9, <1>12, <1>13, <1>14 DEF Sound

------------------------------------------------------------------------------
(* Beside them. *)

\* An order is read back or its cancel asked: the broker has of it what it had.
LEMMA BookMoves ==
  ASSUME Types, NEW s, Sales = {s}, Sound(s), UNCHANGED <<bracket, seller, selling, sold>>, OrdersOK',
         \A u \in Orders : /\ broker'[u].status = broker[u].status /\ broker'[u].filled = broker[u].filled
                           /\ broker'[u].quantity = broker[u].quantity,
         \A b \in Brackets :
           \/ State(b)' = State(b)
           \/ State(b) \in {"pending", "cancelling"} /\ State(b)' \in {"pending", "cancelling", "filled", "cancelled"},
         \/ State(s)' = State(s)
         \/ State(s) \in {"unconfirmed", "pending", "cancelling"} /\ State(s)' \notin {"unwritten", "sending"}
  PROVE  Sound(s)'
<1>1. s \in Orders /\ \A b \in Brackets : b \in Orders
  BY Known
<1>2. BracketsOK(s)'
  <2>1. ASSUME NEW b \in Brackets
        PROVE  BracketOK(s, b, bracket[b], State(b)', broker'[b], State(s)', seller[s])
    <3>1. BracketOK(s, b, bracket[b], State(b), broker[b], State(s), seller[s])
      BY DEF Sound, BracketsOK
    <3>2. broker'[b].quantity = broker[b].quantity
      BY <1>1
    <3> QED BY <3>1, <3>2, BracketFollows
  <2> QED BY <2>1 DEF BracketsOK
<1>3. SellerOK(s)'
  <2>1. PlaceOK(seller[s], State(s)')
    BY DEF Sound, SellerOK, PlaceOK
  <2> QED BY <2>1 DEF Sound, SellerOK
<1>4. SumsOK(s)'
  <2>1. ASSUME NEW b \in Brackets
        PROVE  Left(s, b, bracket[b], seller[s], broker'[b], broker'[s]) = Left(s, b, bracket[b], seller[s], broker[b], broker[s])
    <3>1. broker'[b].filled = broker[b].filled /\ broker'[s].status = broker[s].status
      BY <1>1
    <3> QED BY <3>1 DEF Left
  <2> QED BY <1>1, <2>1, SumsKept DEF Sound
<1> QED BY <1>2, <1>3, <1>4 DEF Sound

\* The sale's cancel moves only what the book says of it.
LEMMA CancelSaleSound ==
  ASSUME Types, NEW s, Sales = {s}, Sound(s), CancelSale(s)
  PROVE  Sound(s)'
<1>1. State(s) \in Resting /\ CancelOrder(s) /\ UNCHANGED <<bracket, seller, selling, sold>>
  BY DEF CancelSale
<1>2. s \in Orders /\ \A b \in Brackets : b \in Orders
  BY Known
<1>3. /\ OrdersOK'
      /\ \A u \in Orders : /\ broker'[u].status = broker[u].status /\ broker'[u].filled = broker[u].filled
                           /\ broker'[u].quantity = broker[u].quantity
                           /\ State(u)' = State(u) \/ {State(u), State(u)'} \subseteq {"pending", "cancelling"}
  BY <1>1, <1>2, AskedOK DEF Sound
<1>4. /\ \A b \in Brackets :
           \/ State(b)' = State(b)
           \/ State(b) \in {"pending", "cancelling"} /\ State(b)' \in {"pending", "cancelling", "filled", "cancelled"}
      /\ \/ State(s)' = State(s)
         \/ State(s) \in {"unconfirmed", "pending", "cancelling"} /\ State(s)' \notin {"unwritten", "sending"}
  <2>1. \A u \in Orders : State(u)' = State(u) \/ (State(u) \in {"pending", "cancelling"} /\ State(u)' \in {"pending", "cancelling"})
    BY <1>3
  <2> QED BY <1>2, <2>1
<1> QED BY <1>1, <1>3, <1>4, BookMoves

\* The read-back tells the book what the broker has; it moves no share.
LEMMA ReadSound ==
  ASSUME Types, NEW s, Sales = {s}, Sound(s), NEW o \in Orders, ReadBack(o)
  PROVE  Sound(s)'
<1> DEFINE f == order[o].fold  g == Apply(f, Read(broker[o].status, broker[o].filled))
           w == [order[o] EXCEPT !.fold = g]
<1>1. State(o) \in InFlight /\ (o \in Sales => ~At(o, "sent")) /\ UNCHANGED <<bracket, broker, seller, selling, sold>>
      /\ order' = [order EXCEPT ![o].fold = Apply(@, Read(broker[o].status, broker[o].filled))]
  BY DEF ReadBack
<1>2. /\ OrderOK(order[o], broker[o]) /\ order[o] \in Order_ /\ broker[o] \in Broker_ /\ order \in [Orders -> Order_]
      /\ State(o) = f.state /\ Orders = Brackets \cup {s} /\ s \notin Brackets
  BY Known DEF Sound, OrdersOK, Types
<1>3. f.state \in {"unconfirmed", "pending", "cancelling"} /\ (o # s => f.state \in {"pending", "cancelling"})
  <2>1. CASE o = s
    <3>1. f.state # "sending"
      BY <1>1, <1>2, <2>1 DEF Sound, SellerOK, PlaceOK, At
    <3> QED BY <1>1, <1>2, <2>1, <3>1 DEF OrderOK, InFlight
  <2>2. CASE o # s
    <3>1. BracketOK(s, o, bracket[o], State(o), broker[o], State(s), seller[s])
      BY <1>2, <2>2 DEF Sound, BracketsOK
    <3> QED BY <1>1, <1>2, <2>2, <3>1 DEF BracketOK, InFlight
  <2> QED BY <2>1, <2>2
<1>4. /\ OrderOK(w, broker[o])
      /\ g.state \in {"unconfirmed", "pending", "cancelling", "filled", "cancelled", "failed"}
      /\ f.state # "unconfirmed" => g.state \in {"pending", "cancelling", "filled", "cancelled"}
  BY <1>2, <1>3, ReadOK
<1>5. order' = [order EXCEPT ![o] = w] /\ w.fold = g
  BY <1>1, <1>2 DEF Order_
<1> HIDE DEF w, g
<1>6. order'[o] = w /\ \A u \in Orders : u # o => order'[u] = order[u]
  BY <1>2, <1>5
<1>7. OrdersOK'
  BY <1>1, <1>4, <1>6 DEF Sound, OrdersOK
<1>8. State(o)' = g.state /\ \A u \in Orders : u # o => State(u)' = State(u)
  BY <1>5, <1>6 DEF State
<1>9. /\ \A b \in Brackets :
           \/ State(b)' = State(b)
           \/ State(b) \in {"pending", "cancelling"} /\ State(b)' \in {"pending", "cancelling", "filled", "cancelled"}
      /\ \/ State(s)' = State(s)
         \/ State(s) \in {"unconfirmed", "pending", "cancelling"} /\ State(s)' \notin {"unwritten", "sending"}
  <2>1. \A b \in Brackets : b = o => State(b) \in {"pending", "cancelling"} /\ State(b)' \in {"pending", "cancelling", "filled", "cancelled"}
    BY <1>2, <1>3, <1>4, <1>8
  <2>2. s = o => State(s) \in {"unconfirmed", "pending", "cancelling"} /\ State(s)' \notin {"unwritten", "sending"}
    BY <1>2, <1>3, <1>4, <1>8
  <2> QED BY <1>2, <1>8, <2>1, <2>2
<1> QED BY <1>1, <1>7, <1>9, BookMoves

\* A sell fills at the broker: of a bracket's own order, all its shares; of the sale, what
\* each bracket gave it.
LEMMA FillSound ==
  ASSUME Types, NEW s, Sales = {s}, Sound(s), PartFills = FALSE, NEW o \in Orders, Fill(o)
  PROVE  Sound(s)'
<1> DEFINE r == broker'[o]
           old == [b \in Brackets |-> Left(s, b, bracket[b], seller[s], broker[b], broker[s])]
           now == [b \in Brackets |-> Left(s, b, bracket[b], seller[s], broker'[b], broker'[s])]
           given == [b \in Brackets |-> Given(s, b, bracket[b], seller[s])]
<1>1. /\ broker[o].status = "open" /\ broker[o].quantity \in Nat /\ broker[o].filled = 0
      /\ Orders = Brackets \cup {s} /\ s \notin Brackets /\ NoOne # s /\ NoOne \notin Brackets
      /\ broker \in [Orders -> Broker_] /\ broker[o] \in Broker_ /\ OrderOK(order[o], broker[o])
      /\ UNCHANGED <<bracket, order, seller, selling>>
  <2>1. broker[o].status = "open" /\ UNCHANGED <<bracket, order, seller, selling>>
    BY DEF Fill
  <2>2. OrderOK(order[o], broker[o]) /\ broker \in [Orders -> Broker_] /\ broker[o] \in Broker_ /\ broker[o].quantity \in Nat
    BY Known DEF Sound, OrdersOK, Types
  <2>3. broker[o].filled = 0
    BY <2>1, <2>2 DEF OrderOK
  <2> QED BY <2>1, <2>2, <2>3, Known
<1>2. /\ r.status = "filled" /\ r.filled = broker[o].quantity /\ r.quantity = broker[o].quantity
      /\ sold' = sold + broker[o].quantity /\ \A u \in Orders : u # o => broker'[u] = broker[u]
  <2>1. PICK n \in {broker[o].quantity - broker[o].filled} :
           /\ broker' = [broker EXCEPT ![o].filled = @ + n,
                                       ![o].status = IF n = broker[o].quantity - broker[o].filled THEN "filled" ELSE @]
           /\ sold' = sold + n
    BY DEF Fill
  <2>2. n = broker[o].quantity /\ n = broker[o].quantity - broker[o].filled /\ broker[o].filled + n = n
    BY <1>1
  <2> DEFINE w == [broker[o] EXCEPT !.filled = n, !.status = "filled"]
  <2>3. broker' = [broker EXCEPT ![o] = w]
    BY <1>1, <2>1, <2>2 DEF Broker_
  <2>4. w.status = "filled" /\ w.filled = n /\ w.quantity = broker[o].quantity
    BY <1>1 DEF Broker_
  <2> HIDE DEF w
  <2>5. broker'[o] = w /\ \A u \in Orders : u # o => broker'[u] = broker[u]
    BY <1>1, <2>3
  <2> QED BY <2>1, <2>2, <2>4, <2>5
<1> HIDE DEF r
<1>3. OrdersOK'
  <2>1. OrderOK(order[o], r)
    BY <1>1, <1>2 DEF OrderOK
  <2> QED BY <1>1, <1>2, <2>1 DEF Sound, OrdersOK, r
<1>4. BracketsOK(s)'
  <2>1. ASSUME NEW b \in Brackets PROVE BracketOK(s, b, bracket[b], State(b), broker'[b], State(s), seller[s])
    <3>1. BracketOK(s, b, bracket[b], State(b), broker[b], State(s), seller[s])
      BY DEF Sound, BracketsOK
    <3>2. broker'[b].quantity = broker[b].quantity
      BY <1>1, <1>2 DEF r
    <3> QED BY <3>1, <3>2 DEF BracketOK
  <2> QED BY <1>1, <2>1 DEF BracketsOK, State
<1>5. SellerOK(s)'
  BY <1>1 DEF Sound, SellerOK, State
<1>6. /\ AllTaken(s)' = AllTaken(s) /\ AllGiven(s)' = AllGiven(s) /\ AllGiven(s) = SumOf(given, Brackets)
      /\ AllLeft(s) = SumOf(old, Brackets) /\ AllLeft(s)' = SumOf(now, Brackets)
  BY <1>1 DEF AllTaken, AllGiven, AllLeft
<1>7. AllLeft(s) = Held - sold /\ Held - sold \in Int /\ sold \in Nat /\ Held \in Nat
  <2>1. Cardinality(Brackets) \in Nat /\ Part \in Nat /\ sold \in Nat
    BY OrderSets, FS_CardinalityType DEF SaleAssumption, Types
  <2> QED BY <2>1 DEF Sound, SumsOK, Held
<1>8. IsFiniteSet(Brackets) /\ \A b \in Brackets : old[b] \in Int /\ given[b] \in Int
  BY OrderSets, Numbers
<1>9. CASE o # s
  <2>1. o \in Brackets /\ broker'[s] = broker[s]
    BY <1>1, <1>2, <1>9
  <2>2. bracket[o].exit = o /\ bracket[o].quantity = broker[o].quantity /\ bracket[o].quantity \in Int
    <3>1. BracketOK(s, o, bracket[o], State(o), broker[o], State(s), seller[s]) /\ bracket[o].quantity \in Int
      BY <2>1, Known DEF Sound, BracketsOK
    <3> QED BY <1>1, <3>1 DEF BracketOK, OrderOK, State
  <2>3. now[o] = old[o] - broker[o].quantity
    <3>1. Left(s, o, bracket[o], seller[s], r, broker[s]) = Left(s, o, bracket[o], seller[s], broker[o], broker[s]) - broker[o].quantity
      <4>1. Given(s, o, bracket[o], seller[s]) \in Int
        BY <2>1, Numbers
      <4> QED BY <1>1, <1>2, <2>2, <4>1 DEF Left
    <3> QED BY <2>1, <3>1 DEF r
  <2>4. \A b \in Brackets : b # o => now[b] = old[b]
    BY <1>1, <1>2, <2>1
  <2> HIDE DEF old, now
  <2>5. SumOf(now, Brackets) = SumOf(old, Brackets) + (now[o] - old[o]) /\ SumOf(old, Brackets) \in Int
    <3>1. now[o] \in Int
      BY <1>1, <1>8, <2>1, <2>3
    <3>2. IsFiniteSet(Brackets) /\ o \in Brackets
      BY <1>8, <2>1
    <3>3. \A b \in Brackets : old[b] \in Int /\ (b # o => now[b] = old[b])
      BY <1>8, <2>4
    <3>4. SumOf(now, Brackets) = SumOf(old, Brackets) + (now[o] - old[o])
      BY ONLY <3>1, <3>2, <3>3, SumChanged
    <3>5. SumOf(old, Brackets) \in Int
      BY <3>2, <3>3, SumType
    <3> QED BY <3>4, <3>5
  <2>6. AllLeft(s)' = Held - sold'
    <3>1. now[o] - old[o] = 0 - broker[o].quantity
      BY <1>1, <1>8, <2>1, <2>3
    <3>2. AllLeft(s)' = AllLeft(s) - broker[o].quantity
      BY <1>1, <1>6, <2>5, <3>1
    <3> QED BY <1>1, <1>2, <1>7, <3>2
  <2>7. SumsOK(s)'
    <3>1. Held' = Held
      BY DEF Held
    <3> QED BY <1>1, <1>6, <2>1, <2>6, <3>1 DEF Sound, SumsOK
  <2> QED BY <1>3, <1>4, <1>5, <2>7 DEF Sound
<1>10. CASE o = s
  <2>1. \A b \in Brackets : broker'[b] = broker[b]
    BY <1>1, <1>2, <1>10
  <2>2. AllGiven(s) = broker[s].quantity
    BY <1>1, <1>10 DEF Sound, SumsOK
  <2>3. \A b \in Brackets : now[b] \in Int /\ old[b] = now[b] + given[b]
    <3>1. ASSUME NEW b \in Brackets
          PROVE  /\ Left(s, b, bracket[b], seller[s], broker[b], r) \in Int
                 /\ Left(s, b, bracket[b], seller[s], broker[b], broker[s])
                    = Left(s, b, bracket[b], seller[s], broker[b], r) + Given(s, b, bracket[b], seller[s])
      <4>1. Given(s, b, bracket[b], seller[s]) \in Int /\ bracket[b].quantity \in Int /\ broker[b].filled \in Int
        BY Numbers, Known
      <4> QED BY <1>1, <1>2, <1>10, <4>1 DEF Left
    <3> QED BY <2>1, <3>1, <1>10 DEF r
  <2> HIDE DEF old, now, given
  <2>4. SumOf(old, Brackets) = SumOf(now, Brackets) + SumOf(given, Brackets) /\ SumOf(now, Brackets) \in Int
    BY <1>8, <2>3, SumPlus, SumType
  <2>5. AllLeft(s)' = Held - sold'
    <3>1. AllLeft(s) = AllLeft(s)' + broker[o].quantity /\ AllLeft(s)' \in Int
      BY <1>6, <1>10, <2>2, <2>4
    <3>2. sold' = sold + broker[o].quantity /\ AllLeft(s) = Held - sold
      BY <1>2, <1>7
    <3> QED BY <1>1, <1>7, <3>1, <3>2
  <2>6. SumsOK(s)'
    <3>1. Held' = Held /\ broker'[s].status = "filled" /\ broker'[s].quantity = broker[s].quantity
      BY <1>2, <1>10 DEF Held, r
    <3> QED BY <1>1, <1>6, <1>10, <2>2, <2>5, <3>1 DEF Sound, SumsOK
  <2> QED BY <1>3, <1>4, <1>5, <2>6 DEF Sound
<1> QED BY <1>9, <1>10

\* The broker ends an order: of its shares none was sold.
LEMMA EndSound ==
  ASSUME Types, NEW s, Sales = {s}, Sound(s), NEW o \in Orders, EndAtBroker(o)
  PROVE  Sound(s)'
<1>1. broker[o].status = "open" /\ UNCHANGED <<bracket, order, seller, selling, sold>> /\ broker \in [Orders -> Broker_]
      /\ broker[o] \in Broker_ /\ Orders = Brackets \cup {s} /\ s \notin Brackets
  BY Known DEF EndAtBroker, Types
<1>2. /\ broker'[o].status = "cancelled" /\ broker'[o].filled = broker[o].filled /\ broker'[o].quantity = broker[o].quantity
      /\ \A u \in Orders : u # o => broker'[u] = broker[u]
  <2> DEFINE w == [broker[o] EXCEPT !.status = "cancelled"]
  <2>1. broker' = [broker EXCEPT ![o] = w]
    BY <1>1 DEF EndAtBroker, Broker_
  <2>2. w.status = "cancelled" /\ w.filled = broker[o].filled /\ w.quantity = broker[o].quantity
    BY <1>1 DEF Broker_
  <2> HIDE DEF w
  <2> QED BY <1>1, <2>1, <2>2
<1>3. OrdersOK'
  <2>1. OrderOK(order[o], broker[o])
    BY DEF Sound, OrdersOK
  <2>2. OrderOK(order[o], broker'[o])
    BY <1>1, <1>2, <2>1 DEF OrderOK
  <2> QED BY <1>1, <1>2, <2>2 DEF Sound, OrdersOK
<1>4. BracketsOK(s)'
  <2>1. ASSUME NEW b \in Brackets PROVE BracketOK(s, b, bracket[b], State(b), broker'[b], State(s), seller[s])
    <3>1. BracketOK(s, b, bracket[b], State(b), broker[b], State(s), seller[s])
      BY DEF Sound, BracketsOK
    <3>2. broker'[b].quantity = broker[b].quantity
      BY <1>1, <1>2
    <3> QED BY <3>1, <3>2 DEF BracketOK
  <2> QED BY <1>1, <2>1 DEF BracketsOK, State
<1>5. SellerOK(s)'
  BY <1>1 DEF Sound, SellerOK, State
<1>6. AllTaken(s)' = AllTaken(s) /\ AllGiven(s)' = AllGiven(s) /\ AllLeft(s)' = AllLeft(s)
  <2>1. \A b \in Brackets : broker'[b].filled = broker[b].filled
    BY <1>1, <1>2
  <2>2. broker'[s].status = broker[s].status \/ (broker'[s].status = "cancelled" /\ broker[s].status = "open")
    BY <1>1, <1>2
  <2>3. \A b \in Brackets : Left(s, b, bracket[b], seller[s], broker'[b], broker'[s]) = Left(s, b, bracket[b], seller[s], broker[b], broker[s])
    BY <2>1, <2>2 DEF Left
  <2> QED BY <1>1, <2>3 DEF AllTaken, AllGiven, AllLeft
<1>7. SumsOK(s)'
  <2>1. /\ broker'[s].quantity = broker[s].quantity
        /\ broker'[s].status = broker[s].status \/ broker'[s].status = "cancelled"
    BY <1>1, <1>2
  <2>2. Held' = Held
    BY DEF Held
  <2> QED BY <1>1, <1>6, <2>1, <2>2 DEF Sound, SumsOK
<1> QED BY <1>3, <1>4, <1>5, <1>7 DEF Sound

------------------------------------------------------------------------------
(* Every step, and what follows. *)

LEMMA NextSound ==
  ASSUME Types, NEW s, Sales = {s}, Sound(s), PartFills = FALSE, [Next]_vars, crashes' = 0
  PROVE  Sound(s)'
<1>1. CASE UNCHANGED vars
  BY <1>1 DEF vars, Sound, OrdersOK, BracketsOK, SellerOK, SumsOK, AllTaken, AllGiven, AllLeft, State
<1>2. CASE \E b \in Brackets : Checking(b)
  BY <1>2, CheckSound
<1>3. CASE Ask(s) \/ CancelSale(s)
  BY <1>3, AskSound, CancelSaleSound
<1>4. CASE Selling(s)
  BY <1>4, MarkSound, WatchSound, SendSound, HearSound, SettleSound, TellSound, DropSound, AnswerSound DEF Selling
<1>5. CASE \E o \in Orders : ReadBack(o) \/ Fill(o) \/ EndAtBroker(o)
  BY <1>5, ReadSound, FillSound, EndSound
<1>6. ~Crash
  BY DEF Crash, Types
<1> QED BY <1>1, <1>2, <1>3, <1>4, <1>5, <1>6 DEF Next

\* What holds in every state of a run with one sale that the process does not stop in.
Steady == OneSale /\ crashes = 0 => \A s : Sales = {s} => Sound(s)

\* One more step, and the process has still not stopped: all of it still holds.
LEMMA SteadyStays == ASSUME Types, Steady, [Next]_vars PROVE Steady'
<1> SUFFICES ASSUME OneSale, crashes' = 0, NEW s, Sales = {s} PROVE Sound(s)'
  BY DEF Steady, OneSale
<1>1. crashes = 0
  <2>1. CASE UNCHANGED vars
    BY <2>1 DEF vars
  <2>2. ASSUME NEW b \in Brackets, Checking(b) PROVE crashes' = crashes
    BY <2>2, StepShape DEF Checking
  <2>3. ASSUME NEW t \in Sales, Ask(t) \/ CancelSale(t) PROVE crashes' = crashes
    BY <2>3 DEF Ask, CancelSale
  <2>4. ASSUME NEW t \in Sales, Selling(t) PROVE crashes' = crashes
    <3>1. CASE Mark(t) \/ Watch(t) \/ GiveUp(t)
      BY <3>1 DEF Mark, Watch, GiveUp
    <3>2. CASE Send(t) \/ Hear(t) \/ Settle(t)
      BY <3>2 DEF Send, Hear, Settle
    <3>3. CASE Tell(t) \/ Drop(t) \/ Answer(t)
      BY <3>3 DEF Tell, Drop, Answer
    <3> QED BY <2>4, <3>1, <3>2, <3>3 DEF Selling
  <2>5. ASSUME NEW o \in Orders, ReadBack(o) \/ Fill(o) \/ EndAtBroker(o) PROVE crashes' = crashes
    BY <2>5 DEF ReadBack, Fill, EndAtBroker
  <2>6. ~Crash
    BY DEF Crash, Types
  <2> QED BY <2>1, <2>2, <2>3, <2>4, <2>5, <2>6 DEF Next
<1>2. Sound(s) /\ PartFills = FALSE
  BY <1>1 DEF Steady, OneSale
<1> QED BY <1>2, NextSound

\* So it holds in every state.
LEMMA SteadyAlways == Spec => [](Types /\ Steady)
<1>1. Init => Types /\ Steady
  BY InitTypes, InitSound DEF Steady
<1>2. Types /\ Steady /\ [Next]_vars => (Types /\ Steady)'
  BY NextTypes, SteadyStays
<1> QED BY <1>1, <1>2, PTL DEF Spec

\* What rests at the broker of a bracket's shares, its own stop and what it gave the sale, is
\* never more than what of them nobody has sold.
LEMMA WithinLeft ==
  ASSUME Types, NEW s, Sales = {s}, Sound(s), NEW b \in Brackets
  PROVE  LET given == Given(s, b, bracket[b], seller[s])
             own   == IF broker[b].status = "open" THEN broker[b].quantity - broker[b].filled ELSE 0
         IN  /\ own \in Int
             /\ own + (IF broker[s].status = "open" THEN given ELSE 0)
                <= Left(s, b, bracket[b], seller[s], broker[b], broker[s])
<1> DEFINE c == bracket[b]  r == broker[b]  v == seller[s]  given == Given(s, b, c, v)
           own == IF r.status = "open" THEN r.quantity - r.filled ELSE 0
<1>1. /\ c.quantity \in Int /\ c.at_qty \in Int /\ r.quantity \in Nat /\ r.filled \in Nat /\ b # s /\ b # NoOne /\ s # NoOne
      /\ given \in Int /\ v.todo \subseteq DOMAIN v.share /\ (b \in DOMAIN v.share => v.share[b] \in Int)
  BY Known, Numbers
<1>2. /\ BracketOK(s, b, c, State(b), r, State(s), v) /\ OrderOK(order[b], r) /\ State(b) = order[b].fold.state
      /\ b \in DOMAIN v.share => TakeOK(v, b, c)
  BY Known DEF Sound, BracketsOK, OrdersOK, SellerOK
<1> HIDE DEF c, r, v
<1>3. /\ r.filled = (IF r.status = "filled" THEN r.quantity ELSE 0)
      /\ r.status = "open" => c.exit = b
      /\ c.exit = b => r.quantity = c.quantity
      /\ c.quantity >= 0
  BY <1>1, <1>2 DEF OrderOK, BracketOK
<1>4. given >= 0 /\ given <= c.quantity /\ (c.exit = b => given = 0)
  <2>1. CASE c.exit = s
    BY <1>1, <1>2, <2>1 DEF Given, BracketOK
  <2>2. CASE c.exit # s /\ v.at \in Offering /\ b \in v.todo
    <3>1. Clear(c) /\ v.share[b] > 0 /\ v.share[b] <= c.quantity /\ given = v.share[b]
      BY <1>1, <1>2, <2>2 DEF TakeOK, Offering, Clear, Given
    <3> QED BY <1>1, <3>1 DEF Clear
  <2>3. CASE c.exit # s /\ ~(v.at \in Offering /\ b \in v.todo)
    <3>1. given = 0
      BY <2>3 DEF Given
    <3> QED BY <1>3, <3>1
  <2> QED BY <2>1, <2>2, <2>3
<1>5. Left(s, b, c, v, r, broker[s]) = c.quantity - (IF c.exit = b THEN r.filled ELSE 0)
                                       - (IF broker[s].status = "filled" THEN given ELSE 0)
  BY DEF Left
<1> HIDE DEF given
<1>6. own \in Int /\ own + (IF broker[s].status = "open" THEN given ELSE 0) <= Left(s, b, c, v, r, broker[s])
  <2>1. CASE c.exit = b
    BY <1>1, <1>3, <1>4, <1>5, <2>1
  <2>2. CASE c.exit # b
    BY <1>1, <1>3, <1>4, <1>5, <2>2
  <2> QED BY <2>1, <2>2
<1> QED BY <1>6 DEF c, r, v, given

\* A share is never offered twice.
LEMMA SoundNoneTwice ==
  ASSUME Types, NEW s, Sales = {s}, Sound(s)
  PROVE  Offered + sold <= Held
<1> DEFINE rests == [o \in Orders |-> broker[o].quantity - broker[o].filled]
           open  == {o \in Orders : broker[o].status = "open"}
           own   == [o \in Orders |-> IF broker[o].status = "open" THEN broker[o].quantity - broker[o].filled ELSE 0]
           given == [b \in Brackets |-> Given(s, b, bracket[b], seller[s])]
           ofSale == [b \in Brackets |-> IF broker[s].status = "open" THEN Given(s, b, bracket[b], seller[s]) ELSE 0]
           both  == [b \in Brackets |-> own[b] + ofSale[b]]
           left  == [b \in Brackets |-> Left(s, b, bracket[b], seller[s], broker[b], broker[s])]
<1>1. /\ Orders = Brackets \cup {s} /\ s \in Orders /\ s \notin Brackets /\ IsFiniteSet(Orders) /\ IsFiniteSet(Brackets)
      /\ Orders \ {s} = Brackets /\ open \in SUBSET Orders /\ OrderOK(order[s], broker[s])
      /\ broker[s].quantity \in Nat
  BY OrderSets, Known DEF Sound, OrdersOK
<1>2. \A o \in Orders : /\ own[o] \in Int /\ rests[o] \in Int
                        /\ o \in open => own[o] = rests[o]
                        /\ o \notin open => own[o] = 0
  <2>1. ASSUME NEW o \in Orders PROVE broker[o].quantity - broker[o].filled \in Int /\ 0 \in Int
    BY Known
  <2> QED BY <2>1
<1>3. \A b \in Brackets : /\ both[b] = own[b] + ofSale[b] /\ ofSale[b] \in Int /\ given[b] \in Int /\ left[b] \in Int
                          /\ both[b] <= left[b] /\ ofSale[b] = IF broker[s].status = "open" THEN given[b] ELSE 0
  <2>1. ASSUME NEW b \in Brackets
        PROVE  /\ own[b] + ofSale[b] <= Left(s, b, bracket[b], seller[s], broker[b], broker[s])
               /\ Given(s, b, bracket[b], seller[s]) \in Int
               /\ Left(s, b, bracket[b], seller[s], broker[b], broker[s]) \in Int
    BY <1>1, Numbers, WithinLeft
  <2> HIDE DEF own
  <2> QED BY <2>1
<1>4. Offered = SumOf(rests, open) /\ AllLeft(s) = SumOf(left, Brackets) /\ AllGiven(s) = SumOf(given, Brackets)
  BY DEF Offered, AllLeft, AllGiven
<1>5. own[s] = IF broker[s].status = "open" THEN broker[s].quantity ELSE 0
  BY <1>1 DEF OrderOK
<1>6. AllLeft(s) = Held - sold /\ (broker[s].status = "open" => AllGiven(s) = broker[s].quantity) /\ sold \in Nat /\ Held \in Nat
  <2>1. Cardinality(Brackets) \in Nat /\ Part \in Nat /\ sold \in Nat
    BY <1>1, FS_CardinalityType DEF SaleAssumption, Types
  <2> QED BY <2>1 DEF Sound, SumsOK, Held
<1> HIDE DEF rests, open, own, given, ofSale, both, left
<1>7. SumOf(rests, open) = SumOf(own, Orders)
  <2>1. \A o \in open : rests[o] \in Int /\ rests[o] = own[o]
    BY <1>1, <1>2
  <2>2. SumOf(own, Orders) = SumOf(own, open)
    <3>1. (\A o \in Orders : own[o] \in Int) /\ (\A o \in Orders \ open : own[o] = 0)
      BY <1>2
    <3> QED BY <1>1, <3>1, SumOfPart
  <2>3. IsFiniteSet(open) /\ \A o \in open : own[o] \in Int /\ rests[o] = own[o]
    BY <1>1, <1>2, <2>1, FS_Subset
  <2>4. SumOf(rests, open) = SumOf(own, open)
    BY <2>3, SumSame
  <2> QED BY <2>2, <2>4
<1>8. SumOf(own, Orders) = own[s] + SumOf(own, Brackets)
  <2>1. IsFiniteSet(Orders) /\ s \in Orders /\ \A o \in Orders : own[o] \in Int
    BY <1>1, <1>2
  <2>2. SumOf(own, Orders) = own[s] + SumOf(own, Orders \ {s})
    BY <2>1, SumWithout
  <2> QED BY <1>1, <2>2
<1>9. own[s] = SumOf(ofSale, Brackets)
  <2>1. CASE broker[s].status = "open"
    <3>1. SumOf(ofSale, Brackets) = SumOf(given, Brackets)
      <4>1. \A b \in Brackets : given[b] \in Int /\ ofSale[b] = given[b]
        BY <1>3, <2>1
      <4> QED BY <1>1, <4>1, SumSame
    <3> QED BY <1>4, <1>5, <1>6, <2>1, <3>1
  <2>2. CASE broker[s].status # "open"
    <3>1. \A b \in Brackets : ofSale[b] = 0
      BY <1>3, <2>2
    <3>2. SumOf(ofSale, Brackets) = 0
      BY <1>1, <3>1, SumZero
    <3> QED BY <1>5, <2>2, <3>2
  <2> QED BY <2>1, <2>2
<1>10. SumOf(both, Brackets) = SumOf(own, Brackets) + SumOf(ofSale, Brackets)
  <2>1. \A b \in Brackets : own[b] \in Int
    BY <1>1, <1>2
  <2>2. IsFiniteSet(Brackets) /\ \A b \in Brackets : own[b] \in Int /\ ofSale[b] \in Int /\ both[b] = own[b] + ofSale[b]
    BY <1>1, <1>3, <2>1
  <2> QED BY <2>2, SumPlus
<1>11. SumOf(both, Brackets) <= SumOf(left, Brackets)
  <2>1. \A b \in Brackets : both[b] \in Int /\ left[b] \in Int /\ both[b] <= left[b]
    BY <1>1, <1>2, <1>3
  <2> QED BY <1>1, <2>1, SumLeq
<1>12. SumOf(own, Brackets) \in Int /\ SumOf(ofSale, Brackets) \in Int
  <2>1. \A b \in Brackets : own[b] \in Int /\ ofSale[b] \in Int
    BY <1>1, <1>2, <1>3
  <2> QED BY <1>1, <2>1, SumType
<1>13. Offered = SumOf(both, Brackets)
  BY <1>4, <1>7, <1>8, <1>9, <1>10, <1>12
<1>14. Offered \in Int /\ Offered <= Held - sold
  BY <1>4, <1>6, <1>10, <1>11, <1>12, <1>13
<1> QED BY <1>6, <1>14

\* With nothing at the broker and nothing under way, the live brackets hold what is left.
LEMMA SoundAllGuarded ==
  ASSUME Types, NEW s, Sales = {s}, Sound(s), AtRest
  PROVE  SumOf([b \in Brackets |-> bracket[b].quantity], {b \in Brackets : Live(bracket[b])}) = Held - sold
<1> DEFINE q    == [b \in Brackets |-> bracket[b].quantity]
           left == [b \in Brackets |-> Left(s, b, bracket[b], seller[s], broker[b], broker[s])]
           live == {b \in Brackets : Live(bracket[b])}
<1>1. \A b \in Brackets : /\ q[b] \in Int /\ left[b] = q[b] /\ (b \notin live => q[b] = 0)
  <2>1. ASSUME NEW b \in Brackets
        PROVE  /\ bracket[b].quantity \in Int /\ Left(s, b, bracket[b], seller[s], broker[b], broker[s]) = bracket[b].quantity
               /\ ~Live(bracket[b]) => bracket[b].quantity = 0
    <3>1. bracket[b].exit = NoOne /\ NoOne # s /\ b # NoOne /\ bracket[b].quantity \in Int /\ seller[s].at = "idle"
      BY Known DEF AtRest, HasExit, At
    <3>2. Given(s, b, bracket[b], seller[s]) = 0
      BY <3>1 DEF Given, Offering
    <3>3. BracketOK(s, b, bracket[b], State(b), broker[b], State(s), seller[s])
      BY DEF Sound, BracketsOK
    <3> QED BY <3>1, <3>2, <3>3 DEF Left, BracketOK, Live
  <2> QED BY <2>1
<1>2. IsFiniteSet(Brackets) /\ live \in SUBSET Brackets /\ AllLeft(s) = SumOf(left, Brackets) /\ AllLeft(s) = Held - sold
  BY OrderSets DEF AllLeft, Sound, SumsOK
<1> HIDE DEF q, left, live
<1>3. SumOf(left, Brackets) = SumOf(q, Brackets)
  <2>1. IsFiniteSet(Brackets) /\ \A b \in Brackets : q[b] \in Int /\ left[b] = q[b]
    BY <1>1, <1>2
  <2> QED BY <2>1, SumSame
<1>4. SumOf(q, Brackets) = SumOf(q, live)
  BY <1>1, <1>2, SumOfPart
<1>5. SumOf(q, live) = Held - sold
  BY <1>2, <1>3, <1>4
<1> QED BY <1>5 DEF q, live

\* With one sale of the ticket, orders that fill whole and a process that goes on, for any
\* number of brackets of any number of shares and whatever answers are lost: what rests at
\* the broker and what was sold is never more than was held.
THEOREM NeverTwice == Spec => [](OneSale => NoneTwice)
<1>1. Types /\ Steady => (OneSale => NoneTwice)
  BY SoundNoneTwice DEF Steady, OneSale, NoneTwice, Uninterrupted
<1> QED BY <1>1, SteadyAlways, PTL

\* And then, once all is at rest, the brackets still live guard every share that is left, and
\* none that is not.
THEOREM LeftGuarded == Spec => [](OneSale => AllGuarded)
<1>1. Types /\ Steady => (OneSale => AllGuarded)
  BY SoundAllGuarded DEF Steady, OneSale, AllGuarded, Uninterrupted
<1> QED BY <1>1, SteadyAlways, PTL
===============================================================================
