--------------------------- MODULE MCFamilyMatch ----------------------------
(***************************************************************************)
(* Records of a few rows on a security in two accounts and a contract on   *)
(* it: what each row may be, one per place.                                *)
(***************************************************************************)
EXTENDS FamilyMatch

CONSTANTS s1, s2, c1, c2, c3

\* Two contracts that expire on day 3, and one no day of a run comes to.
Expiries == [c \in {c1, c2, c3} |-> IF c = c3 THEN Days + 2 ELSE 3]

Row(id, day, at, kind, hold, qty) ==
  [id |-> id, day |-> day, at |-> at, kind |-> kind, hold |-> hold, effect |-> "none", qty |-> qty, link |-> 0]
Stated(t, effect) == [t EXCEPT !.effect = effect]
Linked(t, id)     == [t EXCEPT !.link = id]

Buy(id, day, at, h, n)  == Row(id, day, at, "buy", h, n)
Sell(id, day, at, h, n) == Row(id, day, at, "sell", h, n)

\* A holding flat from day 2 to day 4, and what may be added in that stretch, on its ends and after it.
Trips ==
  {{Buy(1, 1, 0, s1, 2), Sell(2, 2, 0, s1, 2), Buy(3, 4, 0, s1, 1), a, b} :
     a \in {Sell(4, 5, 0, s1, 1), Buy(4, 2, 1, s2, 1), Sell(4, 1, 1, s1, 3), Row(4, 2, 1, "pay", s1, 0),
            Row(4, 4, 1, "pay", s1, 0)},
     b \in {Buy(5, 3, 0, s1, 2), Sell(5, 5, 1, s1, 1), Row(5, 4, 2, "in", s2, 1), Row(5, 3, 1, "out", s1, 1)}}

\* A round trip that may be placed between others, and a sale of more than is held.
Placed ==
  {{Buy(1, 1, 0, s1, 1), Sell(2, 2, 0, s1, n), Buy(3, 3, 0, s2, 1), Sell(4, 3, 1, s2, 1), a, Sell(6, 5, 0, s1, 1)} :
     n \in {1, 2}, a \in {Buy(5, 4, 0, s2, 1), Sell(5, 4, 0, s2, 2), Buy(5, 3, 2, c1, 1)}}

\* Contracts sold short and bought back or left to expire, by the broker's row or by none, and the security.
Options ==
  {{Sell(1, 1, 0, c, 2), Buy(2, d, 0, c, 1), a, Buy(4, 5, 0, s1, 1)} :
     c \in {c1, c2}, d \in {2, 3},
     a \in {Buy(3, 3, 1, c1, 1), Row(3, 4, 1, "expired", c1, 1), Buy(3, 2, 1, c2, 3), Sell(3, 3, 2, c1, 1)}}

Bought ==
  {{Buy(1, 1, 0, c, 2), Sell(2, d, 0, c, 1), Row(3, 5, 1, "expired", c1, n), Buy(4, e, 0, s1, 1)} :
     c \in {c1, c2}, d \in {2, 3}, n \in {1, 3}, e \in {2, 4}}

\* Stated opens and closes, several at one instant.
Effects ==
  {{Stated(Buy(1, 1, 0, c1, 1), "open"), Stated(Sell(2, 2, 0, c1, 1), "close"),
    Stated(Sell(3, 2, 0, c1, n), e), Stated(Buy(4, d, 0, c1, 1), "close")} :
     e \in {"open", "close"}, d \in {2, 3}, n \in {1, 2}}

\* A roll at one instant: the position sold to close, and another sold to open.
Rolls ==
  {{Stated(Buy(1, 1, 0, c3, 1), "open"), Stated(Sell(2, 2, 0, c3, n), "open"), Stated(Sell(3, 2, 0, c3, 1), "close"),
    Stated(Buy(4, 4, 0, c3, 1), "close"), Buy(5, d, 1, s1, 1)} :
     n \in {1, 2}, d \in {2, 4}}

\* Units moved between the person's accounts, wholly or in part, and units brought from elsewhere.
Moves ==
  {{Buy(1, 1, 0, s1, 2), Linked(Row(2, 2, 0, "out", s1, n), 3), Linked(Row(3, 2, 1, "in", s2, n), 2),
    a, Sell(5, 4, 0, s2, 1)} :
     n \in {1, 2, 3},
     a \in {Buy(4, 1, 1, s2, 1), Row(4, 3, 0, "in", s2, 1), Sell(4, 3, 0, s1, 1), Row(4, 1, 0, "in", s1, 1)}}

\* A round trip, a move after it, and a buy between them: walked from the cut at the trip's end.
Between ==
  {{Buy(1, 1, 0, s1, 1), Sell(2, 2, 0, s1, 1), Buy(3, 3, 0, s1, 1), Linked(Row(4, 4, 0, "out", s1, 1), 5),
    Linked(Row(5, 4, 1, "in", s2, 1), 4)}}

\* Four rows on four places, each any of the commonest.
Common ==
  LET may(id, day, at) == {Buy(id, day, at, s1, 1), Sell(id, day, at, s1, 2), Buy(id, day, at, s2, 2),
                           Sell(id, day, at, s2, 1)}
  IN  {{a, b, c, d} : a \in may(1, 1, 0), b \in may(2, 2, 0), c \in may(3, 3, 0), d \in may(4, 3, 1)}

AllRecords == UNION {Common, Trips, Placed, Options, Bought, Effects, Rolls, Moves, Between}
=============================================================================
