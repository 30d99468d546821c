------------------------------ MODULE LotMatch ------------------------------
(***************************************************************************)
(* The match of one family of holdings: its rows walked in their order,    *)
(* each closing lots first in first out and opening one with what is left. *)
(* A match keeps, with what it found, what it needs to go on from later    *)
(* (walked) and what it held at each point where every holding was flat    *)
(* (cuts).                                                                 *)
(*                                                                         *)
(* A family here is one security in several accounts and contracts on it.  *)
(* Each record is one row.  Money is left out: a slice names the rows it   *)
(* opened and closed by and its units, which its money follows from.       *)
(***************************************************************************)
EXTENDS Integers, SequencesExt

CONSTANTS Shares, Contracts,   \* the holdings of the security, by account, and of its contracts
          Expiry,              \* the day each contract expires
          Worthless            \* those the security's close that day shows worthless

ASSUME LotMatchAssumption ==
  /\ Shares \cap Contracts = {}
  /\ Worthless \subseteq Contracts
  /\ Expiry \in [Contracts -> Nat]

Holds == Shares \cup Contracts

\* A day has ten instants and there are under a hundred rows; NoPlace is before every row, and no end.
NoPlace == 0
NoTrip  == 0

Acquires(t) == t.kind \in {"buy", "in"}

\* At one instant: what states it opens, what brings units in, what takes them out, what states it closes.
Rank(t) == IF t.effect = "open" THEN 0 ELSE IF t.effect = "close" THEN 3 ELSE IF Acquires(t) THEN 1 ELSE 2

Instant(t) == t.day * 10 + t.at
Place(t)   == (Instant(t) * 4 + Rank(t)) * 100 + t.id
DayOf(p)   == p \div 4000

InOrder(rows) == SetToSortSeq(rows, LAMBDA a, b : Place(a) < Place(b))

\* A row that moves nothing but cash.
PassesOver(t) == t.kind = "pay"

\* The transfers between the person's accounts with both sides in the record.
Links(rows) == {<<o.id, i.id>> : <<o, i>> \in {p \in rows \X rows : p[1].kind = "out" /\ p[1].link = p[2].id}}

-----------------------------------------------------------------------------
(* Lots.                                                                   *)

Units(lots, dir) == FoldLeft(LAMBDA n, l : IF l.dir = dir THEN n + l.qty ELSE n, 0, lots)
Net(lots) == Units(lots, "long") - Units(lots, "short")

Meets(m, h, dir) == \E i \in DOMAIN m.lots[h] : m.lots[h][i].dir = dir

Opposite(dir) == IF dir = "long" THEN "short" ELSE "long"

\* Mutant: a lot taken whole stays, empty.
TakeLotsKeepingEmpty(lots, dir, qty) ==
  FoldLeft(LAMBDA r, l :
      LET n == IF r.kept # <<>> \/ l.dir # dir THEN 0 ELSE IF l.qty < r.left THEN l.qty ELSE r.left
      IN  [taken |-> IF n > 0 THEN Append(r.taken, [l EXCEPT !.qty = n]) ELSE r.taken,
           kept  |-> Append(r.kept, [l EXCEPT !.qty = @ - n]),
           left  |-> r.left - n],
    [taken |-> <<>>, kept |-> <<>>, left |-> qty], lots)

\* Up to qty units of one side off the front: the lots taken, the lots kept, what was not there to take.
TakeLots(lots, dir, qty) ==
  FoldLeft(LAMBDA r, l :
      LET n == IF r.kept # <<>> \/ l.dir # dir THEN 0 ELSE IF l.qty < r.left THEN l.qty ELSE r.left
      IN  [taken |-> IF n > 0 THEN Append(r.taken, [l EXCEPT !.qty = n]) ELSE r.taken,
           kept  |-> IF n = l.qty THEN r.kept ELSE Append(r.kept, [l EXCEPT !.qty = @ - n]),
           left  |-> r.left - n],
    [taken |-> <<>>, kept |-> <<>>, left |-> qty], lots)

\* The holding's current round trips, cleared once none of their lots remain.
Settle(m, h) ==
  LET deposited == {m.lots[h][i].deposited : i \in DOMAIN m.lots[h]} IN
  [m EXCEPT !.trip[h]    = IF FALSE \in deposited THEN @ ELSE NoTrip,
            !.deposit[h] = IF TRUE \in deposited THEN @ ELSE NoTrip]

Dirty(m, h) == [m EXCEPT !.dirty = @ \cup {h}]
Taint(m, h, gaps) == [Dirty(m, h) EXCEPT !.taint[h] = @ \cup gaps]

\* A row the position contradicts is not applied: the holding waits on it.
Contradicts(m, t) == [Taint(m, t.hold, {t.id}) EXCEPT !.unapplied = @ \cup {t.id}]

\* Units taken beyond what was held: listed.
Beyond(m, t, left) == IF left = 0 THEN m ELSE [m EXCEPT !.beyond = @ \cup {<<t.id, left>>}]

\* Lots closed by a row, or by the contract's expiry: a slice of its round trip for each.
Close(m, h, dir, qty, closer) ==
  LET took == TakeLots(m.lots[h], dir, qty)
      slice(l) == [opened |-> l.by, closed |-> closer, hold |-> h, qty |-> l.qty, taint |-> m.taint[h]]
      trips == FoldLeft(LAMBDA ts, l :
                 [ts EXCEPT ![l.trip].slices = Append(@, slice(l)), ![l.trip].fills = (@ \cup {closer}) \ {0}],
                 m.trips, took.taken)
  IN  [m |-> Settle([Dirty(m, h) EXCEPT !.lots[h] = took.kept, !.trips = trips], h), left |-> took.left]

\* A lot opened: in the round trip given, else the holding's open one of its way, else one of its own.
Open(m, h, id, day, at, dir, qty, deposited, joins) ==
  LET slot == IF deposited THEN m.deposit[h] ELSE m.trip[h]
      current == IF slot # NoTrip /\ m.trips[slot].dir = dir THEN slot ELSE NoTrip
      key == IF joins # NoTrip THEN joins ELSE IF current # NoTrip THEN current ELSE id
      old == IF key \in DOMAIN m.trips THEN m.trips[key]
             ELSE [hold |-> h, dir |-> dir, slices |-> <<>>, fills |-> {}, openings |-> {}, moved |-> 0]
      trip == [old EXCEPT !.hold = h, !.openings = @ \cup {id}, !.fills = @ \cup {id}]
      lot == [trip |-> key, by |-> id, day |-> day, at |-> at, dir |-> dir, qty |-> qty, deposited |-> deposited]
      older(l) == l.day * 10 + l.at <= day * 10 + at
      newer(l) == ~older(l)
      put == SelectSeq(m.lots[h], older) \o <<lot>> \o SelectSeq(m.lots[h], newer)
  IN  [Dirty(m, h) EXCEPT
         !.lots[h] = put,
         !.trips = (key :> trip) @@ @,
         !.trip[h] = IF deposited \/ slot # NoTrip THEN @ ELSE key,
         !.deposit[h] = IF deposited /\ slot = NoTrip THEN key ELSE @,
         !.expiring = IF h \in Contracts THEN @ \cup {h} ELSE @]

-----------------------------------------------------------------------------
(* What each kind of row does.                                             *)

Closes(t) == IF Acquires(t) THEN "short" ELSE "long"

\* Whether what a row did not close opens a lot: as it states, else unless it sells a share.
MayOpen(t) == CASE t.effect = "close" -> FALSE [] t.effect = "open" -> TRUE [] OTHER -> t.hold \in Contracts \/ Acquires(t)

Marked(m, t, role) == IF role.closed \/ role.opened THEN [m EXCEPT !.roles = (t.id :> role) @@ @] ELSE m

\* Mutant: what opens is the whole row, not what is left of it.
OpenAll(m, t, left) ==
  IF left > 0 /\ MayOpen(t) THEN Open(m, t.hold, t.id, t.day, t.at, Opposite(Closes(t)), t.qty, FALSE, NoTrip)
  ELSE Beyond(m, t, left)

\* What is left of a row that has closed what it could.
OpenLeft(m, t, left) ==
  IF left > 0 /\ MayOpen(t) THEN Open(m, t.hold, t.id, t.day, t.at, Opposite(Closes(t)), left, FALSE, NoTrip)
  ELSE Beyond(m, t, left)

ThenOpen(done, t) ==
  LET role == [closed |-> done.left < t.qty, opened |-> done.left > 0 /\ MayOpen(t)]
  IN  OpenLeft(Marked(done.m, t, role), t, done.left)

Trade(m, t) ==
  IF \/ t.effect = "open" /\ Meets(m, t.hold, Closes(t))
     \/ t.effect = "close" /\ ~Meets(m, t.hold, Closes(t)) /\ Meets(m, t.hold, Opposite(Closes(t)))
  THEN Contradicts(m, t)
  ELSE ThenOpen(IF t.effect = "open" THEN [m |-> m, left |-> t.qty] ELSE Close(m, t.hold, Closes(t), t.qty, t.id), t)

\* A contract's own row says it expired.
Expired(m, t) ==
  IF ~Meets(m, t.hold, "long") /\ Meets(m, t.hold, "short") THEN Contradicts(m, t)
  ELSE LET done == Close(m, t.hold, "long", t.qty, t.id) IN Beyond(done.m, t, done.left)

MovedOut(m, lots) == [m EXCEPT !.trips = FoldLeft(LAMBDA ts, l : [ts EXCEPT ![l.trip].moved = @ + l.qty], @, lots)]

\* The whole of a holding moved: its lots keep their round trips, held elsewhere.
PlaceLots(m, h, lots) ==
  LET first(deposited) == SelectSeq(lots, LAMBDA l : l.deposited = deposited)
      slot(was, ls) == IF was # NoTrip \/ ls = <<>> THEN was ELSE ls[1].trip
  IN  [Dirty(m, h) EXCEPT
         !.lots[h] = SortSeq(@ \o lots, LAMBDA a, b : (a.day * 10 + a.at) * 100 + a.by < (b.day * 10 + b.at) * 100 + b.by),
         !.trips = FoldLeft(LAMBDA ts, l : [ts EXCEPT ![l.trip].hold = h], @, lots),
         !.trip[h] = slot(@, first(FALSE)),
         !.deposit[h] = slot(@, first(TRUE))]

Arrive(m, t) ==
  IF t.id \in m.linksIn THEN m ELSE Open(m, t.hold, t.id, t.day, t.at, "long", t.qty, TRUE, NoTrip)

\* The lots taken come to the other holding: all of it with their places, or each as a lot opened there.
Rehold(m, dest, to, took) ==
  IF took.kept = <<>> THEN PlaceLots(m, dest, took.taken)
  ELSE FoldLeft(LAMBDA n, l : Open(n, dest, to, l.day, l.at, l.dir, l.qty, l.deposited, to),
                MovedOut(m, took.taken), took.taken)

\* A move with both sides in the record: the other side is done with it, what was not held opened there.
Send(m, t, dest, to, took) ==
  LET sent == Taint([m EXCEPT !.consumed = @ \cup {to}], dest, m.taint[t.hold])
  IN  Rehold(IF took.left = 0 THEN sent ELSE Open(sent, dest, to, t.day, t.at, "long", took.left, FALSE, to),
             dest, to, took)

LeaveWith(m, t, rows, took) ==
  LET gone == Beyond(Settle([Dirty(m, t.hold) EXCEPT !.lots[t.hold] = took.kept], t.hold), t, took.left)
  IN  IF t.id \notin DOMAIN m.linksOut THEN MovedOut(gone, took.taken)
      ELSE Send(gone, t, (CHOOSE r \in rows : r.id = m.linksOut[t.id]).hold, m.linksOut[t.id], took)

\* Units leaving: for nowhere known, or with their lots to where the link says they arrived.
Leave(m, t, rows) == LeaveWith(m, t, rows, TakeLots(m.lots[t.hold], "long", t.qty))

Apply(m, t, rows) ==
  IF t.id \in m.consumed THEN m
  ELSE CASE t.kind \in {"buy", "sell"} -> Trade(m, t)
         [] t.kind = "expired" -> Expired(m, t)
         [] t.kind = "in" -> Arrive(m, t)
         [] t.kind = "out" -> Leave(m, t, rows)
         [] t.kind = "pay" -> m

-----------------------------------------------------------------------------
(* What the walk keeps as it goes.                                         *)

Latest(timeline) == IF DOMAIN timeline = {} THEN NoPlace ELSE Max(DOMAIN timeline)

\* The units of every holding touched, at the end of the day.
RecordUnits(m, day) ==
  [m EXCEPT
     !.units = [h \in Holds |->
        LET u == m.units[h] IN
        IF h \notin m.dirty \/ (DOMAIN u # {} /\ u[Latest(u)] = Net(m.lots[h])) THEN u
        ELSE (day :> Net(m.lots[h])) @@ u],
     !.open = (@ \ m.dirty) \cup {h \in m.dirty : m.lots[h] # <<>>},
     !.dirty = {}]

\* The contracts that expire on the day: closed at nothing where they expired worthless, else waiting on
\* the broker's row; one whose record has that row is left to it.
ExpireOn(m, day) ==
  LET due == {h \in m.expiring : Expiry[h] = day}
      held == {h \in due : m.lots[h] # <<>> /\ h \notin m.endedOnRecord}
      over(n, h) == FoldLeft(LAMBDA k, l : Close(k, h, l.dir, l.qty, 0).m, n, n.lots[h])
      ended == FoldSet(LAMBDA h, n : IF h \in Worthless THEN over(n, h) ELSE Taint(n, h, {"no_expiry_record"}), m, held)
  IN  RecordUnits([ended EXCEPT !.expiring = @ \ due, !.popped = @ \cup due, !.acted = @ \/ held # {},
                                !.dirty = @ \cup due], day)

\* Those past their expiry before the day, by their days.
ExpireBefore(m, day) ==
  FoldLeft(ExpireOn, m, SetToSortSeq({Expiry[h] : h \in m.expiring} \cap 0..(day - 1), LAMBDA a, b : a < b))

StretchEnds(m, t) ==
  LET last == Latest(m.stretches) IN
  IF ~PassesOver(t) /\ m.stretches[last] = NoPlace THEN [m EXCEPT !.stretches[last] = Place(t)] ELSE m

\* What the match holds where every holding is flat.
Cut(m, day) ==
  [day |-> day, expiring |-> m.expiring, consumed |-> m.consumed, linksOut |-> m.linksOut,
   linksIn |-> m.linksIn, endedOnRecord |-> m.endedOnRecord, taint |-> m.taint]

\* Mutant: a stretch begins whatever is still held.
StretchStartsHeld(m, t, next) ==
  IF PassesOver(t) \/ m.stretches[Latest(m.stretches)] = NoPlace THEN m
  ELSE [m EXCEPT !.stretches = (Place(t) :> NoPlace) @@ @,
                 !.cuts = IF next = t.day THEN @ ELSE (Place(t) :> Cut(m, t.day)) @@ @]

\* A stretch begins where a row left the family flat; a cut is kept there where no row follows on its day.
StretchStarts(m, t, next) ==
  IF PassesOver(t) \/ m.open # {} \/ m.stretches[Latest(m.stretches)] = NoPlace THEN m
  ELSE [m EXCEPT !.stretches = (Place(t) :> NoPlace) @@ @,
                 !.cuts = IF next = t.day THEN @ ELSE (Place(t) :> Cut(m, t.day)) @@ @]

\* A row in its turn; before it, if it states an open, the closes of its holding at its instant, sooner.
Turns(walk, i) ==
  LET t == walk[i]
      turn(r, sooner) == [row |-> r, sooner |-> sooner, next |-> IF i = Len(walk) THEN 0 ELSE walk[i + 1].day]
      first == SelectSeq(SubSeq(walk, i + 1, Len(walk)),
                 LAMBDA c : t.effect = "open" /\ Instant(c) = Instant(t) /\ c.effect = "close" /\ c.hold = t.hold)
  IN  [j \in DOMAIN first |-> turn(first[j], TRUE)] \o <<turn(t, FALSE)>>

\* Taken sooner, a row ends nothing: its day's units, and a stretch it may begin, wait for its turn.
InTurn(m, turn) ==
  IF turn.sooner THEN m ELSE StretchStarts(RecordUnits(m, turn.row.day), turn.row, turn.next)

\* A row walked: once, and sooner than its turn only where it meets a position to close.
WalkRow(m, turn, rows) ==
  LET t == turn.row
      late == t.id \in m.done \/ (turn.sooner /\ ~Meets(m, t.hold, Closes(t)))
      ended == StretchEnds([m EXCEPT !.done = IF turn.sooner THEN @ \cup {t.id} ELSE @], t)
      walked == Apply(ExpireBefore(ended, t.day), t, rows)
  IN  IF late THEN m ELSE InTurn(walked, turn)

\* The largest place walked, and the holdings of the stated opens at its instant.
Ends(m, t) ==
  LET last == IF Place(t) > m.last THEN Place(t) ELSE m.last
      opens == IF last # m.last /\ last \div 400 # m.last \div 400 THEN {} ELSE m.opens
  IN  [m EXCEPT !.last = last,
                !.opens = IF t.effect = "open" /\ Instant(t) = last \div 400 THEN opens \cup {t.hold} ELSE opens]

Walk(m, added, rows) ==
  LET walk == InOrder(added)
      turns == FlattenSeq([i \in DOMAIN walk |-> Turns(walk, i)])
  IN  [FoldLeft(LAMBDA n, turn : WalkRow(n, turn, rows), FoldLeft(Ends, m, walk), turns) EXCEPT !.done = {}]

\* What rows set up before they are walked.
SetUp(m, added, rows) ==
  LET ids == {t.id : t \in added}
      out == {l \in Links(rows) : l[1] \in ids}
  IN  [m EXCEPT !.linksOut = [o \in {l[1] : l \in out} |-> (CHOOSE l \in out : l[1] = o)[2]] @@ @,
                !.linksIn = @ \cup {l[2] : l \in {k \in Links(rows) : k[2] \in ids}},
                !.endedOnRecord = @ \cup {t.hold : t \in {r \in added : r.kind = "expired"}}]

\* The contracts expired up to today, after the rows: put back before the match is gone on with.
UpToToday(m, today) ==
  LET end == ExpireBefore([m EXCEPT !.popped = {}, !.acted = FALSE], today)
  IN  [end EXCEPT !.quiet = ~end.acted, !.acted = FALSE]

Nothing == [h \in {} |-> h]

Empty ==
  [lots |-> [h \in Holds |-> <<>>], trip |-> [h \in Holds |-> NoTrip], deposit |-> [h \in Holds |-> NoTrip],
   taint |-> [h \in Holds |-> {}], units |-> [h \in Holds |-> Nothing], trips |-> Nothing, roles |-> Nothing,
   beyond |-> {}, unapplied |-> {},
   expiring |-> {}, consumed |-> {}, linksOut |-> Nothing, linksIn |-> {}, endedOnRecord |-> {},
   open |-> {}, stretches |-> NoPlace :> NoPlace, cuts |-> Nothing, last |-> NoPlace, opens |-> {},
   popped |-> {}, quiet |-> TRUE, acted |-> FALSE, dirty |-> {}, done |-> {}]

\* Every row of the family, from its first.
Whole(rows, today) == UpToToday(Walk(SetUp(Empty, rows, rows), rows, rows), today)
=============================================================================
