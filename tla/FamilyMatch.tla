---------------------------- MODULE FamilyMatch -----------------------------
(***************************************************************************)
(* The engine keeps the match of a family as the record changes.  Rows     *)
(* added after everything it matched are walked on from what it keeps;     *)
(* rows added in the past are placed inside a stretch the family was flat  *)
(* in, or the family is walked on from the cut before them; anything else  *)
(* has it matched whole.  Whichever way, what it keeps is to be what a     *)
(* whole match of the same rows would leave.                               *)
(***************************************************************************)
EXTENDS LotMatch

CONSTANTS Records,      \* the sets of rows a record may come to hold
          Batch,        \* rows a change adds at most
          Days, From,   \* the days; the first of them that may be today
          LateLinks     \* a linked transfer may be added once there are cuts

ASSUME FamilyMatchAssumption ==
  /\ Batch \in Nat \ {0}
  /\ Days \in Nat /\ From \in 1..Days
  /\ LateLinks \in BOOLEAN

VARIABLES record,     \* every row the person's record will come to hold
          rows,       \* those it holds
          today,
          kept        \* the family's match as it stands

vars == <<record, rows, today, kept>>

-----------------------------------------------------------------------------
(* The three ways on from a kept match.                                    *)

\* Mutant: a cut on the day the rows start is kept.
ContinueKeepingCuts(m, added, all) ==
  UpToToday(Walk(SetUp([m EXCEPT !.expiring = @ \cup m.popped], added, all), added, all), today)

\* After everything it matched: with the contracts' calendar as it stood before today's expiry.
Continue(m, added, all) ==
  LET first == Min({t.day : t \in added})
      clean == {c \in DOMAIN m.cuts : DayOf(c) < first}
      from == [m EXCEPT !.expiring = @ \cup m.popped, !.cuts = [c \in clean |-> m.cuts[c]]]
  IN  UpToToday(Walk(SetUp(from, added, all), added, all), today)

UpTo(f, S) == [x \in S |-> f[x]]

\* On from a cut: what was written after its day is taken out, and the rows after it walked again.
FromCut(m, added, all, cut) ==
  LET c == m.cuts[cut]
      after == {t \in all : t.day > c.day}
      later == {t.id : t \in after}
      byDay(p) == \A t \in after : t.id # p
      from ==
        [m EXCEPT
           !.lots = Empty.lots, !.trip = Empty.trip, !.deposit = Empty.deposit, !.taint = c.taint,
           !.units = [h \in Holds |-> UpTo(@[h], {d \in DOMAIN @[h] : d <= c.day})],
           !.trips = UpTo(@, {k \in DOMAIN @ : byDay(k)}),
           !.roles = UpTo(@, DOMAIN @ \ later),
           !.beyond = {b \in @ : b[1] \notin later},
           !.unapplied = @ \ later,
           !.expiring = c.expiring, !.consumed = c.consumed, !.linksOut = c.linksOut,
           !.linksIn = c.linksIn, !.endedOnRecord = c.endedOnRecord,
           !.stretches = (cut :> NoPlace) @@ UpTo(@, {s \in DOMAIN @ : s < cut}),
           !.cuts = UpTo(@, {k \in DOMAIN @ : k <= cut}),
           !.open = {}, !.last = NoPlace, !.opens = {}]
  IN  UpToToday(Walk(SetUp(from, added, all), after, all), today)

\* The day a holding the rows move last had its units counted, before them.
StoodSince(m, added, h) ==
  LET by == {d \in DOMAIN m.units[h] : \A t \in added : d <= t.day}
  IN  IF by = {} \/ \A t \in added : t.hold # h THEN {} ELSE {Max(by)}

\* Alone, from no lots, with the units as they stood.
Alone(m, added, all, start) ==
  LET from == [Empty EXCEPT !.units = [h \in Holds |-> UpTo(m.units[h], StoodSince(m, added, h))],
                            !.stretches = start :> NoPlace]
  IN  Walk(SetUp(from, added, all), added, all)

\* It wrote nothing but round trips and their units, and left the family as it found it.
LeftFlat(w) ==
  /\ w.beyond = {} /\ w.unapplied = {} /\ w.consumed = {} /\ w.expiring = {} /\ w.open = {}
  /\ \A h \in Holds : w.lots[h] = <<>> /\ w.taint[h] = {}
  /\ w.stretches[Latest(w.stretches)] = NoPlace

\* Inside the flat stretch from start: nothing else is walked, and the stretch is split.
PlaceInside(m, added, w, start) ==
  [m EXCEPT
     !.units = [h \in Holds |-> UpTo(w.units[h], DOMAIN w.units[h] \ StoodSince(m, added, h)) @@ @[h]],
     !.trips = w.trips @@ @,
     !.roles = w.roles @@ @,
     !.stretches = (Latest(w.stretches) :> m.stretches[start]) @@ w.stretches @@ UpTo(@, DOMAIN @ \ {start}),
     !.cuts = UpTo(@, {k \in DOMAIN @ : start # NoPlace /\ k <= start})]

-----------------------------------------------------------------------------
(* Which way a change takes.                                               *)

Untainted(m) == \A h \in Holds : m.taint[h] = {}

\* Strictly between the days a flat stretch starts and ends: the stretch's start.
StretchOf(m, t) == Max({s \in DOMAIN m.stretches : s <= Place(t)})

Placeable(m, t) ==
  LET start == StretchOf(m, t)
      end == m.stretches[start]
  IN  /\ t.hold \in Shares
      /\ Untainted(m)
      /\ start = NoPlace \/ DayOf(start) < t.day
      /\ end = NoPlace \/ DayOf(end) > t.day

CutsBefore(m, t) == {c \in DOMAIN m.cuts : DayOf(c) < t.day}

\* Before what the family matched.
Back(m, t) == ~PassesOver(t) /\ Place(t) <= m.last

\* Mutant: a close at the instant of an open walked already is walked after it.
NeedsWholeNoLookBack(m, t, added) ==
  \/ t.kind = "expired"
  \/ \E l \in Links(rows \cup added) : t.id \in {l[1], l[2]} /\ \E r \in rows : r.id \in {l[1], l[2]}
  \/ rows = {}
  \/ ~m.quiet
  \/ Back(m, t) /\ ~Placeable(m, t) /\ CutsBefore(m, t) = {}

\* A row the family is matched whole for: it decides how an earlier row ends, its transfer's other side
\* was there already, the family has nothing to go on from, nothing flat is before it, or it closes at the
\* instant of an open walked already, which it may go before.
NeedsWhole(m, t, added) ==
  \/ t.kind = "expired"
  \/ \E l \in Links(rows \cup added) : t.id \in {l[1], l[2]} /\ \E r \in rows : r.id \in {l[1], l[2]}
  \/ rows = {}
  \/ ~m.quiet
  \/ Back(m, t) /\ ~Placeable(m, t) /\ CutsBefore(m, t) = {}
  \/ ~Back(m, t) /\ Instant(t) = m.last \div 400 /\ t.effect = "close" /\ t.hold \in m.opens

Way(m, added) ==
  LET back == {t \in added : Back(m, t)}
      starts == {StretchOf(m, t) : t \in back}
      cuts == {Max(CutsBefore(m, t)) : t \in back}
      cut == IF \E t \in back : CutsBefore(m, t) = {} THEN NoPlace ELSE Min(cuts)
  IN  CASE \E t \in added : NeedsWhole(m, t, added) -> [way |-> "whole", start |-> NoPlace, cut |-> NoPlace]
        [] back = {} -> [way |-> "continue", start |-> NoPlace, cut |-> NoPlace]
        [] back = added /\ Cardinality(starts) = 1 /\ (\A t \in back : Placeable(m, t)) ->
             [way |-> "place", start |-> Max(starts), cut |-> cut]
        [] OTHER -> [way |-> IF cut = NoPlace THEN "whole" ELSE "cut", start |-> NoPlace, cut |-> cut]

-----------------------------------------------------------------------------
(* The changes.                                                            *)

\* A linked transfer added where a cut is kept, and the other rows with it.
Late(added) == kept.cuts # Nothing /\ \E t \in added : t.link # 0

Init ==
  /\ record \in Records
  /\ rows = {}
  /\ today = From
  /\ kept = Whole({}, today)

Add(added) ==
  /\ added # {} /\ Cardinality(added) <= Batch
  /\ LateLinks \/ ~Late(added)
  /\ rows' = rows \cup added
  /\ UNCHANGED <<record, today>>

AddContinued(added) ==
  /\ Add(added)
  /\ Way(kept, added).way = "continue"
  /\ kept' = Continue(kept, added, rows')

AddPlaced(added) ==
  LET way == Way(kept, added) IN
  /\ Add(added)
  /\ way.way = "place"
  /\ \E alone \in {Alone(kept, added, rows', way.start)} :
       LeftFlat(alone) /\ kept' = PlaceInside(kept, added, alone, way.start)

\* Rows no stretch takes, and rows that left their stretch otherwise than flat.
AddFromCut(added) ==
  LET way == Way(kept, added) IN
  /\ Add(added)
  /\ way.cut # NoPlace
  /\ way.way = "cut" \/ (way.way = "place" /\ ~LeftFlat(Alone(kept, added, rows', way.start)))
  /\ kept' = FromCut(kept, added, rows', way.cut)

AddWhole(added) ==
  LET way == Way(kept, added) IN
  /\ Add(added)
  /\ \/ way.way = "whole"
     \/ way.way = "place" /\ way.cut = NoPlace /\ ~LeftFlat(Alone(kept, added, rows', way.start))
  /\ kept' = Whole(rows', today)

\* A record revised or removed.
Revise(t) ==
  /\ rows' = rows \ {t}
  /\ kept' = Whole(rows', today)
  /\ UNCHANGED <<record, today>>

\* The day turned: any contract's expiry.
Turn ==
  /\ today < Days
  /\ today' = today + 1
  /\ kept' = Whole(rows, today')
  /\ UNCHANGED <<record, rows>>

Next ==
  \/ \E added \in SUBSET (record \ rows) :
       AddContinued(added) \/ AddPlaced(added) \/ AddFromCut(added) \/ AddWhole(added)
  \/ \E t \in rows : Revise(t)
  \/ Turn

Spec == Init /\ [][Next]_vars

-----------------------------------------------------------------------------

TypeOK ==
  /\ record \in Records /\ rows \subseteq record /\ today \in From..Days
  /\ \A h \in Holds : /\ \A i \in DOMAIN kept.lots[h] : kept.lots[h][i].qty > 0
                      /\ DOMAIN kept.units[h] \subseteq 1..Days
                      /\ kept.trip[h] \in DOMAIN kept.trips \cup {NoTrip}
  /\ kept.dirty = {} /\ kept.done = {}
  /\ DOMAIN kept.cuts \subseteq DOMAIN kept.stretches

\* The units a timeline says a holding held at the end of a day.
UnitsOn(timeline, day) ==
  LET by == {d \in DOMAIN timeline : d <= day} IN IF by = {} THEN 0 ELSE timeline[Max(by)]

Same(a, b) ==
  /\ [a EXCEPT !.units = 0, !.cuts = 0] = [b EXCEPT !.units = 0, !.cuts = 0]
  /\ \A h \in Holds, d \in 1..Days : UnitsOn(a.units[h], d) = UnitsOn(b.units[h], d)

\* Whichever way the rows came, in whatever order, the match is the whole match of them.
SameAsWhole == Same(kept, Whole(rows, today))

\* Every cut kept still stands: walked on from it, the rows after it match as they did.
CutsHold ==
  \A c \in DOMAIN kept.cuts :
     (\E t \in rows : t.day > DayOf(c)) => Same(FromCut(kept, {}, rows, c), kept)

\* A stretch is flat: no holding holds anything on a day strictly inside it.
StretchesAreFlat ==
  \A s \in DOMAIN kept.stretches, d \in 1..Days :
     /\ s # NoPlace => d > DayOf(s)
     /\ kept.stretches[s] # NoPlace => d < DayOf(kept.stretches[s])
     /\ d < today
     => \A h \in Holds : UnitsOn(kept.units[h], d) = 0

\* What a row moved: its units, but those beyond what was held, one way or the other.
Moved(t) ==
  LET beyond == {b[2] : b \in {x \in kept.beyond : x[1] = t.id}}
      n == IF beyond = {} THEN t.qty ELSE t.qty - Max(beyond)
  IN  IF t.id \in kept.unapplied \/ t.kind = "pay" THEN 0 ELSE IF Acquires(t) THEN n ELSE -n

\* What expired with no row: what a round trip's slices closed by the expiry say.
Lapsed(trip) ==
  FoldLeft(LAMBDA n, s : IF s.closed # 0 THEN n ELSE IF trip.dir = "long" THEN n - s.qty ELSE n + s.qty, 0, trip.slices)

\* Nothing is made up and nothing lost: what is held is what the rows brought in, less what left.
UnitsAddUp ==
  FoldSet(LAMBDA h, n : n + Net(kept.lots[h]), 0, Holds)
    = FoldSet(LAMBDA k, n : n + Lapsed(kept.trips[k]), FoldSet(LAMBDA t, n : n + Moved(t), 0, rows), DOMAIN kept.trips)
=============================================================================
