----------------------------- MODULE PagesProofs -----------------------------
(***************************************************************************)
(* What a page and its stream guarantee, for any writers, filters, commits,*)
(* faults and changes of the filters: the types, the log never counting    *)
(* more than was committed; and, where the filters are not changed while   *)
(* the page is owed an answer and a stream the browser opens again names   *)
(* what the page shows, that the version the page says it holds is the     *)
(* version of what it shows.                                               *)
(***************************************************************************)
EXTENDS Pages, FiniteSetTheorems, TLAPS

USE FiguresAssumption

------------------------------------------------------------------------------
(* The figures and their log. *)

Writer_ == [at : {"idle", "committed", "applied", "counted"}, moved : SUBSET Moves]

\* The writers whose commit is not counted yet.
Busy == {w \in Writers : writer[w].at \in {"committed", "applied"}}

\* Every change counted is of a commit of its own.
Counted == IsFiniteSet(Busy) /\ version + Cardinality(Busy) <= Len(store)

FInv == FiguresTypeOK /\ Counted

\* The types as one.
FShapes ==
  /\ store \in Seq(Moves) /\ Len(store) \in Nat /\ Len(store) <= Changes
  /\ engine \in 0..Len(store) /\ version \in Nat
  /\ log \in Seq(SUBSET Moves) /\ Len(log) <= Logged
  /\ writer \in [Writers -> Writer_] /\ rung \in BOOLEAN

\* The two forms of the figures' types say the same, where what is counted was committed.
LEMMA FShapesAre == (FInv => FShapes) /\ (FShapes' /\ Counted' => FInv')
<1>1. FInv => FShapes
  BY DEF FInv, FiguresTypeOK, FShapes, Writer_
<1>2. ASSUME FShapes', Counted' PROVE version' <= Len(store')
  <2>1. Cardinality(Busy') \in Nat /\ version' \in Nat /\ Len(store') \in Nat
    BY <1>2, FS_CardinalityType DEF Counted, FShapes
  <2> QED BY <1>2, <2>1 DEF Counted
<1>3. ASSUME FShapes', Counted' PROVE FInv'
  <2>1. version' \in 0..Len(store') /\ engine' \in 0..Len(store')
    BY <1>2, <1>3 DEF FShapes
  <2> QED BY <1>3, <2>1 DEF FInv, FiguresTypeOK, FShapes, Writer_
<1> QED BY <1>1, <1>3

\* Before anything is committed.
LEMMA FiguresStart == FiguresInit => FInv
<1> SUFFICES ASSUME FiguresInit PROVE FInv
  OBVIOUS
<1>1. Busy = {}
  BY DEF FiguresInit, Busy
<1>2. Counted
  BY <1>1, FS_EmptySet DEF FiguresInit, Counted
<1>3. FiguresTypeOK
  <2>1. store \in Seq(Moves) /\ Len(store) = 0 /\ log \in Seq(SUBSET Moves) /\ Len(log) = 0
    BY DEF FiguresInit
  <2>2. Changes \in Nat /\ Logged \in Nat
    OBVIOUS
  <2>3. engine \in 0..Len(store) /\ version \in 0..Len(store) /\ Len(store) <= Changes /\ Len(log) <= Logged
    BY <2>1, <2>2 DEF FiguresInit
  <2>4. [at |-> "idle", moved |-> {}] \in Writer_
    BY DEF Writer_
  <2>5. writer \in [Writers -> Writer_] /\ rung \in BOOLEAN
    BY <2>4 DEF FiguresInit
  <2> QED BY <2>1, <2>3, <2>5 DEF FiguresTypeOK, Writer_
<1> QED BY <1>2, <1>3 DEF FInv

\* Where a writer goes.
LEMMA WriterMoves ==
  ASSUME FInv, NEW w \in Writers, NEW at \in {"idle", "committed", "applied", "counted"},
         NEW moved \in SUBSET Moves, To(w, at, moved)
  PROVE  /\ writer' \in [Writers -> Writer_]
         /\ at \in {"committed", "applied"} => Busy' = Busy \cup {w}
         /\ at \notin {"committed", "applied"} => Busy' = Busy \ {w}
<1>1. writer \in [Writers -> Writer_] /\ writer' = [writer EXCEPT ![w] = [at |-> at, moved |-> moved]]
  BY FShapesAre DEF FShapes, To
<1>2. [at |-> at, moved |-> moved] \in Writer_
  BY DEF Writer_
<1>3. writer' \in [Writers -> Writer_] /\ writer'[w].at = at /\ \A v \in Writers \ {w} : writer'[v] = writer[v]
  BY <1>1, <1>2
<1> QED BY <1>3 DEF Busy

\* A commit, its taking, its counting and its saying keep the log sound; what is said only grows.
LEMMA FiguresStep ==
  ASSUME FInv, NEW w \in Writers, Commit(w) \/ CatchUp(w) \/ Count(w) \/ Say(w)
  PROVE  /\ FInv' /\ version <= version' /\ version \in Nat /\ version' \in Nat
         /\ engine <= engine' /\ engine \in Nat /\ engine' \in Nat /\ engine <= Len(store) /\ engine' <= Len(store')
         /\ store' = store \/ \E m \in Moves : store' = Append(store, m)
<1>1. FShapes /\ IsFiniteSet(Busy) /\ Cardinality(Busy) \in Nat /\ version + Cardinality(Busy) <= Len(store)
  BY FShapesAre, FS_CardinalityType DEF FInv, Counted
<1>2. /\ IsFiniteSet(Busy \cup {w}) /\ IsFiniteSet(Busy \ {w})
      /\ Cardinality(Busy \cup {w}) = IF w \in Busy THEN Cardinality(Busy) ELSE Cardinality(Busy) + 1
      /\ Cardinality(Busy \ {w}) = IF w \in Busy THEN Cardinality(Busy) - 1 ELSE Cardinality(Busy)
  BY <1>1, FS_AddElement, FS_RemoveElement
<1>3. CASE Commit(w)
  <2>1. PICK m \in Moves : store' = Append(store, m)
    BY <1>3 DEF Commit
  <2>2. To(w, "committed", {}) /\ Len(store) < Changes /\ rung' = TRUE /\ UNCHANGED <<engine, version, log>>
    BY <1>3 DEF Commit
  <2>3. writer' \in [Writers -> Writer_] /\ Busy' = Busy \cup {w}
    BY <2>2, WriterMoves
  <2>4. store' \in Seq(Moves) /\ Len(store') = Len(store) + 1
    BY <1>1, <2>1 DEF FShapes
  <2>5. FShapes'
    BY <1>1, <2>2, <2>3, <2>4 DEF FShapes
  <2>6. Counted'
    <3>1. Cardinality(Busy') <= Cardinality(Busy) + 1 /\ Cardinality(Busy') \in Nat
      BY <1>1, <1>2, <2>3
    <3> QED BY <1>1, <1>2, <2>2, <2>3, <2>4, <3>1 DEF Counted, FShapes
  <2> QED BY <1>1, <2>1, <2>2, <2>4, <2>5, <2>6, FShapesAre DEF FShapes
<1>4. CASE CatchUp(w)
  <2> DEFINE moved == {store[i] : i \in (engine + 1)..Len(store)}
  <2>1. /\ writer[w].at = "committed" /\ To(w, "applied", moved) /\ engine' = Len(store)
        /\ UNCHANGED <<store, version, log, rung>>
    BY <1>4 DEF CatchUp
  <2>2. moved \in SUBSET Moves
    BY <1>1 DEF FShapes
  <2>3. writer' \in [Writers -> Writer_] /\ Busy' = Busy \cup {w} /\ w \in Busy
    BY <2>1, <2>2, WriterMoves DEF Busy
  <2>4. Busy' = Busy
    BY <2>3
  <2>5. engine' = Len(store') /\ engine \in 0..Len(store) /\ Len(store) \in Nat
    BY <1>1, <2>1 DEF FShapes
  <2>6. engine' \in 0..Len(store') /\ engine <= engine'
    BY <2>1, <2>5
  <2>7. FShapes'
    BY <1>1, <2>1, <2>3, <2>6 DEF FShapes
  <2>8. Counted'
    BY <1>1, <2>1, <2>4 DEF Counted
  <2>9. FInv' /\ store' = store
    BY <2>1, <2>7, <2>8, FShapesAre
  <2>10. version <= version' /\ version \in Nat /\ version' \in Nat
    BY <1>1, <2>1 DEF FShapes
  <2> QED BY <2>5, <2>6, <2>9, <2>10
<1>5. CASE Count(w)
  <2> DEFINE moved == writer[w].moved
             longer == Append(log, moved)
  <2>1. PICK at \in {"idle", "counted"} : To(w, at, {})
    BY <1>5 DEF Count
  <2>2. /\ writer[w].at = "applied" /\ UNCHANGED <<store, engine, rung>>
        /\ \/ UNCHANGED <<version, log>>
           \/ version' = version + 1 /\ log' = IF Len(longer) > Logged THEN Tail(longer) ELSE longer
    BY <1>5 DEF Count
  <2>3. writer' \in [Writers -> Writer_] /\ Busy' = Busy \ {w} /\ w \in Busy
    BY <2>1, <2>2, WriterMoves DEF Busy
  <2>4. moved \in SUBSET Moves
    BY <1>1 DEF FShapes, Writer_
  <2>5. log' \in Seq(SUBSET Moves) /\ Len(log') <= Logged
    <3>1. log \in Seq(SUBSET Moves) /\ Len(log) <= Logged /\ Len(log) \in Nat /\ Logged \in Nat
      BY <1>1 DEF FShapes
    <3> HIDE DEF moved
    <3>2. longer \in Seq(SUBSET Moves) /\ Len(longer) = Len(log) + 1 /\ longer # <<>>
      BY <2>4, <3>1
    <3> HIDE DEF longer
    <3>3. Tail(longer) \in Seq(SUBSET Moves) /\ Len(Tail(longer)) = Len(log)
      BY <3>1, <3>2
    <3>4. CASE log' = log
      BY <3>1, <3>4
    <3>5. CASE log' = IF Len(longer) > Logged THEN Tail(longer) ELSE longer
      BY <3>1, <3>2, <3>3, <3>5
    <3> QED BY <2>2, <3>4, <3>5
  <2>6. version' \in {version, version + 1} /\ version \in Nat
    BY <1>1, <2>2 DEF FShapes
  <2>7. FShapes'
    BY <1>1, <2>2, <2>3, <2>5, <2>6 DEF FShapes
  <2>8. Cardinality(Busy') = Cardinality(Busy) - 1 /\ IsFiniteSet(Busy')
    BY <1>2, <2>3
  <2>9. Counted'
    BY <1>1, <2>2, <2>6, <2>8 DEF Counted, FShapes
  <2> QED BY <1>1, <2>2, <2>6, <2>7, <2>9, FShapesAre DEF FShapes
<1>6. CASE Say(w)
  <2>1. writer[w].at = "counted" /\ To(w, "idle", {}) /\ rung' = TRUE /\ UNCHANGED <<store, engine, version, log>>
    BY <1>6 DEF Say
  <2>2. writer' \in [Writers -> Writer_] /\ Busy' = Busy \ {w} /\ w \notin Busy
    BY <2>1, WriterMoves DEF Busy
  <2>3. Busy' = Busy
    BY <2>2
  <2>4. FShapes' /\ Counted'
    BY <1>1, <2>1, <2>2, <2>3 DEF FShapes, Counted
  <2> QED BY <1>1, <2>1, <2>4, FShapesAre DEF FShapes
<1> QED BY <1>3, <1>4, <1>5, <1>6

\* What the documents say of the figures is bounded, and never falls.
LEMMA SaidBound ==
  ASSUME FInv
  PROVE  Said(engine) \in 0..Changes
<1> DEFINE S == {i \in 1..engine : store[i] # "other"}
<1>1. engine \in Nat /\ engine <= Changes
  BY FShapesAre DEF FShapes
<1>2. IsFiniteSet(1..engine) /\ Cardinality(1..engine) = engine
  <2>1. engine \in Int /\ 1 \in Int
    BY <1>1
  <2>2. IsFiniteSet(1..engine) /\ Cardinality(1..engine) = IF 1 > engine THEN 0 ELSE engine - 1 + 1
    BY <2>1, FS_Interval
  <2> QED BY <1>1, <2>2
<1>3. IsFiniteSet(S) /\ Cardinality(S) <= engine
  BY <1>2, FS_Subset
<1>4. Cardinality(S) \in Nat
  BY <1>3, FS_CardinalityType
<1> HIDE DEF S
<1>5. Cardinality(S) \in 0..Changes
  BY <1>1, <1>3, <1>4
<1> QED BY <1>5 DEF Said, S

\* A longer log of commits, more of it taken: nothing that was said is unsaid.
LEMMA SaidGrows ==
  ASSUME FInv, engine' \in Nat, engine <= engine', engine' <= Len(store'),
         store' = store \/ \E m \in Moves : store' = Append(store, m)
  PROVE  Said(engine) <= Said(engine)' /\ Said(engine)' \in Nat
<1> DEFINE S == {i \in 1..engine : store[i] # "other"}
           T == {i \in 1..engine' : store'[i] # "other"}
<1>1. store \in Seq(Moves) /\ engine \in Nat /\ engine <= Len(store)
  BY FShapesAre DEF FShapes
<1>2. ASSUME NEW i \in 1..engine
      PROVE  store'[i] = store[i] /\ i \in 1..engine'
  <2>1. i \in 1..Len(store) /\ i \in 1..engine'
    BY <1>1
  <2>2. ASSUME NEW m \in Moves, store' = Append(store, m) PROVE store'[i] = store[i]
    BY <1>1, <2>1, <2>2
  <2> QED BY <2>1, <2>2
<1>3. S \subseteq T
  BY <1>2
<1>4. IsFiniteSet(T)
  <2>1. engine' \in Int /\ 1 \in Int
    OBVIOUS
  <2>2. IsFiniteSet(1..engine')
    BY <2>1, FS_Interval
  <2>3. T \subseteq 1..engine'
    OBVIOUS
  <2> QED BY <2>2, <2>3, FS_Subset
<1>5. Cardinality(S) <= Cardinality(T)
  BY <1>3, <1>4, FS_Subset
<1>6. Cardinality(T) \in Nat
  BY <1>4, FS_CardinalityType
<1> QED BY <1>5, <1>6 DEF Said

\* The bell, and nothing else of the figures.
LEMMA FiguresStill ==
  ASSUME FInv, UNCHANGED <<store, engine, version, log, writer>>, rung' \in BOOLEAN
  PROVE  FInv' /\ Said(engine)' = Said(engine)
<1>1. Counted'
  BY DEF FInv, Counted, Busy
<1>2. FShapes'
  BY FShapesAre DEF FShapes
<1> QED BY <1>1, <1>2, FShapesAre DEF Said

------------------------------------------------------------------------------
(* The types of the page, the server and what is between them. *)

Shown_   == [p : Params, data : Document \cup {None, Mixed}, v : Document \cup {None}]
View_    == [p : Params \cup {None}, sent : Document \cup {None}]
Feed_    == [at : {"parked", "looked"}, want : Want \cup {NoWant}, view : View_, upto : Nat]
Left_    == [turns : 0..Turns, faults : 0..Faults]
Request(r) == r = Resync \/ (r.type = "watch" /\ [p |-> r.p, have |-> r.have] \in Want)

PShapes ==
  /\ page \in Shown_ /\ conn \in {"closed", "opening", "open"} /\ known \in BOOLEAN
  /\ url \in Want
  /\ \A r \in posts : Request(r)
  /\ net \in Seq(Messages)
  /\ wanted \in Want \cup {NoWant} /\ (conn = "open" => wanted \in Want)
  /\ resync \in BOOLEAN
  /\ feed \in Feed_ /\ feed.upto <= version /\ (feed.at = "looked" => feed.want \in Want)
  /\ lost \subseteq {"unseen", "seen"} /\ left \in Left_

TInv == FInv /\ PShapes

\* The types of the proof are those the runs check, and more.
LEMMA TypesAre == TInv => TypeOK
<1> SUFFICES ASSUME TInv PROVE TypeOK
  OBVIOUS
<1>1. feed.at \in {"parked", "looked"} /\ feed.upto <= version
  BY DEF TInv, PShapes, Feed_
<1> QED BY <1>1 DEF TInv, FInv, PShapes, TypeOK, Shown_, Left_, Request

\* The records the code makes are of their kinds.
LEMMA Kinds ==
  /\ NoFeed \in Feed_ /\ NoView \in View_ /\ NoFeed.at = "parked" /\ NoFeed.upto = 0
  /\ NoFeed.view = NoView /\ NoView.p = None /\ NoView.sent = None /\ NoFeed.want = NoWant
  /\ NoWant.p = None /\ NoWant.have = None
  /\ Hello \in Messages /\ Hello.type = "hello"
  /\ \A d \in Document : {Snapshot(d), Same(d)} \subseteq Messages
  /\ \A b \in Document \cup {None}, d \in Document : Patch(b, d) \in Messages
<1>1. NoView \in View_ /\ NoView.p = None /\ NoView.sent = None
  BY DEF NoView, View_
<1>2. NoWant.p = None /\ NoWant.have = None
  BY DEF NoWant
<1>3. NoFeed \in Feed_ /\ NoFeed.at = "parked" /\ NoFeed.upto = 0 /\ NoFeed.view = NoView /\ NoFeed.want = NoWant
  BY <1>1 DEF NoFeed, Feed_
<1>4. Hello \in Messages /\ Hello.type = "hello"
  BY DEF Hello, Messages
<1>5. \A d \in Document : {Snapshot(d), Same(d)} \subseteq Messages
  BY DEF Snapshot, Same, Messages
<1>6. \A b \in Document \cup {None}, d \in Document : Patch(b, d) \in Messages
  BY DEF Patch, Messages
<1> QED BY <1>1, <1>2, <1>3, <1>4, <1>5, <1>6

\* What the engine has of the filters is a document of theirs.
LEMMA NowIs ==
  ASSUME FInv, NEW p \in Params
  PROVE  Now(p) \in Document /\ Now(p).p = p /\ Now(p).f = Said(engine)
BY SaidBound DEF Now, Document

\* What the page says it shows.
LEMMA ShownIs ==
  ASSUME page \in Shown_, NEW p \in Params
  PROVE  /\ Shown(p) \in Want /\ Shown(p).p = p
         /\ Shown(p).have = IF page.data = None THEN None ELSE page.v
         /\ Request(Watch(Shown(p))) /\ Watch(Shown(p)).type = "watch"
         /\ Watch(Shown(p)).p = p /\ Watch(Shown(p)).have = Shown(p).have
<1>1. page.v \in Document \cup {None}
  BY DEF Shown_
<1>2. Shown(p) \in Want /\ Shown(p).p = p /\ Shown(p).have = IF page.data = None THEN None ELSE page.v
  BY <1>1 DEF Shown, Want
<1>3. /\ Watch(Shown(p)).type = "watch" /\ Watch(Shown(p)).p = Shown(p).p
      /\ Watch(Shown(p)).have = Shown(p).have
  BY DEF Watch
<1>4. [p |-> Shown(p).p, have |-> Shown(p).have] = Shown(p)
  BY <1>2 DEF Want
<1> QED BY <1>2, <1>3, <1>4 DEF Request

\* The types where the page starts.
LEMMA InitTypes == Init => TInv
<1> SUFFICES ASSUME Init PROVE TInv
  OBVIOUS
<1>1. FInv
  BY FiguresStart DEF Init
<1>2. First \in Params
  BY PagesAssumption DEF First
<1>3. PICK q \in Params : \E d \in {None, Now(q)} :
        page = [p |-> First, data |-> d, v |-> IF q = First THEN d ELSE None]
  BY DEF Init
<1>4. PICK d \in {None, Now(q)} : page = [p |-> First, data |-> d, v |-> IF q = First THEN d ELSE None]
  BY <1>3
<1>5. d \in Document \cup {None}
  BY <1>1, NowIs
<1>6. page \in Shown_ /\ page.p = First
  BY <1>2, <1>4, <1>5 DEF Shown_
<1>7. url \in Want
  BY <1>2, <1>6 DEF Init, Want
<1>8. left \in Left_
  BY PagesAssumption DEF Init, Left_
<1>9. feed \in Feed_ /\ feed.upto <= version /\ feed.at # "looked"
  BY Kinds DEF Init, FiguresInit
<1>10. posts = {} /\ net = <<>> /\ conn = "closed" /\ known = FALSE /\ resync = FALSE /\ lost = {} /\ wanted = NoWant
  BY DEF Init
<1>11. net \in Seq(Messages)
  BY <1>10
<1> QED BY <1>1, <1>6, <1>7, <1>8, <1>9, <1>10, <1>11 DEF TInv, PShapes

\* A writer keeps the types.
LEMMA FiguresTypes ==
  ASSUME TInv, UNCHANGED rest, NEW w \in Writers, Commit(w) \/ CatchUp(w) \/ Count(w) \/ Say(w)
  PROVE  TInv'
<1>1. FInv' /\ version <= version' /\ version \in Nat /\ version' \in Nat
  BY FiguresStep DEF TInv
<1>2. feed' = feed /\ feed \in Feed_ /\ feed.upto <= version
  BY DEF TInv, PShapes, rest
<1>3. feed'.upto <= version'
  <2>1. feed.upto \in Nat
    BY <1>2 DEF Feed_
  <2> QED BY <1>1, <1>2, <2>1
<1>4. UNCHANGED <<page, conn, known, url, posts, net, wanted, resync, feed, lost, left>>
  BY DEF rest
<1> QED BY <1>1, <1>3, <1>4 DEF TInv, PShapes

\* What is spent was there.
LEMMA Spent ==
  ASSUME left \in Left_, NEW what \in {"turns", "faults"}, Spend(what)
  PROVE  left' \in Left_
<1>1. left[what] > 0 /\ left' = [left EXCEPT ![what] = left[what] - 1]
  BY DEF Spend
<1>2. Turns \in Nat /\ Faults \in Nat
  BY PagesAssumption
<1>3. left \in [{"turns", "faults"} -> Nat] /\ left.turns \in 0..Turns /\ left.faults \in 0..Faults
  BY <1>2 DEF Left_
<1>4. left[what] - 1 \in Nat /\ left[what] - 1 <= left[what]
  BY <1>1, <1>3
<1>5. left'.turns \in 0..Turns /\ left'.faults \in 0..Faults /\ left' \in [{"turns", "faults"} -> Nat]
  BY <1>1, <1>2, <1>3, <1>4
<1>6. left' = [turns |-> left'.turns, faults |-> left'.faults]
  BY <1>1 DEF Left_
<1> QED BY <1>5, <1>6 DEF Left_

\* The page, naming what it shows, keeps the types.
LEMMA ConnectTypes == TInv /\ Connect => TInv'
<1> SUFFICES ASSUME TInv, Connect PROVE TInv'
  OBVIOUS
<1>1. PShapes /\ FInv
  BY DEF TInv
<1>2. UNCHANGED figures /\ UNCHANGED <<store, engine, version, log, writer, rung>>
  BY DEF Connect, figures
<1>3. FInv'
  BY <1>1, <1>2, FiguresStill DEF FInv, FiguresTypeOK
<1>4. url' \in Want
  BY <1>1, ShownIs DEF Connect, PShapes, Shown_
<1> QED BY <1>1, <1>2, <1>3, <1>4 DEF TInv, PShapes, Connect

\* New filters keep the types.
LEMMA TurnTypes ==
  ASSUME TInv, NEW q \in Params, Turn(q)
  PROVE  TInv'
<1>1. PShapes /\ FInv
  BY DEF TInv
<1>2. UNCHANGED <<store, engine, version, log, writer, rung>>
  BY DEF Turn, figures
<1>3. FInv'
  BY <1>1, <1>2, FiguresStill DEF FInv, FiguresTypeOK
<1>4. left' \in Left_
  BY <1>1, Spent DEF Turn, PShapes
<1>5. page' \in Shown_
  BY <1>1 DEF Turn, PShapes, Shown_
<1>6. \A r \in posts' : Request(r)
  BY <1>1, ShownIs DEF Turn, PShapes
<1> QED BY <1>1, <1>2, <1>3, <1>4, <1>5, <1>6 DEF TInv, PShapes, Turn

\* The page after any message is a page.
LEMMA AfterIs ==
  ASSUME page \in Shown_, NEW m \in Messages
  PROVE  After(m) \in Shown_ /\ After(m).p = page.p
<1>1. m.v \in Document \cup {None}
  BY DEF Messages
<1>2. CASE m.type = "snapshot"
  <2>1. After(m) = [page EXCEPT !.data = m.v, !.v = m.v]
    BY <1>2 DEF After
  <2> QED BY <1>1, <2>1 DEF Shown_
<1>3. CASE m.type = "same"
  <2>1. After(m) = [page EXCEPT !.v = m.v]
    BY <1>3 DEF After
  <2> QED BY <1>1, <2>1 DEF Shown_
<1>4. CASE m.type = "patch" /\ page.data # None
  <2> DEFINE d == IF page.data = m.base THEN m.v ELSE Mixed
  <2>1. After(m) = [page EXCEPT !.data = d, !.v = m.v]
    BY <1>4 DEF After
  <2>2. d \in Document \cup {None, Mixed}
    BY <1>1
  <2> HIDE DEF d
  <2> QED BY <1>1, <2>1, <2>2 DEF Shown_
<1>5. CASE m.type \notin {"snapshot", "same"} /\ ~(m.type = "patch" /\ page.data # None)
  <2>1. After(m) = page
    BY <1>5 DEF After
  <2> QED BY <2>1 DEF Shown_
<1> QED BY <1>2, <1>3, <1>4, <1>5

\* A message taken keeps the types.
LEMMA TakeTypes == TInv /\ Take => TInv'
<1> SUFFICES ASSUME TInv, Take PROVE TInv'
  OBVIOUS
<1>1. PShapes /\ FInv
  BY DEF TInv
<1>2. UNCHANGED <<store, engine, version, log, writer, rung>>
  BY DEF Take, figures
<1>3. FInv'
  BY <1>1, <1>2, FiguresStill DEF FInv, FiguresTypeOK
<1> DEFINE m == Head(net)
<1>4. m \in Messages /\ net # <<>> /\ net' = Tail(net) /\ net' \in Seq(Messages)
  BY <1>1 DEF Take, PShapes
<1>5. page' \in Shown_
  BY <1>1, <1>4, AfterIs DEF Take, PShapes
<1>6. \A r \in posts' : r \in posts \/ r = Watch(Shown(page.p)) \/ r = Resync
  BY DEF Take
<1>7. \A r \in posts' : Request(r)
  <2>1. page \in Shown_ /\ page.p \in Params
    BY <1>1 DEF PShapes, Shown_
  <2>2. Request(Resync) /\ Request(Watch(Shown(page.p)))
    BY <2>1, ShownIs DEF Request
  <2> QED BY <1>1, <1>6, <2>2 DEF PShapes
<1>8. known' \in BOOLEAN
  BY <1>1 DEF Take, PShapes
<1>9. lost' \subseteq {"unseen", "seen"}
  BY <1>1 DEF Take, PShapes
<1>10. UNCHANGED <<conn, url, wanted, resync, feed, left>>
  BY DEF Take
<1> QED BY <1>1, <1>2, <1>3, <1>4, <1>5, <1>7, <1>8, <1>9, <1>10 DEF TInv, PShapes

\* The stream opened keeps the types.
LEMMA OpenTypes == TInv /\ Open => TInv'
<1> SUFFICES ASSUME TInv, Open PROVE TInv'
  OBVIOUS
<1>1. PShapes /\ FInv
  BY DEF TInv
<1>2. FInv'
  BY <1>1, FiguresStill DEF Open
<1>3. net' \in Seq(Messages)
  BY Kinds DEF Open
<1>4. lost' \subseteq {"unseen", "seen"} /\ wanted' \in Want
  BY <1>1 DEF Open, PShapes
<1> QED BY <1>1, <1>2, <1>3, <1>4 DEF TInv, PShapes, Open

\* A request taken keeps the types.
LEMMA TakePostTypes ==
  ASSUME TInv, NEW r \in posts, TakePost(r)
  PROVE  TInv'
<1>1. PShapes /\ FInv
  BY DEF TInv
<1>2. FInv'
  BY <1>1, FiguresStill DEF TakePost
<1>3. Request(r)
  BY <1>1 DEF PShapes
<1>4. CASE r.type = "watch"
  <2>1. wanted' = (IF r.p = wanted.p THEN wanted ELSE [p |-> r.p, have |-> r.have]) /\ resync' = resync
    BY <1>4 DEF TakePost
  <2>2. [p |-> r.p, have |-> r.have] \in Want
    BY <1>3, <1>4 DEF Request, Resync
  <2> QED BY <1>1, <1>2, <2>1, <2>2 DEF TInv, PShapes, TakePost
<1>5. CASE r.type # "watch"
  <2>1. r = Resync /\ r.type = "resync"
    BY <1>3, <1>5 DEF Request, Resync
  <2>2. resync' = TRUE /\ wanted' = wanted
    BY <2>1 DEF TakePost
  <2> QED BY <1>1, <1>2, <2>2 DEF TInv, PShapes, TakePost
<1> QED BY <1>4, <1>5

\* The stream taking what the page shows keeps the types.
LEMMA StepLookTypes == TInv /\ StepLook => TInv'
<1> SUFFICES ASSUME TInv, StepLook PROVE TInv'
  OBVIOUS
<1>1. PShapes /\ FInv
  BY DEF TInv
<1>2. FInv' /\ version' = version
  BY <1>1, FiguresStill DEF StepLook
<1>3. wanted \in Want /\ conn = "open"
  BY <1>1 DEF StepLook, PShapes
<1>4. wanted' \in Want
  <2>1. wanted' = wanted \/ wanted' = [wanted EXCEPT !.have = None]
    BY DEF StepLook
  <2> QED BY <1>3, <2>1 DEF Want
<1> DEFINE view == IF resync \/ feed.view.p # wanted.p THEN NoView ELSE feed.view
<1>5. feed' = [feed EXCEPT !.at = "looked", !.want = wanted', !.view = view]
  BY DEF StepLook
<1>6. view \in View_
  BY <1>1, Kinds DEF PShapes, Feed_
<1> HIDE DEF view
<1>7. feed' \in Feed_ /\ feed'.upto = feed.upto /\ feed'.want = wanted'
  BY <1>1, <1>4, <1>5, <1>6 DEF PShapes, Feed_
<1> QED BY <1>1, <1>2, <1>3, <1>4, <1>7 DEF TInv, PShapes, StepLook

\* What the stream sends is messages, of the document as the engine has it, the last of them.
LEMMA AnswerIs ==
  ASSUME TInv, NEW now \in Document, NEW since
  PROVE  \/ Answer(now, since) = <<>>
         \/ \E m \in Messages : Answer(now, since) = <<m>> /\ m.v = now /\ m.type # "hello"
<1>1. feed.view.sent \in Document \cup {None}
  BY DEF TInv, PShapes, Feed_, View_
<1>2. {Snapshot(now), Same(now), Patch(feed.view.sent, now)} \subseteq Messages
  BY <1>1, Kinds
<1>3. /\ Snapshot(now).v = now /\ Same(now).v = now /\ Patch(feed.view.sent, now).v = now
      /\ Snapshot(now).type # "hello" /\ Same(now).type # "hello" /\ Patch(feed.view.sent, now).type # "hello"
  BY DEF Snapshot, Same, Patch
<1>4. Answer(now, since) \in {<<>>, <<Snapshot(now)>>, <<Same(now)>>, <<Patch(feed.view.sent, now)>>}
  BY DEF Answer
<1> QED BY <1>2, <1>3, <1>4

\* What a read leaves, whatever is counted between its two looks at the log.
LEMMA ReadIs ==
  ASSUME TInv, StepRead
  PROVE  /\ FInv' /\ version <= version' /\ version' \in Nat /\ UNCHANGED <<store, engine>>
         /\ feed.want \in Want /\ Now(feed.want.p) \in Document
<1>1. PShapes /\ FInv
  BY DEF TInv
<1>2. feed.want \in Want
  BY <1>1 DEF StepRead, PShapes
<1>3. Now(feed.want.p) \in Document
  BY <1>1, <1>2, NowIs DEF Want
<1>4. CASE UNCHANGED figures
  <2>1. FInv' /\ version' = version /\ UNCHANGED <<store, engine>>
    BY <1>1, <1>4, FiguresStill DEF figures, FInv, FiguresTypeOK
  <2>2. version \in Nat
    BY <1>1, FShapesAre DEF FShapes
  <2> QED BY <1>2, <1>3, <2>1, <2>2
<1>5. CASE \E w \in Writers : Count(w)
  <2>1. PICK w \in Writers : Count(w)
    BY <1>5
  <2>2. FInv' /\ version <= version' /\ version' \in Nat
    BY <1>1, <2>1, FiguresStep
  <2>3. UNCHANGED <<store, engine>>
    BY <2>1 DEF Count
  <2> QED BY <1>2, <1>3, <2>2, <2>3
<1> QED BY <1>4, <1>5 DEF StepRead

\* The stream reading the figures keeps the types.
LEMMA StepReadTypes == TInv /\ StepRead => TInv'
<1> SUFFICES ASSUME TInv, StepRead PROVE TInv'
  OBVIOUS
<1>1. PShapes /\ FInv
  BY DEF TInv
<1>2. FInv' /\ version' \in Nat /\ feed.want \in Want /\ Now(feed.want.p) \in Document
  BY ReadIs
<1> DEFINE now == Now(feed.want.p)
           out == Answer(now, MovedSince(feed.upto))
           view == IF out # <<>> THEN [p |-> now.p, sent |-> now] ELSE feed.view
<1>3. net' = net \o out /\ feed' = [NoFeed EXCEPT !.upto = version', !.view = view]
  BY DEF StepRead
<1>4. now \in Document /\ now.p \in Params
  BY <1>2 DEF Document
<1> HIDE DEF now
<1>5. out \in Seq(Messages)
  <2>1. out = <<>> \/ \E m \in Messages : out = <<m>>
    BY <1>4, AnswerIs
  <2> HIDE DEF out
  <2>2. ASSUME NEW m \in Messages, out = <<m>> PROVE out \in Seq(Messages)
    BY <2>2
  <2>3. ASSUME out = <<>> PROVE out \in Seq(Messages)
    BY <2>3
  <2> QED BY <2>1, <2>2, <2>3
<1>6. view \in View_
  <2>1. feed.view \in View_
    BY <1>1 DEF PShapes, Feed_
  <2> QED BY <1>4, <2>1 DEF View_
<1> HIDE DEF out, view
<1>7. feed' \in Feed_ /\ feed'.upto = version' /\ feed'.at = "parked"
  BY <1>2, <1>3, <1>6, Kinds DEF Feed_
<1>8. net' \in Seq(Messages)
  BY <1>1, <1>3, <1>5 DEF PShapes
<1> QED BY <1>1, <1>2, <1>7, <1>8 DEF TInv, PShapes, StepRead

\* A message lost keeps the types.
LEMMA LoseTypes == TInv /\ Lose => TInv'
<1> SUFFICES ASSUME TInv, Lose PROVE TInv'
  OBVIOUS
<1>1. PShapes /\ FInv
  BY DEF TInv
<1>2. UNCHANGED <<store, engine, version, log, writer, rung>>
  BY DEF Lose, figures
<1>3. FInv'
  BY <1>1, <1>2, FiguresStill DEF FInv, FiguresTypeOK
<1>4. left' \in Left_
  BY <1>1, Spent DEF Lose, PShapes
<1>5. net' \in Seq(Messages) /\ lost' \subseteq {"unseen", "seen"}
  BY <1>1 DEF Lose, PShapes
<1> QED BY <1>1, <1>2, <1>3, <1>4, <1>5 DEF TInv, PShapes, Lose

\* A stream that is over keeps the types.
LEMMA OverTypes ==
  ASSUME TInv, NEW next \in {"closed", "opening"}, Over(next)
  PROVE  TInv'
<1>1. PShapes /\ FInv
  BY DEF TInv
<1>2. UNCHANGED <<store, engine, version, log, writer, rung>>
  BY DEF Over, figures
<1>3. FInv'
  BY <1>1, <1>2, FiguresStill DEF FInv, FiguresTypeOK
<1>4. left' \in Left_
  BY <1>1, Spent DEF Over, PShapes
<1>5. feed' \in Feed_ /\ feed'.upto <= version' /\ feed'.at # "looked"
  <2>1. version \in Nat
    BY <1>1, FShapesAre DEF FShapes
  <2> QED BY <1>2, <2>1, Kinds DEF Over
<1>6. net' \in Seq(Messages)
  BY DEF Over
<1> QED BY <1>1, <1>2, <1>3, <1>4, <1>5, <1>6 DEF TInv, PShapes, Over

\* Every step keeps the types.
LEMMA NextTypes == TInv /\ [Next]_vars => TInv'
<1> SUFFICES ASSUME TInv, [Next]_vars PROVE TInv'
  OBVIOUS
<1>1. CASE Arrive \/ Write
  BY <1>1, FiguresTypes DEF Arrive, Write
<1>2. CASE Connect
  BY <1>2, ConnectTypes
<1>3. CASE Stream
  BY <1>3, StepLookTypes, StepReadTypes DEF Stream
<1>4. CASE Network
  BY <1>4, OpenTypes, TakeTypes, TakePostTypes DEF Network
<1>5. CASE \E q \in Params : Turn(q)
  BY <1>5, TurnTypes
<1>6. CASE Lose
  BY <1>6, LoseTypes
<1>7. CASE End \/ Refuse
  BY <1>7, OverTypes DEF End, Refuse
<1>8. CASE UNCHANGED vars
  <2>1. FInv'
    BY <1>8, FiguresStill DEF vars, figures, TInv, FInv, FiguresTypeOK
  <2> QED BY <1>8, <2>1 DEF vars, figures, TInv, PShapes
<1> QED BY <1>1, <1>2, <1>3, <1>4, <1>5, <1>6, <1>7, <1>8 DEF Next

\* The types the proof needs, always.
LEMMA Types == Spec => []TInv
<1>1. Init => TInv
  BY InitTypes
<1>2. TInv /\ [Next]_vars => TInv'
  BY NextTypes
<1> QED BY <1>1, <1>2, PTL DEF Spec

\* The types hold, and the log counts no more changes than were committed, whatever the writers, the
\* filters, the commits, the changes of filters and the faults.
THEOREM Typing == Spec => []TypeOK
BY Types, TypesAre, PTL

------------------------------------------------------------------------------
(* The version the page says it holds is the version of what it shows.     *)

Data(m) == m.type # "hello"

\* The message goes on from the document.
Linked(d, m) == (m.type = "patch" => m.base = d) /\ (m.type = "same" => m.v = d)

\* What is named with the filters is a version of their document.
Own(w) == w.have # None /\ w.have.p = w.p

\* Nothing the page has not taken, but for the hello.
Fresh == net = <<>> \/ net = <<Hello>>

\* To say a document of these filters is held is to speak of what the page will show by then: the
\* stream sent it already, or has sent nothing since the page said so.
Reaches(w) ==
  \/ feed.view.p = w.p
  \/ feed.view.p = None /\ Fresh /\ page.v # None /\ page.v.p = w.p /\ w.have.f <= page.v.f

\* A stream that is not open holds nothing; one that is, a hello first, and no request before it.
Streams ==
  /\ known => conn = "open"
  /\ conn # "open" => net = <<>> /\ posts = {} /\ feed = NoFeed /\ wanted = NoWant /\ resync = FALSE
  /\ conn = "open" /\ ~known => net # <<>> /\ net[1] = Hello /\ posts = {}
  /\ \A i \in DOMAIN net : net[i].type = "hello" => i = 1 /\ ~known /\ net[i] = Hello

\* What a stream is opened naming is what the page shows, or older; until its hello the page holds no
\* version of filters it has not named.
Named ==
  /\ conn = "opening" /\ Own(url) => page.v # None /\ page.v.p = url.p
  /\ url.have # None => page.v # None /\ url.have.f <= page.v.f
  /\ conn = "opening" \/ (conn = "open" /\ ~known) => page.p = url.p \/ page.v = None \/ page.v.p # page.p

\* No request says the page holds its filters' document; where the server believes so, it is so.
Asked ==
  /\ \A r \in posts : r.type = "watch" => ~Own(r)
  /\ Own(wanted) => Reaches(wanted) /\ (feed.at = "looked" => feed.want = wanted)
  /\ feed.at = "looked" => feed.view.p \in {None, feed.want.p} /\ (Own(feed.want) => Reaches(feed.want))

\* The messages on their way go on one from the other, and say ever more.
Sequel ==
  /\ \A i \in DOMAIN net : Data(net[i]) =>
       net[i].v # None /\ net[i].v.f <= Said(engine) /\ (net[i].type = "patch" => net[i].base # None)
  /\ \A i, j \in DOMAIN net : i < j /\ Data(net[i]) => net[i].v.f <= net[j].v.f
  /\ \A i, j \in DOMAIN net : j = i + 1 /\ Data(net[i]) => Linked(net[i].v, net[j])

\* The page is behind them all.
Behind ==
  page.v # None => page.v.f <= Said(engine) /\ \A i \in DOMAIN net : Data(net[i]) => page.v.f <= net[i].v.f

\* Where nothing was lost the first goes on from what the page shows; and the stream sent last what is
\* last on its way, or, with nothing on its way, what the page shows.
Continues ==
  /\ lost = {} => \A i \in DOMAIN net : i = 1 \/ Data(net[i - 1]) \/ Linked(page.data, net[i])
  /\ lost = {} /\ net # <<>> => Linked(page.data, net[1])
  /\ feed.view.p # None =>
       /\ feed.view.sent # None
       /\ Fresh /\ lost = {} => page.data = feed.view.sent
       /\ ~Fresh => net[Len(net)].v = feed.view.sent

SInv == Streams /\ Named /\ Asked /\ Sequel /\ Behind /\ Continues /\ ShowsItsOwn

\* A document is of filters and of figures, and is neither of the two that are none.
LEMMA Documents ==
  /\ \A d \in Document : d.p \in Params /\ d.f \in Nat /\ d # None /\ d # Mixed /\ d = [p |-> d.p, f |-> d.f]
  /\ \A c, d \in Document : c.p = d.p /\ c.f = d.f => c = d
  /\ None \notin Params /\ None # Mixed
<1>1. \A d \in Document : d.p \in Params /\ d.f \in Nat /\ d \in [p : Params, f : Nat] /\ d = [p |-> d.p, f |-> d.f]
  BY DEF Document
<1>2. None \notin [p : Params, f : Nat] /\ Mixed \notin [p : Params, f : Nat] /\ None \notin Params /\ None # Mixed
  BY PagesAssumption
<1>3. \A c, d \in Document : c.p = d.p /\ c.f = d.f => c = d
  BY <1>1
<1> QED BY <1>1, <1>2, <1>3

\* The kinds of what the invariant speaks of.
LEMMA Facts ==
  ASSUME TInv
  PROVE  /\ page.p \in Params /\ page.v \in Document \cup {None} /\ page.data \in Document \cup {None, Mixed}
         /\ url.p \in Params /\ url.have \in Document \cup {None}
         /\ Said(engine) \in Nat
         /\ Len(net) \in Nat /\ DOMAIN net = 1..Len(net) /\ (net # <<>> => Len(net) >= 1 /\ Head(net) = net[1])
         /\ \A i \in DOMAIN net : net[i].v \in Document \cup {None} /\ net[i].base \in Document \cup {None}
                                   /\ net[i].type \in {"hello", "snapshot", "same", "patch"}
         /\ feed.view.p \in Params \cup {None} /\ feed.view.sent \in Document \cup {None}
<1>1. PShapes /\ FInv
  BY DEF TInv
<1>2. page.p \in Params /\ page.v \in Document \cup {None} /\ page.data \in Document \cup {None, Mixed}
  BY <1>1 DEF PShapes, Shown_
<1>3. url.p \in Params /\ url.have \in Document \cup {None}
  BY <1>1 DEF PShapes, Want
<1>4. Said(engine) \in Nat
  BY <1>1, SaidBound
<1>5. net \in Seq(Messages)
  BY <1>1 DEF PShapes
<1>6. Len(net) \in Nat /\ DOMAIN net = 1..Len(net) /\ (net # <<>> => Len(net) >= 1 /\ Head(net) = net[1])
  BY <1>5
<1>7. \A i \in DOMAIN net : net[i] \in Messages
  BY <1>5
<1>8. \A i \in DOMAIN net : net[i].v \in Document \cup {None} /\ net[i].base \in Document \cup {None}
                             /\ net[i].type \in {"hello", "snapshot", "same", "patch"}
  BY <1>7 DEF Messages
<1>9. feed.view.p \in Params \cup {None} /\ feed.view.sent \in Document \cup {None}
  BY <1>1 DEF PShapes, Feed_, View_
<1> QED BY <1>2, <1>3, <1>4, <1>6, <1>8, <1>9

\* What is left once the first is gone.
LEMMA Gone ==
  ASSUME TInv, net # <<>>, net' = Tail(net)
  PROVE  /\ Len(net') = Len(net) - 1 /\ DOMAIN net' = 1..(Len(net) - 1) /\ Len(net) \in Nat
         /\ \A i \in DOMAIN net' : i + 1 \in DOMAIN net /\ net'[i] = net[i + 1]
         /\ net' = <<>> <=> Len(net) = 1
<1>1. net \in Seq(Messages)
  BY DEF TInv, PShapes
<1>2. net' \in Seq(Messages) /\ Len(net') = Len(net) - 1 /\ Len(net) \in Nat /\ Len(net) >= 1
  BY <1>1
<1>3. DOMAIN net' = 1..(Len(net) - 1) /\ DOMAIN net = 1..Len(net)
  BY <1>1, <1>2
<1>4. ASSUME NEW i \in 1..(Len(net) - 1) PROVE i + 1 \in 1..Len(net) /\ net'[i] = net[i + 1]
  BY <1>1, <1>2
<1>5. net' = <<>> <=> Len(net) = 1
  <2>1. \A s \in Seq(Messages) : s = <<>> <=> Len(s) = 0
    OBVIOUS
  <2>2. net' = <<>> <=> Len(net') = 0
    BY <1>2, <2>1
  <2> QED BY <1>2, <2>2
<1> QED BY <1>2, <1>3, <1>4, <1>5

\* The hello, and nothing else.
LEMMA HelloAlone ==
  ASSUME net \in Seq(Messages), Len(net) = 1, net[1] = Hello
  PROVE  net = <<Hello>>
OBVIOUS

\* A message after those there are.
LEMMA Sent ==
  ASSUME TInv, NEW m \in Messages, net' = net \o <<m>>
  PROVE  /\ Len(net') = Len(net) + 1 /\ DOMAIN net' = 1..(Len(net) + 1) /\ Len(net) \in Nat /\ DOMAIN net = 1..Len(net)
         /\ net'[Len(net) + 1] = m /\ \A i \in DOMAIN net : i \in DOMAIN net' /\ net'[i] = net[i]
         /\ net' # <<>>
<1>1. net \in Seq(Messages) /\ <<m>> \in Seq(Messages) /\ Len(<<m>>) = 1 /\ <<m>>[1] = m
  BY DEF TInv, PShapes
<1> DEFINE one == <<m>>
<1> HIDE DEF one
<1>2. net' \in Seq(Messages) /\ net' = net \o one /\ one \in Seq(Messages) /\ Len(one) = 1 /\ one[1] = m
  BY <1>1 DEF one
<1>3. Len(net') = Len(net) + 1 /\ Len(net) \in Nat /\ DOMAIN net = 1..Len(net) /\ DOMAIN net' = 1..(Len(net) + 1)
  BY <1>1, <1>2
<1>4. \A i \in 1..Len(net) : net'[i] = net[i]
  BY <1>1, <1>2
<1>5. net'[Len(net) + 1] = m
  BY <1>1, <1>2, <1>3
<1>6. net' # <<>>
  BY <1>3
<1> QED BY <1>3, <1>4, <1>5, <1>6

\* The page opens on what it kept, whose version it says only for its own filters.
LEMMA InitShows == Init => SInv
<1> SUFFICES ASSUME Init PROVE SInv
  OBVIOUS
<1>1. TInv /\ TInv
  BY InitTypes
<1>2. PICK q \in Params : \E d \in {None, Now(q)} :
        page = [p |-> First, data |-> d, v |-> IF q = First THEN d ELSE None]
  BY DEF Init
<1>3. PICK d \in {None, Now(q)} : page = [p |-> First, data |-> d, v |-> IF q = First THEN d ELSE None]
  BY <1>2
<1>4. page.v # None => page.v = page.data /\ page.v = Now(q)
  BY <1>3
<1>5. Now(q).f = Said(engine) /\ Said(engine) \in Nat
  BY <1>1, NowIs, SaidBound DEF TInv
<1>6. /\ conn = "closed" /\ ~known /\ url = [p |-> page.p, have |-> None] /\ posts = {} /\ net = <<>>
      /\ wanted = NoWant /\ resync = FALSE /\ feed = NoFeed
  BY DEF Init
<1>7. DOMAIN net = {}
  BY <1>6
<1>8. feed.view.p = None /\ feed.at = "parked" /\ wanted.have = None /\ url.have = None
  BY <1>6, Kinds
<1>9. Streams
  BY <1>6, <1>7 DEF Streams
<1>10. Named /\ Asked
  BY <1>6, <1>8 DEF Named, Asked, Own
<1>11. Sequel /\ Behind
  BY <1>4, <1>5, <1>7 DEF Sequel, Behind
<1>12. Continues /\ ShowsItsOwn
  BY <1>4, <1>6, <1>7, <1>8 DEF Continues, ShowsItsOwn
<1> QED BY <1>9, <1>10, <1>11, <1>12 DEF SInv

\* What the figures become, with the page, the stream and what is between them as they were.
LEMMA FiguresShow ==
  ASSUME TInv, SInv, UNCHANGED rest, NEW w \in Writers, Commit(w) \/ CatchUp(w) \/ Count(w) \/ Say(w)
  PROVE  SInv'
<1>1. UNCHANGED <<page, conn, known, url, posts, net, wanted, resync, feed, lost>>
  BY DEF rest
<1>2. /\ engine' \in Nat /\ engine <= engine' /\ engine' <= Len(store') /\ FInv'
      /\ store' = store \/ \E m \in Moves : store' = Append(store, m)
  <2>1. engine' \in Nat /\ engine <= engine' /\ FInv' /\ (store' = store \/ \E m \in Moves : store' = Append(store, m))
    BY FiguresStep DEF TInv
  <2>2. engine' <= Len(store')
    BY FiguresStep DEF TInv
  <2> QED BY <2>1, <2>2
<1>3. Said(engine) <= Said(engine)' /\ Said(engine) \in Nat /\ Said(engine)' \in Nat
  <2>1. Said(engine) <= Said(engine)' /\ Said(engine)' \in Nat
    BY <1>2, SaidGrows DEF TInv
  <2>2. Said(engine) \in Nat
    BY SaidBound DEF TInv
  <2> QED BY <2>1, <2>2
<1>4. Streams' /\ Named' /\ Continues' /\ ShowsItsOwn'
  BY <1>1 DEF SInv, Streams, Named, Continues, ShowsItsOwn, Fresh
<1>5. Asked'
  BY <1>1 DEF SInv, Asked, Reaches, Fresh
<1>6. Sequel'
  <2>1. \A i \in DOMAIN net : Data(net[i]) => net[i].v.f <= Said(engine)'
    <3> SUFFICES ASSUME NEW i \in DOMAIN net, Data(net[i]) PROVE net[i].v.f <= Said(engine)'
      OBVIOUS
    <3>1. net[i].v # None /\ net[i].v.f <= Said(engine)
      BY DEF SInv, Sequel
    <3>2. net[i].v.f \in Nat
      BY <3>1, Facts, Documents
    <3> QED BY <1>3, <3>1, <3>2
  <2> QED BY <1>1, <2>1 DEF SInv, Sequel
<1>7. Behind'
  <2> SUFFICES ASSUME page.v # None PROVE page.v.f <= Said(engine)'
    BY <1>1 DEF SInv, Behind
  <2>1. page.v.f <= Said(engine)
    BY DEF SInv, Behind
  <2>2. page.v.f \in Nat
    BY Facts, Documents
  <2> QED BY <1>3, <2>1, <2>2
<1> QED BY <1>4, <1>5, <1>6, <1>7 DEF SInv

\* The parts that only time and what is on its way disturb.
LEMMA StillShows ==
  ASSUME SInv, Said(engine)' = Said(engine), UNCHANGED <<page, net>>
  PROVE  Sequel' /\ Behind' /\ Fresh' = Fresh
BY DEF SInv, Sequel, Behind, Fresh

\* Nothing committed and nothing taken: the documents say what they said.
LEMMA FiguresKept ==
  ASSUME TInv, UNCHANGED <<store, engine>>
  PROVE  Said(engine)' = Said(engine)
BY DEF Said

\* What a stream is opened naming is what the page shows.
LEMMA ConnectShows == TInv /\ SInv /\ Connect => SInv'
<1> SUFFICES ASSUME TInv, SInv, Connect PROVE SInv'
  OBVIOUS
<1>1. /\ conn = "closed" /\ conn' = "opening" /\ url' = Shown(page.p)
      /\ UNCHANGED <<store, engine, page, known, posts, net, wanted, resync, feed, lost>>
  BY DEF Connect, figures
<1>2. Said(engine)' = Said(engine)
  BY <1>1, FiguresKept
<1>3. Sequel' /\ Behind' /\ Fresh' = Fresh
  BY <1>1, <1>2, StillShows
<1>4. Streams' /\ Continues' /\ ShowsItsOwn'
  BY <1>1 DEF SInv, Streams, Continues, ShowsItsOwn, Fresh
<1>5. Named'
  <2>1. url'.p = page.p /\ (url'.have # None => url'.have = page.v)
    BY <1>1, Facts, ShownIs DEF TInv, PShapes
  <2>2. page.v # None => page.v.f \in Nat
    BY Facts, Documents
  <2> QED BY <1>1, <2>1, <2>2 DEF Named, Own
<1>6. Asked'
  BY <1>1 DEF SInv, Asked, Reaches, Fresh
<1> QED BY <1>3, <1>4, <1>5, <1>6 DEF SInv

\* New filters are said only where nothing is owed, and are not those of the version held.
LEMMA TurnShows ==
  ASSUME Hasty = FALSE, TInv, SInv, NEW q \in Params, Turn(q)
  PROVE  SInv'
<1>1. /\ posts = {} /\ \A f \in 0..Changes : page.v # [p |-> q, f |-> f]
      /\ page' = [page EXCEPT !.p = q]
      /\ posts' = IF known THEN posts \cup {Watch(Shown(q))} ELSE posts
      /\ UNCHANGED <<store, engine, conn, known, url, net, wanted, resync, feed, lost>>
  BY DEF Turn, figures
<1>2. Said(engine)' = Said(engine)
  BY <1>1, FiguresKept
<1>3. page'.v = page.v /\ page'.data = page.data /\ page'.p = q
  BY <1>1 DEF TInv, PShapes, Shown_
<1>4. page.v # None => page.v.p # q
  <2> SUFFICES ASSUME page.v # None, page.v.p = q PROVE FALSE
    OBVIOUS
  <2>1. page.v \in Document
    BY Facts
  <2>2. page.v.f \in 0..Changes /\ page.v = [p |-> page.v.p, f |-> page.v.f]
    BY <2>1 DEF Document
  <2> QED BY <1>1, <2>2
<1>5. Sequel' /\ Behind' /\ Fresh' = Fresh
  BY <1>1, <1>2, <1>3 DEF SInv, Sequel, Behind, Fresh
<1>6. Streams'
  BY <1>1 DEF SInv, Streams
<1>7. Named'
  BY <1>1, <1>3, <1>4 DEF SInv, Named
<1>8. Asked'
  <2>1. \A r \in posts' : r.type = "watch" => ~Own(r)
    <3>1. \A r \in posts' : r = Watch(Shown(q))
      BY <1>1
    <3>2. page \in Shown_
      BY DEF TInv, PShapes
    <3>3. Watch(Shown(q)).p = q /\ (Watch(Shown(q)).have # None => Watch(Shown(q)).have = page.v)
      BY <3>2, ShownIs
    <3>4. ~Own(Watch(Shown(q)))
      BY <1>4, <3>3 DEF Own
    <3> QED BY <3>1, <3>4
  <2> QED BY <1>1, <1>3, <2>1 DEF SInv, Asked, Reaches, Fresh
<1>9. Continues' /\ ShowsItsOwn'
  BY <1>1, <1>3 DEF SInv, Continues, ShowsItsOwn, Fresh
<1> QED BY <1>5, <1>6, <1>7, <1>8, <1>9 DEF SInv

\* An opened stream has what it was opened naming, which is still what the page holds.
LEMMA OpenShows == TInv /\ SInv /\ Open => SInv'
<1> SUFFICES ASSUME TInv, SInv, Open PROVE SInv'
  OBVIOUS
<1>1. /\ conn = "opening" /\ conn' = "open" /\ wanted' = url /\ net' = <<Hello>> /\ lost' = lost \ {"unseen"}
      /\ UNCHANGED <<store, engine, page, known, url, posts, resync, feed>>
  BY DEF Open
<1>2. Said(engine)' = Said(engine)
  BY <1>1, FiguresKept
<1>3. ~known /\ posts = {} /\ feed = NoFeed
  BY <1>1 DEF SInv, Streams
<1>4. DOMAIN net' = {1} /\ net'[1] = Hello /\ net' # <<>> /\ ~Data(Hello)
  BY <1>1, Kinds DEF Data
<1>5. feed.view.p = None /\ feed.at = "parked"
  BY <1>3, Kinds
<1>6. Streams'
  BY <1>1, <1>3, <1>4 DEF Streams
<1>7. Named'
  BY <1>1, <1>3 DEF SInv, Named
<1>8. Asked'
  <2> SUFFICES ASSUME Own(url) PROVE Reaches(wanted)'
    BY <1>1, <1>3, <1>5 DEF Asked, Own
  <2>1. page.v # None /\ page.v.p = url.p /\ url.have.f <= page.v.f
    BY <1>1 DEF SInv, Named, Own
  <2> QED BY <1>1, <1>5, <2>1 DEF Reaches, Fresh
<1>9. Sequel'
  BY <1>4 DEF Sequel
<1>10. Behind'
  BY <1>1, <1>2, <1>4 DEF SInv, Behind
<1>11. Continues'
  <2>1. Linked(page.data, Hello)
    BY Kinds DEF Linked
  <2> QED BY <1>1, <1>4, <1>5, <2>1 DEF Continues
<1>12. ShowsItsOwn'
  BY <1>1 DEF SInv, ShowsItsOwn
<1> QED BY <1>6, <1>7, <1>8, <1>9, <1>10, <1>11, <1>12 DEF SInv

\* A request taken never has the server believe the page holds its filters' document.
LEMMA TakePostShows ==
  ASSUME TInv, SInv, NEW r \in posts, TakePost(r)
  PROVE  SInv'
<1>1. posts' = posts \ {r} /\ UNCHANGED <<store, engine, page, conn, known, url, net, feed, lost>>
  BY DEF TakePost
<1>2. Said(engine)' = Said(engine)
  BY <1>1, FiguresKept
<1>3. Sequel' /\ Behind' /\ Fresh' = Fresh
  BY <1>1, <1>2, StillShows
<1>4. conn = "open" /\ known
  BY DEF SInv, Streams, TInv, PShapes
<1>5. Streams'
  BY <1>1, <1>4 DEF SInv, Streams
<1>6. Named' /\ Continues' /\ ShowsItsOwn'
  BY <1>1 DEF SInv, Named, Continues, ShowsItsOwn, Fresh
<1>7. Asked'
  <2>1. wanted' = wanted \/ ~Own(wanted')
    <3>1. CASE r.type = "watch"
      <4>1. wanted' = wanted \/ wanted' = [p |-> r.p, have |-> r.have]
        BY <3>1 DEF TakePost
      <4>2. ~Own(r)
        BY <3>1 DEF SInv, Asked
      <4>3. wanted' = [p |-> r.p, have |-> r.have] => wanted'.p = r.p /\ wanted'.have = r.have
        OBVIOUS
      <4> QED BY <4>1, <4>2, <4>3 DEF Own
    <3>2. CASE r.type # "watch"
      <4> Request(r)
        BY DEF TInv, PShapes
      <4>1. r = Resync /\ r.type = "resync"
        BY <3>2 DEF Request, Resync
      <4>2. resync' = TRUE /\ wanted' = wanted
        BY <4>1 DEF TakePost
      <4> QED BY <4>2
    <3> QED BY <3>1, <3>2
  <2>2. \A s \in posts' : s.type = "watch" => ~Own(s)
    BY <1>1 DEF SInv, Asked
  <2>3. feed.at = "looked" => feed.view.p \in {None, feed.want.p} /\ (Own(feed.want) => Reaches(feed.want))
    BY DEF SInv, Asked
  <2>4. Own(wanted') => wanted' = wanted /\ Reaches(wanted) /\ (feed.at = "looked" => feed.want = wanted)
    BY <2>1 DEF SInv, Asked
  <2> QED BY <1>1, <2>2, <2>3, <2>4 DEF Asked, Own, Reaches, Fresh
<1> QED BY <1>3, <1>5, <1>6, <1>7 DEF SInv

\* The stream looks: what it last sent stays only with the filters it was sent for.
LEMMA StepLookShows == TInv /\ SInv /\ StepLook => SInv'
<1> SUFFICES ASSUME TInv, SInv, StepLook PROVE SInv'
  OBVIOUS
<1> DEFINE view == IF resync \/ feed.view.p # wanted.p THEN NoView ELSE feed.view
<1>1. /\ conn = "open" /\ wanted' = IF resync THEN [wanted EXCEPT !.have = None] ELSE wanted
      /\ feed' = [feed EXCEPT !.at = "looked", !.want = wanted', !.view = view]
      /\ UNCHANGED <<store, engine, page, conn, known, url, posts, net, lost>>
  BY DEF StepLook
<1>2. Said(engine)' = Said(engine)
  BY <1>1, FiguresKept
<1>3. Sequel' /\ Behind' /\ Fresh' = Fresh
  BY <1>1, <1>2, StillShows
<1>4. /\ feed'.at = "looked" /\ feed'.want = wanted' /\ feed'.view = view
      /\ wanted \in Want
  BY <1>1 DEF TInv, PShapes, Feed_
<1>5. wanted'.p = wanted.p /\ (resync => wanted'.have = None) /\ (~resync => wanted' = wanted)
  BY <1>1, <1>4 DEF Want
<1>6. view = NoView \/ (view = feed.view /\ feed.view.p = wanted.p /\ ~resync)
  OBVIOUS
<1>7. view.p \in {None, wanted.p}
  BY <1>6, Kinds
<1>8. Own(wanted') => view.p = wanted.p \/ (view.p = None /\ feed.view.p = None)
  <2> SUFFICES ASSUME Own(wanted'), view = NoView PROVE feed.view.p = None
    BY <1>6, Kinds
  <2>1. ~resync /\ wanted' = wanted
    BY <1>5 DEF Own
  <2>2. Reaches(wanted)
    BY <2>1 DEF SInv, Asked
  <2>3. wanted.p # None
    BY <1>4, Documents DEF Want
  <2>4. feed.view.p # wanted.p \/ feed.view.p = None
    BY <2>1, <2>3, Kinds
  <2> QED BY <2>2, <2>4 DEF Reaches
<1>9. Own(wanted') => Reaches(wanted)'
  <2> SUFFICES ASSUME Own(wanted') PROVE Reaches(wanted)'
    OBVIOUS
  <2>1. wanted' = wanted /\ Reaches(wanted)
    BY <1>5 DEF Own, SInv, Asked
  <2> HIDE DEF view
  <2> QED BY <1>1, <1>3, <1>4, <1>8, <2>1 DEF Reaches
<1> HIDE DEF view
<1>10. Streams'
  BY <1>1 DEF SInv, Streams
<1>11. Named' /\ ShowsItsOwn'
  BY <1>1 DEF SInv, Named, ShowsItsOwn
<1>12. Asked'
  <2>1. feed'.view.p \in {None, feed'.want.p}
    BY <1>4, <1>5, <1>7
  <2>2. Own(feed'.want) => Reaches(feed.want)'
    BY <1>4, <1>9 DEF Reaches
  <2>3. \A r \in posts' : r.type = "watch" => ~Own(r)
    BY <1>1 DEF SInv, Asked
  <2> QED BY <1>4, <1>9, <2>1, <2>2, <2>3 DEF Asked, Own
<1>13. Continues'
  <2>1. feed'.view.p # None => feed'.view = feed.view
    BY <1>4, <1>6, Kinds
  <2> QED BY <1>1, <1>3, <2>1 DEF SInv, Continues
<1> QED BY <1>3, <1>10, <1>11, <1>12, <1>13 DEF SInv

\* A stream that is over takes with it all that was on its way; what is opened again names what is shown.
LEMMA OverShows ==
  ASSUME TInv, SInv, NEW next \in {"closed", "opening"}, Over(next), next = "opening" => StillNamed
  PROVE  SInv'
<1>1. /\ conn' = next /\ known' = FALSE /\ net' = <<>> /\ posts' = {} /\ wanted' = NoWant /\ resync' = FALSE
      /\ feed' = NoFeed /\ UNCHANGED <<store, engine, page, url, lost>>
  BY DEF Over, figures
<1>2. Said(engine)' = Said(engine)
  BY <1>1, FiguresKept
<1>3. DOMAIN net' = {}
  BY <1>1
<1>4. feed'.view.p = None /\ feed'.at = "parked" /\ wanted'.have = None
  BY <1>1, Kinds
<1>5. Streams'
  BY <1>1, <1>3 DEF Streams
<1>6. Named'
  <2>1. url.have # None => page.v # None /\ url.have.f <= page.v.f
    BY DEF SInv, Named
  <2>2. next = "opening" => url.p = page.p /\ (Own(url) => page.v.p = url.p)
    BY DEF StillNamed, Own
  <2> QED BY <1>1, <2>1, <2>2 DEF Named, Own
<1>7. Asked'
  BY <1>1, <1>4 DEF Asked, Own
<1>8. Sequel'
  BY <1>3 DEF Sequel
<1>9. Behind'
  BY <1>1, <1>2, <1>3 DEF SInv, Behind
<1>10. Continues' /\ ShowsItsOwn'
  BY <1>1, <1>3, <1>4 DEF SInv, Continues, ShowsItsOwn
<1> QED BY <1>5, <1>6, <1>7, <1>8, <1>9, <1>10 DEF SInv

\* What is on its way, once the first is gone, goes on as it did; it was not all there was unless the
\* stream had sent nothing else.
LEMMA TailSound ==
  ASSUME TInv, SInv, net # <<>>, net' = Tail(net), Said(engine)' = Said(engine)
  PROVE  /\ Sequel'
         /\ net[1].type = "hello" => net[1] = Hello /\ ~known
         /\ \A i \in DOMAIN net' : Data(net'[i])
         /\ Fresh' <=> net' = <<>>
         /\ Data(net[1]) => \A i \in DOMAIN net' : net[1].v.f <= net'[i].v.f
         /\ net' # <<>> => net'[Len(net')] = net[Len(net)] /\ ~Fresh /\ net'[1] = net[2] /\ 2 \in DOMAIN net
         /\ 1 \in DOMAIN net
<1>1. /\ Len(net') = Len(net) - 1 /\ DOMAIN net' = 1..(Len(net) - 1) /\ Len(net) \in Nat
      /\ \A i \in DOMAIN net' : i + 1 \in DOMAIN net /\ net'[i] = net[i + 1]
      /\ net' = <<>> <=> Len(net) = 1
  BY Gone
<1>2. DOMAIN net = 1..Len(net) /\ Len(net) >= 1 /\ 1 \in DOMAIN net
  BY <1>1, Facts
<1>3. \A i \in DOMAIN net' : i \in Nat /\ i >= 1
  BY <1>1
<1>4. \A i \in DOMAIN net' : net'[i].type # "hello"
  BY <1>1, <1>3 DEF SInv, Streams
<1>5. Sequel'
  <2>1. \A i \in DOMAIN net' : Data(net'[i]) =>
          net'[i].v # None /\ net'[i].v.f <= Said(engine)' /\ (net'[i].type = "patch" => net'[i].base # None)
    BY <1>1 DEF SInv, Sequel
  <2>2. \A i, j \in DOMAIN net' : i < j /\ Data(net'[i]) => net'[i].v.f <= net'[j].v.f
    <3> SUFFICES ASSUME NEW i \in DOMAIN net', NEW j \in DOMAIN net', i < j, Data(net'[i])
                 PROVE  net'[i].v.f <= net'[j].v.f
      OBVIOUS
    <3>1. i + 1 \in DOMAIN net /\ j + 1 \in DOMAIN net /\ i + 1 < j + 1
      BY <1>1
    <3> QED BY <1>1, <3>1 DEF SInv, Sequel
  <2>3. \A i, j \in DOMAIN net' : j = i + 1 /\ Data(net'[i]) => Linked(net'[i].v, net'[j])
    <3> SUFFICES ASSUME NEW i \in DOMAIN net', NEW j \in DOMAIN net', j = i + 1, Data(net'[i])
                 PROVE  Linked(net'[i].v, net'[j])
      OBVIOUS
    <3>1. i + 1 \in DOMAIN net /\ j + 1 \in DOMAIN net /\ j + 1 = (i + 1) + 1
      BY <1>1
    <3> QED BY <1>1, <3>1 DEF SInv, Sequel
  <2> QED BY <2>1, <2>2, <2>3 DEF Sequel
<1>6. net[1].type = "hello" => net[1] = Hello /\ ~known
  BY <1>2 DEF SInv, Streams
<1>7. Fresh' <=> net' = <<>>
  <2> SUFFICES ASSUME net' = <<Hello>> PROVE FALSE
    BY DEF Fresh
  <2>1. 1 \in DOMAIN net' /\ net'[1] = Hello
    OBVIOUS
  <2> QED BY <1>4, <2>1, Kinds
<1>8. Data(net[1]) => \A i \in DOMAIN net' : net[1].v.f <= net'[i].v.f
  <2> SUFFICES ASSUME Data(net[1]), NEW i \in DOMAIN net' PROVE net[1].v.f <= net'[i].v.f
    OBVIOUS
  <2>1. i + 1 \in DOMAIN net /\ 1 < i + 1
    BY <1>1, <1>3
  <2> QED BY <1>1, <1>2, <2>1 DEF SInv, Sequel
<1>9. ASSUME net' # <<>>
      PROVE  net'[Len(net')] = net[Len(net)] /\ ~Fresh /\ net'[1] = net[2] /\ 2 \in DOMAIN net
  <2>1. Len(net) >= 2
    BY <1>1, <1>2, <1>9
  <2>2. 1 \in DOMAIN net' /\ Len(net) - 1 \in DOMAIN net' /\ 2 \in DOMAIN net
    BY <1>1, <1>2, <2>1
  <2>3. net'[1] = net[2] /\ net'[Len(net')] = net[Len(net)]
    BY <1>1, <2>2
  <2>4. net # <<Hello>>
    BY <2>1
  <2> QED BY <2>2, <2>3, <2>4 DEF Fresh
<1> QED BY <1>2, <1>4, <1>5, <1>6, <1>7, <1>8, <1>9 DEF Data

\* A message lost: the page is known to wait for the whole, once it notices.
LEMMA LoseShows == TInv /\ SInv /\ Lose => SInv'
<1> SUFFICES ASSUME TInv, SInv, Lose PROVE SInv'
  OBVIOUS
<1>1. /\ net # <<>> /\ Head(net).type # "hello" /\ net' = Tail(net) /\ lost' = lost \cup {"unseen"}
      /\ UNCHANGED <<store, engine, page, conn, known, url, posts, wanted, resync, feed>>
  BY DEF Lose, figures
<1>2. Said(engine)' = Said(engine)
  BY <1>1, FiguresKept
<1>3. Data(net[1]) /\ net[1] # Hello
  BY <1>1, Facts, Kinds DEF Data
<1>4. /\ Sequel' /\ (\A i \in DOMAIN net' : Data(net'[i])) /\ (Fresh' <=> net' = <<>>)
      /\ (\A i \in DOMAIN net' : net[1].v.f <= net'[i].v.f)
      /\ net' # <<>> => net'[Len(net')] = net[Len(net)] /\ ~Fresh
      /\ 1 \in DOMAIN net
  BY <1>1, <1>2, <1>3, TailSound
<1>5. conn = "open" /\ known
  BY <1>1, <1>3 DEF SInv, Streams, TInv, PShapes
<1>6. ~Fresh
  BY <1>1, <1>3 DEF Fresh
<1>7. Streams'
  BY <1>1, <1>4, <1>5 DEF Streams, Data
<1>8. Named' /\ ShowsItsOwn'
  BY <1>1 DEF SInv, Named, ShowsItsOwn
<1>9. Asked'
  BY <1>1, <1>6 DEF SInv, Asked, Reaches
<1>10. Behind'
  <2> SUFFICES ASSUME page.v # None, NEW i \in DOMAIN net' PROVE page.v.f <= net'[i].v.f
    BY <1>1, <1>2 DEF SInv, Behind
  <2>1. page.v.f <= net[1].v.f /\ net[1].v.f <= net'[i].v.f
    BY <1>3, <1>4 DEF SInv, Behind
  <2>2. page.v.f \in Nat /\ net[1].v.f \in Nat /\ net'[i].v.f \in Nat
    <3>1. net[1].v \in Document /\ page.v \in Document
      BY <1>3, <1>4, Facts DEF SInv, Sequel
    <3>2. net'[i].v \in Document
      <4>1. i + 1 \in DOMAIN net /\ net'[i] = net[i + 1] /\ Data(net[i + 1])
        BY <1>1, <1>4, Gone
      <4> QED BY <4>1, Facts DEF SInv, Sequel
    <3> QED BY <3>1, <3>2, Documents
  <2> QED BY <2>1, <2>2
<1>11. Continues'
  <2>1. lost' # {}
    BY <1>1
  <2> QED BY <1>1, <1>4, <1>6, <2>1 DEF SInv, Continues
<1> QED BY <1>4, <1>7, <1>8, <1>9, <1>10, <1>11 DEF SInv

\* The hello: the page says what it shows, where the stream was not opened naming it.
LEMMA HelloShows ==
  ASSUME TInv, SInv, Take, ~Data(net[1])
  PROVE  SInv'
<1>1. net # <<>> /\ net' = Tail(net) /\ UNCHANGED <<store, engine, conn, url, wanted, resync, feed>>
  BY DEF Take, figures
<1>2. Said(engine)' = Said(engine)
  BY <1>1, FiguresKept
<1>3. net[1] = Hello /\ ~known /\ Head(net) = Hello
  BY <1>1, <1>2, TailSound, Facts DEF Data
<1>4. conn = "open" /\ posts = {}
  BY <1>1, <1>3 DEF SInv, Streams, TInv, PShapes
<1>5. After(Hello) = page
  BY Kinds DEF After
<1>6. /\ page' = page /\ known' = TRUE /\ lost' \in {lost, {"seen"}}
      /\ posts' = IF page.p # url.p THEN {Watch(Shown(page.p))} ELSE {}
  BY <1>3, <1>4, <1>5, Kinds DEF Take
<1>7. /\ Sequel' /\ (\A i \in DOMAIN net' : Data(net'[i])) /\ (Fresh' <=> net' = <<>>)
      /\ net' # <<>> => net'[Len(net')] = net[Len(net)] /\ ~Fresh /\ net'[1] = net[2] /\ 2 \in DOMAIN net
      /\ 1 \in DOMAIN net
  BY <1>1, <1>2, TailSound
<1>8. Fresh => net' = <<>>
  BY <1>7
<1>9. Streams'
  BY <1>1, <1>4, <1>6, <1>7 DEF Streams, Data
<1>10. Named' /\ ShowsItsOwn'
  BY <1>1, <1>4, <1>6 DEF SInv, Named, ShowsItsOwn
<1>11. Asked'
  <2>1. \A r \in posts' : r.type = "watch" => ~Own(r)
    <3> SUFFICES ASSUME page.p # url.p PROVE ~Own(Watch(Shown(page.p)))
      BY <1>6
    <3>1. page.v = None \/ page.v.p # page.p
      BY <1>3, <1>4 DEF SInv, Named
    <3>2. page \in Shown_ /\ page.p \in Params
      BY Facts DEF TInv, PShapes
    <3>3. Watch(Shown(page.p)).p = page.p /\ (Watch(Shown(page.p)).have # None => Watch(Shown(page.p)).have = page.v)
      BY <3>2, ShownIs
    <3> QED BY <3>1, <3>3 DEF Own
  <2>2. \A w : Reaches(w) => feed.view.p = w.p \/ (feed.view.p = None /\ net' = <<>> /\ page.v # None
                                                     /\ page.v.p = w.p /\ w.have.f <= page.v.f)
    BY <1>8 DEF Reaches
  <2> QED BY <1>1, <1>6, <1>7, <2>1, <2>2 DEF SInv, Asked, Reaches
<1>12. Behind'
  <2> SUFFICES ASSUME page.v # None, NEW i \in DOMAIN net' PROVE page.v.f <= net'[i].v.f
    BY <1>1, <1>2, <1>6 DEF SInv, Behind
  <2>1. i + 1 \in DOMAIN net /\ net'[i] = net[i + 1] /\ Data(net[i + 1])
    BY <1>1, <1>7, Gone
  <2> QED BY <2>1 DEF SInv, Behind
<1>13. Continues'
  <2>1. lost' = {} => lost = {}
    BY <1>6
  <2>2. lost' = {} /\ net' # <<>> => Linked(page'.data, net'[1])
    <3> SUFFICES ASSUME lost = {}, net' # <<>> PROVE Linked(page.data, net[2])
      BY <1>6, <1>7, <2>1
    <3> QED BY <1>3, <1>7 DEF SInv, Continues, Data
  <2>3. ~Fresh' => ~Fresh /\ net'[Len(net')] = net[Len(net)]
    BY <1>7
  <2>4. Fresh' => Fresh
    <3> SUFFICES ASSUME net' = <<>> PROVE net = <<Hello>>
      BY <1>7 DEF Fresh
    <3>1. Len(net) = 1 /\ net \in Seq(Messages)
      BY <1>1, Gone DEF TInv, PShapes
    <3> QED BY <1>3, <3>1
  <2>5. feed.view.p # None =>
          /\ feed.view.sent # None
          /\ Fresh' /\ lost' = {} => page'.data = feed.view.sent
          /\ ~Fresh' => net'[Len(net')].v = feed.view.sent
    BY <1>6, <2>1, <2>3, <2>4 DEF SInv, Continues
  <2> QED BY <1>1, <1>7, <2>2, <2>5 DEF Continues
<1> QED BY <1>7, <1>9, <1>10, <1>11, <1>12, <1>13 DEF SInv

\* A message taken: either nothing was lost before it, or it is the whole, or the page waits for it.
LEMMA DataShows ==
  ASSUME TInv, SInv, Take, Data(net[1])
  PROVE  SInv'
<1> DEFINE m == net[1]
           gap == "unseen" \in lost
<1>1. net # <<>> /\ net' = Tail(net) /\ UNCHANGED <<store, engine, conn, url, wanted, resync, feed>>
  BY DEF Take, figures
<1>2. Said(engine)' = Said(engine)
  BY <1>1, FiguresKept
<1>3. /\ Sequel' /\ (\A i \in DOMAIN net' : Data(net'[i])) /\ (Fresh' <=> net' = <<>>)
      /\ (\A i \in DOMAIN net' : m.v.f <= net'[i].v.f)
      /\ net' # <<>> => net'[Len(net')] = net[Len(net)] /\ ~Fresh /\ net'[1] = net[2] /\ 2 \in DOMAIN net
      /\ 1 \in DOMAIN net
  BY <1>1, <1>2, TailSound
<1>4. m \in Messages /\ Head(net) = m /\ net \in Seq(Messages)
  BY <1>1, <1>3, Facts DEF TInv, PShapes
<1>5. m.v \in Document /\ m.v.f <= Said(engine) /\ (m.type = "patch" => m.base # None)
  <2>1. m.v # None /\ m.v.f <= Said(engine) /\ (m.type = "patch" => m.base # None)
    BY <1>3 DEF SInv, Sequel
  <2> QED BY <1>3, <2>1, Facts
<1>6. conn = "open" /\ known
  <2>1. m # Hello
    BY Kinds DEF Data
  <2> QED BY <1>1, <2>1 DEF SInv, Streams, TInv, PShapes
<1>7. /\ page' = After(m) /\ known' = known
      /\ posts' = posts \cup (IF gap THEN {Resync} ELSE {})
      /\ lost' = IF gap THEN {"seen"} ELSE IF m.type = "snapshot" THEN {} ELSE lost
  <2>1. m.type # "hello"
    BY DEF Data
  <2> HIDE DEF m
  <2> QED BY <1>4, <1>6, <2>1 DEF Take
<1>8. m.type \in {"snapshot", "same", "patch"}
  BY <1>4 DEF Messages, Data
<1>9. page \in Shown_
  BY DEF TInv, PShapes
<1> HIDE DEF m
<1>10. page'.p = page.p /\ (page' = page \/ page'.v = m.v)
  <2>1. page'.p = page.p
    BY <1>4, <1>7, <1>9, AfterIs
  <2>2. page' = page \/ page'.v = m.v
    BY <1>7, <1>8, <1>9 DEF After, Shown_
  <2> QED BY <2>1, <2>2
<1>11. lost' = {} \/ "seen" \notin lost' => page'.v = m.v /\ page'.data = m.v
  <2> SUFFICES ASSUME "seen" \notin lost' PROVE page'.v = m.v /\ page'.data = m.v
    BY <1>7
  <2>1. ~gap /\ (m.type = "snapshot" \/ "seen" \notin lost)
    BY <1>7
  <2>2. CASE m.type = "snapshot"
    <3>1. page' = [page EXCEPT !.data = m.v, !.v = m.v]
      BY <1>7, <2>2 DEF After
    <3> QED BY <1>9, <3>1 DEF Shown_
  <2>3. CASE m.type # "snapshot"
    <3>1. lost = {}
      BY <2>1, <2>3 DEF TInv, PShapes
    <3>2. Linked(page.data, m)
      BY <1>1, <3>1 DEF SInv, Continues, m
    <3>3. CASE m.type = "same"
      <4>1. page' = [page EXCEPT !.v = m.v] /\ page.data = m.v
        BY <1>7, <3>2, <3>3 DEF After, Linked
      <4> QED BY <1>9, <4>1 DEF Shown_
    <3>4. CASE m.type = "patch"
      <4>1. page.data = m.base /\ page.data # None
        BY <1>5, <3>2, <3>4 DEF Linked
      <4>2. page' = [page EXCEPT !.data = m.v, !.v = m.v]
        BY <1>7, <3>4, <4>1 DEF After
      <4> QED BY <1>9, <4>2 DEF Shown_
    <3> QED BY <1>8, <2>3, <3>3, <3>4
  <2> QED BY <2>2, <2>3
<1>12. ~Fresh
  BY <1>1, Kinds DEF Fresh, Data, m
<1>13. page.v # None => page.v.f \in Nat /\ page.v.f <= m.v.f
  <2> SUFFICES ASSUME page.v # None PROVE page.v.f \in Nat /\ page.v.f <= m.v.f
    OBVIOUS
  <2>1. page.v \in Document
    BY Facts
  <2> QED BY <1>3, <2>1, Documents DEF SInv, Behind, m
<1>14. m.v.f \in Nat /\ m.v # None /\ Said(engine) \in Nat
  BY <1>5, Documents, Facts
<1>15. page.v # None => page'.v # None /\ page.v.f <= page'.v.f
  BY <1>10, <1>13, <1>14
<1>16. Streams'
  BY <1>1, <1>3, <1>6, <1>7 DEF Streams, Data
<1>17. Named'
  <2>1. url.have # None => page'.v # None /\ url.have.f <= page'.v.f
    <3> SUFFICES ASSUME url.have # None PROVE page'.v # None /\ url.have.f <= page'.v.f
      OBVIOUS
    <3>1. page.v # None /\ url.have.f <= page.v.f
      BY DEF SInv, Named
    <3>2. url.have.f \in Nat /\ page.v.f \in Nat
      BY <3>1, Facts, Documents
    <3>3. page'.v = page.v \/ page'.v = m.v
      BY <1>10
    <3> QED BY <1>13, <1>14, <3>1, <3>2, <3>3
  <2> QED BY <1>1, <1>6, <1>7, <2>1 DEF Named
<1>18. Asked'
  <2>1. \A r \in posts' : r.type = "watch" => ~Own(r)
    BY <1>7 DEF SInv, Asked, Resync
  <2> QED BY <1>1, <1>12, <2>1 DEF SInv, Asked, Reaches
<1>19. Behind'
  <2> SUFFICES ASSUME page'.v # None
               PROVE  page'.v.f <= Said(engine) /\ \A i \in DOMAIN net' : page'.v.f <= net'[i].v.f
    BY <1>2 DEF Behind
  <2>1. CASE page'.v = m.v
    BY <1>3, <1>5, <2>1
  <2>2. CASE page' = page
    <3>1. page.v.f <= Said(engine)
      BY <2>2 DEF SInv, Behind
    <3>2. ASSUME NEW i \in DOMAIN net' PROVE page.v.f <= net'[i].v.f
      <4>1. i + 1 \in DOMAIN net /\ net'[i] = net[i + 1] /\ Data(net[i + 1])
        BY <1>1, <1>3, Gone
      <4> QED BY <2>2, <4>1 DEF SInv, Behind
    <3> QED BY <2>2, <3>1, <3>2
  <2> QED BY <1>10, <2>1, <2>2
<1>20. Continues'
  <2>1. lost' = {} /\ net' # <<>> => Linked(page'.data, net'[1])
    <3> SUFFICES ASSUME lost' = {}, net' # <<>> PROVE Linked(m.v, net[2])
      BY <1>3, <1>11
    <3> QED BY <1>3 DEF SInv, Sequel, m
  <2>2. ~Fresh' => net'[Len(net')] = net[Len(net)]
    BY <1>3
  <2>3. Fresh' => net[Len(net)] = m
    BY <1>1, <1>3, Gone DEF m
  <2>4. feed.view.p # None =>
          /\ feed.view.sent # None
          /\ Fresh' /\ lost' = {} => page'.data = feed.view.sent
          /\ ~Fresh' => net'[Len(net')].v = feed.view.sent
    <3> SUFFICES ASSUME feed.view.p # None
                 PROVE  /\ feed.view.sent # None
                        /\ Fresh' /\ lost' = {} => page'.data = feed.view.sent
                        /\ ~Fresh' => net'[Len(net')].v = feed.view.sent
      OBVIOUS
    <3>1. feed.view.sent # None /\ net[Len(net)].v = feed.view.sent
      BY <1>12 DEF SInv, Continues
    <3> QED BY <1>11, <2>2, <2>3, <3>1
  <2> QED BY <1>1, <1>3, <2>1, <2>4 DEF Continues
<1>21. ShowsItsOwn'
  BY <1>11 DEF ShowsItsOwn
<1> QED BY <1>3, <1>16, <1>17, <1>18, <1>19, <1>20, <1>21 DEF SInv

\* What a read sends of the filters looked at goes on from what was sent before it; where it says the
\* page holds the document, the page does.
LEMMA ReadShows ==
  ASSUME TInv, SInv, NEW m \in Messages, NEW now \in Document,
         feed.at = "looked", now.p = feed.want.p, now.f = Said(engine), Answer(now, MovedSince(feed.upto)) = <<m>>
  PROVE  /\ m.v = now /\ Data(m) /\ (m.type = "patch" => m.base # None)
         /\ net # <<>> /\ Data(net[Len(net)]) => Linked(net[Len(net)].v, m)
         /\ Fresh /\ lost = {} => Linked(page.data, m)
<1> DEFINE out == Answer(now, MovedSince(feed.upto))
<1>1. /\ m \in {Snapshot(now), Same(now), Patch(feed.view.sent, now)}
      /\ m = Same(now) => feed.view.p = None /\ feed.want.have = now
      /\ m = Patch(feed.view.sent, now) => feed.view.p # None
  <2>1. \/ feed.view.p = None /\ feed.want.have = now /\ out = <<Same(now)>>
        \/ out = <<Snapshot(now)>>
        \/ feed.view.p # None /\ out = <<Patch(feed.view.sent, now)>>
    <3>1. out # <<>>
      OBVIOUS
    <3> QED BY <3>1 DEF Answer
  <2>2. Same(now).type = "same" /\ Snapshot(now).type = "snapshot" /\ Patch(feed.view.sent, now).type = "patch"
    BY DEF Same, Snapshot, Patch
  <2>3. \/ feed.view.p = None /\ feed.want.have = now /\ m = Same(now)
        \/ m = Snapshot(now)
        \/ feed.view.p # None /\ m = Patch(feed.view.sent, now)
    BY <2>1
  <2> QED BY <2>2, <2>3
<1>2. CASE m = Snapshot(now)
  BY <1>2 DEF Snapshot, Data, Linked
<1>3. CASE m = Patch(feed.view.sent, now)
  <2>1. m.v = now /\ m.type = "patch" /\ m.base = feed.view.sent
    BY <1>3 DEF Patch
  <2>2. feed.view.p # None /\ feed.view.sent # None
    BY <1>1, <1>3 DEF SInv, Continues
  <2>3. ASSUME net # <<>>, Data(net[Len(net)]) PROVE net[Len(net)].v = feed.view.sent
    <3>1. ~Fresh
      BY <2>3, Kinds DEF Fresh, Data
    <3> QED BY <2>2, <3>1 DEF SInv, Continues
  <2>4. ASSUME Fresh, lost = {} PROVE page.data = feed.view.sent
    BY <2>2, <2>4 DEF SInv, Continues
  <2> QED BY <2>1, <2>2, <2>3, <2>4 DEF Data, Linked
<1>4. CASE m = Same(now)
  <2>1. m.v = now /\ m.type = "same"
    BY <1>4 DEF Same
  <2>2. feed.view.p = None /\ feed.want.have = now
    BY <1>1, <1>4
  <2>3. Own(feed.want) /\ now # None
    BY <2>2, Documents DEF Own
  <2>4. Reaches(feed.want)
    BY <2>3 DEF SInv, Asked
  <2>5. feed.want.p # None
    BY Documents
  <2>6. Fresh /\ page.v # None /\ page.v.p = now.p /\ now.f <= page.v.f
    BY <2>2, <2>4, <2>5 DEF Reaches
  <2>7. ~(net # <<>> /\ Data(net[Len(net)]))
    BY <2>6, Kinds DEF Fresh, Data
  <2>8. page.v = now
    <3>1. page.v \in Document /\ page.v.f <= now.f
      BY <2>6, Facts DEF SInv, Behind
    <3>2. page.v.f \in Nat /\ now.f \in Nat
      BY <3>1, Documents
    <3>3. page.v.f = now.f
      BY <2>6, <3>1, <3>2
    <3> QED BY <2>6, <3>1, <3>3, Documents
  <2>9. lost = {} => page.data = now
    BY <2>6, <2>8 DEF SInv, ShowsItsOwn
  <2> QED BY <2>1, <2>7, <2>9 DEF Data, Linked
<1> QED BY <1>1, <1>2, <1>3, <1>4

\* What a read sends goes on from what is on its way, or from what the page shows.
LEMMA StepReadShows == TInv /\ SInv /\ StepRead => SInv'
<1> SUFFICES ASSUME TInv, SInv, StepRead PROVE SInv'
  OBVIOUS
<1> DEFINE now == Now(feed.want.p)
           out == Answer(now, MovedSince(feed.upto))
           view == IF out # <<>> THEN [p |-> now.p, sent |-> now] ELSE feed.view
<1>1. /\ feed.at = "looked" /\ net' = net \o out /\ feed' = [NoFeed EXCEPT !.upto = version', !.view = view]
      /\ UNCHANGED <<page, conn, known, url, posts, wanted, resync, lost>>
  BY DEF StepRead
<1>2. UNCHANGED <<store, engine>> /\ feed.want \in Want /\ now \in Document
  BY ReadIs
<1>3. Said(engine)' = Said(engine)
  BY <1>2, FiguresKept
<1>4. now.p = feed.want.p /\ now.f = Said(engine)
  BY <1>2, NowIs DEF TInv, Want
<1>5. conn = "open"
  BY <1>1, Kinds DEF SInv, Streams
<1>6. feed'.view = view /\ feed'.at = "parked"
  BY <1>1 DEF NoFeed
<1>7. ShowsItsOwn' /\ Named'
  BY <1>1 DEF SInv, ShowsItsOwn, Named
<1>8. CASE out = <<>>
  <2>1. view = feed.view
    BY <1>8
  <2> HIDE DEF out, view
  <2>2. net' = net
    BY <1>1, <1>8 DEF TInv, PShapes
  <2>3. Sequel' /\ Behind' /\ Fresh' = Fresh
    BY <1>1, <1>3, <2>2, StillShows
  <2>4. Streams'
    BY <1>1, <1>5, <2>2 DEF SInv, Streams
  <2>5. Asked'
    BY <1>1, <1>6, <2>1, <2>3 DEF SInv, Asked, Reaches
  <2>6. Continues'
    BY <1>1, <1>6, <2>1, <2>2, <2>3 DEF SInv, Continues
  <2> QED BY <1>7, <2>3, <2>4, <2>5, <2>6 DEF SInv
<1>9. CASE out # <<>>
  <2>1. view = [p |-> now.p, sent |-> now]
    BY <1>9
  <2> HIDE DEF view
  <2>2. PICK m \in Messages : out = <<m>>
    BY <1>2, <1>9, AnswerIs
  <2> HIDE DEF now
  <2>3. /\ m.v = now /\ Data(m) /\ (m.type = "patch" => m.base # None)
        /\ net # <<>> /\ Data(net[Len(net)]) => Linked(net[Len(net)].v, m)
        /\ Fresh /\ lost = {} => Linked(page.data, m)
    BY <1>1, <1>2, <1>4, <2>2, ReadShows
  <2> HIDE DEF out
  <2>4. /\ Len(net') = Len(net) + 1 /\ DOMAIN net' = 1..(Len(net) + 1) /\ Len(net) \in Nat /\ DOMAIN net = 1..Len(net)
        /\ net'[Len(net) + 1] = m /\ (\A i \in DOMAIN net : i \in DOMAIN net' /\ net'[i] = net[i])
        /\ net' # <<>>
    BY <1>1, <2>2, Sent
  <2>5. now # None /\ Said(engine) \in Nat
    BY <1>2, Documents, Facts
  <2>6. \A i \in DOMAIN net' : i \in DOMAIN net \/ i = Len(net) + 1
    BY <2>4
  <2>7. ~Fresh'
    <3>1. ASSUME net' = <<Hello>> PROVE FALSE
      <4>1. Len(net') = 1 /\ net'[1] = Hello
        BY <3>1
      <4>2. m = Hello
        BY <2>4, <4>1
      <4> QED BY <2>3, <4>2, Kinds DEF Data
    <3> QED BY <2>4, <3>1 DEF Fresh
  <2>8. Streams'
    <3>1. \A i \in DOMAIN net' : net'[i].type = "hello" => i = 1 /\ ~known /\ net'[i] = Hello
      BY <2>3, <2>4, <2>6 DEF SInv, Streams, Data
    <3>2. ~known => net # <<>> /\ net[1] = Hello /\ posts = {}
      BY <1>5 DEF SInv, Streams
    <3>3. ~known => net'[1] = Hello
      <4>1. net # <<>> => 1 \in DOMAIN net
        BY Facts
      <4> QED BY <2>4, <3>2, <4>1
    <3> QED BY <1>1, <1>5, <2>4, <3>1, <3>2, <3>3 DEF Streams
  <2>9. Asked'
    <3>1. Own(wanted) => feed.want = wanted
      BY <1>1 DEF SInv, Asked
    <3>2. Own(wanted) => feed'.view.p = wanted.p
      BY <1>4, <1>6, <2>1, <3>1
    <3> QED BY <1>1, <1>6, <3>2 DEF SInv, Asked, Reaches, Own
  <2>10. Sequel'
    <3>1. \A i \in DOMAIN net' : Data(net'[i]) =>
            net'[i].v # None /\ net'[i].v.f <= Said(engine)' /\ (net'[i].type = "patch" => net'[i].base # None)
      <4>1. now.f <= Said(engine)
        BY <1>4, <2>5
      <4> QED BY <1>3, <2>3, <2>4, <2>5, <2>6, <4>1 DEF SInv, Sequel
    <3>2. \A i, j \in DOMAIN net' : i < j /\ Data(net'[i]) => net'[i].v.f <= net'[j].v.f
      <4> SUFFICES ASSUME NEW i \in DOMAIN net', NEW j \in DOMAIN net', i < j, Data(net'[i])
                   PROVE  net'[i].v.f <= net'[j].v.f
        OBVIOUS
      <4>1. i \in DOMAIN net /\ net'[i] = net[i]
        BY <2>4
      <4>2. CASE j \in DOMAIN net
        BY <2>4, <4>1, <4>2 DEF SInv, Sequel
      <4>3. CASE j = Len(net) + 1
        <5>1. net'[j].v.f = Said(engine)
          BY <1>4, <2>3, <2>4, <4>3
        <5>2. net[i].v.f <= Said(engine)
          BY <4>1 DEF SInv, Sequel
        <5> QED BY <4>1, <5>1, <5>2
      <4> QED BY <2>6, <4>2, <4>3
    <3>3. \A i, j \in DOMAIN net' : j = i + 1 /\ Data(net'[i]) => Linked(net'[i].v, net'[j])
      <4> SUFFICES ASSUME NEW i \in DOMAIN net', NEW j \in DOMAIN net', j = i + 1, Data(net'[i])
                   PROVE  Linked(net'[i].v, net'[j])
        OBVIOUS
      <4>1. i \in DOMAIN net /\ net'[i] = net[i]
        BY <2>4
      <4>2. CASE j \in DOMAIN net
        BY <2>4, <4>1, <4>2 DEF SInv, Sequel
      <4>3. CASE j = Len(net) + 1
        <5>1. i = Len(net) /\ net # <<>>
          BY <2>4, <4>1, <4>3
        <5> QED BY <2>3, <2>4, <4>1, <4>3, <5>1
      <4> QED BY <2>6, <4>2, <4>3
    <3> QED BY <3>1, <3>2, <3>3 DEF Sequel
  <2>11. Behind'
    <3> SUFFICES ASSUME page.v # None
                 PROVE  page.v.f <= Said(engine) /\ \A i \in DOMAIN net' : Data(net'[i]) => page.v.f <= net'[i].v.f
      BY <1>1, <1>3 DEF Behind
    <3>1. page.v.f <= Said(engine) /\ \A i \in DOMAIN net : Data(net[i]) => page.v.f <= net[i].v.f
      BY DEF SInv, Behind
    <3>2. net'[Len(net) + 1].v.f = Said(engine)
      BY <1>4, <2>3, <2>4
    <3> QED BY <2>4, <2>6, <3>1, <3>2
  <2>12. Continues'
    <3>1. ASSUME lost = {}, NEW i \in DOMAIN net', i # 1, ~Data(net'[i - 1])
          PROVE  Linked(page.data, net'[i])
      <4>1. i - 1 \in DOMAIN net /\ net'[i - 1] = net[i - 1]
        BY <2>4, <3>1
      <4>2. CASE i \in DOMAIN net
        BY <2>4, <3>1, <4>1, <4>2 DEF SInv, Continues
      <4>3. CASE i = Len(net) + 1
        <5>1. i - 1 = 1 /\ net[i - 1] = Hello
          BY <3>1, <4>1 DEF SInv, Streams, Data
        <5>2. Len(net) = 1
          <6> DEFINE n == Len(net)
          <6>1. n \in Nat
            BY <2>4
          <6>2. i = n + 1 /\ i - 1 = 1
            BY <4>3, <5>1
          <6> HIDE DEF n
          <6>3. n = 1
            BY <6>1, <6>2
          <6> QED BY <6>3 DEF n
        <5>3. net = <<Hello>>
          <6>1. net \in Seq(Messages)
            BY DEF TInv, PShapes
          <6>2. net[1] = Hello
            BY <5>1
          <6> QED BY <5>2, <6>1, <6>2, HelloAlone
        <5> QED BY <2>3, <2>4, <3>1, <4>3, <5>3 DEF Fresh
      <4> QED BY <2>6, <4>2, <4>3
    <3>2. ASSUME lost = {} PROVE Linked(page.data, net'[1])
      <4>1. CASE net = <<>>
        BY <2>3, <2>4, <3>2, <4>1 DEF Fresh
      <4>2. CASE net # <<>>
        BY <2>4, <3>2, <4>2, Facts DEF SInv, Continues
      <4> QED BY <4>1, <4>2
    <3>3. net'[Len(net')].v = feed'.view.sent /\ feed'.view.sent # None
      BY <1>6, <2>1, <2>3, <2>4, <2>5
    <3> QED BY <1>1, <2>7, <3>1, <3>2, <3>3 DEF Continues
  <2> QED BY <1>7, <2>8, <2>9, <2>10, <2>11, <2>12 DEF SInv
<1> QED BY <1>8, <1>9

\* Every step keeps what the page says true.
LEMMA NextShows ==
  ASSUME Hasty = FALSE, StaleUrl = FALSE
  PROVE  TInv /\ SInv /\ [Next]_vars => SInv'
<1> SUFFICES ASSUME TInv, SInv, [Next]_vars PROVE SInv'
  OBVIOUS
<1>1. CASE Arrive \/ Write
  BY <1>1, FiguresShow DEF Arrive, Write
<1>2. CASE Connect
  BY <1>2, ConnectShows
<1>3. CASE Stream
  BY <1>3, StepLookShows, StepReadShows DEF Stream
<1>4. CASE Network
  <2>1. CASE Open
    BY <2>1, OpenShows
  <2>2. CASE Take
    BY <2>2, HelloShows, DataShows
  <2>3. CASE \E r \in posts : TakePost(r)
    BY <2>3, TakePostShows
  <2> QED BY <1>4, <2>1, <2>2, <2>3 DEF Network
<1>5. CASE \E q \in Params : Turn(q)
  BY <1>5, TurnShows
<1>6. CASE Lose
  BY <1>6, LoseShows
<1>7. CASE End
  BY <1>7, OverShows DEF End
<1>8. CASE Refuse
  BY <1>8, OverShows DEF Refuse
<1>9. CASE UNCHANGED vars
  <2>1. UNCHANGED <<store, engine, page, conn, known, url, posts, net, wanted, resync, feed, lost>>
    BY <1>9 DEF vars, figures
  <2>2. Said(engine)' = Said(engine)
    BY <2>1, FiguresKept
  <2>3. Sequel' /\ Behind'
    BY <2>1, <2>2, StillShows
  <2>4. Streams' /\ Named' /\ Asked' /\ Continues' /\ ShowsItsOwn'
    BY <2>1 DEF SInv, Streams, Named, Asked, Reaches, Continues, ShowsItsOwn, Fresh
  <2> QED BY <2>3, <2>4 DEF SInv
<1> QED BY <1>1, <1>2, <1>3, <1>4, <1>5, <1>6, <1>7, <1>8, <1>9 DEF Next

\* Where the filters are not changed while the page is owed an answer, and a stream opened again names
\* what the page shows still, the version the page says it holds is the version of what it shows, or
\* it knows a message was lost: whatever is lost, ended or refused, however often, and whatever is
\* counted between a stream's two looks at the log.
THEOREM HoldsWhatItShows ==
  ASSUME Hasty = FALSE, StaleUrl = FALSE
  PROVE  Spec => []ShowsItsOwn
<1>1. Init => TInv /\ SInv
  BY InitTypes, InitShows
<1>2. (TInv /\ SInv) /\ [Next]_vars => (TInv /\ SInv)'
  BY NextTypes, NextShows
<1>3. SInv => ShowsItsOwn
  BY DEF SInv
<1> QED BY <1>1, <1>2, <1>3, PTL DEF Spec
==============================================================================
