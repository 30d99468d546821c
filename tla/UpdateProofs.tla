----------------------------- MODULE UpdateProofs -----------------------------
(***************************************************************************)
(* What an update in place guarantees, for any releases, files and stores, *)
(* and any number of starts, presses, faults and stops of the machine: the *)
(* types with any number of supervisors; and with one supervisor, that a   *)
(* server never meets a store it does not know and that a version goes     *)
(* back only for a build that dies inside its window; and, where an update *)
(* is not pressed inside the last one's window, that no row written        *)
(* outside one is lost and that the files are one build's.                 *)
(***************************************************************************)
EXTENDS Update, FiniteSetTheorems, WellFoundedInduction, TLAPS

USE UpdateAssumption

------------------------------------------------------------------------------
(* The types, and what is spent. *)

Marker_ == [tag : Builds \cup {None}, at : 0..Presses]
Store_  == [ver : Builds, rows : 0..Writes]
Sup_    == [at : {"off", "spawn", "waiting", "proved", "cleared", "stores", "files"},
            update : Marker_, window : BOOLEAN]
Child_  == [at : {"none", "starting", "opening", "serving", "keeping", "putting", "marking", "gone"},
            build : Builds \cup {None}, code : {"none", "ok", "fail", "restart"},
            open : SUBSET Stores, stale : SUBSET Stores]
Left_   == [starts : 0..Starts, presses : 0..Presses, writes : 0..Writes, faults : 0..Faults, losses : 0..Losses]

Holding    == {"opening", "serving", "keeping", "putting", "marking"}
Alive(s)   == child[s].at \in Holding \cup {"starting"}
Installing == \E s \in Starters : child[s].at \in {"keeping", "putting"}

\* One server holds the data folder; one at work is of a release, and one installing has a next.
ServersSound ==
  /\ \A r, s \in Starters : Holder(r) /\ Holder(s) => r = s
  /\ \A s \in Starters : /\ Alive(s) => child[s].build \in Builds
                         /\ child[s].at \in {"keeping", "putting"} => \E b \in Builds : b > child[s].build

\* A marker is of a press, and a row of a write.
PressesSpent == installs + left.presses + (IF Installing THEN 1 ELSE 0) <= Presses
WritesSpent ==
  /\ \A f \in Stores : store[f].rows + left.writes <= Writes /\ written[f] + left.writes <= Writes
  /\ \A c \in snapshots : c.rows + left.writes <= Writes

TInv == TypeOK /\ ServersSound /\ PressesSpent /\ WritesSpent

\* A set of numbers has a least one.
LEMMA Least ==
  ASSUME NEW S \in SUBSET Nat, S # {}
  PROVE  \E n \in S : \A m \in S : n <= m
<1> DEFINE R == {p \in Nat \X Nat : p[1] < p[2]}
<1>1. IsWellFoundedOn(R, Nat)
  <2>1. R = OpToRel(<, Nat)
    BY DEF OpToRel
  <2> QED BY <2>1, NatLessThanWellFounded
<1> HIDE DEF R
<1>2. PICK x \in S : \A y \in S : ~(<<y, x>> \in R)
  BY <1>1, WFMin
<1>3. \A y \in S : x <= y
  <2> SUFFICES ASSUME NEW y \in S PROVE x <= y
    OBVIOUS
  <2>1. x \in Nat /\ y \in Nat
    OBVIOUS
  <2>2. ~(y < x)
    BY <1>2, <2>1 DEF R
  <2> QED BY <2>1, <2>2
<1> QED BY <1>3

\* The next release is a later release.
LEMMA NextBuild ==
  ASSUME NEW b \in Nat, \E n \in Builds : n > b
  PROVE  Next1(b) \in Builds /\ Next1(b) > b
<1> DEFINE S == {n \in Builds : n > b}
<1>1. PICK n \in S : \A m \in S : n <= m
  BY Least
<1>2. n \in Builds /\ n > b /\ \A m \in Builds : m > b => n <= m
  BY <1>1
<1> QED BY <1>2 DEF Next1

\* What each thing spends.
LEMMA Spends ==
  ASSUME TypeOK, NEW what \in {"starts", "presses", "writes", "faults", "losses"}, Spend(what)
  PROVE  /\ left' \in Left_ /\ left.presses \in Nat /\ left.writes \in Nat
         /\ left'.presses = IF what = "presses" THEN left.presses - 1 ELSE left.presses
         /\ left'.writes = IF what = "writes" THEN left.writes - 1 ELSE left.writes
         /\ left'.losses = IF what = "losses" THEN left.losses - 1 ELSE left.losses
         /\ what = "losses" => left'.losses # Losses
         /\ what = "presses" => left.presses > 0
         /\ what = "writes" => left.writes > 0
<1>1. left \in Left_
  BY DEF TypeOK, Left_
<1>2. CASE what = "starts"
  BY <1>1, <1>2 DEF Left_, Spend
<1>3. CASE what = "presses"
  BY <1>1, <1>3 DEF Left_, Spend
<1>4. CASE what = "writes"
  BY <1>1, <1>4 DEF Left_, Spend
<1>5. CASE what = "faults"
  BY <1>1, <1>5 DEF Left_, Spend
<1>6. CASE what = "losses"
  BY <1>1, <1>6 DEF Left_, Spend
<1> QED BY <1>2, <1>3, <1>4, <1>5, <1>6

\* A server where it now stands.
Stands(c, a) == [c EXCEPT !.at = a]
\* A server that goes on to another stand is a server, of the same build.
LEMMA StandsIn ==
  ASSUME NEW c \in Child_, NEW a \in Holding \cup {"starting"}
  PROVE  LET d == Stands(c, a) IN
         /\ d \in Child_ /\ d.at = a /\ d.build = c.build /\ d.code = c.code /\ d.open = c.open /\ d.stale = c.stale
BY DEF Stands, Child_, Holding

\* And one that is gone.
Gone(c, code) == [NoChild EXCEPT !.at = "gone", !.build = c.build, !.code = code]
\* A server that is gone is a server, of the build it had.
LEMMA GoneFrom ==
  ASSUME NEW c \in Child_, NEW code \in {"ok", "fail", "restart"}
  PROVE  LET d == Gone(c, code) IN
         /\ d \in Child_ /\ d.at = "gone" /\ d.build = c.build /\ d.code = code /\ d.open = {} /\ d.stale = {}
BY DEF Gone, NoChild, Child_

\* One server moves on, or one goes.
LEMMA ServerMoves ==
  ASSUME TypeOK, ServersSound, NEW s \in Starters, NEW c \in Child_, child' = [child EXCEPT ![s] = c],
         c.at \in Holding => Holder(s) \/ \A r \in Starters : ~Holder(r),
         c.at \in Holding \cup {"starting"} => c.build \in Builds,
         c.at \in {"keeping", "putting"} => \E b \in Builds : b > c.build
  PROVE  /\ child' \in [Starters -> Child_] /\ ServersSound' /\ child'[s] = c
         /\ \A r \in Starters \ {s} : child'[r] = child[r]
         /\ (c.at \in {"keeping", "putting"} => child[s].at \in {"keeping", "putting"}) => (Installing' => Installing)
<1>1. /\ child' \in [Starters -> Child_] /\ child'[s] = c
      /\ \A r \in Starters \ {s} : child'[r] = child[r]
  BY DEF TypeOK, Child_, Marker_
<1>2. ASSUME NEW r \in Starters PROVE Holder(r)' => Holder(r) \/ (r = s /\ \A q \in Starters : ~Holder(q))
  BY <1>1 DEF Holder, Holding
<1>3. \A q, r \in Starters : Holder(q)' /\ Holder(r)' => q = r
  BY <1>2 DEF ServersSound
<1>4. ASSUME NEW r \in Starters
      PROVE  /\ Alive(r)' => child'[r].build \in Builds
             /\ child'[r].at \in {"keeping", "putting"} => \E b \in Builds : b > child'[r].build
  BY <1>1 DEF ServersSound, Alive
<1> QED BY <1>1, <1>3, <1>4 DEF ServersSound, Installing

\* The types as one: what a step must give back.
Shapes ==
  /\ files \in [Names -> Builds] /\ previous \in [Names -> Builds \cup {None}]
  /\ marker \in Marker_ /\ failed \in Builds \cup {None}
  /\ store \in [Stores -> Store_] /\ snapshots \subseteq Snapshots
  /\ sup \in [Starters -> Sup_] /\ child \in [Starters -> Child_]
  /\ bad \subseteq Builds /\ installs \in 0..Presses /\ left \in Left_ /\ written \in [Stores -> 0..Writes]

\* The types the runs check, and as one conjunct for each variable.
LEMMA ShapesAre == (TypeOK <=> Shapes) /\ (TypeOK' <=> Shapes')
BY DEF TypeOK, Shapes, Marker_, Store_, Sup_, Child_, Left_

\* A step that writes no row and no marker, and presses nothing.
LEMMA Quiet ==
  ASSUME TInv, UNCHANGED <<store, written, bad, installs>>, snapshots' \subseteq snapshots,
         files' \in [Names -> Builds], previous' \in [Names -> Builds \cup {None}], marker' \in Marker_,
         failed' \in Builds \cup {None}, sup' \in [Starters -> Sup_], child' \in [Starters -> Child_],
         ServersSound', Installing' => Installing,
         left' \in Left_, left'.presses <= left.presses, left'.writes <= left.writes
  PROVE  TInv'
<1>1. Shapes /\ PressesSpent /\ WritesSpent
  BY ShapesAre DEF TInv
<1>2. Shapes'
  BY <1>1 DEF Shapes
<1>3. left.presses \in Nat /\ left.writes \in Nat /\ left'.presses \in Nat /\ left'.writes \in Nat /\ installs \in Nat
  BY <1>1 DEF Shapes, Left_
<1>4. PressesSpent'
  BY <1>1, <1>3 DEF PressesSpent
<1>5. WritesSpent'
  <2>1. ASSUME NEW f \in Stores
        PROVE  store'[f].rows + left'.writes <= Writes /\ written'[f] + left'.writes <= Writes
    <3>1. store[f].rows \in Nat /\ written[f] \in Nat
      BY <1>1 DEF Shapes, Store_
    <3>2. store[f].rows + left.writes <= Writes /\ written[f] + left.writes <= Writes
      BY <1>1 DEF WritesSpent
    <3> QED BY <1>3, <3>1, <3>2
  <2>2. ASSUME NEW c \in snapshots' PROVE c.rows + left'.writes <= Writes
    <3>1. c \in snapshots /\ c.rows \in Nat
      BY <1>1 DEF Shapes, Snapshots
    <3>2. c.rows + left.writes <= Writes
      BY <1>1, <3>1 DEF WritesSpent
    <3> QED BY <1>3, <3>1, <3>2
  <2> QED BY <2>1, <2>2 DEF WritesSpent
<1> QED BY <1>2, <1>4, <1>5, ShapesAre DEF TInv

\* What is of no update, of no supervisor and of no server.
LEMMA Plain ==
  /\ NoMarker \in Marker_ /\ Off \in Sup_ /\ NoChild \in Child_ /\ Nothing \in [Names -> Builds \cup {None}]
  /\ NoMarker.at = 0 /\ Off.window = FALSE /\ Off.update = NoMarker
  /\ NoChild.at = "none" /\ NoChild.open = {} /\ NoChild.stale = {}
<1>1. Presses \in Nat
  OBVIOUS
<1> QED BY <1>1 DEF NoMarker, Marker_, Off, Sup_, NoChild, Child_, Nothing

\* It holds at the start.
LEMMA InitTypes == Init => TInv
<1> SUFFICES ASSUME Init PROVE TInv
  OBVIOUS
<1>2. Shapes
  <2>1. {Starts, Presses, Writes, Faults, Losses} \subseteq Nat /\ 1 \in Builds
    OBVIOUS
  <2>2. 0 \in 0..Presses /\ 0 \in 0..Writes /\ left \in Left_
    BY <2>1 DEF Init, Left_
  <2>3. store \in [Stores -> Store_] /\ written \in [Stores -> 0..Writes] /\ files \in [Names -> Builds]
    BY <2>1, <2>2 DEF Init, Store_
  <2> QED BY <2>2, <2>3, Plain DEF Init, Shapes
<1>3. \A s \in Starters : child[s].at = "none"
  BY DEF Init, NoChild
<1>4. ServersSound /\ ~Installing
  BY <1>3 DEF ServersSound, Installing, Holder, Alive, Holding
<1>5. installs = 0 /\ left.presses = Presses /\ left.writes = Writes /\ snapshots = {}
      /\ \A f \in Stores : store[f].rows = 0 /\ written[f] = 0
  BY DEF Init
<1>6. PressesSpent /\ WritesSpent
  <2>1. Presses \in Nat /\ Writes \in Nat
    OBVIOUS
  <2> QED BY <2>1, <1>4, <1>5 DEF PressesSpent, WritesSpent
<1> QED BY <1>2, <1>4, <1>6, ShapesAre DEF TInv

\* The supervisor's own record, where it stands now.
LEMMA SupMoves ==
  ASSUME Shapes, NEW s \in Starters, NEW u \in Sup_, sup' = [sup EXCEPT ![s] = u]
  PROVE  sup' \in [Starters -> Sup_] /\ sup'[s] = u /\ \A r \in Starters \ {s} : sup'[r] = sup[r]
BY DEF Shapes

\* What a step of one supervisor, or of its server, does to where they stand: each action's
\* own, with the rest of what it changes left to the action.
LEMMA StartMoves ==
  ASSUME TInv, NEW s \in Starters, Start(s)
  PROVE  TInv' /\ sup[s].at = "off" /\ sup'[s].at = "spawn" /\ sup'[s].window = FALSE
         /\ left'.losses = left.losses /\ \A r \in Starters \ {s} : sup'[r] = sup[r]
<1>1. Shapes /\ TypeOK
  BY ShapesAre DEF TInv
<1> DEFINE u == [Off EXCEPT !.at = "spawn"]
<1>2. u \in Sup_ /\ u.at = "spawn" /\ u.window = FALSE
  BY Plain DEF Off, Sup_
<1> HIDE DEF u
<1>3. sup' = [sup EXCEPT ![s] = u] /\ Spend("starts") /\ sup[s].at = "off"
      /\ UNCHANGED <<disk, child, bad, installs, written>>
  BY DEF Start, u
<1>4. sup' \in [Starters -> Sup_] /\ sup'[s] = u /\ \A r \in Starters \ {s} : sup'[r] = sup[r]
  BY <1>1, <1>2, <1>3, SupMoves
<1>5. left' \in Left_ /\ left'.presses = left.presses /\ left'.writes = left.writes /\ left'.losses = left.losses
      /\ left.presses \in Nat /\ left.writes \in Nat
  BY <1>1, <1>3, Spends
<1>6. ServersSound' /\ (Installing' => Installing)
  BY <1>3 DEF TInv, ServersSound, Installing, Alive, Holder, disk
<1>7. TInv'
  BY <1>1, <1>3, <1>4, <1>5, <1>6, Quiet DEF Shapes, disk
<1> QED BY <1>2, <1>3, <1>4, <1>5, <1>7

\* The server is started on the files in place.
LEMMA SpawnMoves ==
  ASSUME TInv, NEW s \in Starters, Spawn(s)
  PROVE  TInv' /\ sup[s].at = "spawn" /\ sup'[s].at = "waiting" /\ (sup'[s].window <=> marker # NoMarker)
         /\ sup'[s].update = sup[s].update /\ child'[s].at = "starting" /\ child'[s].build = files["exe"]
         /\ child'[s].open = {} /\ child'[s].stale = {} /\ \A r \in Starters \ {s} : sup'[r] = sup[r] /\ child'[r] = child[r]
<1>1. Shapes /\ TypeOK /\ ServersSound
  BY ShapesAre DEF TInv
<1> DEFINE c == [NoChild EXCEPT !.at = "starting", !.build = files["exe"]]
           w == marker # NoMarker
           u == [sup[s] EXCEPT !.at = "waiting", !.window = w]
<1>2. files["exe"] \in Builds
  BY <1>1 DEF Shapes
<1>3. c \in Child_ /\ c.at = "starting" /\ c.build = files["exe"] /\ c.open = {} /\ c.stale = {}
  BY <1>2 DEF NoChild, Child_
<1>4. u \in Sup_ /\ u.at = "waiting" /\ (u.window <=> w) /\ u.update = sup[s].update
  BY <1>1 DEF Shapes, Sup_
<1>5. sup' = [sup EXCEPT ![s] = u] /\ child' = [child EXCEPT ![s] = c] /\ sup[s].at = "spawn"
      /\ UNCHANGED <<disk, history>>
  BY <1>1 DEF Spawn, Shapes
<1> HIDE DEF c, u
<1>6. sup' \in [Starters -> Sup_] /\ sup'[s] = u /\ \A r \in Starters \ {s} : sup'[r] = sup[r]
  BY <1>1, <1>4, <1>5, SupMoves
<1>7. child' \in [Starters -> Child_] /\ ServersSound' /\ child'[s] = c /\ (Installing' => Installing)
      /\ \A r \in Starters \ {s} : child'[r] = child[r]
  BY <1>1, <1>2, <1>3, <1>5, ServerMoves DEF Holding
<1>8. left' \in Left_ /\ left'.presses = left.presses /\ left'.writes = left.writes
      /\ left.presses \in Nat /\ left.writes \in Nat
  BY <1>1, <1>5 DEF Shapes, Left_, history
<1>9. TInv'
  BY <1>1, <1>5, <1>6, <1>7, <1>8, Quiet DEF Shapes, disk, history
<1> QED BY <1>3, <1>4, <1>5, <1>6, <1>7, <1>9

\* A step of the server's that writes and spends nothing.
LEMMA ServerQuiet ==
  ASSUME TInv, NEW s \in Starters, NEW c \in Child_, child' = [child EXCEPT ![s] = c],
         c.at \in Holding => Holder(s) \/ \A r \in Starters : ~Holder(r),
         c.at \in Holding \cup {"starting"} => c.build \in Builds,
         c.at \in {"keeping", "putting"} => child[s].at \in {"keeping", "putting"} /\ c.build = child[s].build,
         UNCHANGED <<store, written, bad, installs>>, snapshots' \subseteq snapshots,
         files' \in [Names -> Builds], previous' \in [Names -> Builds \cup {None}], marker' \in Marker_,
         failed' \in Builds \cup {None}, sup' \in [Starters -> Sup_],
         left' \in Left_, left'.presses = left.presses, left'.writes = left.writes
  PROVE  TInv' /\ child'[s] = c /\ \A r \in Starters \ {s} : child'[r] = child[r]
<1>1. Shapes /\ TypeOK /\ ServersSound
  BY ShapesAre DEF TInv
<1>2. c.at \in {"keeping", "putting"} => \E b \in Builds : b > c.build
  BY <1>1 DEF ServersSound
<1>3. /\ child' \in [Starters -> Child_] /\ ServersSound' /\ child'[s] = c /\ (Installing' => Installing)
      /\ \A r \in Starters \ {s} : child'[r] = child[r]
  BY <1>1, <1>2, ServerMoves
<1>4. left.presses \in Nat /\ left.writes \in Nat
  BY <1>1 DEF Shapes, Left_
<1> QED BY <1>3, <1>4, Quiet

\* A second server is refused, the first holds the folder.
LEMMA HoldMoves ==
  ASSUME TInv, NEW s \in Starters, Hold(s)
  PROVE  /\ TInv' /\ child[s].at = "starting" /\ \A r \in Starters \ {s} : child'[r] = child[r]
         /\ child'[s].build = child[s].build /\ child'[s].open \subseteq child[s].open /\ child'[s].stale \subseteq child[s].stale
         /\ \/ child'[s].at = "opening"
            \/ child'[s].at = "gone" /\ \E r \in Starters : Holder(r)
<1>1. Shapes /\ TypeOK /\ ServersSound /\ child[s] \in Child_
  BY ShapesAre DEF TInv, Shapes
<1>2. child[s].at = "starting" /\ UNCHANGED <<files, previous, marker, store, snapshots, sup, history>>
      /\ failed' \in {failed, None}
  BY DEF Hold
<1>3. child[s].build \in Builds
  BY <1>1, <1>2 DEF ServersSound, Alive
<1>4. /\ left' \in Left_ /\ left'.presses = left.presses /\ left'.writes = left.writes
      /\ UNCHANGED <<store, written, bad, installs>> /\ snapshots' \subseteq snapshots
      /\ files' \in [Names -> Builds] /\ previous' \in [Names -> Builds \cup {None}] /\ marker' \in Marker_
      /\ failed' \in Builds \cup {None} /\ sup' \in [Starters -> Sup_]
  BY <1>1, <1>2 DEF Shapes, history
<1>5. CASE (\E r \in Starters : Holder(r)) /\ Exit(s, "fail")
  <2>1. PICK c \in Child_ : /\ c = Gone(child[s], "fail") /\ c.at = "gone" /\ c.build = child[s].build
                            /\ c.open = {} /\ c.stale = {}
    BY <1>1, GoneFrom
  <2>2. child' = [child EXCEPT ![s] = c]
    BY <1>5, <2>1 DEF Exit, Gone
  <2>3. TInv' /\ child'[s] = c /\ \A r \in Starters \ {s} : child'[r] = child[r]
    BY <1>4, <2>1, <2>2, ServerQuiet DEF Holding
  <2> QED BY <1>2, <1>5, <2>1, <2>3
<1>6. CASE (~\E r \in Starters : Holder(r)) /\ child' = [child EXCEPT ![s].at = "opening"]
  <2>1. PICK c \in Child_ : /\ c = Stands(child[s], "opening") /\ c.at = "opening" /\ c.build = child[s].build
                            /\ c.open = child[s].open /\ c.stale = child[s].stale
    BY <1>1, StandsIn DEF Holding
  <2>2. child' = [child EXCEPT ![s] = c]
    BY <1>1, <1>6, <2>1 DEF Stands, Shapes
  <2>3. TInv' /\ child'[s] = c /\ \A r \in Starters \ {s} : child'[r] = child[r]
    BY <1>3, <1>4, <1>6, <2>1, <2>2, ServerQuiet
  <2> QED BY <1>2, <2>1, <2>3
<1> QED BY <1>5, <1>6 DEF Hold

\* Started, the copies going where no marker waits.
LEMMA ListenMoves ==
  ASSUME TInv, NEW s \in Starters, Listen(s)
  PROVE  /\ TInv' /\ child[s].at = "opening" /\ child'[s].at = "serving" /\ \A r \in Starters \ {s} : child'[r] = child[r]
         /\ child'[s].build = child[s].build /\ child'[s].open = child[s].open /\ child'[s].stale = child[s].stale
<1>1. Shapes /\ TypeOK /\ ServersSound /\ child[s] \in Child_
  BY ShapesAre DEF TInv, Shapes
<1>2. child[s].at = "opening" /\ UNCHANGED <<files, previous, marker, failed, store, sup, history>>
      /\ snapshots' \subseteq snapshots /\ child' = [child EXCEPT ![s].at = "serving"]
  BY DEF Listen
<1>3. child[s].build \in Builds /\ Holder(s)
  BY <1>1, <1>2 DEF ServersSound, Alive, Holding, Holder
<1>4. PICK c \in Child_ : /\ c = Stands(child[s], "serving") /\ c.at = "serving" /\ c.build = child[s].build
                          /\ c.open = child[s].open /\ c.stale = child[s].stale
  BY <1>1, StandsIn DEF Holding
<1>5. child' = [child EXCEPT ![s] = c]
  BY <1>1, <1>2, <1>4 DEF Stands, Shapes
<1>6. left' \in Left_ /\ left'.presses = left.presses /\ left'.writes = left.writes
  BY <1>1, <1>2 DEF Shapes, history
<1>7. TInv' /\ child'[s] = c /\ \A r \in Starters \ {s} : child'[r] = child[r]
  BY <1>1, <1>2, <1>3, <1>4, <1>5, <1>6, ServerQuiet DEF Shapes, history
<1> QED BY <1>2, <1>4, <1>7

\* The files are kept; a file cannot be put, and all go back.
LEMMA KeepMoves ==
  ASSUME TInv, NEW s \in Starters, NEW a \in {"putting", "serving"},
         \/ a = "putting" /\ KeepPrevious(s)
         \/ a = "serving" /\ PutFails(s)
  PROVE  /\ TInv' /\ child'[s].at = a /\ \A r \in Starters \ {s} : child'[r] = child[r]
         /\ child[s].at = IF a = "putting" THEN "keeping" ELSE "putting"
         /\ child'[s].build = child[s].build /\ child'[s].open = child[s].open /\ child'[s].stale = child[s].stale
         /\ left'.losses = left.losses
<1>1. Shapes /\ TypeOK /\ ServersSound /\ child[s] \in Child_
  BY ShapesAre DEF TInv, Shapes
<1>2. /\ child[s].at = IF a = "putting" THEN "keeping" ELSE "putting"
      /\ child' = [child EXCEPT ![s].at = a]
      /\ UNCHANGED <<marker, failed, store, snapshots, sup, bad, installs, written>>
  BY DEF KeepPrevious, PutFails, history
<1>3. child[s].build \in Builds /\ Holder(s)
  BY <1>1, <1>2 DEF ServersSound, Alive, Holding, Holder
<1>4. PICK c \in Child_ : /\ c = Stands(child[s], a) /\ c.at = a /\ c.build = child[s].build
                          /\ c.open = child[s].open /\ c.stale = child[s].stale
  BY <1>1, StandsIn DEF Holding
<1>5. child' = [child EXCEPT ![s] = c]
  BY <1>1, <1>2, <1>4 DEF Stands, Shapes
<1>6. left' \in Left_ /\ left'.presses = left.presses /\ left'.writes = left.writes /\ left'.losses = left.losses
  <2>1. CASE a = "putting"
    BY <1>1, <2>1 DEF Shapes, history, KeepPrevious
  <2>2. CASE a = "serving"
    BY <1>1, <2>2, Spends DEF PutFails
  <2> QED BY <2>1, <2>2
<1>7. files' \in [Names -> Builds] /\ previous' \in [Names -> Builds \cup {None}]
  <2>1. CASE a = "putting"
    BY <1>1, <2>1 DEF Shapes, KeepPrevious
  <2>2. CASE a = "serving"
    BY <1>1, <2>2, Plain DEF PutFails, Shapes
  <2> QED BY <2>1, <2>2
<1>8. TInv' /\ child'[s] = c /\ \A r \in Starters \ {s} : child'[r] = child[r]
  BY <1>1, <1>2, <1>3, <1>4, <1>5, <1>6, <1>7, ServerQuiet DEF Shapes
<1> QED BY <1>2, <1>4, <1>6, <1>8

\* The server ends, of itself or for the restart.
LEMMA ExitMoves ==
  ASSUME TInv, NEW s \in Starters, NEW code \in {"ok", "fail", "restart"}, Exit(s, code), UNCHANGED <<disk, sup, history>>
  PROVE  /\ TInv' /\ child'[s].at = "gone" /\ child'[s].code = code /\ child'[s].build = child[s].build
         /\ child'[s].open = {} /\ child'[s].stale = {} /\ \A r \in Starters \ {s} : child'[r] = child[r]
<1>1. Shapes /\ TypeOK /\ child[s] \in Child_
  BY ShapesAre DEF TInv, Shapes
<1>2. PICK c \in Child_ : /\ c = Gone(child[s], code) /\ c.at = "gone" /\ c.build = child[s].build /\ c.code = code
                          /\ c.open = {} /\ c.stale = {}
  BY <1>1, GoneFrom
<1>3. child' = [child EXCEPT ![s] = c]
  BY <1>2 DEF Exit, Gone
<1>4. left' \in Left_ /\ left'.presses = left.presses /\ left'.writes = left.writes
  BY <1>1 DEF Shapes, history
<1>5. TInv' /\ child'[s] = c /\ \A r \in Starters \ {s} : child'[r] = child[r]
  BY <1>1, <1>2, <1>3, <1>4, ServerQuiet DEF Shapes, Holding, disk, history
<1> QED BY <1>2, <1>5

\* The button: one at work becomes one installing, where none was.
LEMMA PressMoves ==
  ASSUME TInv, NEW s \in Starters, Press(s)
  PROVE  /\ TInv' /\ child[s].at = "serving" /\ child'[s].at = "keeping" /\ \A r \in Starters \ {s} : child'[r] = child[r]
         /\ child'[s].build = child[s].build /\ child'[s].open = child[s].open /\ child'[s].stale = child[s].stale
         /\ left'.losses = left.losses
<1>1. Shapes /\ TypeOK /\ ServersSound /\ PressesSpent /\ WritesSpent /\ child[s] \in Child_
  BY ShapesAre DEF TInv, Shapes
<1>2. /\ child[s].at = "serving" /\ child' = [child EXCEPT ![s].at = "keeping"] /\ Spend("presses")
      /\ UNCHANGED <<disk, sup, bad, installs, written>> /\ \E b \in Builds : b > child[s].build
  BY DEF Press
<1>3. child[s].build \in Builds /\ Holder(s)
  BY <1>1, <1>2 DEF ServersSound, Alive, Holding, Holder
<1>4. PICK c \in Child_ : /\ c = Stands(child[s], "keeping") /\ c.at = "keeping" /\ c.build = child[s].build
                          /\ c.open = child[s].open /\ c.stale = child[s].stale
  BY <1>1, StandsIn DEF Holding
<1>5. child' = [child EXCEPT ![s] = c]
  BY <1>1, <1>2, <1>4 DEF Stands, Shapes
<1>6. /\ left' \in Left_ /\ left.presses \in Nat /\ left.writes \in Nat /\ left.presses > 0
      /\ left'.presses = left.presses - 1 /\ left'.writes = left.writes /\ left'.losses = left.losses
  BY <1>1, <1>2, Spends
<1>7. /\ child' \in [Starters -> Child_] /\ ServersSound' /\ child'[s] = c
      /\ \A r \in Starters \ {s} : child'[r] = child[r]
  <2>1. \E b \in Builds : b > c.build
    BY <1>2, <1>4
  <2> QED BY <1>1, <1>3, <1>4, <1>5, <2>1, ServerMoves
<1>8. ~Installing
  BY <1>1, <1>2, <1>3 DEF ServersSound, Installing, Holder
<1>9. Shapes'
  BY <1>1, <1>2, <1>6, <1>7 DEF Shapes, disk
<1>10. PressesSpent'
  <2>1. installs + left.presses <= Presses /\ installs \in Nat /\ installs' = installs /\ Presses \in Nat
    <3>1. Presses \in Nat
      OBVIOUS
    <3>2. installs \in Nat /\ installs' = installs
      BY <1>1, <1>2, <3>1 DEF Shapes
    <3>3. installs + left.presses + 0 <= Presses
      BY <1>1, <1>8 DEF PressesSpent
    <3> QED BY <1>6, <3>1, <3>2, <3>3
  <2>2. installs + (left.presses - 1) + 1 <= Presses
    BY <1>6, <2>1
  <2>3. installs + (left.presses - 1) + 0 <= Presses
    BY <1>6, <2>1
  <2> QED BY <1>6, <2>1, <2>2, <2>3 DEF PressesSpent
<1>11. WritesSpent'
  BY <1>1, <1>2, <1>6 DEF WritesSpent, disk
<1> QED BY <1>2, <1>4, <1>6, <1>7, <1>9, <1>10, <1>11, ShapesAre DEF TInv

\* The files are all there: the marker is left, for the build that comes next.
LEMMA PendingMoves ==
  ASSUME TInv, NEW s \in Starters, WritePending(s)
  PROVE  /\ TInv' /\ child[s].at = "putting" /\ child'[s].at = "marking" /\ \A r \in Starters \ {s} : child'[r] = child[r]
         /\ child'[s].build = child[s].build /\ child'[s].open = child[s].open /\ child'[s].stale = child[s].stale
         /\ Next1(child[s].build) \in Builds /\ Next1(child[s].build) > child[s].build /\ child[s].build \in Builds
<1>1. Shapes /\ TypeOK /\ ServersSound /\ PressesSpent /\ WritesSpent /\ child[s] \in Child_
  BY ShapesAre DEF TInv, Shapes
<1> DEFINE b == child[s].build
<1>2. /\ child[s].at = "putting" /\ child' = [child EXCEPT ![s].at = "marking"]
      /\ marker' = [tag |-> Next1(b), at |-> installs + 1] /\ installs' = installs + 1
      /\ UNCHANGED <<files, previous, failed, store, snapshots, sup, bad, left, written>>
  BY DEF WritePending
<1>3. b \in Builds /\ Holder(s)
  BY <1>1, <1>2 DEF ServersSound, Alive, Holding, Holder
<1>4. Next1(b) \in Builds /\ Next1(b) > b
  BY <1>1, <1>2, <1>3, NextBuild DEF ServersSound
<1>5. PICK c \in Child_ : /\ c = Stands(child[s], "marking") /\ c.at = "marking" /\ c.build = b
                          /\ c.open = child[s].open /\ c.stale = child[s].stale
  BY <1>1, StandsIn DEF Holding
<1>6. child' = [child EXCEPT ![s] = c]
  BY <1>1, <1>2, <1>5 DEF Stands, Shapes
<1>7. /\ child' \in [Starters -> Child_] /\ ServersSound' /\ child'[s] = c
      /\ \A r \in Starters \ {s} : child'[r] = child[r]
  BY <1>1, <1>3, <1>5, <1>6, ServerMoves
<1>8. Installing /\ ~Installing'
  BY <1>1, <1>2, <1>3, <1>5, <1>7 DEF ServersSound, Installing, Holder
<1>9. Presses \in Nat /\ left.presses \in Nat /\ installs \in Nat
  BY <1>1 DEF Shapes, Left_
<1>10. installs + left.presses + 1 <= Presses
  BY <1>1, <1>8 DEF PressesSpent
<1>11. Shapes'
  <2>1. installs' \in 0..Presses
    BY <1>2, <1>9, <1>10
  <2>2. marker' \in Marker_
    BY <1>2, <1>4, <2>1 DEF Marker_
  <2> QED BY <1>1, <1>2, <1>7, <2>1, <2>2 DEF Shapes
<1>12. PressesSpent'
  BY <1>2, <1>8, <1>9, <1>10 DEF PressesSpent
<1>13. WritesSpent'
  BY <1>1, <1>2 DEF WritesSpent
<1> QED BY <1>2, <1>3, <1>4, <1>5, <1>7, <1>11, <1>12, <1>13, ShapesAre DEF TInv

\* A file goes in place: of the next build.
LEMMA PutMoves ==
  ASSUME TInv, NEW s \in Starters, NEW n \in Names, PutFile(s, n)
  PROVE  /\ TInv' /\ child[s].at = "putting" /\ files' = [files EXCEPT ![n] = Next1(child[s].build)]
         /\ Next1(child[s].build) \in Builds /\ Next1(child[s].build) > child[s].build /\ child[s].build \in Builds
<1>1. Shapes /\ TypeOK /\ ServersSound
  BY ShapesAre DEF TInv
<1>2. child[s].at = "putting" /\ files' = [files EXCEPT ![n] = Next1(child[s].build)]
      /\ UNCHANGED <<previous, marker, failed, store, snapshots, sup, child, history>>
  BY DEF PutFile
<1>3. child[s].build \in Builds
  BY <1>1, <1>2 DEF ServersSound, Alive, Holding
<1>4. Next1(child[s].build) \in Builds /\ Next1(child[s].build) > child[s].build
  BY <1>1, <1>2, <1>3, NextBuild DEF ServersSound
<1>5. files' \in [Names -> Builds] /\ left' \in Left_ /\ left.presses \in Nat /\ left.writes \in Nat
  BY <1>1, <1>2, <1>4 DEF Shapes, Left_, history
<1>6. ServersSound' /\ (Installing' => Installing)
  BY <1>1, <1>2 DEF ServersSound, Installing, Alive, Holder
<1>7. TInv'
  BY <1>1, <1>2, <1>5, <1>6, Quiet DEF Shapes, history
<1> QED BY <1>2, <1>3, <1>4, <1>7

\* The supervisor's steps that leave the servers and the stores alone.
LEMMA WatchMoves ==
  ASSUME TInv, NEW s \in Starters, NEW u \in Sup_, sup' = [sup EXCEPT ![s] = u],
         UNCHANGED <<store, child, history>>, snapshots' \subseteq snapshots,
         files' \in [Names -> Builds], previous' \in [Names -> Builds \cup {None}], marker' \in Marker_,
         failed' \in Builds \cup {None}
  PROVE  TInv' /\ sup'[s] = u /\ \A r \in Starters \ {s} : sup'[r] = sup[r]
<1>1. Shapes /\ ServersSound
  BY ShapesAre DEF TInv
<1>2. sup' \in [Starters -> Sup_] /\ sup'[s] = u /\ \A r \in Starters \ {s} : sup'[r] = sup[r]
  BY <1>1, SupMoves
<1>3. left' \in Left_ /\ left'.presses <= left.presses /\ left'.writes <= left.writes
  BY <1>1 DEF Shapes, Left_, history
<1>4. ServersSound' /\ (Installing' => Installing)
  BY <1>1 DEF ServersSound, Installing, Alive, Holder
<1>5. UNCHANGED <<written, bad, installs>>
  BY DEF history
<1>6. child' \in [Starters -> Child_]
  BY <1>1 DEF Shapes
<1>7. TInv'
  BY <1>2, <1>3, <1>4, <1>5, <1>6, Quiet
<1> QED BY <1>2, <1>7

\* The update took: its marker goes, then what was kept, then the copies.
LEMMA HealthyMoves ==
  ASSUME TInv, NEW s \in Starters, Healthy(s)
  PROVE  /\ TInv' /\ sup[s].at = "waiting" /\ sup'[s].at = "proved" /\ sup'[s].window = FALSE
         /\ sup'[s].update = sup[s].update /\ \A r \in Starters \ {s} : sup'[r] = sup[r]
<1>1. Shapes
  BY ShapesAre DEF TInv
<1> DEFINE u == [sup[s] EXCEPT !.at = "proved", !.window = FALSE]
<1>2. u \in Sup_ /\ u.at = "proved" /\ u.window = FALSE /\ u.update = sup[s].update
  BY <1>1 DEF Shapes, Sup_
<1>3. sup' = [sup EXCEPT ![s] = u] /\ sup[s].at = "waiting" /\ marker' = NoMarker
      /\ UNCHANGED <<files, previous, failed, store, snapshots, child, history>>
  BY <1>1 DEF Healthy, Shapes
<1> HIDE DEF u
<1>4. files' \in [Names -> Builds] /\ previous' \in [Names -> Builds \cup {None}] /\ marker' \in Marker_
      /\ failed' \in Builds \cup {None}
  BY <1>1, <1>3, Plain DEF Shapes
<1>5. TInv' /\ sup'[s] = u /\ \A r \in Starters \ {s} : sup'[r] = sup[r]
  BY <1>2, <1>3, <1>4, WatchMoves
<1> QED BY <1>2, <1>3, <1>5

\* An update proved: the old build's files go, then the copies of the stores.
LEMMA ClearedMoves ==
  ASSUME TInv, NEW s \in Starters, Cleared(s)
  PROVE  /\ TInv' /\ sup'[s].window = sup[s].window /\ sup'[s].update = sup[s].update
         /\ \A r \in Starters \ {s} : sup'[r] = sup[r]
         /\ \/ sup[s].at = "proved" /\ sup'[s].at = "cleared" /\ previous' = Nothing /\ snapshots' = snapshots
            \/ sup[s].at = "cleared" /\ sup'[s].at = "waiting" /\ previous' = previous /\ snapshots' = {}
         /\ UNCHANGED <<files, marker, failed, store, child, history>>
<1>1. Shapes
  BY ShapesAre DEF TInv
<1>2. PICK a \in {"cleared", "waiting"} :
        /\ sup' = [sup EXCEPT ![s].at = a]
        /\ \/ sup[s].at = "proved" /\ a = "cleared" /\ previous' = Nothing /\ snapshots' = snapshots
           \/ sup[s].at = "cleared" /\ a = "waiting" /\ previous' = previous /\ snapshots' = {}
        /\ UNCHANGED <<files, marker, failed, store, child, history>>
  BY DEF Cleared
<1> DEFINE u == [sup[s] EXCEPT !.at = a]
<1>3. u \in Sup_ /\ u.at = a /\ u.window = sup[s].window /\ u.update = sup[s].update
  BY <1>1 DEF Shapes, Sup_
<1>4. sup' = [sup EXCEPT ![s] = u]
  BY <1>1, <1>2 DEF Shapes
<1> HIDE DEF u
<1>5. files' \in [Names -> Builds] /\ previous' \in [Names -> Builds \cup {None}] /\ marker' \in Marker_
      /\ failed' \in Builds \cup {None} /\ snapshots' \subseteq snapshots
  BY <1>1, <1>2, Plain DEF Shapes
<1>6. TInv' /\ sup'[s] = u /\ \A r \in Starters \ {s} : sup'[r] = sup[r]
  BY <1>2, <1>3, <1>4, <1>5, WatchMoves
<1> QED BY <1>2, <1>3, <1>6

\* A kept file goes back; then all have, and the failure is left to be said.
LEMMA FileMoves ==
  ASSUME TInv, NEW s \in Starters, NEW n \in Names, RestoreFile(s, n)
  PROVE  TInv' /\ sup[s].at = "files" /\ files' = [files EXCEPT ![n] = previous[n]] /\ previous[n] \in Builds
<1>1. Shapes /\ ServersSound
  BY ShapesAre DEF TInv
<1>2. sup[s].at = "files" /\ previous[n] # None /\ files' = [files EXCEPT ![n] = previous[n]]
      /\ UNCHANGED <<previous, marker, failed, store, snapshots, sup, child, history>>
  BY DEF RestoreFile
<1>3. previous[n] \in Builds
  BY <1>1, <1>2 DEF Shapes
<1>4. files' \in [Names -> Builds] /\ previous' \in [Names -> Builds \cup {None}] /\ marker' \in Marker_
      /\ failed' \in Builds \cup {None} /\ sup' \in [Starters -> Sup_] /\ child' \in [Starters -> Child_]
  BY <1>1, <1>2, <1>3 DEF Shapes
<1>5. left' \in Left_ /\ left'.presses <= left.presses /\ left'.writes <= left.writes
  BY <1>1, <1>2 DEF Shapes, Left_, history
<1>6. ServersSound' /\ (Installing' => Installing)
  BY <1>1, <1>2 DEF ServersSound, Installing, Alive, Holder
<1>7. TInv'
  BY <1>2, <1>4, <1>5, <1>6, Quiet DEF history
<1> QED BY <1>2, <1>3, <1>7

\* A supervisor that ends leaves all but itself as it was.
LEMMA LeaveMoves ==
  ASSUME TInv, NEW s \in Starters, LeaveFailure(s)
  PROVE  /\ TInv' /\ sup[s].at = "files" /\ sup'[s].at \in {"off", "spawn"} /\ sup'[s].window = FALSE
         /\ (sup'[s].at = "spawn" => previous # Nothing) /\ \A r \in Starters \ {s} : sup'[r] = sup[r]
<1>1. Shapes
  BY ShapesAre DEF TInv
<1>2. PICK a \in {"off", "spawn"} :
        /\ sup' = [sup EXCEPT ![s] = [Off EXCEPT !.at = a]] /\ (a = "spawn" => previous # Nothing)
        /\ sup[s].at = "files" /\ previous' = Nothing /\ failed' = sup[s].update.tag
        /\ UNCHANGED <<files, marker, store, snapshots, child, history>>
  BY DEF LeaveFailure
<1> DEFINE u == [Off EXCEPT !.at = a]
<1>3. u \in Sup_ /\ u.at = a /\ u.window = FALSE
  BY Plain DEF Off, Sup_
<1>4. sup' = [sup EXCEPT ![s] = u]
  BY <1>2
<1> HIDE DEF u
<1>5. sup[s].update.tag \in Builds \cup {None}
  BY <1>1 DEF Shapes, Sup_, Marker_
<1>6. files' \in [Names -> Builds] /\ previous' \in [Names -> Builds \cup {None}] /\ marker' \in Marker_
      /\ failed' \in Builds \cup {None} /\ snapshots' \subseteq snapshots
  BY <1>1, <1>2, <1>5, Plain DEF Shapes
<1>7. TInv' /\ sup'[s] = u /\ \A r \in Starters \ {s} : sup'[r] = sup[r]
  BY <1>2, <1>3, <1>4, <1>6, WatchMoves
<1> QED BY <1>2, <1>3, <1>7

\* The child is gone: started again, put back, or the supervisor ends with it.
LEMMA ReapMoves ==
  ASSUME TInv, NEW s \in Starters, Reap(s)
  PROVE  LET back == sup[s].window /\ child[s].code = "fail" IN
         /\ TInv' /\ sup[s].at = "waiting" /\ child[s].at = "gone" /\ child'[s] = NoChild
         /\ sup'[s].at = (IF child[s].code = "restart" THEN "spawn" ELSE IF back THEN "stores" ELSE "off")
         /\ sup'[s].update = (IF back THEN marker ELSE NoMarker) /\ sup'[s].window = FALSE
         /\ marker' = (IF back THEN NoMarker ELSE marker)
         /\ \A r \in Starters \ {s} : sup'[r] = sup[r] /\ child'[r] = child[r]
<1>1. Shapes /\ TypeOK
  BY ShapesAre DEF TInv
<1> DEFINE back == sup[s].window /\ child[s].code = "fail"
           a == IF child[s].code = "restart" THEN "spawn" ELSE IF back THEN "stores" ELSE "off"
           m == IF back THEN marker ELSE NoMarker
           u == [at |-> a, update |-> m, window |-> FALSE]
<1>2. u \in Sup_ /\ u.at = a /\ u.update = m /\ u.window = FALSE
  BY <1>1, Plain DEF Shapes, Sup_
<1>3. sup[s].at = "waiting" /\ child[s].at = "gone" /\ sup' = [sup EXCEPT ![s] = u]
      /\ child' = [child EXCEPT ![s] = NoChild] /\ marker' = (IF back THEN NoMarker ELSE marker)
      /\ UNCHANGED <<files, previous, failed, store, snapshots, history>>
  BY DEF Reap
<1> HIDE DEF u
<1>4. sup' \in [Starters -> Sup_] /\ sup'[s] = u /\ \A r \in Starters \ {s} : sup'[r] = sup[r]
  BY <1>1, <1>2, <1>3, SupMoves
<1>5. files' \in [Names -> Builds] /\ previous' \in [Names -> Builds \cup {None}] /\ marker' \in Marker_
      /\ failed' \in Builds \cup {None} /\ left' \in Left_ /\ left'.presses = left.presses /\ left'.writes = left.writes
  BY <1>1, <1>3, Plain DEF Shapes, history
<1>6. TInv' /\ child'[s] = NoChild /\ \A r \in Starters \ {s} : child'[r] = child[r]
  BY <1>3, <1>4, <1>5, Plain, ServerQuiet DEF Holding, history
<1> QED BY <1>2, <1>3, <1>4, <1>6

\* The machine stops.
LEMMA LossMoves ==
  ASSUME TInv, PowerLoss
  PROVE  /\ TInv' /\ left'.losses # Losses /\ UNCHANGED disk
         /\ \A s \in Starters : sup'[s] = Off /\ child'[s] = NoChild
<1>1. Shapes /\ TypeOK
  BY ShapesAre DEF TInv
<1>2. Spend("losses") /\ UNCHANGED <<disk, bad, installs, written>>
      /\ sup' = [s \in Starters |-> Off] /\ child' = [s \in Starters |-> NoChild]
  BY DEF PowerLoss
<1>3. left' \in Left_ /\ left'.presses = left.presses /\ left'.writes = left.writes /\ left'.losses # Losses
      /\ left.presses \in Nat /\ left.writes \in Nat
  BY <1>1, <1>2, Spends
<1>4. sup' \in [Starters -> Sup_] /\ child' \in [Starters -> Child_]
      /\ \A s \in Starters : sup'[s] = Off /\ child'[s] = NoChild
  BY <1>2, Plain
<1>5. \A s \in Starters : child'[s].at = "none"
  BY <1>4, Plain
<1>6. ServersSound' /\ ~Installing'
  BY <1>5 DEF ServersSound, Installing, Holder, Alive, Holding
<1>7. TInv'
  BY <1>1, <1>2, <1>3, <1>4, <1>6, Quiet DEF Shapes, disk
<1> QED BY <1>2, <1>3, <1>4, <1>7

\* A store is opened: copied first and brought to the build, or left as it is.
Copy(f) == [of |-> f, ver |-> store[f].ver, rows |-> store[f].rows, at |-> installs]
\* A store opened is of the build that opened it, and what was there is among the copies.
LEMMA OpenMoves ==
  ASSUME TInv, NEW s \in Starters, NEW f \in Stores, Open(s, f)
  PROVE  LET b == child[s].build IN
         /\ TInv' /\ child[s].at = "opening" /\ b \in Builds /\ child'[s].at = "opening" /\ child'[s].build = b
         /\ child'[s].stale = child[s].stale /\ child'[s].open = child[s].open \cup {f}
         /\ \A r \in Starters \ {s} : child'[r] = child[r]
         /\ \/ /\ store[f].ver < b /\ store'[f] = [ver |-> b, rows |-> store[f].rows]
               /\ \A g \in Stores \ {f} : store'[g] = store[g]
               /\ snapshots' = Pruned(snapshots \cup {Copy(f)}, f)
            \/ ~(store[f].ver < b) /\ store' = store /\ snapshots' = snapshots
<1>1. Shapes /\ TypeOK /\ ServersSound /\ PressesSpent /\ WritesSpent /\ child[s] \in Child_
  BY ShapesAre DEF TInv, Shapes
<1> DEFINE b == child[s].build
           c == [child[s] EXCEPT !.open = @ \cup {f}]
           v == [ver |-> b, rows |-> store[f].rows]
<1>2. /\ child[s].at = "opening" /\ child' = [child EXCEPT ![s].open = @ \cup {f}]
      /\ UNCHANGED <<files, previous, marker, failed, sup, history>>
      /\ \/ /\ store[f].ver < b /\ store' = [store EXCEPT ![f].ver = b]
            /\ snapshots' = Pruned(snapshots \cup {Copy(f)}, f)
         \/ ~(store[f].ver < b) /\ store' = store /\ snapshots' = snapshots
  BY DEF Open, Copy
<1>3. b \in Builds /\ Holder(s)
  BY <1>1, <1>2 DEF ServersSound, Alive, Holding, Holder
<1>4. c \in Child_ /\ c.at = "opening" /\ c.build = b /\ c.stale = child[s].stale /\ c.open = child[s].open \cup {f}
  BY <1>1, <1>2 DEF Child_
<1>5. child' = [child EXCEPT ![s] = c]
  BY <1>1, <1>2 DEF Shapes
<1>6. v \in Store_ /\ store[f] \in Store_ /\ store[f].rows \in 0..Writes
  BY <1>1, <1>3 DEF Shapes, Store_
<1>7. [store EXCEPT ![f].ver = b] = [store EXCEPT ![f] = v]
  <2>1. [store[f] EXCEPT !.ver = b] = v
    BY <1>6 DEF Store_
  <2> QED BY <1>1, <2>1 DEF Shapes
<1> HIDE DEF c
<1>8. /\ child' \in [Starters -> Child_] /\ ServersSound' /\ child'[s] = c
      /\ \A r \in Starters \ {s} : child'[r] = child[r]
      /\ (Installing' => Installing)
  BY <1>1, <1>3, <1>4, <1>5, ServerMoves
<1>9. /\ store' \in [Stores -> Store_] /\ \A g \in Stores : store'[g].rows = store[g].rows
      /\ \A g \in Stores \ {f} : store'[g] = store[g]
      /\ store[f].ver < b => store'[f] = v
  <2>1. CASE store[f].ver < b
    <3>1. store' = [store EXCEPT ![f] = v]
      BY <1>2, <1>7, <2>1
    <3>2. store \in [Stores -> Store_]
      BY <1>1 DEF Shapes
    <3> QED BY <1>6, <3>1, <3>2
  <2>2. CASE ~(store[f].ver < b)
    BY <1>1, <1>2, <2>2 DEF Shapes
  <2> QED BY <2>1, <2>2
<1>10. snapshots' \subseteq snapshots \cup {Copy(f)}
  BY <1>2 DEF Pruned
<1>11. Copy(f) \in Snapshots /\ Copy(f).rows = store[f].rows
  BY <1>1, <1>6 DEF Copy, Snapshots, Store_, Shapes
<1>12. Shapes'
  BY <1>1, <1>2, <1>8, <1>9, <1>10, <1>11 DEF Shapes, history
<1>13. PressesSpent'
  <2>1. installs \in Nat /\ left.presses \in Nat /\ installs' = installs /\ left' = left /\ Presses \in Nat
    BY <1>1, <1>2 DEF Shapes, Left_, history
  <2> QED BY <1>1, <1>8, <2>1 DEF PressesSpent
<1>14. WritesSpent'
  BY <1>1, <1>2, <1>9, <1>10, <1>11 DEF WritesSpent, history
<1>15. TInv'
  BY <1>8, <1>12, <1>13, <1>14, ShapesAre DEF TInv
<1> QED BY <1>2, <1>3, <1>4, <1>8, <1>9, <1>15

\* A row is written.
LEMMA WriteMoves ==
  ASSUME TInv, NEW s \in Starters, NEW f \in Stores, Write(s, f)
  PROVE  /\ TInv' /\ left'.losses = left.losses
         /\ child[s].at \in {"serving", "keeping", "putting", "marking"}
         /\ \A g \in Stores : store'[g].ver = store[g].ver
         /\ f \notin child[s].stale =>
              /\ store'[f].rows = store[f].rows + 1 /\ \A g \in Stores \ {f} : store'[g] = store[g]
         /\ \/ marker.tag # child[s].build /\ written'[f] = written[f] + 1
            \/ marker.tag = child[s].build /\ written' = written
         /\ \A g \in Stores \ {f} : written'[g] = written[g]
<1>1. Shapes /\ TypeOK /\ ServersSound /\ PressesSpent /\ WritesSpent
  BY ShapesAre DEF TInv
<1>2. /\ child[s].at \in {"serving", "keeping", "putting", "marking"} /\ Spend("writes")
      /\ store' = IF f \in child[s].stale THEN store ELSE [store EXCEPT ![f].rows = @ + 1]
      /\ written' = IF marker.tag # child[s].build THEN [written EXCEPT ![f] = @ + 1] ELSE written
      /\ UNCHANGED <<files, previous, marker, failed, snapshots, sup, child, bad, installs>>
  BY DEF Write
<1>3. /\ left' \in Left_ /\ left.presses \in Nat /\ left.writes \in Nat /\ left.writes > 0
      /\ left'.presses = left.presses /\ left'.writes = left.writes - 1 /\ left'.losses = left.losses
  BY <1>1, <1>2, Spends
<1> DEFINE v == [ver |-> store[f].ver, rows |-> store[f].rows + 1]
<1>4. /\ Writes \in Nat /\ store[f].rows \in Nat /\ written[f] \in Nat /\ store[f].ver \in Builds
      /\ store[f].rows + left.writes <= Writes /\ written[f] + left.writes <= Writes
  BY <1>1 DEF Shapes, Store_, WritesSpent
<1>5. store[f].rows + 1 \in 0..Writes /\ written[f] + 1 \in 0..Writes
  BY <1>3, <1>4
<1>6. v \in Store_
  BY <1>4, <1>5 DEF Store_
<1>7. [store EXCEPT ![f].rows = @ + 1] = [store EXCEPT ![f] = v]
  <2>1. store[f] \in Store_
    BY <1>1 DEF Shapes
  <2>2. [store[f] EXCEPT !.rows = @ + 1] = v
    BY <2>1 DEF Store_
  <2> QED BY <1>1, <2>2 DEF Shapes
<1> HIDE DEF v
<1>8. v.ver = store[f].ver /\ v.rows = store[f].rows + 1
  BY DEF v
<1>9. store \in [Stores -> Store_] /\ written \in [Stores -> 0..Writes]
  BY <1>1 DEF Shapes
<1>10. /\ store' \in [Stores -> Store_] /\ \A g \in Stores : store'[g].ver = store[g].ver
       /\ \A g \in Stores \ {f} : store'[g] = store[g]
       /\ (f \notin child[s].stale => store'[f].rows = store[f].rows + 1)
       /\ store'[f].rows \in {store[f].rows, store[f].rows + 1}
  BY <1>2, <1>6, <1>7, <1>8, <1>9
<1>11. /\ written' \in [Stores -> 0..Writes] /\ \A g \in Stores \ {f} : written'[g] = written[g]
       /\ \/ marker.tag # child[s].build /\ written'[f] = written[f] + 1
          \/ marker.tag = child[s].build /\ written' = written
  BY <1>2, <1>5, <1>9
<1>12. ServersSound' /\ (Installing' <=> Installing)
  BY <1>1, <1>2 DEF ServersSound, Installing, Alive, Holder
<1>13. Shapes'
  BY <1>1, <1>2, <1>3, <1>10, <1>11 DEF Shapes
<1>14. PressesSpent'
  BY <1>1, <1>2, <1>3, <1>12 DEF PressesSpent
<1>15. WritesSpent'
  <2>1. ASSUME NEW g \in Stores
        PROVE  store'[g].rows + left'.writes <= Writes /\ written'[g] + left'.writes <= Writes
    <3>1. /\ store[g].rows \in Nat /\ written[g] \in Nat
          /\ store[g].rows + left.writes <= Writes /\ written[g] + left.writes <= Writes
      BY <1>1, <1>4 DEF Shapes, Store_, WritesSpent
    <3>2. store'[g].rows \in {store[g].rows, store[g].rows + 1} /\ written'[g] \in {written[g], written[g] + 1}
      BY <1>10, <1>11
    <3> QED BY <1>3, <1>4, <3>1, <3>2
  <2>2. ASSUME NEW c \in snapshots' PROVE c.rows + left'.writes <= Writes
    <3>1. c \in snapshots /\ c.rows \in Nat /\ c.rows + left.writes <= Writes
      BY <1>1, <1>2, <1>4 DEF Shapes, Snapshots, WritesSpent
    <3> QED BY <1>3, <1>4, <3>1
  <2> QED BY <2>1, <2>2 DEF WritesSpent
<1>16. TInv'
  BY <1>12, <1>13, <1>14, <1>15, ShapesAre DEF TInv
<1> QED BY <1>2, <1>3, <1>10, <1>11, <1>16

\* Of the copies since a time there is a first.
LEMMA FirstSince ==
  ASSUME Shapes, NEW f \in Stores, NEW at \in Nat, NEW c \in snapshots, c.of = f, c.at >= at
  PROVE  \E d \in Since(f, at) : TRUE
<1> DEFINE mine == {d \in snapshots : d.of = f /\ d.at >= at}
           times == {d.at : d \in mine}
<1>1. times \in SUBSET Nat /\ times # {}
  BY DEF Shapes, Snapshots
<1>2. PICK t \in times : \A u \in times : t <= u
  BY <1>1, Least
<1>3. PICK d \in mine : d.at = t
  OBVIOUS
<1>4. \A e \in snapshots : (e.of = f /\ e.at >= at) => d.at <= e.at
  BY <1>2, <1>3
<1> QED BY <1>3, <1>4 DEF Since

\* The stores go back to what was copied since the marker.
LEMMA StoresMoves ==
  ASSUME TInv, NEW s \in Starters, RestoreStores(s)
  PROVE  /\ TInv' /\ sup[s].at = "stores" /\ sup'[s].at = "files"
         /\ sup'[s].update = sup[s].update /\ sup'[s].window = sup[s].window
         /\ \A r \in Starters \ {s} : sup'[r] = sup[r]
         /\ \A r \in Starters : /\ child'[r].at = child[r].at /\ child'[r].build = child[r].build
                                /\ child'[r].code = child[r].code /\ child'[r].open = child[r].open
                                /\ child'[r].stale \subseteq child[r].stale \cup child[r].open
         /\ \A f \in Stores :
              \/ \E c \in snapshots : /\ c.of = f /\ c.at >= sup[s].update.at
                                      /\ store'[f].ver = c.ver /\ store'[f].rows = c.rows
              \/ (~\E c \in snapshots : c.of = f /\ c.at >= sup[s].update.at) /\ store'[f] = store[f]
<1>1. Shapes /\ TypeOK /\ ServersSound /\ PressesSpent /\ WritesSpent
  BY ShapesAre DEF TInv
<1> DEFINE at == sup[s].update.at
           copies == UNION {Since(f, at) : f \in Stores}
           back(r) == [child[r] EXCEPT !.stale = @ \cup ({c.of : c \in copies} \cap child[r].open)]
           u == [sup[s] EXCEPT !.at = "files"]
<1>2. at \in Nat
  BY <1>1 DEF Shapes, Sup_, Marker_
<1>3. /\ sup[s].at = "stores" /\ store' = [f \in Stores |-> PutBack(copies, f)]
      /\ child' = [r \in Starters |-> back(r)] /\ sup' = [sup EXCEPT ![s].at = "files"]
      /\ UNCHANGED <<files, previous, marker, failed, snapshots, history>>
  BY DEF RestoreStores
<1>4. \A c \in copies : c \in snapshots /\ c.at >= at
  BY DEF Since
<1>5. ASSUME NEW r \in Starters
      PROVE  /\ back(r) \in Child_ /\ back(r).at = child[r].at /\ back(r).build = child[r].build
             /\ back(r).code = child[r].code /\ back(r).open = child[r].open
             /\ back(r).stale \subseteq child[r].stale \cup child[r].open
  <2>1. child[r] \in Child_
    BY <1>1 DEF Shapes
  <2> QED BY <2>1 DEF Child_
<1>6. ASSUME NEW f \in Stores
      PROVE  \/ \E c \in snapshots : /\ c.of = f /\ c.at >= at
                                     /\ PutBack(copies, f) = [ver |-> c.ver, rows |-> c.rows]
             \/ (~\E c \in snapshots : c.of = f /\ c.at >= at) /\ PutBack(copies, f) = store[f]
  <2>1. CASE \E c \in copies : c.of = f
    <3> DEFINE d == CHOOSE c \in copies : c.of = f
    <3>1. d \in copies /\ d.of = f
      BY <2>1
    <3>2. PutBack(copies, f) = [ver |-> d.ver, rows |-> d.rows]
      BY <2>1 DEF PutBack
    <3> HIDE DEF d
    <3> QED BY <1>4, <3>1, <3>2
  <2>2. CASE ~\E c \in copies : c.of = f
    <3>1. \A c \in Since(f, at) : c.of = f /\ c \in copies
      BY DEF Since
    <3> HIDE DEF copies
    <3>2. ~\E c \in snapshots : c.of = f /\ c.at >= at
      BY <1>1, <1>2, <2>2, <3>1, FirstSince
    <3> QED BY <2>2, <3>2 DEF PutBack
  <2> QED BY <2>1, <2>2
<1>7. u \in Sup_ /\ u.at = "files" /\ u.update = sup[s].update /\ u.window = sup[s].window
      /\ sup' = [sup EXCEPT ![s] = u]
  BY <1>1, <1>3 DEF Shapes, Sup_
<1> HIDE DEF copies, u
<1>8. sup' \in [Starters -> Sup_] /\ sup'[s] = u /\ \A r \in Starters \ {s} : sup'[r] = sup[r]
  BY <1>1, <1>7, SupMoves
<1>9. \A c \in snapshots : c \in Snapshots /\ c.ver \in Builds /\ c.rows \in 0..Writes /\ c.rows + left.writes <= Writes
  BY <1>1 DEF Shapes, Snapshots, WritesSpent
<1>10. \A f \in Stores : store'[f] \in Store_ /\ store'[f].rows + left.writes <= Writes
  <2>1. \A f \in Stores : store[f] \in Store_ /\ store[f].rows + left.writes <= Writes
    BY <1>1 DEF Shapes, WritesSpent
  <2>2. \A c \in snapshots : [ver |-> c.ver, rows |-> c.rows] \in Store_
    BY <1>9 DEF Store_
  <2> QED BY <1>3, <1>6, <1>9, <2>1, <2>2
<1>11. child' \in [Starters -> Child_]
  BY <1>3, <1>5
<1>12. ServersSound' /\ (Installing' <=> Installing)
  <2>1. \A r \in Starters : child'[r].at = child[r].at /\ child'[r].build = child[r].build
    BY <1>3, <1>5
  <2> QED BY <1>1, <2>1 DEF ServersSound, Installing, Alive, Holder
<1>13. store' \in [Stores -> Store_]
  BY <1>3, <1>10
<1>14. Shapes'
  BY <1>1, <1>3, <1>8, <1>11, <1>13 DEF Shapes, history
<1>15. PressesSpent' /\ WritesSpent'
  BY <1>1, <1>3, <1>10, <1>12 DEF PressesSpent, WritesSpent, history
<1>16. TInv'
  BY <1>12, <1>14, <1>15, ShapesAre DEF TInv
<1>17. \A r \in Starters : child'[r] = back(r)
  BY <1>3
<1>18. \A f \in Stores : store'[f] = PutBack(copies, f)
  BY <1>3
<1> HIDE DEF back
<1> QED BY <1>3, <1>5, <1>6, <1>7, <1>8, <1>16, <1>17, <1>18

\* Every step keeps the types.
LEMMA TypesNext == TInv /\ [Next]_vars => TInv'
<1> SUFFICES ASSUME TInv, [Next]_vars PROVE TInv'
  OBVIOUS
<1>1. CASE UNCHANGED vars
  BY <1>1 DEF TInv, TypeOK, ServersSound, PressesSpent, WritesSpent, Installing, Alive, Holder, vars, disk, history
<1>2. ASSUME NEW s \in Starters, Start(s) PROVE TInv'
  BY <1>2, StartMoves
<1>3. ASSUME NEW s \in Starters, Serve(s) PROVE TInv'
  <2>1. CASE Restart(s)
    BY <2>1, ExitMoves DEF Restart
  <2>2. CASE \E f \in Stores : Open(s, f) \/ Write(s, f)
    BY <2>2, OpenMoves, WriteMoves
  <2>3. CASE \E n \in Names : PutFile(s, n)
    BY <2>3, PutMoves
  <2> QED BY <1>3, <2>1, <2>2, <2>3, HoldMoves, ListenMoves, PressMoves, KeepMoves, PendingMoves DEF Serve
<1>4. ASSUME NEW s \in Starters, Ends(s) PROVE TInv'
  BY <1>4, ExitMoves DEF Ends
<1>5. ASSUME NEW s \in Starters, Supervise(s) PROVE TInv'
  <2>1. CASE \E n \in Names : RestoreFile(s, n)
    BY <2>1, FileMoves
  <2> QED BY <1>5, <2>1, SpawnMoves, HealthyMoves, ClearedMoves, ReapMoves, StoresMoves, LeaveMoves DEF Supervise
<1>6. CASE PowerLoss
  BY <1>6, LossMoves
<1> QED BY <1>1, <1>2, <1>3, <1>4, <1>5, <1>6 DEF Next

\* Every variable holds a value of its type, whatever is started, pressed, lost or faulty, and
\* however many supervisors a person starts: a copy, a marker and a store are of a build there is,
\* and what is written, pressed and installed stays within its bounds.
THEOREM Typing == Spec => []TypeOK
<1>1. TInv => TypeOK
  BY DEF TInv
<1> QED BY <1>1, InitTypes, TypesNext, PTL DEF Spec

------------------------------------------------------------------------------
(* One supervisor: what the server, the files, the stores and the copies     *)
(* have to do with one another.                                              *)

Exe  == files["exe"]
Prev == previous["exe"]
AtWork == {"serving", "keeping", "putting", "marking"}

\* The server has only what it opened, of stores it knows; and no other is at work.
Knows(s) ==
  /\ child[s].stale = {} /\ (child[s].at \in {"none", "starting", "gone"} => child[s].open = {})
  /\ sup[s].at \in {"off", "spawn", "stores", "files"} => child[s].at = "none"
  /\ child[s].at \in {"starting", "opening"} => child[s].build = Exe
  /\ Alive(s) => child[s].build <= Exe /\ \A f \in Stores : store[f].ver <= child[s].build
  /\ child[s].at = "putting" /\ Prev # None => child[s].build <= Prev

\* The build that was kept can read a store, or will once the copies since the marker are put back.
Covers(m) ==
  Prev # None => /\ \A f \in Stores : store[f].ver <= Prev \/ \E c \in snapshots : c.of = f /\ c.at >= m.at
                 /\ \A c \in snapshots : c.at >= m.at => c.ver <= Prev

Reads(s) ==
  /\ \A f \in Stores : store[f].ver <= Exe
  /\ Prev # None => \A f \in Stores : store[f].ver <= Prev \/ store[f].ver = Exe
  /\ sup[s].at = "files" /\ Prev # None => \A f \in Stores : store[f].ver <= Prev
  /\ marker # NoMarker => Covers(marker)
  /\ sup[s].at = "stores" => Covers(sup[s].update)
  /\ sup[s].at \in {"proved", "cleared"} /\ marker # NoMarker =>
       child[s].at \in {"marking", "gone"} /\ (Prev # None => \A f \in Stores : store[f].ver <= Prev)

\* A copy is older than its store, and no later than the last marker.
Older(s) ==
  /\ \A c \in snapshots : c.at <= installs
  /\ marker.at <= installs
  /\ (marker # NoMarker \/ sup[s].at = "stores" \/ child[s].at \in AtWork) =>
       \A c \in snapshots : c.ver <= store[c.of].ver

\* A window is of a marker, and what fails inside it is a build that dies there.
Watched(s) ==
  /\ sup[s].window => marker # NoMarker
  /\ child[s].at = "gone" /\ child[s].code = "fail" /\ sup[s].window => child[s].build \in bad
  /\ sup[s].at \in {"stores", "files"} => marker = NoMarker

SInv(s) == Knows(s) /\ Reads(s) /\ Older(s) /\ Watched(s)

\* What the invariant compares are numbers.
LEMMA Numbers ==
  ASSUME TInv, NEW s \in Starters
  PROVE  /\ Exe \in Nat /\ Prev \in Nat /\ installs \in Nat /\ marker.at \in Nat
         /\ \A f \in Stores : store[f].ver \in Nat
         /\ \A c \in snapshots : c.ver \in Nat /\ c.at \in Nat /\ c.of \in Stores
         /\ child[s].build \in Nat
<1>1. Shapes /\ Presses \in Nat
  BY ShapesAre DEF TInv
<1>2. "exe" \in Names /\ Builds \subseteq Nat /\ Builds \cup {None} \subseteq Nat /\ 0..Presses \subseteq Nat
  BY <1>1 DEF None
<1>3. Exe \in Nat /\ Prev \in Nat
  BY <1>1, <1>2 DEF Shapes, Exe, Prev
<1>4. installs \in Nat /\ marker.at \in Nat
  BY <1>1, <1>2 DEF Shapes, Marker_
<1>5. \A f \in Stores : store[f].ver \in Nat
  BY <1>1, <1>2 DEF Shapes, Store_
<1>6. \A c \in snapshots : c.ver \in Nat /\ c.at \in Nat /\ c.of \in Stores
  BY <1>1, <1>2 DEF Shapes, Snapshots
<1>7. child[s].build \in Nat
  BY <1>1, <1>2 DEF Shapes, Child_
<1> QED BY <1>3, <1>4, <1>5, <1>6, <1>7

\* It holds at the start.
LEMMA InitSound ==
  ASSUME Init, NEW s \in Starters
  PROVE  SInv(s)
<1>1. /\ Exe = 1 /\ Prev = None /\ marker = NoMarker /\ snapshots = {} /\ installs = 0
      /\ \A f \in Stores : store[f].ver = 1
      /\ sup[s] = Off /\ child[s] = NoChild
  BY DEF Init, Exe, Prev, Nothing
<1>2. child[s].at = "none" /\ child[s].stale = {} /\ child[s].open = {} /\ sup[s].at = "off" /\ sup[s].window = FALSE
      /\ marker.at = 0
  BY <1>1 DEF NoChild, Off, NoMarker
<1>3. Knows(s) /\ Watched(s)
  BY <1>1, <1>2 DEF Knows, Watched, Alive, Holding
<1>4. Reads(s) /\ Older(s)
  BY <1>1, <1>2 DEF Reads, Older, AtWork
<1> QED BY <1>3, <1>4 DEF SInv

\* The server starts, is refused or not, and starts answering.
LEMMA SpawnSound ==
  ASSUME TInv, NEW s \in Starters, SInv(s), Start(s) \/ Spawn(s)
  PROVE  SInv(s)'
<1>1. UNCHANGED disk /\ installs' = installs /\ bad' = bad
  BY DEF Start, Spawn, history
<1>2. Exe' = Exe /\ Prev' = Prev /\ UNCHANGED <<marker, store, snapshots>>
      /\ \A m : Covers(m)' <=> Covers(m)
  BY <1>1 DEF disk, Exe, Prev, Covers
<1>3. CASE Start(s)
  <2>1. sup[s].at = "off" /\ sup'[s].at = "spawn" /\ sup'[s].window = FALSE /\ child' = child
    BY <1>3, StartMoves DEF Start
  <2> QED BY <1>1, <1>2, <2>1 DEF SInv, Knows, Reads, Older, Watched, Alive, Holding, AtWork
<1>4. CASE Spawn(s)
  <2>1. /\ sup[s].at = "spawn" /\ sup'[s].at = "waiting" /\ (sup'[s].window <=> marker # NoMarker)
        /\ child'[s].at = "starting" /\ child'[s].build = Exe /\ child'[s].open = {} /\ child'[s].stale = {}
    BY <1>4, SpawnMoves DEF Exe
  <2>2. child[s].at = "none" /\ Exe <= Exe
    BY <2>1, Numbers DEF SInv, Knows
  <2> QED BY <1>1, <1>2, <2>1, <2>2 DEF SInv, Knows, Reads, Older, Watched, Alive, Holding, AtWork
<1> QED BY <1>3, <1>4

\* The home taken or refused keeps what the supervisor knows.
LEMMA HoldSound ==
  ASSUME TInv, NEW s \in Starters, \A r \in Starters : r = s, SInv(s), Hold(s)
  PROVE  SInv(s)'
<1>1. UNCHANGED <<files, previous, marker, store, snapshots, sup, history>>
  BY DEF Hold
<1>2. child[s].at = "starting" /\ child'[s].at = "opening" /\ child'[s].build = child[s].build /\ child'[s].stale = {}
  <2>1. ~\E r \in Starters : Holder(r)
    BY HoldMoves DEF Holder
  <2> QED BY <2>1, HoldMoves DEF SInv, Knows
<1>3. Exe' = Exe /\ Prev' = Prev /\ \A m : Covers(m)' <=> Covers(m)
  BY <1>1 DEF Exe, Prev, Covers
<1> QED BY <1>1, <1>2, <1>3 DEF SInv, Knows, Reads, Older, Watched, Alive, Holding, AtWork, history

\* A server that listens keeps what the supervisor knows: it has opened every store.
LEMMA ListenSound ==
  ASSUME TInv, NEW s \in Starters, SInv(s), Listen(s)
  PROVE  SInv(s)'
<1>1. UNCHANGED <<files, previous, marker, failed, store, sup, history>>
      /\ snapshots' = IF marker = NoMarker THEN {} ELSE snapshots
  BY DEF Listen
<1>2. child[s].at = "opening" /\ child'[s].at = "serving" /\ child'[s].build = child[s].build /\ child'[s].stale = {}
  BY ListenMoves DEF SInv, Knows
<1>3. Exe' = Exe /\ Prev' = Prev
  BY <1>1 DEF Exe, Prev
<1>4. Knows(s)' /\ Watched(s)' /\ Older(s)'
  BY <1>1, <1>2, <1>3 DEF SInv, Knows, Older, Watched, Alive, Holding, AtWork, history
<1>5. Reads(s)'
  <2>1. marker # NoMarker => (Covers(marker)' <=> Covers(marker))
    BY <1>1, <1>3 DEF Covers
  <2>2. sup[s].at # "stores" /\ sup'[s] = sup[s]
    BY <1>1, <1>2 DEF SInv, Knows
  <2> QED BY <1>1, <1>2, <1>3, <2>1, <2>2 DEF SInv, Reads
<1> QED BY <1>4, <1>5 DEF SInv

\* A store opened of an older build is copied first; the copy is of the highest version of it,
\* where the copies are older than the stores, and so is kept.
LEMMA CopyKept ==
  ASSUME TInv, NEW s \in Starters, Older(s), NEW f \in Stores, \A c \in snapshots : c.ver <= store[c.of].ver
  PROVE  Copy(f) \in Pruned(snapshots \cup {Copy(f)}, f)
<1> DEFINE all == snapshots \cup {Copy(f)}
           mine == {c \in all : c.of = f}
           vers == {c.ver : c \in mine}
           last2 == {v \in vers : Cardinality({w \in vers : w > v}) < 2}
           v0 == store[f].ver
<1>1. Copy(f).of = f /\ Copy(f).ver = v0 /\ Copy(f).at = installs /\ v0 \in Nat /\ installs \in Nat
  BY Numbers DEF Copy
<1>2. \A c \in mine : c.ver <= v0 /\ c.at <= installs /\ c.ver \in Nat
  BY <1>1, Numbers DEF Older
<1>3. v0 \in vers /\ {w \in vers : w > v0} = {}
  BY <1>1, <1>2
<1>4. v0 \in last2
  <2>1. Cardinality({}) = 0
    BY FS_EmptySet
  <2> HIDE DEF vers, v0
  <2>2. Cardinality({w \in vers : w > v0}) = 0
    BY <1>3, <2>1
  <2>3. 0 < 2
    OBVIOUS
  <2>4. Cardinality({w \in vers : w > v0}) < 2
    BY <2>2, <2>3
  <2> QED BY <1>3, <2>4
<1>5. \A d \in mine : d.at <= Copy(f).at
  BY <1>1, <1>2
<1>6. Pruned(all, f) = {c \in all : c.of # f \/ (c.ver \in last2 /\ \A d \in mine : d.ver = c.ver => d.at <= c.at)}
  BY DEF Pruned
<1>7. Copy(f) \in all
  OBVIOUS
<1> HIDE DEF last2, mine, all, v0
<1>8. Copy(f).of # f \/ (Copy(f).ver \in last2 /\ \A d \in mine : d.ver = Copy(f).ver => d.at <= Copy(f).at)
  BY <1>1, <1>4, <1>5
<1>9. Copy(f) \in Pruned(all, f)
  BY <1>6, <1>7, <1>8
<1> QED BY <1>9 DEF all

\* A store opened keeps what the supervisor knows: no store is of a later build than the server.
LEMMA OpenSound ==
  ASSUME TInv, NEW s \in Starters, SInv(s), NEW f \in Stores, Open(s, f)
  PROVE  SInv(s)'
<1> DEFINE b == child[s].build
<1>1. UNCHANGED <<files, previous, marker, failed, sup, history>>
  BY DEF Open
<1>2. /\ child[s].at = "opening" /\ child'[s].at = "opening" /\ child'[s].build = b /\ child'[s].stale = {} /\ b = Exe
      /\ Exe' = Exe /\ Prev' = Prev /\ marker' = marker /\ sup' = sup /\ installs' = installs
  BY <1>1, OpenMoves DEF SInv, Knows, Exe, Prev, history
<1>3. Exe \in Nat /\ \A g \in Stores : store[g].ver \in Nat /\ store[g].ver <= Exe
  BY Numbers DEF SInv, Reads
<1>4. /\ \A g \in Stores : store'[g].ver \in {store[g].ver, Exe}
      /\ \A g \in Stores : store[g].ver <= store'[g].ver /\ store'[g].ver <= Exe
  <2>1. CASE store[f].ver < b
    <3>0. store'[f] = [ver |-> b, rows |-> store[f].rows] /\ \A g \in Stores \ {f} : store'[g] = store[g]
      BY <2>1, OpenMoves
    <3>1. store'[f].ver = b
      BY <3>0
    <3>2. Exe <= Exe
      BY <1>3
    <3> QED BY <1>2, <1>3, <3>0, <3>1, <3>2
  <2>2. CASE ~(store[f].ver < b)
    <3>1. store' = store
      BY <2>2, OpenMoves
    <3> QED BY <1>3, <3>1
  <2> QED BY <2>1, <2>2
<1>5. Knows(s)'
  BY <1>2, <1>3, <1>4 DEF SInv, Knows, Alive, Holding
<1>6. snapshots' \subseteq snapshots \cup {Copy(f)} /\ Copy(f).at = installs /\ Copy(f).of = f /\ Copy(f).ver = store[f].ver
      /\ \A c \in snapshots : c.of # f => c \in snapshots'
      /\ (Copy(f) \in snapshots' /\ Copy(f) \notin snapshots => store[f].ver < b)
  BY OpenMoves DEF Pruned, Copy
<1>7. /\ marker.at <= installs /\ \A c \in snapshots : c.at <= installs
      /\ installs \in Nat /\ \A c \in snapshots : c.ver \in Nat /\ c.at \in Nat /\ c.of \in Stores
  BY Numbers DEF SInv, Older
<1>8. Older(s)'
  <2>1. \A c \in snapshots' : c.at <= installs
    BY <1>6, <1>7
  <2>2. ASSUME marker # NoMarker \/ sup[s].at = "stores", NEW c \in snapshots'
        PROVE  c.ver <= store'[c.of].ver
    <3>1. CASE c \in snapshots
      <4>1. c.ver <= store[c.of].ver
        BY <2>2, <3>1 DEF SInv, Older
      <4> QED BY <1>3, <1>4, <1>7, <3>1, <4>1
    <3>2. CASE c = Copy(f)
      BY <1>4, <1>6, <3>2
    <3> QED BY <1>6, <3>1, <3>2
  <2> QED BY <1>2, <1>7, <2>1, <2>2 DEF Older, AtWork
<1>9. marker # NoMarker => Covers(marker)'
  <2> SUFFICES ASSUME marker # NoMarker, Prev # None PROVE Covers(marker)'
    BY <1>2 DEF Covers
  <2>1. /\ \A g \in Stores : store[g].ver <= Prev \/ \E c \in snapshots : c.of = g /\ c.at >= marker.at
        /\ \A c \in snapshots : c.at >= marker.at => c.ver <= Prev
        /\ \A g \in Stores : store[g].ver <= Prev \/ store[g].ver = Exe
    BY DEF SInv, Reads, Covers
  <2>2. CASE store[f].ver < b
    <3>1. snapshots' = Pruned(snapshots \cup {Copy(f)}, f) /\ \A g \in Stores \ {f} : store'[g] = store[g]
      BY <2>2, OpenMoves
    <3>2. Copy(f) \in snapshots' /\ Copy(f).at >= marker.at
      BY <1>6, <1>7, <3>1, CopyKept, Numbers DEF SInv, Older
    <3>3. store[f].ver <= Prev
      BY <1>2, <1>3, <2>1, <2>2
    <3>4. \A g \in Stores : store'[g].ver <= Prev \/ \E c \in snapshots' : c.of = g /\ c.at >= marker.at
      BY <1>6, <2>1, <3>1, <3>2
    <3>5. \A c \in snapshots' : c.at >= marker.at => c.ver <= Prev
      BY <1>6, <2>1, <3>3
    <3> QED BY <1>2, <3>4, <3>5 DEF Covers
  <2>3. CASE ~(store[f].ver < b)
    <3>1. store' = store /\ snapshots' = snapshots
      BY <2>3, OpenMoves
    <3> QED BY <1>2, <2>1, <3>1 DEF Covers
  <2> QED BY <2>2, <2>3
<1>10. Reads(s)'
  <2>1. sup[s].at \notin {"stores", "files"}
    BY <1>2 DEF SInv, Knows
  <2>2. sup[s].at \in {"proved", "cleared"} => marker = NoMarker
    BY <1>2 DEF SInv, Reads
  <2>3. Prev # None => \A g \in Stores : store'[g].ver <= Prev \/ store'[g].ver = Exe
    BY <1>4 DEF SInv, Reads
  <2> QED BY <1>2, <1>4, <1>9, <2>1, <2>2, <2>3 DEF Reads
<1>11. Watched(s)'
  BY <1>1, <1>2 DEF SInv, Watched, history
<1> QED BY <1>5, <1>8, <1>10, <1>11 DEF SInv

\* A row does not change a schema.
LEMMA WriteSound ==
  ASSUME TInv, NEW s \in Starters, SInv(s), NEW f \in Stores, Write(s, f)
  PROVE  SInv(s)'
<1>1. UNCHANGED <<files, previous, marker, failed, snapshots, sup, child, bad, installs>>
  BY DEF Write
<1>2. \A g \in Stores : store'[g].ver = store[g].ver
  BY WriteMoves
<1>3. \A c \in snapshots : store'[c.of].ver = store[c.of].ver
  BY <1>2, Numbers
<1>4. Exe' = Exe /\ Prev' = Prev /\ \A m : Covers(m)' <=> Covers(m)
  BY <1>1, <1>2 DEF Exe, Prev, Covers
<1> QED BY <1>1, <1>2, <1>3, <1>4 DEF SInv, Knows, Reads, Older, Watched, Alive, Holding, AtWork

\* The server ends: with a failure inside the window only if it is of a build that dies there.
LEMMA ExitSound ==
  ASSUME TInv, NEW s \in Starters, SInv(s), Ends(s) \/ Restart(s)
  PROVE  SInv(s)'
<1>1. UNCHANGED <<disk, sup, history>>
  BY DEF Ends, Restart
<1>2. PICK code \in {"ok", "fail", "restart"} :
        /\ Exit(s, code) /\ Alive(s)
        /\ code = "fail" => child[s].build \in bad \/ ~sup[s].window
        /\ child[s].at = "marking" \/ code # "restart"
  BY DEF Ends, Restart, Alive, Holder, Holding
<1>3. /\ child'[s].at = "gone" /\ child'[s].code = code /\ child'[s].build = child[s].build
      /\ child'[s].open = {} /\ child'[s].stale = {}
  BY <1>1, <1>2, ExitMoves
<1>4. sup[s].at \notin {"off", "spawn", "stores", "files"}
  BY <1>2 DEF SInv, Knows, Alive, Holding
<1>5. Exe' = Exe /\ Prev' = Prev /\ UNCHANGED <<marker, store, snapshots, installs, bad>>
      /\ \A m : Covers(m)' <=> Covers(m)
  BY <1>1 DEF disk, history, Exe, Prev, Covers
<1> QED BY <1>1, <1>2, <1>3, <1>4, <1>5 DEF SInv, Knows, Reads, Older, Watched, Alive, Holding, AtWork

\* An update pressed, step by step, keeps what the supervisor knows.
LEMMA PressSound ==
  ASSUME TInv, NEW s \in Starters, SInv(s), Press(s)
  PROVE  SInv(s)'
<1>1. UNCHANGED <<disk, sup, bad, installs>>
  BY DEF Press
<1>2. child[s].at = "serving" /\ child'[s].at = "keeping" /\ child'[s].build = child[s].build /\ child'[s].stale = child[s].stale
  BY PressMoves
<1>3. Exe' = Exe /\ Prev' = Prev /\ UNCHANGED <<marker, store, snapshots>>
      /\ \A m : Covers(m)' <=> Covers(m)
  BY <1>1 DEF disk, Exe, Prev, Covers
<1> QED BY <1>1, <1>2, <1>3 DEF SInv, Knows, Reads, Older, Watched, Alive, Holding, AtWork

\* What is kept is the files in place, which read every store.
LEMMA KeepSound ==
  ASSUME TInv, NEW s \in Starters, SInv(s), KeepPrevious(s)
  PROVE  SInv(s)'
<1>1. UNCHANGED <<files, marker, store, snapshots, sup, bad, installs>> /\ previous' = files
  BY DEF KeepPrevious, history
<1>2. child[s].at = "keeping" /\ child'[s].at = "putting" /\ child'[s].build = child[s].build /\ child'[s].stale = child[s].stale
  BY KeepMoves
<1>3. Exe' = Exe /\ Prev' = Exe
  BY <1>1 DEF Exe, Prev
<1>4. Knows(s)' /\ Older(s)' /\ Watched(s)'
  BY <1>1, <1>2, <1>3 DEF SInv, Knows, Older, Watched, Alive, Holding, AtWork
<1>5. /\ \A f \in Stores : store[f].ver <= Exe /\ store[f].ver \in Nat
      /\ \A c \in snapshots : c.ver <= store[c.of].ver /\ c.ver \in Nat /\ c.of \in Stores
      /\ Exe \in Nat
  BY <1>2, Numbers DEF SInv, Reads, Older, AtWork
<1>6. \A c \in snapshots : c.ver <= Exe
  BY <1>5
<1>7. Covers(marker)'
  BY <1>1, <1>3, <1>5, <1>6 DEF Covers
<1>8. sup[s].at \notin {"stores", "files"} /\ (sup[s].at \in {"proved", "cleared"} => marker = NoMarker)
  BY <1>2 DEF SInv, Knows, Reads
<1>9. Reads(s)'
  BY <1>1, <1>3, <1>5, <1>7, <1>8 DEF Reads
<1> QED BY <1>4, <1>9 DEF SInv

\* A file goes in of a later build than the server's, which reads every store.
LEMMA PutSound ==
  ASSUME TInv, NEW s \in Starters, SInv(s), NEW n \in Names, PutFile(s, n)
  PROVE  SInv(s)'
<1>1. UNCHANGED <<previous, marker, store, snapshots, sup, child, bad, installs>>
  BY DEF PutFile, history
<1>2. child[s].at = "putting" /\ Prev' = Prev
  BY <1>1, PutMoves DEF Prev
<1>3. Exe' >= child[s].build /\ child[s].build \in Nat /\ Exe' \in Nat
  <2> DEFINE m == Next1(child[s].build)
  <2>1. m > child[s].build /\ m \in Nat /\ files' = [files EXCEPT ![n] = m]
    BY PutMoves
  <2>2. child[s].build <= Exe /\ Exe \in Nat /\ child[s].build \in Nat
    BY <1>2, Numbers DEF SInv, Knows, Alive, Holding
  <2>3. files \in [Names -> Builds]
    BY ShapesAre DEF TInv, Shapes
  <2> HIDE DEF m
  <2>4. Exe' \in {Exe, m}
    BY <2>1, <2>3 DEF Exe
  <2> QED BY <2>1, <2>2, <2>4
<1>4. \A f \in Stores : store[f].ver <= child[s].build /\ store[f].ver \in Nat
  BY <1>2, Numbers DEF SInv, Knows, Alive, Holding
<1>5. \A f \in Stores : store[f].ver <= Exe'
  BY <1>3, <1>4
<1>6. Knows(s)' /\ Older(s)' /\ Watched(s)'
  BY <1>1, <1>2, <1>3 DEF SInv, Knows, Older, Watched, Alive, Holding, AtWork
<1>7. Prev # None => \A f \in Stores : store[f].ver <= Prev
  BY <1>2, <1>3, <1>4, Numbers DEF SInv, Knows
<1>8. \A k : Covers(k)' <=> Covers(k)
  BY <1>1, <1>2 DEF Covers
<1>9. Reads(s)'
  BY <1>1, <1>2, <1>5, <1>7, <1>8 DEF SInv, Reads
<1> QED BY <1>6, <1>9 DEF SInv

\* Every file goes back, to a build that reads every store.
LEMMA FailSound ==
  ASSUME TInv, NEW s \in Starters, SInv(s), PutFails(s)
  PROVE  SInv(s)'
<1>1. UNCHANGED <<marker, store, snapshots, sup, bad, installs>> /\ previous' = Nothing
      /\ files' = [n \in Names |-> IF previous[n] # None THEN previous[n] ELSE files[n]]
  BY DEF PutFails
<1>2. child[s].at = "putting" /\ child'[s].at = "serving" /\ child'[s].build = child[s].build /\ child'[s].stale = child[s].stale
  BY KeepMoves
<1>3. Exe' = (IF Prev # None THEN Prev ELSE Exe) /\ Prev' = None
  BY <1>1 DEF Exe, Prev, Nothing
<1>4. child[s].build <= Exe' /\ child[s].build \in Nat /\ Exe' \in Nat
  BY <1>2, <1>3, Numbers DEF SInv, Knows, Alive, Holding
<1>5. \A f \in Stores : store[f].ver <= child[s].build /\ store[f].ver \in Nat
  BY <1>2, Numbers DEF SInv, Knows, Alive, Holding
<1>6. \A f \in Stores : store[f].ver <= Exe'
  BY <1>4, <1>5
<1>7. Knows(s)' /\ Older(s)' /\ Watched(s)'
  BY <1>1, <1>2, <1>3, <1>4 DEF SInv, Knows, Older, Watched, Alive, Holding, AtWork
<1>8. sup[s].at \notin {"stores", "files"} /\ (sup[s].at \in {"proved", "cleared"} => marker = NoMarker)
  BY <1>2 DEF SInv, Knows, Reads
<1>9. Reads(s)'
  BY <1>1, <1>3, <1>6, <1>8 DEF Reads, Covers
<1> QED BY <1>7, <1>9 DEF SInv

\* The marker is later than every copy; what was kept reads every store still.
LEMMA PendingSound ==
  ASSUME TInv, NEW s \in Starters, SInv(s), WritePending(s)
  PROVE  SInv(s)'
<1>1. UNCHANGED <<files, previous, store, snapshots, sup, bad>> /\ installs' = installs + 1 /\ marker'.at = installs + 1
      /\ marker'.tag = Next1(child[s].build)
  BY DEF WritePending
<1>2. child[s].at = "putting" /\ child'[s].at = "marking" /\ child'[s].build = child[s].build /\ child'[s].stale = child[s].stale
  BY PendingMoves
<1>3. Exe' = Exe /\ Prev' = Prev /\ marker' # NoMarker
  <2>1. marker'.tag # None
    BY <1>1, PendingMoves DEF None
  <2> QED BY <1>1, <2>1 DEF Exe, Prev, NoMarker
<1>4. installs \in Nat /\ \A c \in snapshots : c.at \in Nat /\ c.at <= installs /\ c.ver <= store[c.of].ver
  BY <1>2, Numbers DEF SInv, Older, AtWork
<1>5. \A c \in snapshots : ~(c.at >= installs + 1) /\ c.at <= installs + 1
  BY <1>4
<1>6. Prev # None => \A f \in Stores : store[f].ver <= Prev
  <2>1. \A f \in Stores : store[f].ver <= child[s].build /\ store[f].ver \in Nat
    BY <1>2, Numbers DEF SInv, Knows, Alive, Holding
  <2>2. Prev # None => child[s].build <= Prev /\ Prev \in Nat /\ child[s].build \in Nat
    BY <1>2, Numbers DEF SInv, Knows
  <2> QED BY <2>1, <2>2
<1>7. Knows(s)' /\ Watched(s)'
  BY <1>1, <1>2, <1>3 DEF SInv, Knows, Watched, Alive, Holding
<1>8. Older(s)'
  <2>1. installs + 1 <= installs + 1
    BY <1>4
  <2> QED BY <1>1, <1>2, <1>4, <1>5, <2>1 DEF Older, AtWork
<1>9. Covers(marker)'
  BY <1>1, <1>3, <1>5, <1>6 DEF Covers
<1>10. Reads(s)'
  <2>1. sup[s].at \notin {"stores", "files"}
    BY <1>2 DEF SInv, Knows
  <2> QED BY <1>1, <1>2, <1>3, <1>6, <1>9, <2>1 DEF SInv, Reads
<1> QED BY <1>7, <1>8, <1>10 DEF SInv

\* The supervisor's steps.
LEMMA HealthySound ==
  ASSUME TInv, NEW s \in Starters, SInv(s), Healthy(s)
  PROVE  SInv(s)'
<1>1. UNCHANGED <<files, previous, store, snapshots, child, history>> /\ marker' = NoMarker /\ Holder(s)
  BY DEF Healthy
<1>2. sup[s].at = "waiting" /\ sup'[s].at = "proved" /\ sup'[s].window = FALSE
  BY HealthyMoves
<1>3. Exe' = Exe /\ Prev' = Prev /\ installs' = installs /\ bad' = bad /\ marker'.at = 0 /\ 0 <= installs
  <2>1. installs \in Nat
    BY Numbers
  <2> QED BY <1>1, <2>1, Plain DEF Exe, Prev, history
<1>4. Knows(s)' /\ Watched(s)' /\ Older(s)'
  BY <1>1, <1>2, <1>3 DEF SInv, Knows, Older, Watched, Alive, Holding, AtWork, Holder
<1>5. Reads(s)'
  BY <1>1, <1>2, <1>3 DEF SInv, Reads
<1> QED BY <1>4, <1>5 DEF SInv

\* The old files or the copies cleared keep what the supervisor knows.
LEMMA ClearedSound ==
  ASSUME TInv, NEW s \in Starters, SInv(s), Cleared(s)
  PROVE  SInv(s)'
<1>1. UNCHANGED <<files, marker, store, child, history>> /\ sup'[s].window = sup[s].window
  BY ClearedMoves
<1>2. Exe' = Exe /\ installs' = installs /\ bad' = bad
  BY <1>1 DEF Exe, history
<1>3. CASE sup[s].at = "proved" /\ sup'[s].at = "cleared" /\ previous' = Nothing /\ snapshots' = snapshots
  <2>1. Prev' = None
    BY <1>3 DEF Prev, Nothing
  <2> QED BY <1>1, <1>2, <1>3, <2>1 DEF SInv, Knows, Reads, Older, Watched, Covers, Alive, Holding, AtWork
<1>4. CASE sup[s].at = "cleared" /\ sup'[s].at = "waiting" /\ previous' = previous /\ snapshots' = {}
  <2>1. Prev' = Prev
    BY <1>4 DEF Prev
  <2>2. Knows(s)' /\ Older(s)' /\ Watched(s)'
    BY <1>1, <1>2, <1>4, <2>1 DEF SInv, Knows, Older, Watched, Alive, Holding, AtWork
  <2>3. Reads(s)'
    BY <1>1, <1>2, <1>4, <2>1 DEF SInv, Reads, Covers
  <2> QED BY <2>2, <2>3 DEF SInv
<1> QED BY <1>3, <1>4, ClearedMoves

\* What the marker covered, the update taken back covers.
LEMMA ReapSound ==
  ASSUME TInv, NEW s \in Starters, SInv(s), Reap(s)
  PROVE  SInv(s)'
<1> DEFINE back == sup[s].window /\ child[s].code = "fail"
<1>1. UNCHANGED <<files, previous, store, snapshots, history>> /\ marker' = IF back THEN NoMarker ELSE marker
  BY DEF Reap
<1>2. /\ sup[s].at = "waiting" /\ child'[s].at = "none" /\ child'[s].open = {} /\ child'[s].stale = {}
      /\ sup'[s].window = FALSE /\ sup'[s].at \in {"spawn", "stores", "off"}
      /\ sup'[s].at = "stores" => back /\ sup'[s].update = marker
  BY ReapMoves, Plain
<1>3. Exe' = Exe /\ Prev' = Prev /\ installs' = installs /\ bad' = bad /\ NoMarker.at = 0 /\ 0 <= installs
      /\ \A m : Covers(m)' <=> Covers(m)
  <2>1. installs \in Nat
    BY Numbers
  <2> QED BY <1>1, <2>1, Plain DEF Exe, Prev, history, Covers
<1>4. back => marker # NoMarker
  BY DEF SInv, Watched
<1> HIDE DEF back
<1>5. Knows(s)' /\ Watched(s)'
  BY <1>1, <1>2, <1>3 DEF SInv, Knows, Watched, Alive, Holding
<1>6. Older(s)'
  <2>1. marker' # NoMarker \/ sup'[s].at = "stores" => marker # NoMarker
    BY <1>1, <1>2, <1>4
  <2>2. marker'.at <= installs
    BY <1>1, <1>3 DEF SInv, Older
  <2> QED BY <1>1, <1>2, <1>3, <2>1, <2>2 DEF SInv, Older, AtWork
<1>7. Reads(s)'
  BY <1>1, <1>2, <1>3, <1>4 DEF SInv, Reads
<1> QED BY <1>5, <1>6, <1>7 DEF SInv

\* After the copies go back the kept build reads every store.
LEMMA StoresSound ==
  ASSUME TInv, NEW s \in Starters, SInv(s), RestoreStores(s)
  PROVE  SInv(s)'
<1>1. UNCHANGED <<files, previous, marker, snapshots, history>>
  BY DEF RestoreStores
<1>2. /\ sup[s].at = "stores" /\ sup'[s].at = "files" /\ sup'[s].window = sup[s].window
      /\ child'[s].at = "none" /\ child'[s].open = {} /\ child'[s].stale = {} /\ marker = NoMarker
  BY StoresMoves DEF SInv, Knows, Watched
<1>3. Exe' = Exe /\ Prev' = Prev /\ installs' = installs /\ bad' = bad
  BY <1>1 DEF Exe, Prev, history
<1> DEFINE at == sup[s].update.at
<1>4. /\ \A c \in snapshots : c.ver <= store[c.of].ver /\ c.ver \in Nat /\ c.of \in Stores
      /\ \A f \in Stores : store[f].ver <= Exe /\ store[f].ver \in Nat
      /\ Exe \in Nat
      /\ Prev # None => /\ \A f \in Stores : store[f].ver <= Prev \/ \E c \in snapshots : c.of = f /\ c.at >= at
                        /\ \A c \in snapshots : c.at >= at => c.ver <= Prev
  BY <1>2, Numbers DEF SInv, Reads, Older, Covers
<1>5. \A c \in snapshots : c.ver <= Exe
  BY <1>4
<1>6. ASSUME NEW f \in Stores
      PROVE  store'[f].ver <= Exe /\ (Prev # None => store'[f].ver <= Prev)
  <2>1. \/ \E c \in snapshots : c.of = f /\ c.at >= at /\ store'[f].ver = c.ver
        \/ (~\E c \in snapshots : c.of = f /\ c.at >= at) /\ store'[f] = store[f]
    BY StoresMoves
  <2> QED BY <1>4, <1>5, <2>1
<1>7. Knows(s)' /\ Watched(s)' /\ Older(s)'
  BY <1>1, <1>2, <1>3 DEF SInv, Knows, Older, Watched, Alive, Holding, AtWork
<1>8. Reads(s)'
  BY <1>1, <1>2, <1>3, <1>6 DEF Reads
<1> QED BY <1>7, <1>8 DEF SInv

\* A file put back keeps what the supervisor knows.
LEMMA FileSound ==
  ASSUME TInv, NEW s \in Starters, SInv(s), NEW n \in Names, RestoreFile(s, n)
  PROVE  SInv(s)'
<1>1. UNCHANGED <<previous, marker, store, snapshots, sup, child, history>> /\ previous[n] # None
  BY DEF RestoreFile
<1>2. sup[s].at = "files" /\ child[s].at = "none" /\ marker = NoMarker /\ Exe' \in {Exe, Prev} /\ Prev' = Prev
      /\ (Exe' = Exe \/ Prev # None)
  <2>1. files' = [files EXCEPT ![n] = previous[n]] /\ files \in [Names -> Builds]
    BY FileMoves, ShapesAre DEF TInv, Shapes
  <2>2. sup[s].at = "files"
    BY FileMoves
  <2> QED BY <1>1, <2>1, <2>2 DEF SInv, Knows, Watched, Exe, Prev
<1>3. Knows(s)' /\ Older(s)' /\ Watched(s)'
  BY <1>1, <1>2 DEF SInv, Knows, Older, Watched, Alive, Holding, AtWork, history
<1>4. Reads(s)'
  BY <1>1, <1>2 DEF SInv, Reads
<1> QED BY <1>3, <1>4 DEF SInv

\* A supervisor that ends keeps it.
LEMMA LeaveSound ==
  ASSUME TInv, NEW s \in Starters, SInv(s), LeaveFailure(s)
  PROVE  SInv(s)'
<1>1. UNCHANGED <<files, marker, store, snapshots, child, history>> /\ previous' = Nothing
  BY DEF LeaveFailure
<1>2. /\ sup[s].at = "files" /\ child[s].at = "none" /\ marker = NoMarker /\ sup'[s].at \in {"off", "spawn"}
      /\ sup'[s].window = FALSE /\ Exe' = Exe /\ Prev' = None
  BY <1>1, LeaveMoves DEF SInv, Knows, Watched, Exe, Prev, Nothing
<1>3. Knows(s)' /\ Older(s)' /\ Watched(s)'
  BY <1>1, <1>2 DEF SInv, Knows, Older, Watched, Alive, Holding, AtWork, history
<1>4. Reads(s)'
  BY <1>1, <1>2 DEF SInv, Reads
<1> QED BY <1>3, <1>4 DEF SInv

\* The power lost keeps what is on the disk sound.
LEMMA LossSound ==
  ASSUME TInv, NEW s \in Starters, SInv(s), PowerLoss
  PROVE  SInv(s)'
<1>1. UNCHANGED <<disk, installs, bad>> /\ sup'[s] = Off /\ child'[s] = NoChild
  BY LossMoves DEF PowerLoss
<1>2. child'[s].at = "none" /\ child'[s].open = {} /\ child'[s].stale = {} /\ sup'[s].at = "off" /\ sup'[s].window = FALSE
  BY <1>1 DEF Off, NoChild
<1>3. Exe' = Exe /\ Prev' = Prev /\ UNCHANGED <<marker, store, snapshots>>
      /\ \A m : Covers(m)' <=> Covers(m)
  BY <1>1 DEF disk, Exe, Prev, Covers
<1> QED BY <1>1, <1>2, <1>3 DEF SInv, Knows, Reads, Older, Watched, Alive, Holding, AtWork

\* Nobody starts a second supervisor.
One == \A r, s \in Starters : r = s

\* Every step keeps what the supervisor knows.
LEMMA SoundNext ==
  ASSUME One, TInv, NEW s \in Starters, SInv(s), [Next]_vars
  PROVE  SInv(s)'
<1>1. \A r \in Starters : r = s
  BY DEF One
<1>2. CASE UNCHANGED vars
  BY <1>2 DEF SInv, Knows, Reads, Older, Watched, Covers, Exe, Prev, Alive, Holding, AtWork, vars, disk, history
<1>3. CASE Start(s)
  BY <1>3, SpawnSound
<1>4. CASE Serve(s)
  <2>1. CASE \E f \in Stores : Open(s, f) \/ Write(s, f)
    BY <2>1, OpenSound, WriteSound
  <2>2. CASE \E n \in Names : PutFile(s, n)
    BY <2>2, PutSound
  <2> QED BY <1>1, <1>4, <2>1, <2>2, HoldSound, ListenSound, PressSound, KeepSound, FailSound, PendingSound, ExitSound
          DEF Serve
<1>5. CASE Ends(s)
  BY <1>5, ExitSound
<1>6. CASE Supervise(s)
  <2>1. CASE \E n \in Names : RestoreFile(s, n)
    BY <2>1, FileSound
  <2> QED BY <1>6, <2>1, SpawnSound, HealthySound, ClearedSound, ReapSound, StoresSound, LeaveSound DEF Supervise
<1>7. CASE PowerLoss
  BY <1>7, LossSound
<1> QED BY <1>1, <1>2, <1>3, <1>4, <1>5, <1>6, <1>7 DEF Next

Sound == TInv /\ \A s \in Starters : SInv(s)

\* Always, with one supervisor.
LEMMA Soundness ==
  ASSUME One
  PROVE  Spec => []Sound
<1>1. Init => Sound
  BY InitTypes, InitSound DEF Sound
<1>2. Sound /\ [Next]_vars => Sound'
  BY TypesNext, SoundNext DEF Sound
<1> QED BY <1>1, <1>2, PTL DEF Spec

\* A server never meets a store of a schema it does not know, with one supervisor: whatever is
\* pressed, faulty, put back, and wherever the machine stops.
THEOREM KnowsItsStores ==
  ASSUME One
  PROVE  Spec => []ReadsItsStores
<1>1. Sound => ReadsItsStores
  <2> SUFFICES ASSUME Sound, NEW s \in Starters, NEW f \in child[s].open
               PROVE  f \in child[s].stale \/ store[f].ver <= child[s].build
    BY DEF ReadsItsStores
  <2>1. child[s] \in Child_
    BY ShapesAre DEF Sound, TInv, Shapes
  <2>2. Alive(s) /\ f \in Stores
    BY <2>1 DEF Sound, SInv, Knows, Alive, Holding, Child_
  <2> QED BY <2>2 DEF Sound, SInv, Knows
<1> QED BY <1>1, Soundness, PTL

\* A version goes back only for a build that dies inside the window, with one supervisor.
THEOREM OnlyTheBadGoBack ==
  ASSUME One
  PROVE  Spec => GoodStays
<1> DEFINE A == \A s \in Starters : (sup[s].at = "waiting" /\ sup'[s].at = "stores") => child[s].build \in bad
<1>1. Sound /\ [Next]_vars => [A]_vars
  <2> SUFFICES ASSUME Sound, Next, NEW s \in Starters, sup[s].at = "waiting", sup'[s].at = "stores"
               PROVE  child[s].build \in bad
    OBVIOUS
  <2>1. TInv /\ \A r \in Starters : r = s
    BY DEF Sound, One
  <2>2. CASE Start(s)
    BY <2>1, <2>2, StartMoves
  <2>3. CASE Serve(s) \/ Ends(s)
    BY <2>3 DEF Serve, Ends, Hold, Open, Listen, Write, Press, KeepPrevious, PutFile, PutFails, WritePending, Restart
  <2>4. CASE Supervise(s)
    <3>1. CASE Reap(s)
      BY <2>1, <3>1, ReapMoves DEF Sound, SInv, Watched
    <3>2. CASE \E n \in Names : RestoreFile(s, n)
      BY <3>2 DEF RestoreFile
    <3> QED BY <2>1, <2>4, <3>1, <3>2, SpawnMoves, HealthyMoves, ClearedMoves, StoresMoves, LeaveMoves DEF Supervise
  <2>5. CASE PowerLoss
    BY <2>1, <2>5, LossMoves DEF Off
  <2> QED BY <2>1, <2>2, <2>3, <2>4, <2>5 DEF Next
<1> QED BY <1>1, Soundness, PTL DEF Spec, GoodStays

------------------------------------------------------------------------------
(* One supervisor, and no update pressed inside the window of the last one:  *)
(* what is taken back takes no row with it, and the files are one build's.   *)

\* A copy since the marker has every row written outside a window.
RowsKept(m) == \A c \in snapshots : c.at >= m.at => c.rows >= written[c.of]

KInv(s) ==
  /\ marker # NoMarker => Exe = marker.tag
  /\ child[s].at \in {"keeping", "putting"} => marker = NoMarker
  /\ child[s].at \in {"keeping", "putting", "marking"} => sup[s].at = "waiting" /\ ~sup[s].window
  /\ marker # NoMarker /\ child[s].at \in {"starting", "opening", "serving"} =>
       child[s].build = marker.tag /\ sup[s].window
  /\ sup[s].at \in {"stores", "files", "proved", "cleared"} => marker = NoMarker
  /\ child[s].at = "marking" => marker # NoMarker /\ \A c \in snapshots : c.at < marker.at
  /\ marker # NoMarker => RowsKept(marker)
  /\ sup[s].at = "stores" => RowsKept(sup[s].update)
  /\ KeptRows

\* All of one build that lives; all of one build.
Good(t)    == \E b \in Builds \ bad : \A n \in Names : t[n] = b
Uniform(t) == \A m, n \in Names : t[m] = t[n]

\* Unless the machine stopped part way: the files are good, or going to what was kept, which is.
WInv(s) ==
  left.losses = Losses =>
    /\ marker = NoMarker /\ sup[s].at \notin {"stores", "files"} /\ child[s].at # "putting" => Good(files)
    /\ marker # NoMarker \/ sup[s].at = "stores" => Uniform(files) /\ Good(previous)
    /\ sup[s].at = "files" \/ child[s].at = "putting" => Good(previous)
    /\ Alive(s) /\ ~sup[s].window => child[s].build \notin bad

QInv(s) == SInv(s) /\ KInv(s) /\ WInv(s)

\* The rows and the files where the app starts.
LEMMA InitKept ==
  ASSUME Init, NEW s \in Starters
  PROVE  KInv(s) /\ WInv(s)
<1>1. /\ marker = NoMarker /\ snapshots = {} /\ \A f \in Stores : store[f].rows = 0 /\ written[f] = 0
      /\ child[s].at = "none" /\ sup[s].at = "off" /\ \A n \in Names : files[n] = 1
      /\ 1 \in Builds \ bad
  BY DEF Init, Off, NoChild
<1>2. KInv(s)
  BY <1>1 DEF KInv, KeptRows
<1>3. Good(files)
  BY <1>1 DEF Good
<1>4. WInv(s)
  BY <1>1, <1>3 DEF WInv, Alive, Holding
<1> QED BY <1>2, <1>4

\* Steps that leave the files, the stores and what was written alone.
LEMMA StillKept ==
  ASSUME UNCHANGED <<files, previous, marker, store, written, bad>>, snapshots' \subseteq snapshots
  PROVE  /\ Exe' = Exe /\ (Good(files)' <=> Good(files)) /\ (Good(previous)' <=> Good(previous))
         /\ (Uniform(files)' <=> Uniform(files)) /\ (KeptRows' <=> KeptRows)
         /\ \A m : RowsKept(m) => RowsKept(m)'
BY DEF Exe, Good, Uniform, KeptRows, RowsKept

\* A server started keeps the rows and the files.
LEMMA SpawnKept ==
  ASSUME TInv, NEW s \in Starters, QInv(s), Start(s) \/ Spawn(s)
  PROVE  KInv(s)' /\ WInv(s)'
<1>1. UNCHANGED <<disk, written, bad>> /\ left'.losses = left.losses
  BY StartMoves DEF Start, Spawn, history
<1>2. /\ Exe' = Exe /\ (Good(files)' <=> Good(files)) /\ (Good(previous)' <=> Good(previous))
      /\ (Uniform(files)' <=> Uniform(files)) /\ (KeptRows' <=> KeptRows)
      /\ (\A m : RowsKept(m) => RowsKept(m)') /\ UNCHANGED <<files, previous, marker, snapshots>>
  BY <1>1, StillKept DEF disk
<1>3. CASE Start(s)
  <2>1. sup[s].at = "off" /\ sup'[s].at = "spawn" /\ child' = child /\ child[s].at = "none"
    BY <1>3, StartMoves DEF Start, QInv, SInv, Knows
  <2> QED BY <1>1, <1>2, <2>1 DEF QInv, KInv, WInv, Alive, Holding
<1>4. CASE Spawn(s)
  <2>1. /\ sup[s].at = "spawn" /\ sup'[s].at = "waiting" /\ (sup'[s].window <=> marker # NoMarker)
        /\ child'[s].at = "starting" /\ child'[s].build = Exe /\ child[s].at = "none"
    BY <1>4, SpawnMoves DEF Exe, QInv, SInv, Knows
  <2>2. KInv(s)'
    BY <1>1, <1>2, <2>1 DEF QInv, KInv
  <2>3. Good(files) => Exe \notin bad
    BY DEF Good, Exe
  <2>4. WInv(s)'
    BY <1>1, <1>2, <2>1, <2>3 DEF QInv, WInv
  <2> QED BY <2>2, <2>4
<1> QED BY <1>3, <1>4

\* The server's steps up to serving, and its end.
LEMMA ServeKept ==
  ASSUME TInv, NEW s \in Starters, \A r \in Starters : r = s, QInv(s), Hold(s) \/ Listen(s) \/ Ends(s) \/ Restart(s)
  PROVE  KInv(s)' /\ WInv(s)'
<1>1. UNCHANGED <<files, previous, marker, store, sup, history>> /\ snapshots' \subseteq snapshots
  BY DEF Hold, Listen, Ends, Restart, disk
<1>2. /\ Exe' = Exe /\ (Good(files)' <=> Good(files)) /\ (Good(previous)' <=> Good(previous))
      /\ (Uniform(files)' <=> Uniform(files)) /\ (KeptRows' <=> KeptRows)
      /\ (\A m : RowsKept(m) => RowsKept(m)') /\ left' = left /\ bad' = bad
  BY <1>1, StillKept DEF history
<1>3. /\ child'[s].build = child[s].build
      /\ \/ child[s].at = "starting" /\ child'[s].at = "opening"
         \/ child[s].at = "opening" /\ child'[s].at = "serving"
         \/ child[s].at # "putting" /\ child'[s].at = "gone"
         \/ child[s].at = "putting" /\ child[s].build \in bad /\ child'[s].at = "gone"
  <2>1. CASE Hold(s)
    <3>1. ~\E r \in Starters : Holder(r)
      BY <2>1, HoldMoves DEF Holder
    <3> QED BY <2>1, <3>1, HoldMoves
  <2>2. CASE Listen(s)
    BY <2>2, ListenMoves
  <2>3. CASE Restart(s)
    BY <2>3, ExitMoves DEF Restart
  <2>4. CASE Ends(s)
    <3>1. PICK code \in {"ok", "fail"} : Exit(s, code) /\ (child[s].at = "serving" \/ child[s].build \in bad)
      BY <2>4 DEF Ends
    <3>2. child'[s].at = "gone" /\ child'[s].build = child[s].build
      BY <2>4, <3>1, ExitMoves DEF Ends
    <3> QED BY <3>1, <3>2
  <2> QED BY <2>1, <2>2, <2>3, <2>4
<1>4. KInv(s)'
  BY <1>1, <1>2, <1>3 DEF QInv, KInv
<1>5. left.losses = Losses => ~(child[s].at = "putting" /\ child[s].build \in bad)
  BY DEF QInv, KInv, WInv, Alive, Holding
<1>6. WInv(s)'
  BY <1>1, <1>2, <1>3, <1>5 DEF QInv, WInv, Alive, Holding
<1> QED BY <1>4, <1>6

\* A copy has the rows of its store.
LEMMA OpenKept ==
  ASSUME TInv, NEW s \in Starters, QInv(s), NEW f \in Stores, Open(s, f)
  PROVE  KInv(s)' /\ WInv(s)'
<1>1. UNCHANGED <<files, previous, marker, sup, history>>
  BY DEF Open
<1>2. /\ Exe' = Exe /\ (Good(files)' <=> Good(files)) /\ (Good(previous)' <=> Good(previous))
      /\ (Uniform(files)' <=> Uniform(files)) /\ left' = left /\ bad' = bad /\ written' = written
  BY <1>1 DEF Exe, Good, Uniform, history
<1>3. child[s].at = "opening" /\ child'[s].at = "opening" /\ child'[s].build = child[s].build
  BY OpenMoves
<1>4. /\ snapshots' \subseteq snapshots \cup {Copy(f)} /\ Copy(f).rows = store[f].rows /\ Copy(f).of = f
      /\ \A g \in Stores : store'[g].rows = store[g].rows
  <2>1. CASE store[f].ver < child[s].build
    <3>1. store'[f] = [ver |-> child[s].build, rows |-> store[f].rows] /\ \A g \in Stores \ {f} : store'[g] = store[g]
      BY <2>1, OpenMoves
    <3>2. store'[f].rows = store[f].rows
      BY <3>1
    <3>3. snapshots' = Pruned(snapshots \cup {Copy(f)}, f)
      BY <2>1, OpenMoves
    <3> QED BY <3>1, <3>2, <3>3 DEF Pruned, Copy
  <2>2. CASE ~(store[f].ver < child[s].build)
    BY <2>2, OpenMoves DEF Copy
  <2> QED BY <2>1, <2>2
<1>5. KeptRows'
  BY <1>2, <1>4 DEF QInv, KInv, KeptRows
<1>6. \A m : RowsKept(m) => RowsKept(m)'
  BY <1>2, <1>4 DEF QInv, KInv, KeptRows, RowsKept
<1>7. KInv(s)'
  BY <1>1, <1>2, <1>3, <1>5, <1>6 DEF QInv, KInv
<1>8. WInv(s)'
  BY <1>1, <1>2, <1>3 DEF QInv, WInv, Alive, Holding
<1> QED BY <1>7, <1>8

\* A row is counted as kept where it goes to the store and no copy is waiting to take it back.
LEMMA WriteKept ==
  ASSUME TInv, NEW s \in Starters, QInv(s), NEW f \in Stores, Write(s, f)
  PROVE  KInv(s)' /\ WInv(s)'
<1>1. UNCHANGED <<files, previous, marker, failed, snapshots, sup, child, bad, installs>>
  BY DEF Write
<1>2. /\ Exe' = Exe /\ (Good(files)' <=> Good(files)) /\ (Good(previous)' <=> Good(previous))
      /\ (Uniform(files)' <=> Uniform(files)) /\ left'.losses = left.losses
  BY <1>1, WriteMoves DEF Exe, Good, Uniform
<1>3. /\ store'[f].rows = store[f].rows + 1 /\ \A g \in Stores \ {f} : store'[g] = store[g]
      /\ child[s].at \in {"serving", "keeping", "putting", "marking"}
      /\ \A g \in Stores \ {f} : written'[g] = written[g]
      /\ \/ marker.tag # child[s].build /\ written'[f] = written[f] + 1
         \/ marker.tag = child[s].build /\ written' = written
  BY WriteMoves DEF QInv, SInv, Knows
<1>4. \A g \in Stores : store[g].rows \in Nat /\ written[g] \in Nat
  <2>1. Writes \in Nat
    OBVIOUS
  <2> QED BY <2>1, ShapesAre DEF TInv, Shapes, Store_
<1>5. \A g \in Stores : store[g].rows >= written[g]
  BY DEF QInv, KInv, KeptRows
<1>6. KeptRows'
  BY <1>3, <1>4, <1>5 DEF KeptRows
<1>7. marker # NoMarker => RowsKept(marker)'
  <2>1. CASE child[s].at = "serving"
    <3>1. marker # NoMarker => written' = written
      BY <1>3, <2>1 DEF QInv, KInv
    <3> QED BY <1>1, <3>1 DEF QInv, KInv, RowsKept
  <2>2. CASE child[s].at \in {"keeping", "putting"}
    BY <2>2 DEF QInv, KInv
  <2>3. CASE child[s].at = "marking"
    <3>1. \A c \in snapshots : ~(c.at >= marker.at)
      BY <2>3, Numbers DEF QInv, KInv
    <3> QED BY <1>1, <3>1 DEF RowsKept
  <2> QED BY <1>3, <2>1, <2>2, <2>3
<1>8. sup[s].at # "stores"
  BY <1>3 DEF QInv, SInv, Knows
<1>9. KInv(s)'
  BY <1>1, <1>2, <1>6, <1>7, <1>8 DEF QInv, KInv
<1>10. WInv(s)'
  BY <1>1, <1>2 DEF QInv, WInv, Alive, Holding
<1> QED BY <1>9, <1>10

\* The button, outside a window: nothing waits to be proved.
LEMMA PressKept ==
  ASSUME EarlyPress = FALSE, TInv, NEW s \in Starters, QInv(s), Press(s)
  PROVE  KInv(s)' /\ WInv(s)'
<1>1. UNCHANGED <<disk, sup, written, bad>> /\ left'.losses = left.losses /\ sup[s].at = "waiting" /\ ~sup[s].window
  BY PressMoves DEF Press
<1>2. /\ Exe' = Exe /\ (Good(files)' <=> Good(files)) /\ (Good(previous)' <=> Good(previous))
      /\ (Uniform(files)' <=> Uniform(files)) /\ (KeptRows' <=> KeptRows)
      /\ (\A m : RowsKept(m) => RowsKept(m)') /\ UNCHANGED <<files, previous, marker, snapshots>>
  BY <1>1, StillKept DEF disk
<1>3. child[s].at = "serving" /\ child'[s].at = "keeping" /\ child'[s].build = child[s].build
  BY PressMoves
<1>4. marker = NoMarker
  BY <1>1, <1>3 DEF QInv, KInv
<1>5. KInv(s)'
  BY <1>1, <1>2, <1>3, <1>4 DEF QInv, KInv
<1>6. WInv(s)'
  BY <1>1, <1>2, <1>3 DEF QInv, WInv, Alive, Holding
<1> QED BY <1>5, <1>6

\* What is kept is good; a file put in place leaves it; and where one cannot be put all go back to it.
LEMMA PutKept ==
  ASSUME TInv, NEW s \in Starters, QInv(s), KeepPrevious(s) \/ PutFails(s) \/ \E n \in Names : PutFile(s, n)
  PROVE  KInv(s)' /\ WInv(s)'
<1>1. UNCHANGED <<marker, store, snapshots, sup, written, bad>>
  BY DEF KeepPrevious, PutFails, PutFile, history
<1>2. /\ child[s].at \in {"keeping", "putting"} /\ child'[s].build = child[s].build
      /\ \/ child[s].at = "keeping" /\ child'[s].at = "putting" /\ previous' = files /\ files' = files
         \/ /\ child[s].at = "putting" /\ child'[s].at = "serving"
            /\ files' = [n \in Names |-> IF previous[n] # None THEN previous[n] ELSE files[n]]
         \/ child[s].at = "putting" /\ child'[s].at = "putting" /\ previous' = previous
      /\ left'.losses = left.losses
  <2>1. CASE KeepPrevious(s)
    BY <2>1, KeepMoves DEF KeepPrevious
  <2>2. CASE PutFails(s)
    BY <2>2, KeepMoves DEF PutFails
  <2>3. CASE \E n \in Names : PutFile(s, n)
    BY <2>3 DEF PutFile, history
  <2> QED BY <2>1, <2>2, <2>3
<1>3. marker = NoMarker /\ sup[s].at = "waiting" /\ ~sup[s].window
  BY <1>2 DEF QInv, KInv
<1>4. (KeptRows' <=> KeptRows) /\ \A m : RowsKept(m) => RowsKept(m)'
  BY <1>1 DEF KeptRows, RowsKept
<1>5. KInv(s)'
  BY <1>1, <1>2, <1>3, <1>4 DEF QInv, KInv
<1>6. WInv(s)'
  <2> SUFFICES ASSUME left'.losses = Losses PROVE WInv(s)'
    BY DEF WInv
  <2>1. child[s].build \notin bad
    BY <1>2, <1>3 DEF QInv, WInv, Alive, Holding
  <2>2. CASE child[s].at = "keeping" /\ child'[s].at = "putting" /\ previous' = files
    <3>1. Good(files)
      BY <1>2, <1>3, <2>2 DEF QInv, WInv
    <3>2. Good(previous)'
      BY <1>1, <2>2, <3>1 DEF Good
    <3> QED BY <1>1, <1>2, <1>3, <2>1, <2>2, <3>2 DEF WInv
  <2>3. CASE /\ child[s].at = "putting" /\ child'[s].at = "serving"
             /\ files' = [n \in Names |-> IF previous[n] # None THEN previous[n] ELSE files[n]]
    <3>1. PICK b \in Builds \ bad : \A n \in Names : previous[n] = b
      BY <1>2, <2>3 DEF QInv, WInv, Good
    <3>2. \A n \in Names : files'[n] = b
      BY <2>3, <3>1 DEF None
    <3>3. Good(files)'
      BY <1>1, <3>1, <3>2 DEF Good
    <3> QED BY <1>1, <1>2, <1>3, <2>1, <2>3, <3>3 DEF WInv
  <2>4. CASE child[s].at = "putting" /\ child'[s].at = "putting" /\ previous' = previous
    <3>1. Good(previous)'
      BY <1>1, <1>2, <2>4 DEF QInv, WInv, Good
    <3> QED BY <1>1, <1>2, <1>3, <2>1, <2>4, <3>1 DEF WInv
  <2> QED BY <1>2, <2>2, <2>3, <2>4
<1> QED BY <1>5, <1>6

\* The marker is left on files that are all there, and no copy is of its time yet.
LEMMA PendingKept ==
  ASSUME TInv, NEW s \in Starters, QInv(s), WritePending(s)
  PROVE  KInv(s)' /\ WInv(s)'
<1> DEFINE m == Next1(child[s].build)
<1>1. /\ UNCHANGED <<files, previous, store, snapshots, sup, bad, left, written>>
      /\ marker' = [tag |-> m, at |-> installs + 1] /\ \A n \in Names : files[n] = m
  BY DEF WritePending
<1>2. child[s].at = "putting" /\ child'[s].at = "marking" /\ child'[s].build = child[s].build
  BY PendingMoves
<1>3. sup[s].at = "waiting" /\ ~sup[s].window
  BY <1>2 DEF QInv, KInv
<1>4. marker' # NoMarker /\ marker'.tag = Exe' /\ marker'.at = installs + 1
  BY <1>1, PendingMoves DEF Exe, NoMarker, None
<1>5. \A c \in snapshots : c.at < installs + 1 /\ ~(c.at >= installs + 1)
  BY Numbers DEF QInv, SInv, Older
<1>6. KeptRows' /\ RowsKept(marker)'
  BY <1>1, <1>4, <1>5 DEF QInv, KInv, KeptRows, RowsKept
<1>7. KInv(s)'
  BY <1>1, <1>2, <1>3, <1>4, <1>5, <1>6 DEF KInv
<1>8. WInv(s)'
  <2>1. Uniform(files)'
    BY <1>1 DEF Uniform
  <2>2. left.losses = Losses => Good(previous)' /\ child[s].build \notin bad
    BY <1>1, <1>2, <1>3 DEF QInv, WInv, Good, Alive, Holding
  <2> QED BY <1>1, <1>2, <1>3, <1>4, <2>1, <2>2 DEF WInv
<1> QED BY <1>7, <1>8

\* The update took: the files it put in place are of a build that lives.
LEMMA HealthyKept ==
  ASSUME TInv, NEW s \in Starters, QInv(s), Healthy(s)
  PROVE  KInv(s)' /\ WInv(s)'
<1>1. UNCHANGED <<files, previous, store, snapshots, child, history>> /\ marker' = NoMarker
      /\ Holder(s) /\ child[s].build \notin bad /\ sup[s].window
  BY DEF Healthy
<1>2. sup'[s].at = "proved" /\ sup'[s].window = FALSE
  BY HealthyMoves
<1>3. KeptRows' /\ Exe' = Exe /\ left' = left /\ bad' = bad
  BY <1>1 DEF QInv, KInv, KeptRows, Exe, history
<1>4. /\ marker # NoMarker /\ child[s].at \in {"opening", "serving"}
      /\ child[s].build = marker.tag /\ Exe = marker.tag
  BY <1>1 DEF QInv, SInv, Watched, KInv, Holder
<1>5. KInv(s)'
  BY <1>1, <1>2, <1>3, <1>4 DEF KInv
<1>6. left.losses = Losses => Good(files)'
  <2> SUFFICES ASSUME Uniform(files) PROVE Good(files)'
    BY <1>4 DEF QInv, WInv
  <2>1. Exe \in Builds \ bad /\ \A n \in Names : files[n] = Exe
    BY <1>1, <1>4, ShapesAre DEF TInv, Shapes, Uniform, Exe
  <2> QED BY <1>1, <1>3, <2>1 DEF Good
<1>7. WInv(s)'
  BY <1>1, <1>2, <1>3, <1>4, <1>6 DEF WInv
<1> QED BY <1>5, <1>7

\* The old files or the copies cleared keep the rows and the files.
LEMMA ClearedKept ==
  ASSUME TInv, NEW s \in Starters, QInv(s), Cleared(s)
  PROVE  KInv(s)' /\ WInv(s)'
<1>1. /\ UNCHANGED <<files, marker, store, child, history>> /\ sup'[s].window = sup[s].window
      /\ sup[s].at \in {"proved", "cleared"} /\ sup'[s].at \in {"cleared", "waiting"} /\ snapshots' \subseteq snapshots
  BY ClearedMoves
<1>2. Exe' = Exe /\ KeptRows' /\ (Good(files)' <=> Good(files)) /\ left' = left /\ bad' = bad
  BY <1>1 DEF QInv, KInv, KeptRows, Exe, Good, history
<1>3. marker = NoMarker /\ child[s].at \notin {"keeping", "putting", "marking"}
  BY <1>1 DEF QInv, KInv
<1>4. KInv(s)'
  BY <1>1, <1>2, <1>3 DEF KInv
<1>5. WInv(s)'
  BY <1>1, <1>2, <1>3 DEF QInv, WInv, Alive, Holding
<1> QED BY <1>4, <1>5

\* The end of a server keeps the rows and the files.
LEMMA ReapKept ==
  ASSUME TInv, NEW s \in Starters, QInv(s), Reap(s)
  PROVE  KInv(s)' /\ WInv(s)'
<1> DEFINE back == sup[s].window /\ child[s].code = "fail"
<1>1. UNCHANGED <<files, previous, store, snapshots, history>> /\ marker' = IF back THEN NoMarker ELSE marker
  BY DEF Reap
<1>2. /\ sup[s].at = "waiting" /\ child[s].at = "gone" /\ child'[s].at = "none"
      /\ sup'[s].at \in {"spawn", "stores", "off"} /\ (sup'[s].at = "stores" => back /\ sup'[s].update = marker)
      /\ (back => sup'[s].at \in {"spawn", "stores"}) /\ (back => sup'[s].at = "stores")
  BY ReapMoves, Plain
<1>3. /\ Exe' = Exe /\ (Good(files)' <=> Good(files)) /\ (Good(previous)' <=> Good(previous))
      /\ (Uniform(files)' <=> Uniform(files)) /\ KeptRows' /\ (\A m : RowsKept(m) => RowsKept(m)')
      /\ left' = left /\ bad' = bad
  BY <1>1 DEF QInv, KInv, Exe, Good, Uniform, KeptRows, RowsKept, history
<1>4. back => marker # NoMarker
  BY DEF QInv, SInv, Watched
<1> HIDE DEF back
<1>5. KInv(s)'
  BY <1>1, <1>2, <1>3, <1>4 DEF QInv, KInv
<1>6. WInv(s)'
  BY <1>1, <1>2, <1>3, <1>4 DEF QInv, WInv, Alive, Holding
<1> QED BY <1>5, <1>6

\* The rows the copies hold come back with them.
LEMMA StoresKept ==
  ASSUME TInv, NEW s \in Starters, QInv(s), RestoreStores(s)
  PROVE  KInv(s)' /\ WInv(s)'
<1>1. UNCHANGED <<files, previous, marker, snapshots, history>>
  BY DEF RestoreStores
<1>2. /\ sup[s].at = "stores" /\ sup'[s].at = "files" /\ child'[s].at = "none" /\ marker = NoMarker
  BY StoresMoves DEF QInv, SInv, Knows, Watched
<1>3. /\ Exe' = Exe /\ (Good(previous)' <=> Good(previous)) /\ left' = left /\ written' = written
  BY <1>1 DEF Exe, Good, history
<1>4. KeptRows'
  <2>1. ASSUME NEW f \in Stores PROVE store'[f].rows >= written[f]
    <3>1. \/ \E c \in snapshots : c.of = f /\ c.at >= sup[s].update.at /\ store'[f].rows = c.rows
          \/ store'[f] = store[f]
      BY StoresMoves
    <3> QED BY <1>2, <3>1 DEF QInv, KInv, KeptRows, RowsKept
  <2> QED BY <1>3, <2>1 DEF KeptRows
<1>5. KInv(s)'
  BY <1>1, <1>2, <1>4 DEF KInv
<1>6. WInv(s)'
  BY <1>1, <1>2, <1>3 DEF QInv, WInv, Alive, Holding
<1> QED BY <1>5, <1>6

\* The files go back to what was kept, all of it.
LEMMA FileKept ==
  ASSUME TInv, NEW s \in Starters, QInv(s), LeaveFailure(s) \/ \E n \in Names : RestoreFile(s, n)
  PROVE  KInv(s)' /\ WInv(s)'
<1>1. UNCHANGED <<marker, store, snapshots, child, history>> /\ sup[s].at = "files"
  BY DEF LeaveFailure, RestoreFile
<1>2. child[s].at = "none" /\ marker = NoMarker /\ KeptRows' /\ left' = left /\ bad' = bad
  BY <1>1 DEF QInv, SInv, Knows, Watched, KInv, KeptRows, history
<1>3. CASE \E n \in Names : RestoreFile(s, n)
  <2>1. sup' = sup /\ previous' = previous
    BY <1>3 DEF RestoreFile
  <2>2. KInv(s)'
    BY <1>1, <1>2, <2>1 DEF KInv
  <2>3. WInv(s)'
    BY <1>1, <1>2, <2>1 DEF QInv, WInv, Good, Alive, Holding
  <2> QED BY <2>2, <2>3
<1>4. CASE LeaveFailure(s)
  <2>1. sup'[s].at \in {"off", "spawn"} /\ files' = files /\ \A n \in Names : previous[n] \in {None, files[n]}
    BY <1>4, LeaveMoves DEF LeaveFailure
  <2>2. KInv(s)'
    BY <1>1, <1>2, <2>1 DEF KInv
  <2>3. Good(previous) => Good(files)'
    <3> SUFFICES ASSUME NEW b \in Builds \ bad, \A n \in Names : previous[n] = b PROVE Good(files)'
      BY DEF Good
    <3>1. \A n \in Names : files'[n] = b
      BY <2>1 DEF None
    <3> QED BY <1>2, <3>1 DEF Good
  <2>4. WInv(s)'
    BY <1>1, <1>2, <2>1, <2>3 DEF QInv, WInv, Alive, Holding
  <2> QED BY <2>2, <2>4
<1> QED BY <1>3, <1>4

\* The power lost keeps the rows; of the files it says nothing more.
LEMMA LossKept ==
  ASSUME TInv, NEW s \in Starters, QInv(s), PowerLoss
  PROVE  KInv(s)' /\ WInv(s)'
<1>1. UNCHANGED <<disk, written, bad>> /\ left'.losses # Losses /\ child'[s].at = "none" /\ sup'[s].at = "off"
  BY LossMoves DEF PowerLoss, Off, NoChild
<1>2. Exe' = Exe /\ (KeptRows' <=> KeptRows) /\ (\A m : RowsKept(m) => RowsKept(m)') /\ marker' = marker
  BY <1>1, StillKept DEF disk
<1>3. KInv(s)'
  BY <1>1, <1>2 DEF QInv, KInv
<1>4. WInv(s)'
  BY <1>1 DEF WInv
<1> QED BY <1>3, <1>4

\* Every step keeps the rows and the files.
LEMMA KeptNext ==
  ASSUME One, EarlyPress = FALSE, TInv, NEW s \in Starters, QInv(s), [Next]_vars
  PROVE  QInv(s)'
<1>1. (\A r \in Starters : r = s) /\ SInv(s)'
  BY SoundNext DEF One, QInv
<1>2. CASE UNCHANGED vars
  <2>1. KInv(s)'
    BY <1>2 DEF QInv, KInv, RowsKept, KeptRows, Exe, vars, disk, history
  <2>2. WInv(s)'
    BY <1>2 DEF QInv, WInv, Good, Uniform, Alive, Holding, vars, disk, history
  <2> QED BY <1>1, <2>1, <2>2 DEF QInv
<1>3. CASE Start(s)
  BY <1>1, <1>3, SpawnKept DEF QInv
<1>4. CASE Serve(s)
  <2>1. CASE \E f \in Stores : Open(s, f) \/ Write(s, f)
    BY <1>1, <2>1, OpenKept, WriteKept DEF QInv
  <2> QED BY <1>1, <1>4, <2>1, ServeKept, PressKept, PutKept, PendingKept DEF Serve, QInv
<1>5. CASE Ends(s)
  BY <1>1, <1>5, ServeKept DEF QInv
<1>6. CASE Supervise(s)
  BY <1>1, <1>6, SpawnKept, HealthyKept, ClearedKept, ReapKept, StoresKept, FileKept DEF Supervise, QInv
<1>7. CASE PowerLoss
  BY <1>1, <1>7, LossKept DEF QInv
<1> QED BY <1>1, <1>2, <1>3, <1>4, <1>5, <1>6, <1>7 DEF Next

Kept == TInv /\ \A s \in Starters : QInv(s)

\* Always, with one supervisor that no press comes before.
LEMMA Keeping ==
  ASSUME One, EarlyPress = FALSE
  PROVE  Spec => []Kept
<1>1. Init => Kept
  BY InitTypes, InitSound, InitKept DEF Kept, QInv
<1>2. Kept /\ [Next]_vars => Kept'
  BY TypesNext, KeptNext DEF Kept
<1> QED BY <1>1, <1>2, PTL DEF Spec

\* No row written outside an update's window is lost by taking that update back, with one
\* supervisor and no update pressed inside the last one's window: a copy since the marker is taken
\* by the new server, when the old one, whose rows these are, has ended.
THEOREM RowsStay ==
  ASSUME One, EarlyPress = FALSE, Starters # {}
  PROVE  Spec => []KeptRows
<1>1. Kept => KeptRows
  BY DEF Kept, QInv, KInv
<1> QED BY <1>1, Keeping, PTL

\* A copy is of one build whenever it is started, unless the machine stopped part way, with one
\* supervisor and no update pressed inside the last one's window.
THEOREM StartsWhole ==
  ASSUME One, EarlyPress = FALSE
  PROVE  Spec => []WholeCopy
<1>1. Kept => WholeCopy
  <2> SUFFICES ASSUME Kept, left.losses = Losses, NEW s \in Starters, sup[s].at = "spawn",
                      NEW m \in Names, NEW n \in Names
               PROVE  files[m] = files[n]
    BY DEF WholeCopy
  <2>1. child[s].at = "none"
    BY DEF Kept, QInv, SInv, Knows
  <2>2. Good(files) \/ Uniform(files)
    BY <2>1 DEF Kept, QInv, WInv
  <2> QED BY <2>2 DEF Good, Uniform
<1> QED BY <1>1, Keeping, PTL
==============================================================================
