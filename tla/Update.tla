------------------------------- MODULE Update -------------------------------
(***************************************************************************)
(* The update of the app in place.  A supervisor runs the server as its    *)
(* child.  The server installs a release: keeps the files it replaces, puts*)
(* the new ones in place, leaves a marker, and exits asking to be started  *)
(* again.  The new server migrates the stores, each copied first.  A child *)
(* that dies inside the window after an update has the stores and the      *)
(* files put back from what was kept, and the previous version started.    *)
(* The machine may stop between any two steps.                             *)
(*                                                                         *)
(* A build is a number, which is also the schema its stores have.  What a  *)
(* store holds is the number of rows written to it.  Times are compared    *)
(* only with the marker's: `installs' counts the markers written.          *)
(***************************************************************************)
EXTENDS Naturals, FiniteSets

CONSTANTS Builds,       \* the releases, 1 the one installed at first
          Names,        \* the files of a release
          Stores,       \* the stores, opened in turn: the book, the market cache
          Starters,     \* the supervisors a person may start
          Starts,       \* bound on the starts
          Presses,      \* bound on the presses of the update button
          Writes,       \* bound on the rows written
          Faults,       \* bound on the files that cannot be put in place
          Losses,       \* bound on the stops of the machine
          EarlyPress    \* whether the button is pressed inside an update's window too

ASSUME UpdateAssumption ==
  /\ Builds \subseteq Nat \ {0} /\ 1 \in Builds /\ "exe" \in Names
  /\ {Starts, Presses, Writes, Faults, Losses} \subseteq Nat
  /\ EarlyPress \in BOOLEAN

None == 0

VARIABLES files,      \* the app's folder: each file's build
          previous,   \* HOME/previous: each kept file's build, or None
          marker,     \* HOME/update-pending: the build going in, and when
          failed,     \* HOME/update-failed: the build a failure is left of, or None
          store,      \* each store: its schema and its rows
          snapshots,  \* the copies migrations took
          sup,        \* each supervisor: where it stands
          child,      \* its server: where it stands, its build, its files open
          bad,        \* the builds that die inside the window
          installs,   \* markers written so far: the clock of the snapshots
          left,       \* what is left of each bound
          written     \* history: rows written with no update waiting to be proved

disk    == <<files, previous, marker, failed, store, snapshots>>
history == <<bad, installs, left, written>>
vars    == <<disk, sup, child, history>>

NoMarker == [tag |-> None, at |-> 0]
Nothing  == [n \in Names |-> None]
Off      == [at |-> "off", update |-> NoMarker, window |-> FALSE]
NoChild  == [at |-> "none", build |-> None, code |-> "none", open |-> {}, stale |-> {}]

Snapshots == [of : Stores, ver : Builds, rows : 0..Writes, at : 0..Presses]

Holder(s) == child[s].at \in {"opening", "serving", "keeping", "putting", "marking"}

Spend(what) == left[what] > 0 /\ left' = [left EXCEPT ![what] = @ - 1]

-----------------------------------------------------------------------------
(* The supervisor starts the server, and waits for it. *)

Start(s) ==
  /\ sup[s].at = "off"
  /\ Spend("starts")
  /\ sup' = [sup EXCEPT ![s] = [Off EXCEPT !.at = "spawn"]]
  /\ UNCHANGED <<disk, child, bad, installs, written>>

\* The child runs the files in place; a marker there opens the window.
Spawn(s) ==
  /\ sup[s].at = "spawn"
  /\ child' = [child EXCEPT ![s] = [NoChild EXCEPT !.at = "starting", !.build = files["exe"]]]
  /\ sup' = [sup EXCEPT ![s].at = "waiting", ![s].window = (marker # NoMarker)]
  /\ UNCHANGED <<disk, history>>

Exit(s, code) == child' = [child EXCEPT ![s] = [NoChild EXCEPT !.at = "gone", !.build = child[s].build, !.code = code]]

\* One app holds the data folder: a second is refused.  The first says a failure left for it.
Hold(s) ==
  /\ child[s].at = "starting"
  /\ \/ /\ \E r \in Starters : Holder(r)
        /\ Exit(s, "fail")
        /\ UNCHANGED failed
     \/ /\ ~\E r \in Starters : Holder(r)
        /\ child' = [child EXCEPT ![s].at = "opening"]
        /\ failed' = None
  /\ UNCHANGED <<files, previous, marker, store, snapshots, sup, history>>

\* The newest of each of the two latest versions of a store are kept.
Pruned(all, f) ==
  LET mine == {c \in all : c.of = f}
      vers == {c.ver : c \in mine}
      last2 == {v \in vers : Cardinality({w \in vers : w > v}) < 2}
  IN  {c \in all : c.of # f \/ (c.ver \in last2 /\ \A d \in mine : d.ver = c.ver => d.at <= c.at)}

\* A store is opened: one of a newer schema is refused and said; an older one is copied, then
\* brought to this build's.
Open(s, f) ==
  LET b == child[s].build IN
  /\ child[s].at = "opening"
  /\ f \notin child[s].open
  /\ child' = [child EXCEPT ![s].open = @ \cup {f}]
  /\ IF store[f].ver < b
     THEN /\ store' = [store EXCEPT ![f].ver = b]
          /\ snapshots' = Pruned(snapshots \cup {[of |-> f, ver |-> store[f].ver, rows |-> store[f].rows,
                                                  at |-> installs]}, f)
     ELSE UNCHANGED <<store, snapshots>>
  /\ UNCHANGED <<files, previous, marker, failed, sup, history>>

\* Started and answering: with no update waiting on this start, the copies go.
Listen(s) ==
  /\ child[s].at = "opening"
  /\ child[s].open = Stores
  /\ child' = [child EXCEPT ![s].at = "serving"]
  /\ snapshots' = IF marker = NoMarker THEN {} ELSE snapshots
  /\ UNCHANGED <<files, previous, marker, failed, store, sup, history>>

\* A row is written: to the store it opened, whatever stands at that path by now.
Write(s, f) ==
  /\ child[s].at \in {"serving", "keeping", "putting", "marking"}
  /\ store[f].ver <= child[s].build \/ f \in child[s].stale
  /\ Spend("writes")
  /\ store' = IF f \in child[s].stale THEN store ELSE [store EXCEPT ![f].rows = @ + 1]
  /\ written' = IF marker.tag # child[s].build THEN [written EXCEPT ![f] = @ + 1] ELSE written
  /\ UNCHANGED <<files, previous, marker, failed, snapshots, sup, child, bad, installs>>

\* The server ends: the person stops it, it crashes after its window, or it is a build that dies
\* inside one.
Ends(s) ==
  /\ \/ child[s].at = "serving" /\ Exit(s, "ok")
     \/ child[s].at = "serving" /\ ~sup[s].window /\ Exit(s, "fail")
     \/ (child[s].at = "starting" \/ Holder(s)) /\ child[s].build \in bad /\ Exit(s, "fail")
  /\ UNCHANGED <<disk, sup, history>>

-----------------------------------------------------------------------------
(* The install: install_files, after the download and its checks. *)

Press(s) ==
  /\ child[s].at = "serving"
  /\ \E b \in Builds : b > child[s].build
  /\ Spend("presses")
  /\ EarlyPress \/ (sup[s].at = "waiting" /\ ~sup[s].window)
  /\ child' = [child EXCEPT ![s].at = "keeping"]
  /\ UNCHANGED <<disk, sup, bad, installs, written>>

\* The current copies are kept, replacing what an earlier update left.
KeepPrevious(s) ==
  /\ child[s].at = "keeping"
  /\ previous' = files
  /\ child' = [child EXCEPT ![s].at = "putting"]
  /\ UNCHANGED <<files, marker, failed, store, snapshots, sup, history>>

\* The version going in: the next one.
Next1(b) == CHOOSE n \in Builds : n > b /\ \A m \in Builds : m > b => n <= m

PutFile(s, n) ==
  /\ child[s].at = "putting"
  /\ files[n] # Next1(child[s].build)
  /\ files' = [files EXCEPT ![n] = Next1(child[s].build)]
  /\ UNCHANGED <<previous, marker, failed, store, snapshots, sup, child, history>>

\* Mutant: what was kept goes, and the files put in place so far stay.
PutFailsHalf(s) ==
  /\ child[s].at = "putting"
  /\ \E n \in Names : files[n] # Next1(child[s].build)
  /\ Spend("faults")
  /\ previous' = Nothing
  /\ child' = [child EXCEPT ![s].at = "serving"]
  /\ UNCHANGED <<files, marker, failed, store, snapshots, sup, bad, installs, written>>

\* Mutant: what was kept goes first, and is put back then.
PutFailsSwapped(s) ==
  /\ child[s].at = "putting"
  /\ \E n \in Names : files[n] # Next1(child[s].build)
  /\ Spend("faults")
  /\ previous' = Nothing
  /\ files' = previous'
  /\ child' = [child EXCEPT ![s].at = "serving"]
  /\ UNCHANGED <<marker, failed, store, snapshots, sup, bad, installs, written>>

\* A file cannot be put in place: every one goes back, and the update has failed.
PutFails(s) ==
  /\ child[s].at = "putting"
  /\ \E n \in Names : files[n] # Next1(child[s].build)
  /\ Spend("faults")
  /\ files' = [n \in Names |-> IF previous[n] # None THEN previous[n] ELSE files[n]]
  /\ previous' = Nothing
  /\ child' = [child EXCEPT ![s].at = "serving"]
  /\ UNCHANGED <<marker, failed, store, snapshots, sup, bad, installs, written>>

\* All in place: the marker is left for the supervisor, and the restart asked for.
WritePending(s) ==
  /\ child[s].at = "putting"
  /\ \A n \in Names : files[n] = Next1(child[s].build)
  /\ marker' = [tag |-> Next1(child[s].build), at |-> installs + 1]
  /\ installs' = installs + 1
  /\ child' = [child EXCEPT ![s].at = "marking"]
  /\ UNCHANGED <<files, previous, failed, store, snapshots, sup, bad, left, written>>

Restart(s) ==
  /\ child[s].at = "marking"
  /\ Exit(s, "restart")
  /\ UNCHANGED <<disk, sup, history>>

-----------------------------------------------------------------------------
(* The window: supervise_child. *)

\* Mutant: the update took, and its marker stays.
HealthyMarked(s) ==
  /\ sup[s].at = "waiting" /\ sup[s].window
  /\ Holder(s)
  /\ child[s].build \notin bad
  /\ sup' = [sup EXCEPT ![s].at = "proved", ![s].window = FALSE]
  /\ UNCHANGED <<disk, child, history>>

\* Alive past the window: the update took, and what was kept for putting it back goes.
Healthy(s) ==
  /\ sup[s].at = "waiting" /\ sup[s].window
  /\ Holder(s)
  /\ child[s].build \notin bad
  /\ marker' = NoMarker
  /\ sup' = [sup EXCEPT ![s].at = "proved", ![s].window = FALSE]
  /\ UNCHANGED <<files, previous, failed, store, snapshots, child, history>>

Cleared(s) ==
  \/ /\ sup[s].at = "proved"
     /\ previous' = Nothing
     /\ sup' = [sup EXCEPT ![s].at = "cleared"]
     /\ UNCHANGED <<files, marker, failed, store, snapshots, child, history>>
  \/ /\ sup[s].at = "cleared"
     /\ snapshots' = {}
     /\ sup' = [sup EXCEPT ![s].at = "waiting"]
     /\ UNCHANGED <<files, previous, marker, failed, store, child, history>>

\* Mutant: any end inside the window puts the update back.
ReapAny(s) ==
  LET code == child[s].code
      back == sup[s].window /\ code # "restart" IN
  /\ sup[s].at = "waiting"
  /\ child[s].at = "gone"
  /\ child' = [child EXCEPT ![s] = NoChild]
  /\ sup' = [sup EXCEPT ![s] = [at |-> IF code = "restart" THEN "spawn" ELSE IF back THEN "stores" ELSE "off",
                                update |-> IF back THEN marker ELSE NoMarker, window |-> FALSE]]
  /\ marker' = IF back THEN NoMarker ELSE marker
  /\ UNCHANGED <<files, previous, failed, store, snapshots, history>>

\* The child is gone.  It asked to be started again; or it died in the window, and the marker is
\* taken; or the supervisor ends with it.
Reap(s) ==
  LET code == child[s].code
      back == sup[s].window /\ code = "fail" IN
  /\ sup[s].at = "waiting"
  /\ child[s].at = "gone"
  /\ child' = [child EXCEPT ![s] = NoChild]
  /\ sup' = [sup EXCEPT ![s] = [at |-> IF code = "restart" THEN "spawn" ELSE IF back THEN "stores" ELSE "off",
                                update |-> IF back THEN marker ELSE NoMarker, window |-> FALSE]]
  /\ marker' = IF back THEN NoMarker ELSE marker
  /\ UNCHANGED <<files, previous, failed, store, snapshots, history>>

\* The first copy taken of the store at or after the marker's time.
Since(f, at) == {c \in snapshots : /\ c.of = f /\ c.at >= at
                                   /\ \A d \in snapshots : (d.of = f /\ d.at >= at) => c.at <= d.at}

\* Mutant: the stores stay as the update left them.
PutBackNone(copies, f) == store[f]

\* Each store an update migrated goes back to what the copy holds.
PutBack(copies, f) == IF \E c \in copies : c.of = f
                      THEN LET c == CHOOSE c \in copies : c.of = f IN [ver |-> c.ver, rows |-> c.rows]
                      ELSE store[f]

RestoreStores(s) ==
  LET copies == UNION {Since(f, sup[s].update.at) : f \in Stores} IN
  /\ sup[s].at = "stores"
  /\ store' = [f \in Stores |-> PutBack(copies, f)]
  /\ child' = [r \in Starters |-> [child[r] EXCEPT !.stale = @ \cup ({c.of : c \in copies} \cap child[r].open)]]
  /\ sup' = [sup EXCEPT ![s].at = "files"]
  /\ UNCHANGED <<files, previous, marker, failed, snapshots, history>>

\* Then each kept file, in turn; then the kept copies go.
RestoreFile(s, n) ==
  /\ sup[s].at = "files"
  /\ previous[n] # None /\ files[n] # previous[n]
  /\ files' = [files EXCEPT ![n] = previous[n]]
  /\ UNCHANGED <<previous, marker, failed, store, snapshots, sup, child, history>>

\* Mutant: the failure is left, and nothing started to say it.
LeaveFailureOff(s) ==
  /\ sup[s].at = "files"
  /\ \A n \in Names : previous[n] \in {None, files[n]}
  /\ previous' = Nothing
  /\ failed' = sup[s].update.tag
  /\ sup' = [sup EXCEPT ![s] = Off]
  /\ UNCHANGED <<files, marker, store, snapshots, child, history>>

\* The failure is left for the next server to say, which is started if a version was put back.
LeaveFailure(s) ==
  /\ sup[s].at = "files"
  /\ \A n \in Names : previous[n] \in {None, files[n]}
  /\ previous' = Nothing
  /\ failed' = sup[s].update.tag
  /\ sup' = [sup EXCEPT ![s] = [Off EXCEPT !.at = IF previous = Nothing THEN "off" ELSE "spawn"]]
  /\ UNCHANGED <<files, marker, store, snapshots, child, history>>

\* The machine stops: what is on disk stays.
PowerLoss ==
  /\ Spend("losses")
  /\ sup' = [s \in Starters |-> Off]
  /\ child' = [s \in Starters |-> NoChild]
  /\ UNCHANGED <<disk, bad, installs, written>>

-----------------------------------------------------------------------------

Init ==
  /\ files = [n \in Names |-> 1]
  /\ previous = Nothing
  /\ marker = NoMarker
  /\ failed = None
  /\ store = [f \in Stores |-> [ver |-> 1, rows |-> 0]]
  /\ snapshots = {}
  /\ sup = [s \in Starters |-> Off]
  /\ child = [s \in Starters |-> NoChild]
  /\ bad \in SUBSET (Builds \ {1})
  /\ installs = 0
  /\ left = [starts |-> Starts, presses |-> Presses, writes |-> Writes, faults |-> Faults, losses |-> Losses]
  /\ written = [f \in Stores |-> 0]

Serve(s) ==
  \/ Hold(s) \/ Listen(s) \/ Press(s) \/ KeepPrevious(s) \/ PutFails(s) \/ WritePending(s) \/ Restart(s)
  \/ \E f \in Stores : Open(s, f) \/ Write(s, f)
  \/ \E n \in Names : PutFile(s, n)

Supervise(s) ==
  \/ Spawn(s) \/ Healthy(s) \/ Cleared(s) \/ Reap(s) \/ RestoreStores(s) \/ LeaveFailure(s)
  \/ \E n \in Names : RestoreFile(s, n)

Next ==
  \/ \E s \in Starters : Start(s) \/ Serve(s) \/ Ends(s) \/ Supervise(s)
  \/ PowerLoss

\* The two processes run.
Fairness ==
  \A s \in Starters :
    /\ WF_vars(Supervise(s))
    /\ WF_vars(Hold(s)) /\ WF_vars(Listen(s)) /\ WF_vars(\E f \in Stores : Open(s, f))

Spec == Init /\ [][Next]_vars
LiveSpec == Spec /\ Fairness

-----------------------------------------------------------------------------
(* Properties. *)

\* Every variable holds a value of its type.
TypeOK ==
  /\ files \in [Names -> Builds] /\ previous \in [Names -> Builds \cup {None}]
  /\ marker \in [tag : Builds \cup {None}, at : 0..Presses]
  /\ failed \in Builds \cup {None}
  /\ store \in [Stores -> [ver : Builds, rows : 0..Writes]]
  /\ snapshots \subseteq Snapshots
  /\ sup \in [Starters -> [at : {"off", "spawn", "waiting", "proved", "cleared", "stores", "files"},
                           update : [tag : Builds \cup {None}, at : 0..Presses], window : BOOLEAN]]
  /\ child \in [Starters -> [at : {"none", "starting", "opening", "serving", "keeping", "putting", "marking", "gone"},
                             build : Builds \cup {None}, code : {"none", "ok", "fail", "restart"},
                             open : SUBSET Stores, stale : SUBSET Stores]]
  /\ bad \subseteq Builds /\ installs \in 0..Presses
  /\ left \in [starts : 0..Starts, presses : 0..Presses, writes : 0..Writes, faults : 0..Faults, losses : 0..Losses]
  /\ written \in [Stores -> 0..Writes]

\* A server never meets a store of a schema it does not know: the stores are put back before the
\* files are, and an update that is put back leaves none behind, wherever the machine stopped.
ReadsItsStores ==
  \A s \in Starters : \A f \in child[s].open :
    f \in child[s].stale \/ store[f].ver <= child[s].build

\* Nothing written outside an update's window is lost by putting that update back.
KeptRows == \A f \in Stores : store[f].rows >= written[f]

\* A copy is of one build whenever it is started, unless the machine stopped part way.
WholeCopy ==
  left.losses = Losses =>
    \A s \in Starters : sup[s].at = "spawn" => \A m, n \in Names : files[m] = files[n]

\* A version goes back only for a build that dies inside the window: not for a person's stop there,
\* not for a crash after it, not for a second start beside it.
GoodStays ==
  [][\A s \in Starters : (sup[s].at = "waiting" /\ sup'[s].at = "stores") => child[s].build \in bad]_vars

\* An update that died inside its window is put back and a version that lives comes up, unless the
\* machine stops or the person presses again on the way.
ComesBack ==
  \A losses \in 0..Losses, presses \in 0..Presses :
    (/\ \E s \in Starters : sup[s].window /\ child[s].at = "gone" /\ child[s].code = "fail"
     /\ \A n \in Names : previous[n] \notin bad \cup {None}
     /\ left.losses = losses /\ left.presses = presses)
      ~> \/ \E s \in Starters : child[s].at = "serving" /\ child[s].build \notin bad
         \/ left.losses < losses \/ left.presses < presses
=============================================================================
