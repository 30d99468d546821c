------------------------------ MODULE Figures ------------------------------
(***************************************************************************)
(* The figures a server holds, and how a change to them is said.  A writer *)
(* (a pull, a pass of the scheduler, a handler of the page's) commits to a *)
(* store, which rings the bell by itself; has the engine catch up under    *)
(* its lock; counts the change in the log the pages are brought forward    *)
(* by; and rings.                                                          *)
(*                                                                         *)
(* A change is what it moves, as a page's view has it.                     *)
(***************************************************************************)
EXTENDS Naturals, Sequences, FiniteSets

CONSTANTS Writers,
          Quiet,      \* those whose caller rings no bell once the change is counted
          Changes,    \* bound on the commits
          Logged      \* changes kept for the pages

ASSUME FiguresAssumption ==
  /\ Quiet \subseteq Writers
  /\ Changes \in Nat
  /\ Logged \in Nat \ {0}

VARIABLES store,      \* the changes committed
          engine,     \* how many of them the engine has taken
          version,    \* changes counted
          log,        \* what each of the last of them moved
          writer,     \* each writer: where it stands, and what the change it has to count moved
          rung        \* the bell rang since the stream last marked it heard

figures == <<store, engine, version, log, writer, rung>>

\* Nothing the view reads, something of it, everything (the engine built again).
Moves == {"other", "ours", "all"}

FiguresInit ==
  /\ store = <<>>
  /\ engine = 0
  /\ version = 0
  /\ log = <<>>
  /\ writer = [w \in Writers |-> [at |-> "idle", moved |-> {}]]
  /\ rung = FALSE

\* What the view's document says of the figures: the changes to it that the engine has taken.
Said(n) == Cardinality({i \in 1..n : store[i] # "other"})

\* What moved after version v: the changes kept, or everything where one is no longer kept.
MovedSince(v) ==
  LET first == version - Len(log) + 1
      after == UNION {log[i] : i \in {j \in DOMAIN log : first + j - 1 > v}}
  IN  IF v >= version THEN {} ELSE IF first > v + 1 THEN {"all"} ELSE after

-----------------------------------------------------------------------------

To(w, at, moved) == writer' = [writer EXCEPT ![w] = [at |-> at, moved |-> moved]]

Commit(w) ==
  /\ writer[w].at = "idle"
  /\ Len(store) < Changes
  /\ \E m \in Moves : store' = Append(store, m)
  /\ To(w, "committed", {})
  /\ rung' = TRUE
  /\ UNCHANGED <<engine, version, log>>

\* The engine catches up with all that is committed, another's commit included.
CatchUp(w) ==
  /\ writer[w].at = "committed"
  /\ To(w, "applied", {store[i] : i \in (engine + 1)..Len(store)})
  /\ engine' = Len(store)
  /\ UNCHANGED <<store, version, log, rung>>

\* Mutant: every change is kept.
CountKeeping(w) ==
  LET moved == writer[w].moved IN
  /\ writer[w].at = "applied"
  /\ To(w, IF w \in Quiet THEN "idle" ELSE "counted", {})
  /\ version' = IF moved = {} THEN version ELSE version + 1
  /\ log' = IF moved = {} THEN log ELSE Append(log, moved)
  /\ UNCHANGED <<store, engine, rung>>

\* A change that moved anything is counted, with the engine's lock let go: what it moved is kept, the
\* oldest kept let go.
Count(w) ==
  LET moved == writer[w].moved
      longer == Append(log, moved)
  IN  /\ writer[w].at = "applied"
      /\ To(w, IF w \in Quiet THEN "idle" ELSE "counted", {})
      /\ IF moved = {} THEN UNCHANGED <<version, log>>
         ELSE /\ version' = version + 1
              /\ log' = IF Len(longer) > Logged THEN Tail(longer) ELSE longer
      /\ UNCHANGED <<store, engine, rung>>

Say(w) ==
  /\ writer[w].at = "counted"
  /\ To(w, "idle", {})
  /\ rung' = TRUE
  /\ UNCHANGED <<store, engine, version, log>>

FiguresTypeOK ==
  /\ store \in Seq(Moves) /\ Len(store) <= Changes
  /\ engine \in 0..Len(store)
  /\ version \in 0..Len(store)
  /\ log \in Seq(SUBSET Moves) /\ Len(log) <= Logged
  /\ writer \in [Writers -> [at : {"idle", "committed", "applied", "counted"}, moved : SUBSET Moves]]
  /\ rung \in BOOLEAN
=============================================================================
