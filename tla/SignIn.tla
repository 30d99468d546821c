------------------------------- MODULE SignIn -------------------------------
(***************************************************************************)
(* The Wealthsimple sign-in: a refresh token Wealthsimple takes once, kept *)
(* in session.json, and renewed by whoever finds it due: the token loop,   *)
(* an order ticket, the broker's reads, a sign-in just captured.  Each     *)
(* renewal runs under one lock: the file is read again, the token posted,  *)
(* the new one saved.  Answers are lost, the client may send a post a      *)
(* second time, the file cannot be written, the person disconnects at any  *)
(* moment (which takes no lock), and the process stops between             *)
(* Wealthsimple's answer and the file.                                     *)
(*                                                                         *)
(* A token stands for all of the tokens issued together.  A name nobody    *)
(* holds any more may be given to a new token.  The access token's expiry  *)
(* is a fact: any read may find it.                                        *)
(***************************************************************************)
EXTENDS Naturals

CONSTANTS Tokens,       \* what tokens are named by
          None,         \* no token
          Askers,       \* what renews ahead of the expiry: the token loop, an order ticket
          Readers,      \* the broker's reads that may be under way at once
          Losses,       \* how an answer may be lost after the post reached Wealthsimple
          Resends,      \* whether a post may leave on a kept connection
          Captures,     \* bound on the sign-ins the person makes
          Disconnects,  \* bound on the disconnects
          Ends,         \* bound on the sign-ins Wealthsimple ends by itself
          Faults,       \* bound on the writes and the removals of the file that fail
          Crashes       \* bound on the stops of the process

Keeper == "keeper"
Person == "person"

ASSUME SignInAssumption ==
  /\ Tokens # {} /\ None \notin Tokens
  /\ Losses \subseteq {"unanswered", "failed"}
  /\ Resends \in BOOLEAN
  /\ {Captures, Disconnects, Ends, Faults, Crashes} \subseteq Nat
  /\ Keeper \in Askers
  /\ Person \notin Askers \cup Readers
  /\ Askers \cap Readers = {}

Threads == Askers \cup Readers \cup {Person}

VARIABLES file,        \* the token in session.json
          thread,      \* where each thread stands, and the token it holds
          connected,   \* what the page is told
          refused,     \* REFUSED: tokens Wealthsimple refused
          unanswered,  \* UNANSWERED: tokens posted with no answer back
          live,        \* at Wealthsimple: the tokens it would take
          left,        \* what is left of each bound
          silent,      \* tokens taken, in this run of the app, whose post the app had no answer to
          replaced,    \* tokens whose successor was saved, in this run of the app
          excused,     \* tokens that may be dead through no fault of the app's
          signedOut    \* the person disconnected, and has not signed in since

memory  == <<connected, refused, unanswered>>
history == <<silent, replaced, excused, signedOut>>
vars    == <<file, thread, memory, live, left, history>>

Places  == {"idle", "booting", "reading", "rereading", "wait", "posted", "heard", "tell"}
Jobs    == {"none", "boot", "keep", "read", "capture"}
Replies == {"none", "tokens", "invalid", "unanswered", "failed",
            "issued", "lapsed", "refused", "lost", "unremoved", "notasked"}

\* kept: the post leaves on a kept connection, and may be sent a second time.
Idle == [at |-> "idle", job |-> "none", held |-> None, reply |-> "none", got |-> None,
         kept |-> FALSE]

Up       == \A t \in Threads : thread[t].job # "boot"
LockFree == \A t \in Threads : thread[t].at \notin {"posted", "heard"}

InUse == {file} \cup live \cup refused \cup unanswered
         \cup {thread[t].held : t \in Threads} \cup {thread[t].got : t \in Threads}
Free == Tokens \ InUse

\* A name is given again: what was remembered of the token it named goes.
Fresh(n) ==
  /\ silent'   = silent \ {n}
  /\ replaced' = replaced \ {n}
  /\ excused'  = excused \ {n}

-----------------------------------------------------------------------------
(* What starts a renewal. *)

Start(t, job, token) ==
  \E kept \in {FALSE, Resends} :
    thread' = [thread EXCEPT ![t] = [Idle EXCEPT !.at = "wait", !.job = job, !.held = token, !.kept = kept]]

\* Mutant: the loop looks at the expiry alone, and not at what the page is told.
KeepConnected(t) ==
  /\ Up
  /\ thread[t].at = "idle"
  /\ file # None /\ connected
  /\ Start(t, "keep", file)
  /\ UNCHANGED <<file, memory, live, left, history>>

\* The login is due, or the page says it is not connected; a ticket asks the same.
Keep(t) ==
  /\ Up
  /\ thread[t].at = "idle"
  /\ file # None
  /\ Start(t, "keep", file)
  /\ UNCHANGED <<file, memory, live, left, history>>

\* A read of the broker's takes the tokens the file holds, and asks with them.
Read(r) ==
  /\ Up
  /\ thread[r].at = "idle"
  /\ file # None
  /\ thread' = [thread EXCEPT ![r] = [Idle EXCEPT !.at = "reading", !.job = "read", !.held = file]]
  /\ UNCHANGED <<file, memory, live, left, history>>

\* Wealthsimple refuses the access token, or it is about to expire: renewed, once.
Unauthorized(r) ==
  /\ thread[r].at = "reading"
  /\ Start(r, "read", thread[r].held)
  /\ UNCHANGED <<file, memory, live, left, history>>

Says(t, said) == thread' = [thread EXCEPT ![t].at = "tell", ![t].reply = said]

\* The read is answered, or refused again after the renewal: the sign-in has lapsed.
ReadEnds(r) ==
  /\ \/ thread[r].at \in {"reading", "rereading"} /\ Says(r, "issued")
     \/ thread[r].at = "rereading" /\ Says(r, "lapsed")
  /\ UNCHANGED <<file, memory, live, left, history>>

\* The person signs in in the window: Wealthsimple issues a token, and it is captured.
Capture ==
  /\ Up
  /\ thread[Person].at = "idle"
  /\ left.captures > 0
  /\ left' = [left EXCEPT !.captures = @ - 1]
  /\ \E n \in Free :
       /\ live' = live \cup {n}
       /\ Start(Person, "capture", n)
       /\ Fresh(n)
  /\ UNCHANGED <<file, memory, signedOut>>

-----------------------------------------------------------------------------
(* The renewal: refresh, take_over and post_refresh. *)

Saved(t) == thread[t].job # "capture"

\* The refused sign-in's file goes with it, and why is told; or there is a file that cannot be
\* removed, and that is told in place of why.
Remove(t, why) ==
  \/ /\ Says(t, why)
     /\ file' = IF Saved(t) THEN None ELSE file
     /\ UNCHANGED left
  \/ /\ Saved(t) /\ file # None /\ left.faults > 0
     /\ left' = [left EXCEPT !.faults = @ - 1]
     /\ Says(t, "unremoved")
     /\ UNCHANGED file

\* Mutant: the file is not read again in the lock.
EnterBlind(t) ==
  /\ thread[t].at = "wait"
  /\ LockFree
  /\ \/ thread[t].held \in refused /\ Remove(t, "refused")
     \/ /\ thread[t].held \notin refused
        /\ thread' = [thread EXCEPT ![t].at = "posted"]
        /\ UNCHANGED <<file, left>>
  /\ UNCHANGED <<memory, live, history>>

\* Mutant: a refused token is not remembered as one.
EnterForgetful(t) ==
  LET held == thread[t].held IN
  /\ thread[t].at = "wait"
  /\ LockFree
  /\ \/ /\ Saved(t) /\ file = None
        /\ Says(t, "lapsed")
     \/ /\ Saved(t) /\ file \notin {None, held}
        /\ thread' = [thread EXCEPT ![t].held = file, ![t].reply = "issued",
                                    ![t].at = IF thread[t].job = "read" THEN "rereading" ELSE "tell"]
     \/ /\ Saved(t) => file = held
        /\ thread' = [thread EXCEPT ![t].at = "posted"]
  /\ UNCHANGED <<file, left, memory, live, history>>

\* The lock is taken and, for a saved sign-in, the file read again.
Enter(t) ==
  LET held == thread[t].held IN
  /\ thread[t].at = "wait"
  /\ LockFree
  /\ \/ /\ Saved(t) /\ file = None              \* no saved sign-in
        /\ Says(t, "lapsed")
        /\ UNCHANGED <<file, left>>
     \/ /\ Saved(t) /\ file \notin {None, held} \* rotated meanwhile: adopted, nothing posted
        /\ thread' = [thread EXCEPT ![t].held = file, ![t].reply = "issued",
                                    ![t].at = IF thread[t].job = "read" THEN "rereading" ELSE "tell"]
        /\ UNCHANGED <<file, left>>
     \/ /\ Saved(t) => file = held
        /\ held \in refused                     \* never posted again
        /\ Remove(t, "refused")
     \/ /\ Saved(t) => file = held
        /\ held \notin refused
        /\ thread' = [thread EXCEPT ![t].at = "posted"]
        /\ UNCHANGED <<file, left>>
  /\ UNCHANGED <<memory, live, history>>

Hears(t, reply, token) == thread' = [thread EXCEPT ![t].at = "heard", ![t].reply = reply, ![t].got = token]

\* Wealthsimple takes the token and its answer is heard.
Answered(t) ==
  /\ thread[t].at = "posted"
  /\ thread[t].held \in live
  /\ \E n \in Free :
       /\ live' = (live \ {thread[t].held}) \cup {n}
       /\ Hears(t, "tokens", n)
       /\ Fresh(n)
  /\ UNCHANGED <<file, memory, left, signedOut>>

\* Wealthsimple takes the token and its answer is lost: the app is told there was none; or, on a
\* kept connection, the client sends the same post again on a fresh one and the app is told nothing.
Lost(t) ==
  /\ thread[t].at = "posted"
  /\ thread[t].held \in live
  /\ live' = live \ {thread[t].held}
  /\ excused' = excused \cup {thread[t].held}
  /\ \/ /\ ~thread[t].kept
        /\ \E loss \in Losses : Hears(t, loss, None)
        /\ silent' = silent \cup {thread[t].held}
     \/ /\ thread[t].kept
        /\ thread' = [thread EXCEPT ![t].kept = FALSE]
        /\ UNCHANGED silent
  /\ UNCHANGED <<file, memory, left, replaced, signedOut>>

\* Wealthsimple does not know the token.
Refuse(t) ==
  /\ thread[t].at = "posted"
  /\ thread[t].held \notin live
  /\ Hears(t, "invalid", None)
  /\ UNCHANGED <<file, memory, live, left, history>>

\* The post does not reach Wealthsimple, or is answered with an error that says nothing of the
\* token, or is not sent at all (the host rests).
NotReached(t) ==
  /\ thread[t].at = "posted"
  /\ \E loss \in {"unanswered", "failed"} : Hears(t, loss, None)
  /\ UNCHANGED <<file, memory, live, left, history>>

\* Mutant: a read keeps the tokens it was given to itself.
RecordTokensUnsaved(t) ==
  LET held == thread[t].held IN
  /\ thread[t].at = "heard" /\ thread[t].reply = "tokens"
  /\ unanswered' = unanswered \ {held}
  /\ file' = IF thread[t].job = "read" THEN file ELSE thread[t].got
  /\ replaced' = replaced \cup {held}
  /\ signedOut' = (signedOut /\ Saved(t))
  /\ thread' = [thread EXCEPT ![t].held = thread[t].got, ![t].got = None, ![t].reply = "issued",
                              ![t].at = IF thread[t].job = "read" THEN "rereading" ELSE "tell"]
  /\ UNCHANGED <<left, excused, connected, refused, live, silent>>

\* New tokens: saved, in the lock.  A read asks again with them.
RecordTokens(t) ==
  LET held == thread[t].held IN
  /\ thread[t].at = "heard" /\ thread[t].reply = "tokens"
  /\ unanswered' = unanswered \ {held}
  /\ \/ /\ file' = thread[t].got
        /\ replaced' = replaced \cup {held}
        /\ signedOut' = (signedOut /\ Saved(t))
        /\ thread' = [thread EXCEPT ![t].held = thread[t].got, ![t].got = None, ![t].reply = "issued",
                                    ![t].at = IF thread[t].job = "read" THEN "rereading" ELSE "tell"]
        /\ UNCHANGED <<left, excused>>
     \/ /\ left.faults > 0                      \* they cannot be saved
        /\ left' = [left EXCEPT !.faults = @ - 1]
        /\ excused' = excused \cup {held}
        /\ thread' = [thread EXCEPT ![t].at = "tell", ![t].got = None,
                                    ![t].reply = IF Saved(t) THEN "lapsed" ELSE "notasked"]
        /\ UNCHANGED <<file, replaced, signedOut>>
  /\ UNCHANGED <<connected, refused, live, silent>>

\* The refusal: remembered, that a post of it went unanswered forgotten, and the file that saved
\* it removed.
RecordRefusal(t) ==
  LET held == thread[t].held IN
  /\ thread[t].at = "heard" /\ thread[t].reply = "invalid"
  /\ refused' = refused \cup {held}
  /\ unanswered' = unanswered \ {held}
  /\ Remove(t, IF held \in unanswered THEN "lost" ELSE "refused")
  /\ UNCHANGED <<connected, live, history>>

\* Mutant: that a post went unanswered is not remembered.
RecordSilenceOnly(t) ==
  /\ thread[t].at = "heard" /\ thread[t].reply \in {"unanswered", "failed"}
  /\ Says(t, "notasked")
  /\ UNCHANGED <<file, memory, live, left, history>>

\* No answer, or one that says nothing: the sign-in stands.
RecordSilence(t) ==
  LET held == thread[t].held IN
  /\ thread[t].at = "heard" /\ thread[t].reply \in {"unanswered", "failed"}
  /\ unanswered' = IF thread[t].reply = "unanswered" THEN unanswered \cup {held} ELSE unanswered
  /\ Says(t, "notasked")
  /\ UNCHANGED <<file, connected, refused, live, left, history>>

\* Mutant: a thread that was told nothing is left as it was, its answer in place.
TellHalf(t) ==
  /\ thread[t].at = "tell"
  /\ connected' = (thread[t].reply = "issued" \/ connected)
  /\ thread' = [thread EXCEPT ![t].at = "told"]
  /\ UNCHANGED <<file, refused, unanswered, live, left, history>>

\* The one writer of "connected" is told what came of it, out of the lock.  A capture that was
\* not taken over leaves it as it is; one that was not asked is tried again.
Tell(t) ==
  LET said == thread[t].reply IN
  /\ thread[t].at = "tell"
  /\ connected' = (\/ said = "issued"
                   \/ connected /\ (said = "notasked" \/ ~Saved(t)))
  /\ \/ thread' = [thread EXCEPT ![t] = Idle]
     \/ /\ ~Saved(t) /\ said = "notasked"
        /\ Start(t, "capture", thread[t].held)
  /\ UNCHANGED <<file, refused, unanswered, live, left, history>>

-----------------------------------------------------------------------------
(* The person, Wealthsimple and the process. *)

\* The login is deleted and the page told, with no lock: whatever renewal is under way goes on.
Disconnect ==
  /\ Up
  /\ left.disconnects > 0
  /\ left' = [left EXCEPT !.disconnects = @ - 1]
  /\ file' = None
  /\ connected' = FALSE
  /\ signedOut' = TRUE
  /\ UNCHANGED <<thread, refused, unanswered, live, silent, replaced, excused>>

WealthsimpleEnds ==
  /\ left.ends > 0
  /\ left' = [left EXCEPT !.ends = @ - 1]
  /\ \E n \in live : live' = live \ {n} /\ excused' = excused \cup {n}
  /\ UNCHANGED <<file, thread, memory, silent, replaced, signedOut>>

\* The process stops.  A token taken whose successor was not yet saved is lost with it.
Crash ==
  /\ left.crashes > 0
  /\ left' = [left EXCEPT !.crashes = @ - 1]
  /\ excused' = excused \cup {thread[t].held : t \in {u \in Threads : thread[u].reply = "tokens"}}
  /\ thread' = [t \in Threads |->
                  IF t = Keeper THEN [Idle EXCEPT !.at = "booting", !.job = "boot"] ELSE Idle]
  /\ connected' = FALSE
  /\ refused' = {} /\ unanswered' = {}
  /\ silent' = {} /\ replaced' = {}
  /\ UNCHANGED <<file, live, signedOut>>

\* The saved sign-in is found at start, before anything else runs: it stands until Wealthsimple
\* is asked; asked with its access token, or renewed when that is not answered.
Boot ==
  /\ thread[Keeper].at = "booting"
  /\ connected' = (file # None)
  /\ \/ thread' = [thread EXCEPT ![Keeper] = Idle]
     \/ file # None /\ Start(Keeper, "boot", file)
  /\ UNCHANGED <<file, refused, unanswered, live, left, history>>

Init ==
  /\ file \in {None, CHOOSE n \in Tokens : TRUE}
  /\ thread = [t \in Threads |->
                 IF t = Keeper THEN [Idle EXCEPT !.at = "booting", !.job = "boot"] ELSE Idle]
  /\ connected = FALSE
  /\ refused = {} /\ unanswered = {}
  /\ live = {file} \ {None}
  /\ left = [captures |-> Captures, disconnects |-> Disconnects, ends |-> Ends,
             faults |-> Faults, crashes |-> Crashes]
  /\ silent = {} /\ replaced = {} /\ excused = {}
  /\ signedOut = FALSE

Renew(t) ==
  \/ Enter(t) \/ Answered(t) \/ Lost(t) \/ Refuse(t) \/ NotReached(t)
  \/ RecordTokens(t) \/ RecordRefusal(t) \/ RecordSilence(t) \/ Tell(t)

Next ==
  \/ \E t \in Askers : Keep(t)
  \/ \E r \in Readers : Read(r) \/ Unauthorized(r) \/ ReadEnds(r)
  \/ \E t \in Threads : Renew(t)
  \/ Capture \/ Disconnect \/ WealthsimpleEnds \/ Crash \/ Boot

\* Threads run; and a post that is made again and again is, in the end, answered.
Fairness ==
  /\ WF_vars(Boot) /\ WF_vars(Keep(Keeper))
  /\ \A r \in Readers : WF_vars(ReadEnds(r))
  /\ \A t \in Threads :
       /\ SF_vars(Enter(t))
       /\ WF_vars(Answered(t) \/ Lost(t) \/ Refuse(t) \/ NotReached(t))
       /\ SF_vars(Answered(t))
       /\ WF_vars(RecordTokens(t)) /\ WF_vars(RecordRefusal(t))
       /\ WF_vars(RecordSilence(t)) /\ WF_vars(Tell(t))

Spec == Init /\ [][Next]_vars
LiveSpec == Spec /\ Fairness

-----------------------------------------------------------------------------
(* Properties. *)

\* Every variable holds a value of its type.
TypeOK ==
  /\ file \in Tokens \cup {None}
  /\ thread \in [Threads -> [at : Places, job : Jobs, held : Tokens \cup {None}, reply : Replies,
                             got : Tokens \cup {None}, kept : BOOLEAN]]
  /\ connected \in BOOLEAN /\ signedOut \in BOOLEAN
  /\ {refused, unanswered, live, silent, replaced, excused} \subseteq SUBSET Tokens
  /\ left \in [captures : 0..Captures, disconnects : 0..Disconnects, ends : 0..Ends,
               faults : 0..Faults, crashes : 0..Crashes]

\* A refresh token is posted once by the app: never one whose successor it saved, and never one
\* Wealthsimple refused.  (Wealthsimple answers a token already spent by ending the sign-in.)
NeverPostedAgain ==
  \A t \in Threads : thread[t].at = "posted" => thread[t].held \notin refused \cup replaced

\* No sign-in is lost by the app: outside the lock, the token saved is one Wealthsimple would
\* take, unless an answer was lost, the disk failed, the process stopped or Wealthsimple ended it.
SavedWorks == (LockFree /\ file # None) => file \in live \cup excused

\* The refusal of a token that Wealthsimple took from an earlier post, whose answer was lost, is
\* said as that; where the sign-in it saved is still there, its file could not be removed, and
\* that is said in its place.
LostIsSaid ==
  [][\A t \in Threads :
       (thread[t].reply = "invalid" /\ thread'[t].at = "tell" /\ thread[t].held \in silent)
          => thread'[t].reply = IF file' = thread[t].held THEN "unremoved" ELSE "lost"]_vars

\* A token whose answer was lost is never told as refused at first sight, by a later try either.
NeverAtFirstSight ==
  [][\A t \in Threads :
       (thread[t].at # "tell" /\ thread'[t].at = "tell" /\ thread[t].held \in silent)
          => thread'[t].reply # "refused"]_vars

\* A sign-in that Wealthsimple would take is deleted by the person alone: neither silence, nor a
\* renewal that lost the race to another's, nor a capture not taken over ever deletes it.
WorkingNeverDeleted ==
  [][(file # None /\ file' = None) => (file \notin live \/ signedOut')]_vars

\* "connected" means a sign-in is held: with every thread at rest, there is one.
ConnectedHasLogin ==
  (connected /\ \A t \in Threads : thread[t].at = "idle") => file # None

\* "Disconnect Wealthsimple" deletes the login: until the person signs in again, it is gone.
DisconnectDeletes == signedOut => file = None

\* A sign-in Wealthsimple would take comes back: while the page says it is not connected, the
\* token loop renews it, whatever a late read says of the one before.
Recovers == (file \in live /\ ~connected) ~> (connected \/ file \notin live)
=============================================================================
