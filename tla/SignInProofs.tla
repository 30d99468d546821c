---------------------------- MODULE SignInProofs ----------------------------
(***************************************************************************)
(* What the sign-in guarantees for any number of threads, tokens, losses,  *)
(* faults and stops: no token posted again, none lost by the app, none     *)
(* deleted but by the person, and a loss said as one.                      *)
(***************************************************************************)
EXTENDS SignIn, TLAPS

USE SignInAssumption

------------------------------------------------------------------------------
(* The inductive invariant: what is so while the lock is held, and of whom. *)

Holds(t) == thread[t].at \in {"posted", "heard"}

\* One thread holds the lock at a time.
OneHolds == \A t, u \in Threads : Holds(t) /\ Holds(u) => t = u

\* What a thread knows is still so: the token it posts is neither spent nor refused,
\* and the one it was given lives.
ThreadSound(t) ==
  LET th == thread[t] IN
  /\ th.job = "capture" => t = Person /\ th.at \notin {"idle", "booting"}
  /\ th.at \notin {"idle", "booting"} => th.held \in Tokens
  /\ th.at = "heard" <=> th.reply \in {"tokens", "invalid", "unanswered", "failed"}
  /\ Holds(t) => th.held \notin refused \cup replaced /\ (Saved(t) => file \in {th.held, None})
  /\ th.reply = "tokens" => /\ th.got \in (live \cup excused) \ replaced
                            /\ th.got # th.held /\ th.held \notin silent
  /\ th.reply = "invalid" => th.held \notin live

\* A captured token is the person's alone until it is saved.
CaptureOwn ==
  LET p == thread[Person] IN
  p.job = "capture" /\ (p.at # "tell" \/ p.reply = "notasked") =>
    /\ p.held \notin replaced /\ p.held # file
    /\ \A t \in Threads \ {Person} : thread[t].held # p.held /\ thread[t].got # p.held

\* The token saved works, or its successor is in the hand of the one that holds the lock.
FileSound ==
  \/ file = None
  \/ file \in live \cup excused
  \/ \E t \in Threads : thread[t].reply = "tokens" /\ thread[t].held = file

\* A post that went unanswered is remembered, is about to be, or is known refused.
SilenceKnown ==
  Losses \subseteq {"unanswered"} =>
    \A n \in silent :
      \/ n \in unanswered \cup refused
      \/ \E t \in Threads : thread[t].reply = "unanswered" /\ thread[t].held = n

Apart == file \notin replaced /\ refused \cap live = {} /\ silent \cap live = {}

IInv ==
  /\ TypeOK /\ OneHolds /\ CaptureOwn /\ FileSound /\ SilenceKnown /\ Apart
  /\ \A t \in Threads : ThreadSound(t)

------------------------------------------------------------------------------
(* Types. *)

ThreadType == [at : Places, job : Jobs, held : Tokens \cup {None}, reply : Replies,
               got : Tokens \cup {None}, kept : BOOLEAN]
Bounds == [captures : 0..Captures, disconnects : 0..Disconnects, ends : 0..Ends,
           faults : 0..Faults, crashes : 0..Crashes]

\* A thread at rest, and one that starts a renewal.
LEMMA IdleType == Idle \in ThreadType
BY DEF Idle, ThreadType, Places, Jobs, Replies

\* A thread that starts a renewal waits for the lock with a token.
LEMMA StartType ==
  ASSUME thread \in [Threads -> ThreadType], NEW t \in Threads, NEW job \in Jobs, NEW n \in Tokens,
         Start(t, job, n)
  PROVE  thread' \in [Threads -> ThreadType]
<1>1. PICK kept \in {FALSE, Resends} :
        thread' = [thread EXCEPT ![t] = [Idle EXCEPT !.at = "wait", !.job = job, !.held = n, !.kept = kept]]
  BY DEF Start
<1>2. [Idle EXCEPT !.at = "wait", !.job = job, !.held = n, !.kept = kept] \in ThreadType
  BY DEF ThreadType, Places, Idle, Replies
<1> QED BY <1>1, <1>2

\* A thread that is told something, and one that hears an answer.
LEMMA SaysType ==
  ASSUME thread \in [Threads -> ThreadType], NEW t \in Threads, NEW said \in Replies, Says(t, said)
  PROVE  /\ thread' = [thread EXCEPT ![t] = [thread[t] EXCEPT !.at = "tell", !.reply = said]]
         /\ thread' \in [Threads -> ThreadType]
<1>1. thread' = [thread EXCEPT ![t] = [thread[t] EXCEPT !.at = "tell", !.reply = said]]
  BY DEF Says
<1>2. [thread[t] EXCEPT !.at = "tell", !.reply = said] \in ThreadType
  BY DEF ThreadType, Places
<1> QED BY <1>1, <1>2

\* A thread that hears an answer has it.
LEMMA HearsType ==
  ASSUME thread \in [Threads -> ThreadType], NEW t \in Threads, NEW r \in Replies,
         NEW n \in Tokens \cup {None}, Hears(t, r, n)
  PROVE  /\ thread' = [thread EXCEPT ![t] = [thread[t] EXCEPT !.at = "heard", !.reply = r, !.got = n]]
         /\ thread' \in [Threads -> ThreadType]
<1>1. thread' = [thread EXCEPT ![t] = [thread[t] EXCEPT !.at = "heard", !.reply = r, !.got = n]]
  BY DEF Hears
<1>2. [thread[t] EXCEPT !.at = "heard", !.reply = r, !.got = n] \in ThreadType
  BY DEF ThreadType, Places
<1> QED BY <1>1, <1>2

\* The threads that act are threads.
LEMMA Who == Askers \subseteq Threads /\ Readers \subseteq Threads /\ Person \in Threads /\ Keeper \in Threads
BY DEF Threads

\* The types hold at the start.
LEMMA TypeInit == Init => TypeOK
<1> SUFFICES ASSUME Init PROVE TypeOK
  OBVIOUS
<1>1. (CHOOSE n \in Tokens : TRUE) \in Tokens
  OBVIOUS
<1>2. thread \in [Threads -> ThreadType]
  BY IdleType DEF Init, Idle, ThreadType, Places, Jobs, Replies
<1>3. left \in Bounds
  BY DEF Init, Bounds
<1> QED BY <1>1, <1>2, <1>3 DEF Init, TypeOK, ThreadType, Bounds

\* The renewal's steps keep the types.
LEMMA RenewType ==
  ASSUME TypeOK, NEW t \in Threads, ThreadSound(t), Renew(t)
  PROVE  TypeOK'
<1> USE DEF TypeOK
<1>0. /\ thread \in [Threads -> ThreadType] /\ left \in Bounds
      /\ refused \subseteq Tokens /\ unanswered \subseteq Tokens /\ live \subseteq Tokens
      /\ silent \subseteq Tokens /\ replaced \subseteq Tokens /\ excused \subseteq Tokens
  BY DEF ThreadType, Bounds
<1>1. thread[t].at \notin {"idle", "booting"} => thread[t].held \in Tokens
  BY DEF ThreadSound
<1>2. ASSUME NEW said \in Replies, Says(t, said) PROVE thread' \in [Threads -> ThreadType]
  BY <1>0, <1>2, SaysType
<1>3. ASSUME NEW r \in Replies, NEW n \in Tokens \cup {None}, Hears(t, r, n)
      PROVE  thread' \in [Threads -> ThreadType]
  BY <1>0, <1>3, HearsType
<1>4. ASSUME NEW why \in Replies, Remove(t, why)
      PROVE  thread' \in [Threads -> ThreadType] /\ file' \in Tokens \cup {None} /\ left' \in Bounds
  <2>1. PICK said \in {why, "unremoved"} : Says(t, said)
    BY <1>4 DEF Remove
  <2>2. thread' \in [Threads -> ThreadType]
    BY <1>2, <2>1 DEF Replies
  <2> QED BY <1>0, <1>4, <2>2 DEF Remove, Bounds
<1>5. CASE Enter(t)
  <2>1. thread' \in [Threads -> ThreadType]
    BY <1>0, <1>2, <1>4, <1>5 DEF Enter, ThreadType, Places, Replies
  <2>2. file' \in Tokens \cup {None} /\ left' \in Bounds
    BY <1>0, <1>4, <1>5 DEF Enter, Replies
  <2> QED BY <1>0, <1>5, <2>1, <2>2 DEF Enter, ThreadType, Bounds, memory, history
<1>6. CASE Answered(t)
  <2>1. PICK n \in Free : live' = (live \ {thread[t].held}) \cup {n} /\ Hears(t, "tokens", n) /\ Fresh(n)
    BY <1>6 DEF Answered
  <2>2. n \in Tokens /\ thread' \in [Threads -> ThreadType]
    BY <1>3, <2>1 DEF Free, Replies
  <2> QED BY <1>0, <1>6, <2>1, <2>2 DEF Answered, Fresh, ThreadType, memory
<1>7. CASE Lost(t)
  <2>1. thread' \in [Threads -> ThreadType]
    <3>1. CASE thread[t].kept
      <4>1. [thread[t] EXCEPT !.kept = FALSE] \in ThreadType
        BY <1>0 DEF ThreadType
      <4>2. thread' = [thread EXCEPT ![t] = [thread[t] EXCEPT !.kept = FALSE]]
        BY <1>7, <3>1 DEF Lost
      <4> QED BY <1>0, <4>1, <4>2
    <3>2. CASE ~thread[t].kept
      BY <1>3, <1>7, <3>2 DEF Lost, Replies
    <3> QED BY <3>1, <3>2
  <2> QED BY <1>0, <1>1, <1>7, <2>1 DEF Lost, ThreadType, memory
<1>8. CASE Refuse(t) \/ NotReached(t)
  <2>1. thread' \in [Threads -> ThreadType]
    BY <1>3, <1>8 DEF Refuse, NotReached, Replies
  <2> QED BY <1>8, <2>1 DEF Refuse, NotReached, ThreadType, memory, history
<1>9. CASE RecordTokens(t)
  <2>1. thread' \in [Threads -> ThreadType] /\ file' \in Tokens \cup {None} /\ left' \in Bounds
    BY <1>0, <1>9 DEF RecordTokens, ThreadType, Places, Replies, Bounds
  <2>2. replaced' \subseteq Tokens /\ excused' \subseteq Tokens /\ unanswered' \subseteq Tokens
        /\ signedOut' \in BOOLEAN
    BY <1>0, <1>1, <1>9 DEF RecordTokens
  <2> QED BY <1>9, <2>1, <2>2 DEF RecordTokens, ThreadType, Bounds
<1>10. CASE RecordRefusal(t)
  <2>1. PICK why \in {"lost", "refused"} : Remove(t, why)
    BY <1>10 DEF RecordRefusal
  <2>2. thread' \in [Threads -> ThreadType] /\ file' \in Tokens \cup {None} /\ left' \in Bounds
    BY <1>4, <2>1 DEF Replies
  <2> QED BY <1>0, <1>1, <1>10, <2>2 DEF RecordRefusal, ThreadType, Bounds, history
<1>11. CASE RecordSilence(t)
  <2>1. thread' \in [Threads -> ThreadType]
    BY <1>2, <1>11 DEF RecordSilence, Replies
  <2> QED BY <1>0, <1>1, <1>11, <2>1 DEF RecordSilence, ThreadType, history
<1>12. CASE Tell(t)
  <2>1. thread' \in [Threads -> ThreadType]
    BY <1>0, <1>1, <1>12, IdleType, StartType DEF Tell, Jobs
  <2> QED BY <1>12, <2>1 DEF Tell, ThreadType, history
<1> QED BY <1>5, <1>6, <1>7, <1>8, <1>9, <1>10, <1>11, <1>12 DEF Renew

\* Every step keeps them.
LEMMA TypeStep == IInv /\ [Next]_vars => TypeOK'
<1> SUFFICES ASSUME IInv, [Next]_vars PROVE TypeOK'
  OBVIOUS
<1> USE DEF TypeOK
<1>0. /\ thread \in [Threads -> ThreadType] /\ left \in Bounds /\ file \in Tokens \cup {None}
      /\ refused \subseteq Tokens /\ unanswered \subseteq Tokens /\ live \subseteq Tokens
      /\ silent \subseteq Tokens /\ replaced \subseteq Tokens /\ excused \subseteq Tokens
  BY DEF IInv, ThreadType, Bounds
<1>1. \A t \in Threads : thread[t].at \notin {"idle", "booting"} => thread[t].held \in Tokens
  BY DEF IInv, ThreadSound
<1>2. ASSUME NEW t \in Askers, Keep(t) PROVE TypeOK'
  <2>1. thread' \in [Threads -> ThreadType]
    BY <1>0, <1>2, StartType, Who DEF Keep, Jobs
  <2> QED BY <1>2, <2>1 DEF Keep, ThreadType, memory, history, IInv
<1>3. ASSUME NEW r \in Readers, Read(r) PROVE TypeOK'
  <2>1. [Idle EXCEPT !.at = "reading", !.job = "read", !.held = file] \in ThreadType
    BY <1>0, <1>3 DEF Read, Idle, ThreadType, Places, Jobs, Replies
  <2>2. thread' \in [Threads -> ThreadType]
    BY <1>0, <1>3, <2>1, Who DEF Read
  <2> QED BY <1>3, <2>2 DEF Read, ThreadType, memory, history, IInv
<1>4. ASSUME NEW r \in Readers, Unauthorized(r) PROVE TypeOK'
  <2>1. thread' \in [Threads -> ThreadType]
    BY <1>0, <1>1, <1>4, StartType, Who DEF Unauthorized, Jobs
  <2> QED BY <1>4, <2>1 DEF Unauthorized, ThreadType, memory, history, IInv
<1>5. ASSUME NEW r \in Readers, ReadEnds(r) PROVE TypeOK'
  <2>1. thread' \in [Threads -> ThreadType]
    BY <1>0, <1>5, SaysType, Who DEF ReadEnds, Replies
  <2> QED BY <1>5, <2>1 DEF ReadEnds, ThreadType, memory, history, IInv
<1>6. ASSUME NEW t \in Threads, Renew(t) PROVE TypeOK'
  BY <1>6, RenewType DEF IInv
<1>7. CASE Capture
  <2>1. PICK n \in Free : live' = live \cup {n} /\ Start(Person, "capture", n) /\ Fresh(n)
    BY <1>7 DEF Capture
  <2>2. n \in Tokens /\ thread' \in [Threads -> ThreadType]
    BY <1>0, <2>1, StartType, Who DEF Free, Jobs
  <2>3. left' \in Bounds
    BY <1>0, <1>7 DEF Capture, Bounds
  <2> QED BY <1>0, <1>7, <2>1, <2>2, <2>3 DEF Capture, Fresh, ThreadType, Bounds, memory, IInv
<1>8. CASE Disconnect
  <2>1. left' \in Bounds
    BY <1>0, <1>8 DEF Disconnect, Bounds
  <2> QED BY <1>0, <1>8, <2>1 DEF Disconnect, ThreadType, Bounds
<1>9. CASE WealthsimpleEnds
  <2>1. left' \in Bounds
    BY <1>0, <1>9 DEF WealthsimpleEnds, Bounds
  <2> QED BY <1>0, <1>9, <2>1 DEF WealthsimpleEnds, ThreadType, Bounds, memory, IInv
<1>10. CASE Crash
  <2>1. left' \in Bounds
    BY <1>0, <1>10 DEF Crash, Bounds
  <2>2. thread' \in [Threads -> ThreadType]
    <3>1. [Idle EXCEPT !.at = "booting", !.job = "boot"] \in ThreadType
      BY DEF Idle, ThreadType, Places, Jobs, Replies
    <3> QED BY <1>10, <3>1, IdleType DEF Crash
  <2>3. {thread[t].held : t \in {u \in Threads : thread[u].reply = "tokens"}} \subseteq Tokens
    BY <1>1 DEF IInv, ThreadSound
  <2> QED BY <1>0, <1>10, <2>1, <2>2, <2>3 DEF Crash, ThreadType, Bounds, IInv
<1>11. CASE Boot
  <2>1. thread' \in [Threads -> ThreadType] /\ connected' \in BOOLEAN
    BY <1>0, <1>11, StartType, IdleType, Who DEF Boot, Jobs
  <2> QED BY <1>11, <2>1 DEF Boot, ThreadType, history, IInv
<1>12. CASE UNCHANGED vars
  BY <1>12 DEF vars, memory, history, IInv
<1> QED BY <1>2, <1>3, <1>4, <1>5, <1>6, <1>7, <1>8, <1>9, <1>10, <1>11, <1>12 DEF Next

------------------------------------------------------------------------------
(* The invariant, action by action. *)

\* A thread that neither holds the lock nor takes it, and keeps what it holds, takes what
\* the file holds, or lets go of it.
LEMMA Outside ==
  ASSUME IInv, TypeOK', NEW t \in Threads,
         UNCHANGED <<file, refused, unanswered, live, silent, replaced, excused>>,
         \A u \in Threads \ {t} : thread'[u] = thread[u],
         thread[t].at # "heard", ~Holds(t)', 
         thread'[t].reply \notin {"tokens", "invalid", "unanswered", "failed"},
         thread'[t].at \notin {"idle", "booting"} => thread'[t].held \in Tokens,
         t # Person => /\ thread'[t].job # "capture" /\ thread'[t].got \in {None, thread[t].got}
                       /\ thread'[t].held \in {None, file, thread[t].held},
         t = Person /\ thread'[t].job = "capture" =>
           /\ thread[t].job = "capture" /\ thread'[t].held = thread[t].held
           /\ thread[t].at # "tell" \/ thread[t].reply = "notasked"
           /\ thread'[t].at \notin {"idle", "booting"}
  PROVE  IInv'
<1>1. OneHolds'
  BY DEF IInv, OneHolds, Holds
<1>2. ASSUME NEW u \in Threads PROVE ThreadSound(u)'
  <2>1. CASE u = t
    BY <2>1 DEF IInv, ThreadSound, Holds
  <2>2. CASE u # t
    BY <2>2 DEF IInv, ThreadSound, Holds, Saved
  <2> QED BY <2>1, <2>2
<1>3. CaptureOwn'
  <2>1. CASE t = Person
    BY <2>1 DEF IInv, CaptureOwn
  <2>2. CASE t # Person
    <3>1. thread'[Person] = thread[Person] /\ Person \in Threads
      BY <2>2, Who
    <3>2. thread[Person].job = "capture" => thread[Person].held \in Tokens
      BY <3>1 DEF IInv, ThreadSound
    <3>3. \A u \in Threads \ {Person} : /\ thread'[u].held \in {None, file, thread[u].held}
                                       /\ thread'[u].got \in {None, thread[u].got}
      BY <2>2
    <3> QED BY <3>1, <3>2, <3>3 DEF IInv, CaptureOwn
  <2> QED BY <2>1, <2>2
<1>4. thread[t].reply \notin {"tokens", "unanswered"}
  BY DEF IInv, ThreadSound
<1>5. FileSound'
  BY <1>4 DEF IInv, FileSound
<1>6. SilenceKnown'
  BY <1>4 DEF IInv, SilenceKnown
<1>7. Apart'
  BY DEF IInv, Apart
<1> QED BY <1>1, <1>2, <1>3, <1>5, <1>6, <1>7 DEF IInv

\* The loop, or a ticket, starts a renewal.
LEMMA KeepKeeps ==
  ASSUME IInv, TypeOK', NEW t \in Askers, Keep(t)
  PROVE  IInv'
<1>1. /\ t \in Threads /\ t # Person /\ file \in Tokens /\ thread \in [Threads -> ThreadType]
      /\ thread[t].at = "idle"
  BY Who DEF IInv, TypeOK, Keep, ThreadType
<1>2. PICK kept \in {FALSE, Resends} :
        thread' = [thread EXCEPT ![t] = [Idle EXCEPT !.at = "wait", !.job = "keep", !.held = file, !.kept = kept]]
  BY DEF Keep, Start
<1>3. UNCHANGED <<file, refused, unanswered, live, silent, replaced, excused>>
  BY DEF Keep, memory, history
<1>4. thread'[t] = [Idle EXCEPT !.at = "wait", !.job = "keep", !.held = file, !.kept = kept]
  BY <1>1, <1>2
<1>5. thread'[t].at = "wait" /\ thread'[t].job = "keep" /\ thread'[t].held = file
      /\ thread'[t].reply = "none" /\ thread'[t].got = None
  BY <1>4 DEF Idle
<1> QED BY <1>1, <1>2, <1>3, <1>5, Outside DEF Holds

\* A read starts, is turned down, or ends.
LEMMA ReadKeeps ==
  ASSUME IInv, TypeOK', NEW t \in Readers, Read(t) \/ Unauthorized(t) \/ ReadEnds(t)
  PROVE  IInv'
<1>1. t \in Threads /\ t # Person /\ thread \in [Threads -> ThreadType] /\ file \in Tokens \cup {None}
  BY Who DEF IInv, TypeOK, ThreadType
<1>2. UNCHANGED <<file, refused, unanswered, live, silent, replaced, excused>>
  BY DEF Read, Unauthorized, ReadEnds, memory, history
<1>3. thread[t].at # "heard" /\ (thread[t].at # "idle" => thread[t].at \in {"reading", "rereading"})
  BY DEF Read, Unauthorized, ReadEnds
<1>4. /\ thread[t].at \notin {"idle", "booting"} => thread[t].held \in Tokens
      /\ thread[t].job # "capture"
  BY <1>1 DEF IInv, ThreadSound
<1>5. CASE Read(t)
  <2>1. thread' = [thread EXCEPT ![t] = [Idle EXCEPT !.at = "reading", !.job = "read", !.held = file]]
    BY <1>5 DEF Read
  <2>2. thread'[t].at = "reading" /\ thread'[t].job = "read" /\ thread'[t].held = file
        /\ thread'[t].reply = "none" /\ thread'[t].got = None /\ file \in Tokens
    BY <1>1, <1>5, <2>1 DEF Read, Idle
  <2> QED BY <1>1, <1>2, <1>3, <2>1, <2>2, Outside DEF Holds
<1>6. CASE Unauthorized(t)
  <2>1. PICK kept \in {FALSE, Resends} :
          thread' = [thread EXCEPT ![t] = [Idle EXCEPT !.at = "wait", !.job = "read",
                                                       !.held = thread[t].held, !.kept = kept]]
    BY <1>6 DEF Unauthorized, Start
  <2>2. thread'[t] = [Idle EXCEPT !.at = "wait", !.job = "read", !.held = thread[t].held, !.kept = kept]
    BY <1>1, <2>1
  <2>3. thread'[t].at = "wait" /\ thread'[t].job = "read" /\ thread'[t].held = thread[t].held
        /\ thread'[t].reply = "none" /\ thread'[t].got = None /\ thread[t].held \in Tokens
    BY <1>4, <1>6, <2>2 DEF Idle, Unauthorized
  <2> QED BY <1>1, <1>2, <1>3, <2>1, <2>3, Outside DEF Holds
<1>7. CASE ReadEnds(t)
  <2>1. PICK said \in {"issued", "lapsed"} :
          thread' = [thread EXCEPT ![t] = [thread[t] EXCEPT !.at = "tell", !.reply = said]]
    BY <1>1, <1>7, SaysType DEF ReadEnds, Replies
  <2>2. thread'[t] = [thread[t] EXCEPT !.at = "tell", !.reply = said] /\ thread[t] \in ThreadType
    BY <1>1, <2>1
  <2>3. thread'[t].at = "tell" /\ thread'[t].job = thread[t].job /\ thread'[t].held = thread[t].held
        /\ thread'[t].reply = said /\ thread'[t].got = thread[t].got /\ thread[t].held \in Tokens
    BY <1>4, <1>7, <2>2 DEF ThreadType, ReadEnds
  <2> QED BY <1>1, <1>2, <1>3, <1>4, <2>1, <2>3, Outside DEF Holds
<1> QED BY <1>5, <1>6, <1>7

\* The saved sign-in is found at start.
LEMMA BootKeeps ==
  ASSUME IInv, TypeOK', Boot
  PROVE  IInv'
<1>1. Keeper \in Threads /\ Keeper # Person /\ thread \in [Threads -> ThreadType] /\ file \in Tokens \cup {None}
  BY Who DEF IInv, TypeOK, ThreadType
<1>2. UNCHANGED <<file, refused, unanswered, live, silent, replaced, excused>> /\ thread[Keeper].at = "booting"
  BY DEF Boot, history
<1>3. CASE thread' = [thread EXCEPT ![Keeper] = Idle]
  BY <1>1, <1>2, <1>3, Outside DEF Holds, Idle
<1>4. CASE file # None /\ Start(Keeper, "boot", file)
  <2>1. PICK kept \in {FALSE, Resends} :
          thread' = [thread EXCEPT ![Keeper] = [Idle EXCEPT !.at = "wait", !.job = "boot", !.held = file, !.kept = kept]]
    BY <1>4 DEF Start
  <2>2. thread'[Keeper] = [Idle EXCEPT !.at = "wait", !.job = "boot", !.held = file, !.kept = kept]
    BY <1>1, <2>1
  <2>3. thread'[Keeper].at = "wait" /\ thread'[Keeper].job = "boot" /\ thread'[Keeper].held = file
        /\ thread'[Keeper].reply = "none" /\ thread'[Keeper].got = None /\ file \in Tokens
    BY <1>1, <1>4, <2>2 DEF Idle
  <2> QED BY <1>1, <1>2, <2>1, <2>3, Outside DEF Holds
<1> QED BY <1>3, <1>4 DEF Boot

\* A renewal is told, out of the lock.
LEMMA TellKeeps ==
  ASSUME IInv, TypeOK', NEW t \in Threads, Tell(t)
  PROVE  IInv'
<1>1. thread \in [Threads -> ThreadType] /\ thread[t].held \in Tokens /\ thread[t].at = "tell"
  BY DEF IInv, TypeOK, ThreadType, ThreadSound, Tell
<1>2. UNCHANGED <<file, refused, unanswered, live, silent, replaced, excused>>
  BY DEF Tell, history
<1>3. CASE thread' = [thread EXCEPT ![t] = Idle]
  BY <1>1, <1>2, <1>3, Outside DEF Holds, Idle
<1>4. CASE ~Saved(t) /\ thread[t].reply = "notasked" /\ Start(t, "capture", thread[t].held)
  <2>1. PICK kept \in {FALSE, Resends} :
          thread' = [thread EXCEPT ![t] = [Idle EXCEPT !.at = "wait", !.job = "capture",
                                                       !.held = thread[t].held, !.kept = kept]]
    BY <1>4 DEF Start
  <2>2. thread'[t] = [Idle EXCEPT !.at = "wait", !.job = "capture", !.held = thread[t].held, !.kept = kept]
    BY <1>1, <2>1
  <2>3. thread'[t].at = "wait" /\ thread'[t].job = "capture" /\ thread'[t].held = thread[t].held
        /\ thread'[t].reply = "none" /\ thread'[t].got = None
    BY <2>2 DEF Idle
  <2>4. thread[t].job = "capture" /\ t = Person
    BY <1>4 DEF Saved, IInv, ThreadSound
  <2> QED BY <1>1, <1>2, <1>4, <2>1, <2>3, <2>4, Outside DEF Holds
<1> QED BY <1>3, <1>4 DEF Tell

\* A thread takes the lock, or is told at once.
LEMMA EnterKeeps ==
  ASSUME IInv, TypeOK', NEW t \in Threads, Enter(t)
  PROVE  IInv'
<1>1. /\ thread \in [Threads -> ThreadType] /\ thread[t] \in ThreadType /\ thread[t].held \in Tokens
      /\ thread[t].at = "wait" /\ LockFree /\ file \in Tokens \cup {None}
      /\ thread[t].reply \notin {"tokens", "invalid", "unanswered", "failed"}
      /\ thread[t].job = "capture" => t = Person
  BY DEF IInv, TypeOK, ThreadType, ThreadSound, Enter
<1>2. UNCHANGED <<connected, refused, unanswered, live, silent, replaced, excused, signedOut>>
  BY DEF Enter, memory, history
<1>3. ASSUME NEW said \in Replies \ {"tokens", "invalid", "unanswered", "failed"}, Says(t, said)
      PROVE  /\ thread' = [thread EXCEPT ![t] = [thread[t] EXCEPT !.at = "tell", !.reply = said]]
             /\ thread'[t].at = "tell" /\ thread'[t].job = thread[t].job /\ thread'[t].reply = said
             /\ thread'[t].held = thread[t].held /\ thread'[t].got = thread[t].got
  <2>1. thread' = [thread EXCEPT ![t] = [thread[t] EXCEPT !.at = "tell", !.reply = said]]
    BY <1>1, <1>3, SaysType
  <2>2. thread'[t] = [thread[t] EXCEPT !.at = "tell", !.reply = said]
    BY <1>1, <2>1
  <2> QED BY <1>1, <2>1, <2>2 DEF ThreadType
<1>4. CASE Saved(t) /\ file = None /\ Says(t, "lapsed") /\ UNCHANGED file
  <2>1. /\ thread' = [thread EXCEPT ![t] = [thread[t] EXCEPT !.at = "tell", !.reply = "lapsed"]]
        /\ thread'[t].at = "tell" /\ thread'[t].job = thread[t].job /\ thread'[t].reply = "lapsed"
        /\ thread'[t].held = thread[t].held /\ thread'[t].got = thread[t].got
    BY <1>3, <1>4 DEF Replies
  <2> QED BY <1>1, <1>2, <1>4, <2>1, Outside DEF Holds, Saved
<1>5. CASE /\ Saved(t) /\ file \notin {None, thread[t].held} /\ UNCHANGED file
           /\ thread' = [thread EXCEPT ![t].held = file, ![t].reply = "issued",
                                       ![t].at = IF thread[t].job = "read" THEN "rereading" ELSE "tell"]
  <2>1. thread' = [thread EXCEPT ![t] = [thread[t] EXCEPT !.held = file, !.reply = "issued",
                                          !.at = IF thread[t].job = "read" THEN "rereading" ELSE "tell"]]
    BY <1>5
  <2>2. thread'[t] = [thread[t] EXCEPT !.held = file, !.reply = "issued",
                                       !.at = IF thread[t].job = "read" THEN "rereading" ELSE "tell"]
    BY <1>1, <2>1
  <2>3. thread'[t].at \in {"rereading", "tell"} /\ thread'[t].job = thread[t].job
        /\ thread'[t].reply = "issued" /\ thread'[t].held = file /\ thread'[t].got = thread[t].got
    BY <1>1, <2>2 DEF ThreadType
  <2> QED BY <1>1, <1>2, <1>5, <2>1, <2>3, Outside DEF Holds, Saved
<1>6. CASE thread[t].held \in refused /\ (Saved(t) => file = thread[t].held) /\ Remove(t, "refused")
  <2>0. PICK said \in {"refused", "unremoved"} : Says(t, said)
    BY <1>6 DEF Remove
  <2>3. /\ thread' = [thread EXCEPT ![t] = [thread[t] EXCEPT !.at = "tell", !.reply = said]]
        /\ thread'[t].at = "tell" /\ thread'[t].job = thread[t].job /\ thread'[t].reply = said
        /\ thread'[t].held = thread[t].held /\ thread'[t].got = thread[t].got
    BY <1>3, <2>0 DEF Replies
  <2>1. CASE UNCHANGED file
    BY <1>1, <1>2, <2>3, <2>1, Outside DEF Holds
  <2>2. CASE file' = None
    <3>1. OneHolds'
      BY <1>1, <2>3 DEF OneHolds, Holds, LockFree
    <3>2. ASSUME NEW u \in Threads PROVE ThreadSound(u)'
      BY <1>1, <1>2, <2>2, <2>3 DEF IInv, ThreadSound, Holds, Saved, LockFree
    <3>3. CaptureOwn'
      <4>1. Person \in Threads /\ (thread[Person].job = "capture" => thread[Person].held \in Tokens)
        BY Who DEF IInv, ThreadSound
      <4>2. \A u \in Threads : thread'[u].held = thread[u].held /\ thread'[u].got = thread[u].got
                               /\ thread'[u].job = thread[u].job
        BY <1>1, <2>3
      <4>3. thread'[Person].at = "tell" /\ thread'[Person].reply = "notasked" => t # Person
        BY <2>3
      <4> QED BY <1>1, <1>2, <2>2, <2>3, <4>1, <4>2, <4>3 DEF IInv, CaptureOwn
    <3>4. FileSound'
      BY <2>2 DEF FileSound
    <3>5. SilenceKnown'
      <4>1. \A u \in Threads : thread[u].reply = "unanswered" => thread'[u] = thread[u]
        BY <1>1, <2>3
      <4> QED BY <1>2, <4>1 DEF IInv, SilenceKnown
    <3>6. Apart'
      BY <1>2, <2>2 DEF IInv, Apart, TypeOK
    <3> QED BY <3>1, <3>2, <3>3, <3>4, <3>5, <3>6 DEF IInv
  <2> QED BY <1>6, <2>1, <2>2 DEF Remove
<1>7. CASE /\ Saved(t) => file = thread[t].held
           /\ thread[t].held \notin refused
           /\ thread' = [thread EXCEPT ![t].at = "posted"]
           /\ UNCHANGED file
  <2>1. thread' = [thread EXCEPT ![t] = [thread[t] EXCEPT !.at = "posted"]]
    BY <1>7
  <2>2. thread'[t] = [thread[t] EXCEPT !.at = "posted"]
    BY <1>1, <2>1
  <2>3. thread'[t].at = "posted" /\ thread'[t].job = thread[t].job /\ thread'[t].reply = thread[t].reply
        /\ thread'[t].held = thread[t].held /\ thread'[t].got = thread[t].got
    BY <1>1, <2>2 DEF ThreadType
  <2>4. OneHolds'
    BY <1>1, <2>1, <2>3 DEF OneHolds, Holds, LockFree
  <2>5. ASSUME NEW u \in Threads PROVE ThreadSound(u)'
    <3>1. CASE u = t
      <4>1. thread[t].held \notin replaced
        BY <1>1, <1>7 DEF IInv, Apart, CaptureOwn, Saved
      <4> QED BY <1>1, <1>2, <1>7, <2>3, <3>1, <4>1 DEF ThreadSound, Saved, Holds
    <3>2. CASE u # t
      BY <1>2, <1>7, <2>1, <3>2 DEF IInv, ThreadSound, Holds, Saved
    <3> QED BY <3>1, <3>2
  <2>6. CaptureOwn'
    <3>1. \A u \in Threads : thread'[u].held = thread[u].held /\ thread'[u].got = thread[u].got
                             /\ thread'[u].job = thread[u].job
      BY <1>1, <2>1, <2>3
    <3>2. Person # t => thread'[Person] = thread[Person]
      BY <1>1, <2>1, Who
    <3> QED BY <1>1, <1>2, <1>7, <3>1, <3>2, Who DEF IInv, CaptureOwn
  <2>7. FileSound'
    <3>1. \A u \in Threads : thread'[u].held = thread[u].held /\ thread'[u].reply = thread[u].reply
      BY <1>1, <2>1, <2>3
    <3> QED BY <1>2, <1>7, <3>1 DEF IInv, FileSound
  <2>8. SilenceKnown'
    <3>1. \A u \in Threads : thread'[u].held = thread[u].held /\ thread'[u].reply = thread[u].reply
      BY <1>1, <2>1, <2>3
    <3> QED BY <1>2, <3>1 DEF IInv, SilenceKnown
  <2>9. Apart'
    BY <1>2, <1>7 DEF IInv, Apart
  <2> QED BY <2>4, <2>5, <2>6, <2>7, <2>8, <2>9 DEF IInv
<1> QED BY <1>4, <1>5, <1>6, <1>7 DEF Enter

\* The threads but one, and what each holds, in a step of that one's.
LEMMA Hearing ==
  ASSUME IInv, NEW t \in Threads, NEW r \in Replies, NEW n \in Tokens \cup {None}, Hears(t, r, n)
  PROVE  /\ \A u \in Threads \ {t} : thread'[u] = thread[u]
         /\ thread'[t].at = "heard" /\ thread'[t].job = thread[t].job /\ thread'[t].held = thread[t].held
         /\ thread'[t].reply = r /\ thread'[t].got = n
<1>1. thread \in [Threads -> ThreadType] /\ thread[t] \in ThreadType
  BY DEF IInv, TypeOK, ThreadType
<1>2. thread' = [thread EXCEPT ![t] = [thread[t] EXCEPT !.at = "heard", !.reply = r, !.got = n]]
  BY <1>1 DEF Hears
<1>3. thread'[t] = [thread[t] EXCEPT !.at = "heard", !.reply = r, !.got = n]
  BY <1>1, <1>2
<1>4. thread'[t].at = "heard" /\ thread'[t].job = thread[t].job /\ thread'[t].held = thread[t].held
      /\ thread'[t].reply = r /\ thread'[t].got = n
  BY <1>1, <1>3 DEF ThreadType
<1> QED BY <1>1, <1>2, <1>4

\* Wealthsimple takes the token and gives its successor: the one step after which the
\* file names a token that is spent.
LEMMA AnsweredKeeps ==
  ASSUME IInv, TypeOK', NEW t \in Threads, Answered(t)
  PROVE  IInv'
<1>1. PICK n \in Free : live' = (live \ {thread[t].held}) \cup {n} /\ Hears(t, "tokens", n) /\ Fresh(n)
  BY DEF Answered
<1>2. /\ n \in Tokens /\ n # file /\ n \notin live \cup refused \cup unanswered
      /\ \A u \in Threads : n # thread[u].held /\ n # thread[u].got
  BY <1>1 DEF Free, InUse
<1>3. /\ \A u \in Threads \ {t} : thread'[u] = thread[u]
      /\ thread'[t].at = "heard" /\ thread'[t].job = thread[t].job /\ thread'[t].held = thread[t].held
      /\ thread'[t].reply = "tokens" /\ thread'[t].got = n
  BY <1>1, <1>2, Hearing DEF Replies
<1>4. /\ UNCHANGED <<file, refused, unanswered, left, signedOut>>
      /\ thread[t].at = "posted" /\ thread[t].held \in live
      /\ silent' = silent \ {n} /\ replaced' = replaced \ {n} /\ excused' = excused \ {n}
  BY <1>1 DEF Answered, Fresh, memory
<1>5. OneHolds'
  BY <1>3, <1>4 DEF IInv, OneHolds, Holds
<1>6. ASSUME NEW u \in Threads PROVE ThreadSound(u)'
  <2>1. CASE u = t
    BY <1>1, <1>2, <1>3, <1>4, <2>1 DEF IInv, ThreadSound, Holds, Saved, Apart
  <2>2. CASE u # t
    <3>1. ~Holds(u) /\ thread[u].reply \notin {"tokens", "invalid"}
      BY <1>4, <2>2 DEF IInv, OneHolds, ThreadSound, Holds
    <3> QED BY <1>3, <2>2, <3>1 DEF IInv, ThreadSound, Holds
  <2> QED BY <2>1, <2>2
<1>7. CaptureOwn'
  <2>1. \A u \in Threads : thread'[u].held = thread[u].held /\ thread'[u].job = thread[u].job
                           /\ thread'[u].got \in {thread[u].got, n}
    BY <1>3
  <2>2. Person # t => thread'[Person] = thread[Person]
    BY <1>3, Who
  <2> QED BY <1>2, <1>3, <1>4, <2>1, <2>2, Who DEF IInv, CaptureOwn
<1>8. FileSound'
  <2>1. CASE file = thread[t].held
    BY <1>3, <1>4, <2>1 DEF FileSound
  <2>2. CASE file # thread[t].held
    <3>1. ~\E u \in Threads : thread[u].reply = "tokens" /\ thread[u].held = file
      BY <1>4, <2>2 DEF IInv, OneHolds, ThreadSound, Holds
    <3> QED BY <1>1, <1>2, <1>4, <2>2, <3>1 DEF IInv, FileSound
  <2> QED BY <2>1, <2>2
<1>9. SilenceKnown'
  <2>1. \A u \in Threads : thread[u].reply = "unanswered" => u # t
    BY <1>4 DEF IInv, ThreadSound
  <2> QED BY <1>3, <1>4, <2>1 DEF IInv, SilenceKnown
<1>10. Apart'
  BY <1>1, <1>2, <1>4 DEF IInv, Apart
<1> QED BY <1>5, <1>6, <1>7, <1>8, <1>9, <1>10 DEF IInv

\* An answer other than new tokens: lost on the way, a refusal, or none.
LEMMA HeardKeeps ==
  ASSUME IInv, TypeOK', NEW t \in Threads, NEW r \in {"invalid", "unanswered", "failed"},
         thread[t].at = "posted", Hears(t, r, None), UNCHANGED <<file, refused, unanswered, replaced>>,
         \/ /\ UNCHANGED <<live, silent, excused>>
            /\ r = "invalid" => thread[t].held \notin live
         \/ /\ r \in Losses /\ r # "invalid" /\ live' = live \ {thread[t].held}
            /\ silent' = silent \cup {thread[t].held} /\ excused' = excused \cup {thread[t].held}
  PROVE  IInv'
<1>1. /\ \A u \in Threads \ {t} : thread'[u] = thread[u]
      /\ thread'[t].at = "heard" /\ thread'[t].job = thread[t].job /\ thread'[t].held = thread[t].held
      /\ thread'[t].reply = r /\ thread'[t].got = None
  BY Hearing DEF Replies
<1>2. /\ \A u \in Threads \ {t} : ~Holds(u) /\ thread[u].reply \notin {"tokens", "invalid", "unanswered", "failed"}
      /\ thread[t].reply \notin {"tokens", "invalid", "unanswered", "failed"}
  BY DEF IInv, OneHolds, ThreadSound, Holds
<1>3. OneHolds'
  BY <1>1 DEF IInv, OneHolds, Holds
<1>4. ASSUME NEW u \in Threads PROVE ThreadSound(u)'
  <2>1. CASE u = t
    BY <1>1, <2>1 DEF IInv, ThreadSound, Holds, Saved
  <2>2. CASE u # t
    BY <1>1, <1>2, <2>2 DEF IInv, ThreadSound, Holds
  <2> QED BY <2>1, <2>2
<1>5. CaptureOwn'
  <2>1. \A u \in Threads : thread'[u].held = thread[u].held /\ thread'[u].job = thread[u].job
                           /\ thread'[u].got \in {thread[u].got, None}
    BY <1>1
  <2>2. Person # t => thread'[Person] = thread[Person]
    BY <1>1, Who
  <2>3. thread[Person].job = "capture" => thread[Person].held \in Tokens
    BY Who DEF IInv, ThreadSound
  <2> QED BY <2>1, <2>2, <2>3, Who DEF IInv, CaptureOwn
<1>6. FileSound'
  BY <1>2 DEF IInv, FileSound
<1>7. SilenceKnown'
  <2>1. thread'[t].reply = r /\ thread'[t].held = thread[t].held
    BY <1>1
  <2>2. Losses \subseteq {"unanswered"} => \A n \in silent : n \in unanswered \cup refused
    BY <1>2 DEF IInv, SilenceKnown
  <2> QED BY <2>1, <2>2 DEF SilenceKnown
<1>8. Apart'
  BY DEF IInv, Apart
<1> QED BY <1>3, <1>4, <1>5, <1>6, <1>7, <1>8 DEF IInv

\* The answer is lost, or the post is sent again.
LEMMA LostKeeps ==
  ASSUME IInv, TypeOK', NEW t \in Threads, Lost(t)
  PROVE  IInv'
<1>1. CASE ~thread[t].kept
  BY <1>1, HeardKeeps DEF Lost, memory
<1>2. CASE thread[t].kept
  <2>1. /\ thread \in [Threads -> ThreadType] /\ thread[t] \in ThreadType
        /\ thread' = [thread EXCEPT ![t] = [thread[t] EXCEPT !.kept = FALSE]]
        /\ UNCHANGED <<file, refused, unanswered, replaced, silent>>
        /\ live' = live \ {thread[t].held} /\ excused' = excused \cup {thread[t].held}
    BY <1>2 DEF Lost, memory, IInv, TypeOK, ThreadType
  <2>2. thread'[t] = [thread[t] EXCEPT !.kept = FALSE]
    BY <2>1
  <2>3. \A u \in Threads : /\ thread'[u].at = thread[u].at /\ thread'[u].job = thread[u].job
                           /\ thread'[u].held = thread[u].held /\ thread'[u].got = thread[u].got
                           /\ thread'[u].reply = thread[u].reply
    BY <2>1, <2>2 DEF ThreadType
  <2>4. OneHolds'
    BY <2>3 DEF IInv, OneHolds, Holds
  <2>5. ASSUME NEW u \in Threads PROVE ThreadSound(u)'
    BY <2>1, <2>3 DEF IInv, ThreadSound, Holds, Saved
  <2>6. CaptureOwn'
    BY <2>1, <2>3, Who DEF IInv, CaptureOwn
  <2>7. FileSound' /\ SilenceKnown' /\ Apart'
    BY <2>1, <2>3 DEF IInv, FileSound, SilenceKnown, Apart
  <2> QED BY <2>4, <2>5, <2>6, <2>7 DEF IInv
<1> QED BY <1>1, <1>2

\* The refusal, and the post that says nothing.
LEMMA RefuseKeeps ==
  ASSUME IInv, TypeOK', NEW t \in Threads, Refuse(t) \/ NotReached(t)
  PROVE  IInv'
BY HeardKeeps DEF Refuse, NotReached, memory, history

\* A thread that tells what it was told, in the lock, and leaves it.
LEMMA TellingDoes ==
  ASSUME IInv, NEW t \in Threads, NEW said \in Replies, Says(t, said)
  PROVE  /\ \A u \in Threads \ {t} : thread'[u] = thread[u]
         /\ thread'[t].at = "tell" /\ thread'[t].job = thread[t].job /\ thread'[t].held = thread[t].held
         /\ thread'[t].reply = said /\ thread'[t].got = thread[t].got
<1>1. thread \in [Threads -> ThreadType] /\ thread[t] \in ThreadType
  BY DEF IInv, TypeOK, ThreadType
<1>2. thread' = [thread EXCEPT ![t] = [thread[t] EXCEPT !.at = "tell", !.reply = said]]
  BY <1>1 DEF Says
<1>3. thread'[t] = [thread[t] EXCEPT !.at = "tell", !.reply = said]
  BY <1>1, <1>2
<1>4. thread'[t].at = "tell" /\ thread'[t].job = thread[t].job /\ thread'[t].held = thread[t].held
      /\ thread'[t].reply = said /\ thread'[t].got = thread[t].got
  BY <1>1, <1>3 DEF ThreadType
<1> QED BY <1>1, <1>2, <1>4

\* What the holder of the lock knows, when no other holds it.
LEMMA Alone ==
  ASSUME IInv, NEW t \in Threads, thread[t].at = "heard"
  PROVE  /\ thread[t].held \in Tokens \ (refused \cup replaced)
         /\ Saved(t) => file \in {thread[t].held, None}
         /\ \A u \in Threads \ {t} : ~Holds(u) /\ thread[u].reply \notin {"tokens", "invalid", "unanswered", "failed"}
BY DEF IInv, OneHolds, ThreadSound, Holds

\* The new tokens are saved, or cannot be.
LEMMA RecordTokensKeeps ==
  ASSUME IInv, TypeOK', NEW t \in Threads, RecordTokens(t)
  PROVE  IInv'
<1> DEFINE held == thread[t].held  got == thread[t].got
<1>1. /\ thread \in [Threads -> ThreadType] /\ thread[t] \in ThreadType
      /\ thread[t].at = "heard" /\ thread[t].reply = "tokens"
      /\ held \in Tokens /\ got \in Tokens /\ got # None
      /\ got \in (live \cup excused) \ replaced /\ got # held /\ held \notin silent
      /\ held \notin refused \cup replaced
      /\ thread[t].job = "capture" => t = Person
  BY DEF IInv, TypeOK, ThreadType, ThreadSound, RecordTokens, Holds
<1>2. \A u \in Threads \ {t} : ~Holds(u) /\ thread[u].reply \notin {"tokens", "invalid", "unanswered", "failed"}
  BY <1>1, Alone
<1>3. unanswered' = unanswered \ {held} /\ UNCHANGED <<connected, refused, live, silent>>
  BY DEF RecordTokens
<1>4. CASE /\ file' = got /\ replaced' = replaced \cup {held} /\ UNCHANGED excused
           /\ thread' = [thread EXCEPT ![t].held = thread[t].got, ![t].got = None, ![t].reply = "issued",
                                       ![t].at = IF thread[t].job = "read" THEN "rereading" ELSE "tell"]
  <2>1. thread' = [thread EXCEPT ![t] = [thread[t] EXCEPT !.held = got, !.got = None, !.reply = "issued",
                                          !.at = IF thread[t].job = "read" THEN "rereading" ELSE "tell"]]
    BY <1>4
  <2>2. thread'[t] = [thread[t] EXCEPT !.held = got, !.got = None, !.reply = "issued",
                                       !.at = IF thread[t].job = "read" THEN "rereading" ELSE "tell"]
    BY <1>1, <2>1
  <2>3. /\ thread'[t].at = IF thread[t].job = "read" THEN "rereading" ELSE "tell"
        /\ thread'[t].job = thread[t].job /\ thread'[t].held = got
        /\ thread'[t].reply = "issued" /\ thread'[t].got = None
    BY <1>1, <2>2 DEF ThreadType
  <2>4. \A u \in Threads \ {t} : thread'[u] = thread[u]
    BY <1>1, <2>1
  <2> HIDE DEF held, got
  <2>5. OneHolds'
    BY <1>2, <2>3, <2>4 DEF OneHolds, Holds
  <2>6. ASSUME NEW u \in Threads PROVE ThreadSound(u)'
    <3>1. CASE u = t
      BY <1>1, <2>3, <3>1 DEF ThreadSound, Holds
    <3>2. CASE u # t
      BY <1>2, <2>4, <3>2 DEF IInv, ThreadSound, Holds
    <3> QED BY <3>1, <3>2
  <2>7. CaptureOwn'
    <3>1. CASE t = Person
      BY <2>3, <3>1 DEF CaptureOwn
    <3>2. CASE t # Person
      <4>1. thread'[Person] = thread[Person] /\ Person \in Threads
        BY <2>4, <3>2, Who
      <4>2. thread[Person].job = "capture" => thread[Person].held \in Tokens
        BY <4>1 DEF IInv, ThreadSound
      <4>3. \A u \in Threads \ {Person} : /\ thread'[u].held \in {thread[u].held, thread[u].got}
                                         /\ thread'[u].got \in {None, thread[u].got}
        BY <2>3, <2>4 DEF got
      <4> DEFINE p == thread[Person]
      <4>4. ASSUME p.job = "capture", p.at # "tell" \/ p.reply = "notasked"
            PROVE  /\ p.held \notin replaced' /\ p.held # file'
                   /\ \A u \in Threads \ {Person} : thread'[u].held # p.held /\ thread'[u].got # p.held
        <5>1. /\ p.held \notin replaced /\ p.held # None
              /\ \A u \in Threads \ {Person} : thread[u].held # p.held /\ thread[u].got # p.held
          BY <4>2, <4>4 DEF IInv, CaptureOwn
        <5>2. p.held \notin replaced' /\ p.held # file'
          BY <1>4, <3>2, <5>1 DEF held, got
        <5> QED BY <4>3, <5>1, <5>2
      <4> QED BY <4>1, <4>4 DEF CaptureOwn
    <3> QED BY <3>1, <3>2
  <2>8. FileSound'
    BY <1>1, <1>3, <1>4 DEF FileSound
  <2>9. SilenceKnown'
    <3>1. Losses \subseteq {"unanswered"} => \A n \in silent : n \in unanswered \cup refused
      BY <1>1, <1>2 DEF IInv, SilenceKnown
    <3> QED BY <1>1, <1>3, <3>1 DEF SilenceKnown
  <2>10. Apart'
    BY <1>1, <1>3, <1>4 DEF IInv, Apart
  <2> QED BY <2>5, <2>6, <2>7, <2>8, <2>9, <2>10 DEF IInv
<1>5. CASE /\ excused' = excused \cup {held} /\ UNCHANGED <<file, replaced>>
           /\ thread' = [thread EXCEPT ![t].at = "tell", ![t].got = None,
                                       ![t].reply = IF Saved(t) THEN "lapsed" ELSE "notasked"]
  <2>1. thread' = [thread EXCEPT ![t] = [thread[t] EXCEPT !.at = "tell", !.got = None,
                                          !.reply = IF Saved(t) THEN "lapsed" ELSE "notasked"]]
    BY <1>5
  <2>2. thread'[t] = [thread[t] EXCEPT !.at = "tell", !.got = None,
                                       !.reply = IF Saved(t) THEN "lapsed" ELSE "notasked"]
    BY <1>1, <2>1
  <2>3. /\ thread'[t].at = "tell" /\ thread'[t].job = thread[t].job /\ thread'[t].held = held
        /\ thread'[t].reply \in {"lapsed", "notasked"} /\ thread'[t].got = None
    BY <1>1, <2>2 DEF ThreadType
  <2>4. \A u \in Threads \ {t} : thread'[u] = thread[u]
    BY <1>1, <2>1
  <2>5. OneHolds'
    BY <1>2, <2>3, <2>4 DEF OneHolds, Holds
  <2>6. ASSUME NEW u \in Threads PROVE ThreadSound(u)'
    <3>1. CASE u = t
      BY <1>1, <2>3, <3>1 DEF ThreadSound, Holds
    <3>2. CASE u # t
      BY <1>2, <2>4, <3>2 DEF IInv, ThreadSound, Holds
    <3> QED BY <3>1, <3>2
  <2>7. CaptureOwn'
    <3>1. thread[Person].job = "capture" => thread[Person].held \in Tokens
      BY Who DEF IInv, ThreadSound
    <3>2. \A u \in Threads : /\ thread'[u].held = thread[u].held /\ thread'[u].got \in {None, thread[u].got}
                             /\ thread'[u].job = thread[u].job
      BY <2>3, <2>4
    <3>3. t # Person => thread'[Person] = thread[Person]
      BY <2>4, Who
    <3> QED BY <1>1, <1>5, <3>1, <3>2, <3>3, Who DEF IInv, CaptureOwn
  <2>8. FileSound'
    BY <1>2, <1>3, <1>5 DEF IInv, FileSound
  <2>9. SilenceKnown'
    <3>1. Losses \subseteq {"unanswered"} => \A n \in silent : n \in unanswered \cup refused
      BY <1>1, <1>2 DEF IInv, SilenceKnown
    <3> QED BY <1>1, <1>3, <3>1 DEF SilenceKnown
  <2>10. Apart'
    BY <1>3, <1>5 DEF IInv, Apart
  <2> QED BY <2>5, <2>6, <2>7, <2>8, <2>9, <2>10 DEF IInv
<1> QED BY <1>4, <1>5 DEF RecordTokens

\* The refusal is remembered, and its file removed.
LEMMA RecordRefusalKeeps ==
  ASSUME IInv, TypeOK', NEW t \in Threads, RecordRefusal(t)
  PROVE  IInv'
<1> DEFINE held == thread[t].held
<1>1. /\ thread[t].at = "heard" /\ thread[t].reply = "invalid" /\ thread[t].held \notin live
      /\ thread[t].job = "capture" => t = Person
  BY DEF RecordRefusal, IInv, ThreadSound
<1>2. \A u \in Threads \ {t} : ~Holds(u) /\ thread[u].reply \notin {"tokens", "invalid", "unanswered", "failed"}
  BY <1>1, Alone
<1>3. /\ refused' = refused \cup {held} /\ unanswered' = unanswered \ {held}
      /\ UNCHANGED <<connected, live, silent, replaced, excused>>
      /\ file' = file \/ file' = None
  BY DEF RecordRefusal, Remove, history
<1>4. PICK said \in {"lost", "refused", "unremoved"} : Says(t, said)
  BY DEF RecordRefusal, Remove
<1>5. /\ \A u \in Threads \ {t} : thread'[u] = thread[u]
      /\ thread'[t].at = "tell" /\ thread'[t].job = thread[t].job /\ thread'[t].held = held
      /\ thread'[t].reply = said /\ thread'[t].got = thread[t].got
  BY <1>4, TellingDoes DEF Replies
<1>6. held \in Tokens \ (refused \cup replaced)
  BY <1>1, Alone
<1>7. OneHolds'
  BY <1>2, <1>5 DEF OneHolds, Holds
<1>8. ASSUME NEW u \in Threads PROVE ThreadSound(u)'
  <2>1. CASE u = t
    BY <1>1, <1>5, <1>6, <2>1 DEF ThreadSound, Holds
  <2>2. CASE u # t
    BY <1>2, <1>5, <2>2 DEF IInv, ThreadSound, Holds
  <2> QED BY <2>1, <2>2
<1>9. CaptureOwn'
  <2>1. thread[Person].job = "capture" => thread[Person].held \in Tokens
    BY Who DEF IInv, ThreadSound
  <2>2. \A u \in Threads : /\ thread'[u].held = thread[u].held /\ thread'[u].got = thread[u].got
                           /\ thread'[u].job = thread[u].job
    BY <1>5
  <2>3. t # Person => thread'[Person] = thread[Person]
    BY <1>5, Who
  <2> QED BY <1>1, <1>3, <1>5, <2>1, <2>2, <2>3, Who DEF IInv, CaptureOwn
<1>10. FileSound'
  BY <1>1, <1>2, <1>3 DEF IInv, FileSound
<1>11. SilenceKnown'
  <2>1. Losses \subseteq {"unanswered"} => \A n \in silent : n \in unanswered \cup refused
    BY <1>1, <1>2 DEF IInv, SilenceKnown
  <2> QED BY <1>3, <2>1 DEF SilenceKnown
<1>12. Apart'
  BY <1>1, <1>3 DEF IInv, TypeOK, Apart
<1> QED BY <1>7, <1>8, <1>9, <1>10, <1>11, <1>12 DEF IInv

\* The silence is remembered.
LEMMA RecordSilenceKeeps ==
  ASSUME IInv, TypeOK', NEW t \in Threads, RecordSilence(t)
  PROVE  IInv'
<1>1. /\ thread[t].at = "heard" /\ thread[t].reply \in {"unanswered", "failed"}
      /\ thread[t].job = "capture" => t = Person
  BY DEF RecordSilence, IInv, ThreadSound
<1>2. \A u \in Threads \ {t} : ~Holds(u) /\ thread[u].reply \notin {"tokens", "invalid", "unanswered", "failed"}
  BY <1>1, Alone
<1>3. /\ unanswered' = IF thread[t].reply = "unanswered" THEN unanswered \cup {thread[t].held} ELSE unanswered
      /\ UNCHANGED <<file, refused, live, silent, replaced, excused>>
  BY DEF RecordSilence, history
<1>4. /\ \A u \in Threads \ {t} : thread'[u] = thread[u]
      /\ thread'[t].at = "tell" /\ thread'[t].job = thread[t].job /\ thread'[t].held = thread[t].held
      /\ thread'[t].reply = "notasked" /\ thread'[t].got = thread[t].got
  BY TellingDoes DEF RecordSilence, Replies
<1>5. thread[t].held \in Tokens
  BY <1>1, Alone
<1>6. OneHolds'
  BY <1>2, <1>4 DEF OneHolds, Holds
<1>7. ASSUME NEW u \in Threads PROVE ThreadSound(u)'
  <2>1. CASE u = t
    BY <1>1, <1>4, <1>5, <2>1 DEF ThreadSound, Holds
  <2>2. CASE u # t
    BY <1>2, <1>3, <1>4, <2>2 DEF IInv, ThreadSound, Holds
  <2> QED BY <2>1, <2>2
<1>8. CaptureOwn'
  <2>1. \A u \in Threads : /\ thread'[u].held = thread[u].held /\ thread'[u].got = thread[u].got
                           /\ thread'[u].job = thread[u].job
    BY <1>4
  <2>2. t # Person => thread'[Person] = thread[Person]
    BY <1>4, Who
  <2> QED BY <1>1, <1>3, <2>1, <2>2, Who DEF IInv, CaptureOwn
<1>9. FileSound'
  BY <1>1, <1>2, <1>3 DEF IInv, FileSound
<1>10. SilenceKnown'
  BY <1>1, <1>2, <1>3 DEF IInv, SilenceKnown
<1>11. Apart'
  BY <1>3 DEF IInv, Apart
<1> QED BY <1>6, <1>7, <1>8, <1>9, <1>10, <1>11 DEF IInv

\* The person signs in, or out; Wealthsimple ends a sign-in; the process stops.
LEMMA CaptureKeeps ==
  ASSUME IInv, TypeOK', Capture
  PROVE  IInv'
<1>1. PICK n \in Free : live' = live \cup {n} /\ Start(Person, "capture", n) /\ Fresh(n)
  BY DEF Capture
<1>2. /\ n \in Tokens /\ n # file /\ n \notin live \cup refused \cup unanswered
      /\ \A u \in Threads : n # thread[u].held /\ n # thread[u].got
  BY <1>1 DEF Free, InUse
<1>3. /\ thread \in [Threads -> ThreadType] /\ Person \in Threads /\ thread[Person].at = "idle"
      /\ UNCHANGED <<file, refused, unanswered>>
      /\ silent' = silent \ {n} /\ replaced' = replaced \ {n} /\ excused' = excused \ {n}
  BY <1>1, Who DEF Capture, Fresh, memory, IInv, TypeOK, ThreadType
<1>4. PICK kept \in {FALSE, Resends} :
        thread' = [thread EXCEPT ![Person] = [Idle EXCEPT !.at = "wait", !.job = "capture", !.held = n, !.kept = kept]]
  BY <1>1 DEF Start
<1>5. thread'[Person] = [Idle EXCEPT !.at = "wait", !.job = "capture", !.held = n, !.kept = kept]
  BY <1>3, <1>4
<1>6. thread'[Person].at = "wait" /\ thread'[Person].job = "capture" /\ thread'[Person].held = n
      /\ thread'[Person].reply = "none" /\ thread'[Person].got = None
  BY <1>5 DEF Idle
<1>7. \A u \in Threads \ {Person} : thread'[u] = thread[u]
  BY <1>3, <1>4
<1>8. thread[Person].reply \notin {"tokens", "invalid", "unanswered", "failed"}
  BY <1>3 DEF IInv, ThreadSound
<1>9. OneHolds'
  BY <1>6, <1>7 DEF IInv, OneHolds, Holds
<1>10. ASSUME NEW u \in Threads PROVE ThreadSound(u)'
  <2>1. CASE u = Person
    BY <1>2, <1>6, <2>1 DEF ThreadSound, Holds
  <2>2. CASE u # Person
    BY <1>1, <1>2, <1>3, <1>7, <2>2 DEF IInv, ThreadSound, Holds, Saved
  <2> QED BY <2>1, <2>2
<1>11. CaptureOwn'
  BY <1>2, <1>3, <1>6, <1>7 DEF CaptureOwn
<1>12. FileSound'
  BY <1>1, <1>2, <1>3, <1>7, <1>8 DEF IInv, FileSound
<1>13. SilenceKnown'
  BY <1>3, <1>7, <1>8 DEF IInv, SilenceKnown
<1>14. Apart'
  BY <1>1, <1>2, <1>3 DEF IInv, Apart
<1> QED BY <1>9, <1>10, <1>11, <1>12, <1>13, <1>14 DEF IInv

\* The person disconnects, whatever is under way.
LEMMA DisconnectKeeps ==
  ASSUME IInv, TypeOK', Disconnect
  PROVE  IInv'
<1>1. file' = None /\ UNCHANGED <<thread, refused, unanswered, live, silent, replaced, excused>>
  BY DEF Disconnect
<1>2. ASSUME NEW u \in Threads PROVE ThreadSound(u)'
  BY <1>1 DEF IInv, ThreadSound, Holds, Saved
<1>3. CaptureOwn'
  <2>1. thread[Person].job = "capture" => thread[Person].held \in Tokens
    BY Who DEF IInv, ThreadSound
  <2> QED BY <1>1, <2>1 DEF IInv, CaptureOwn
<1>4. OneHolds' /\ FileSound' /\ SilenceKnown' /\ Apart'
  BY <1>1 DEF IInv, TypeOK, OneHolds, Holds, FileSound, SilenceKnown, Apart
<1> QED BY <1>2, <1>3, <1>4 DEF IInv

\* Wealthsimple ends a sign-in by itself.
LEMMA EndsKeeps ==
  ASSUME IInv, TypeOK', WealthsimpleEnds
  PROVE  IInv'
<1>1. PICK n \in live : live' = live \ {n} /\ excused' = excused \cup {n}
  BY DEF WealthsimpleEnds
<1>2. UNCHANGED <<file, thread, refused, unanswered, silent, replaced>>
  BY DEF WealthsimpleEnds, memory
<1>3. ASSUME NEW u \in Threads PROVE ThreadSound(u)'
  BY <1>1, <1>2 DEF IInv, ThreadSound, Holds, Saved
<1>4. CaptureOwn' /\ OneHolds'
  BY <1>2 DEF IInv, CaptureOwn, OneHolds, Holds
<1>5. FileSound' /\ SilenceKnown' /\ Apart'
  BY <1>1, <1>2 DEF IInv, FileSound, SilenceKnown, Apart
<1> QED BY <1>3, <1>4, <1>5 DEF IInv

\* The process stops: the token in flight is lost with it.
LEMMA CrashKeeps ==
  ASSUME IInv, TypeOK', Crash
  PROVE  IInv'
<1>1. /\ excused' = excused \cup {thread[t].held : t \in {u \in Threads : thread[u].reply = "tokens"}}
      /\ refused' = {} /\ unanswered' = {} /\ silent' = {} /\ replaced' = {} /\ UNCHANGED <<file, live>>
  BY DEF Crash
<1>2. \A t \in Threads : /\ thread'[t].at \in {"idle", "booting"} /\ thread'[t].job # "capture"
                         /\ thread'[t].reply = "none"
  BY DEF Crash, Idle
<1>3. ASSUME NEW u \in Threads PROVE ThreadSound(u)'
  BY <1>2 DEF ThreadSound, Holds
<1>4. CaptureOwn' /\ OneHolds'
  BY <1>2, Who DEF CaptureOwn, OneHolds, Holds
<1>5. FileSound'
  BY <1>1 DEF IInv, FileSound
<1>6. SilenceKnown' /\ Apart'
  BY <1>1 DEF IInv, SilenceKnown, Apart
<1> QED BY <1>3, <1>4, <1>5, <1>6 DEF IInv

\* Nothing happens.
LEMMA StutterKeeps ==
  ASSUME IInv, UNCHANGED vars
  PROVE  IInv'
BY DEF vars, memory, history, IInv, TypeOK, OneHolds, ThreadSound, Holds, Saved, CaptureOwn, FileSound,
       SilenceKnown, Apart

\* The invariant holds at the start.
LEMMA InvInit == Init => IInv
<1> SUFFICES ASSUME Init PROVE IInv
  OBVIOUS
<1>1. \A t \in Threads : /\ thread[t].at \in {"idle", "booting"} /\ thread[t].job # "capture"
                         /\ thread[t].reply = "none"
  BY DEF Init, Idle
<1>2. ASSUME NEW t \in Threads PROVE ThreadSound(t)
  BY <1>1 DEF ThreadSound, Holds
<1>3. CaptureOwn /\ OneHolds
  BY <1>1, Who DEF CaptureOwn, OneHolds, Holds
<1>4. FileSound /\ SilenceKnown /\ Apart
  BY DEF Init, FileSound, SilenceKnown, Apart
<1> QED BY <1>2, <1>3, <1>4, TypeInit DEF IInv

\* And every step keeps it.
LEMMA InvStep == IInv /\ [Next]_vars => IInv'
<1> SUFFICES ASSUME IInv, [Next]_vars PROVE IInv'
  OBVIOUS
<1>1. TypeOK'
  BY TypeStep
<1>2. ASSUME NEW t \in Threads, Renew(t) PROVE IInv'
  BY <1>1, <1>2, EnterKeeps, AnsweredKeeps, LostKeeps, RefuseKeeps, RecordTokensKeeps,
     RecordRefusalKeeps, RecordSilenceKeeps, TellKeeps DEF Renew
<1> QED BY <1>1, <1>2, KeepKeeps, ReadKeeps, CaptureKeeps, DisconnectKeeps, EndsKeeps, CrashKeeps,
           BootKeeps, StutterKeeps DEF Next

------------------------------------------------------------------------------
(* What follows from it. *)

\* The invariant, and the types with it, hold of every state the program reaches.
THEOREM Invariance == Spec => []IInv
<1> QED BY InvInit, InvStep, PTL DEF Spec

\* Every variable holds a value of its type, in every state the program reaches.
THEOREM Typing == Spec => []TypeOK
<1>1. IInv => TypeOK
  BY DEF IInv
<1> QED BY <1>1, Invariance, PTL

\* No token is posted whose successor was saved, nor one Wealthsimple refused
\* (session.rs `refresh`: the file read again under the lock, REFUSED asked).
THEOREM NothingPostedAgain == Spec => []NeverPostedAgain
<1>1. IInv => NeverPostedAgain
  BY DEF IInv, ThreadSound, Holds, NeverPostedAgain
<1> QED BY <1>1, Invariance, PTL

\* Outside the lock the token saved is one Wealthsimple would take, but for what the
\* app can do nothing about (session.rs `post_refresh`: saved before the lock is left).
THEOREM SavedSafe == Spec => []SavedWorks
<1>1. IInv => SavedWorks
  BY DEF IInv, ThreadSound, FileSound, LockFree, SavedWorks
<1> QED BY <1>1, Invariance, PTL

\* A sign-in Wealthsimple would take is deleted by the person alone (session.rs: only
\* the refused sign-in's own file goes with it).
THEOREM WorkingSafe == Spec => WorkingNeverDeleted
<1>1. ASSUME IInv, [Next]_vars
      PROVE  [(file # None /\ file' = None) => (file \notin live \/ signedOut')]_vars
  <2> SUFFICES ASSUME Next, file # None, file' = None PROVE file \notin live \/ signedOut'
    BY <1>1
  <2>1. ASSUME NEW t \in Threads, Renew(t) PROVE file \notin live
    <3>1. CASE Enter(t)
      BY <1>1, <3>1 DEF IInv, Apart, Enter, Remove
    <3>2. CASE RecordTokens(t)
      BY <1>1, <3>2 DEF IInv, ThreadSound, TypeOK, RecordTokens
    <3>3. CASE RecordRefusal(t)
      <4>1. thread[t].held \notin live /\ (Saved(t) => file \in {thread[t].held, None})
        BY <1>1, <3>3, Alone DEF IInv, ThreadSound, RecordRefusal
      <4>2. Saved(t)
        BY <3>3 DEF RecordRefusal, Remove
      <4> QED BY <4>1, <4>2
    <3> QED BY <2>1, <3>1, <3>2, <3>3 DEF Renew, Answered, Lost, Refuse, NotReached, RecordSilence, Tell
  <2>2. CASE Disconnect
    BY <2>2 DEF Disconnect
  <2> QED BY <2>1, <2>2 DEF Next, Keep, Read, Unauthorized, ReadEnds, Capture, WealthsimpleEnds, Crash, Boot
<1> QED BY <1>1, Invariance, PTL DEF Spec, WorkingNeverDeleted

\* Where an answer lost after the post arrived is told as no answer, the refusal of a
\* token Wealthsimple took before is said as a loss, or the file that saved it is still
\* there and that it could not be removed is said (session.rs UNANSWERED, `remove`).
THEOREM LossSaid == ASSUME Losses \subseteq {"unanswered"} PROVE Spec => LostIsSaid
<1>1. ASSUME IInv, [Next]_vars
      PROVE  [\A t \in Threads :
                (thread[t].reply = "invalid" /\ thread'[t].at = "tell" /\ thread[t].held \in silent)
                   => thread'[t].reply = IF file' = thread[t].held THEN "unremoved" ELSE "lost"]_vars
  <2> DEFINE Said(t) == thread'[t].reply = IF file' = thread[t].held THEN "unremoved" ELSE "lost"
  <2> SUFFICES ASSUME Next, NEW t \in Threads, thread[t].reply = "invalid", thread'[t].at = "tell",
                      thread[t].held \in silent
               PROVE  Said(t)
    BY <1>1
  <2>1. /\ thread \in [Threads -> ThreadType] /\ thread[t].at = "heard"
    BY <1>1 DEF IInv, TypeOK, ThreadType, ThreadSound
  <2>2. thread[t].held \in unanswered
    <3>1. \A u \in Threads : thread[u].reply # "unanswered"
      BY <1>1, <2>1, Alone
    <3>2. thread[t].held \notin refused
      BY <1>1, <2>1, Alone
    <3> QED BY <1>1, <3>1, <3>2 DEF IInv, SilenceKnown
  <2>3. ASSUME NEW u \in Threads, u # t, \A v \in Threads \ {u} : thread'[v] = thread[v]
        PROVE  Said(t)
    BY <2>1, <2>3
  <2>4. ASSUME NEW u \in Threads, Renew(u) PROVE Said(t)
    <3>1. CASE u = t
      <4>1. RecordRefusal(t)
        BY <2>1, <2>4, <3>1 DEF Renew, Enter, Answered, Lost, Refuse, NotReached, RecordTokens,
                                RecordSilence, Tell
      <4>2. Remove(t, "lost")
        BY <2>2, <4>1 DEF RecordRefusal
      <4>3. /\ thread[t].held \in Tokens /\ None \notin Tokens
            /\ Saved(t) => file \in {thread[t].held, None}
        BY <1>1, <2>1, Alone
      <4>4. CASE Saved(t) /\ file # None /\ Says(t, "unremoved") /\ UNCHANGED file
        <5>1. thread'[t].reply = "unremoved"
          BY <1>1, <4>4, TellingDoes DEF Replies
        <5> QED BY <4>3, <4>4, <5>1
      <4>5. CASE Says(t, "lost") /\ file' = IF Saved(t) THEN None ELSE file
        <5>1. thread'[t].reply = "lost"
          BY <1>1, <4>5, TellingDoes DEF Replies
        <5>2. file' # thread[t].held
          <6>1. CASE Saved(t)
            BY <4>3, <4>5, <6>1
          <6>2. CASE ~Saved(t)
            BY <1>1, <2>1, <4>5, <6>2 DEF IInv, ThreadSound, CaptureOwn, Saved
          <6> QED BY <6>1, <6>2
        <5> QED BY <5>1, <5>2
      <4> QED BY <4>2, <4>4, <4>5 DEF Remove
    <3>2. CASE u # t
      <4>1. \A v \in Threads \ {u} : thread'[v] = thread[v]
        BY <2>1, <2>4, <3>2 DEF Renew, Enter, Answered, Lost, Refuse, NotReached, RecordTokens,
              RecordRefusal, RecordSilence, Tell, Remove, Says, Hears, Start
      <4> QED BY <2>3, <3>2, <4>1
    <3> QED BY <3>1, <3>2
  <2>5. CASE Crash
    BY <2>1, <2>5 DEF Crash, Idle
  <2>6. CASE Capture \/ Boot \/ \E u \in Askers : Keep(u)
    <3>1. PICK u \in Threads : u # t /\ \A v \in Threads \ {u} : thread'[v] = thread[v]
      BY <2>1, <2>6, Who DEF Capture, Boot, Keep, Start
    <3> QED BY <2>3, <3>1
  <2>7. CASE \E u \in Readers : Read(u) \/ Unauthorized(u) \/ ReadEnds(u)
    <3>1. PICK u \in Threads : u # t /\ \A v \in Threads \ {u} : thread'[v] = thread[v]
      BY <2>1, <2>7, Who DEF Read, Unauthorized, ReadEnds, Says, Start
    <3> QED BY <2>3, <3>1
  <2>8. CASE Disconnect \/ WealthsimpleEnds
    BY <2>1, <2>8 DEF Disconnect, WealthsimpleEnds
  <2> QED BY <2>4, <2>5, <2>6, <2>7, <2>8 DEF Next
<1> QED BY <1>1, Invariance, PTL DEF Spec, LostIsSaid
=============================================================================
