------------------------------- MODULE Pages --------------------------------
(***************************************************************************)
(* A page and its one stream from the server.  The page shows one document *)
(* under some filters.  It connects naming the filters and the version it  *)
(* holds; the server sends the document whole, or says the page holds it   *)
(* already, and then only what changes in it.  The page says other filters *)
(* by a request of its own.  The connection may drop, and a message may be *)
(* lost, which the numbers of the messages tell.                           *)
(*                                                                         *)
(* What a document says is its filters and the engine's figures; that is   *)
(* also its version, the server's being a hash of it.  A patch carries the *)
(* document it changes: written over any other it makes neither (Mixed).   *)
(***************************************************************************)
EXTENDS Figures

CONSTANTS Params,      \* the filters
          None, Mixed,
          Turns,       \* bound on the changes of the filters
          Faults,      \* bound on the faults, and which of
          FaultKinds,  \*   "lost", "ended", "refused" there are
          Hasty,       \* the filters change while the page is owed an answer, back to what it holds too
          StaleUrl,    \* the browser opens again a stream that named what the page shows no more
          Between      \* a change is counted between a stream's two reads of the log

ASSUME PagesAssumption ==
  /\ {Turns, Faults} \subseteq Nat
  /\ {Hasty, StaleUrl, Between} \subseteq BOOLEAN
  /\ Params # {} /\ None \notin Params
  /\ None # Mixed /\ \A d \in {None, Mixed} : d \notin [p : Params, f : Nat]

VARIABLES page,     \* the filters it shows, what it shows for them, and the version it says that is
          conn,     \* its stream: closed, opening, open
          known,    \* whether it has heard the stream's hello
          url,      \* what the stream was opened naming
          posts,    \* its requests on their way to the server
          net,      \* the stream's messages on their way to it
          wanted,   \* the server's word of what the stream's page shows and holds
          resync,   \* whether the stream is to send everything whole
          feed,     \* the stream: where it stands, what it sends for, what it last sent, up to which version
          lost,     \* a message lost and not noticed yet, one noticed and not made good: each or neither
          left      \* what is left of each bound

vars == <<figures, page, conn, known, url, posts, net, wanted, resync, feed, lost, left>>

Document == [p : Params, f : 0..Changes]
Want     == [p : Params, have : Document \cup {None}]
NoView   == [p |-> None, sent |-> None]
NoWant   == [p |-> None, have |-> None]
NoFeed   == [at |-> "parked", want |-> NoWant, view |-> NoView, upto |-> 0]

Now(p)   == [p |-> p, f |-> Said(engine)]

\* What the page says it shows, and the version it holds.
Shown(p) == [p |-> p, have |-> IF page.data = None THEN None ELSE page.v]

Watch(w) == [type |-> "watch", p |-> w.p, have |-> w.have]
Resync   == [type |-> "resync", p |-> None, have |-> None]

Hello       == [type |-> "hello", v |-> None, base |-> None]
Snapshot(d) == [type |-> "snapshot", v |-> d, base |-> None]
Same(d)     == [type |-> "same", v |-> d, base |-> None]
Patch(b, d) == [type |-> "patch", v |-> d, base |-> b]

\* The filters it opens with: any, the filters being alike.
First == CHOOSE p \in Params : TRUE

\* The page opens on what it kept: of these filters, of others (whose version it does not say), or nothing.
Init ==
  /\ FiguresInit
  /\ \E q \in Params : \E d \in {None, Now(q)} :
       page = [p |-> First, data |-> d, v |-> IF q = First THEN d ELSE None]
  /\ conn = "closed"
  /\ known = FALSE
  /\ url = [p |-> page.p, have |-> None]
  /\ posts = {}
  /\ net = <<>>
  /\ wanted = NoWant
  /\ resync = FALSE
  /\ feed = NoFeed
  /\ lost = {}
  /\ left = [turns |-> Turns, faults |-> Faults]

Spend(what) == left[what] > 0 /\ left' = [left EXCEPT ![what] = @ - 1]

-----------------------------------------------------------------------------
(* The page. *)

Connect ==
  /\ conn = "closed"
  /\ conn' = "opening"
  /\ url' = Shown(page.p)
  /\ UNCHANGED <<figures, page, known, posts, net, wanted, resync, feed, lost, left>>

\* The filters change: what was shown stays until the server answers, and the server is told.
Turn(q) ==
  /\ q # page.p
  /\ Hasty \/ (posts = {} /\ \A f \in 0..Changes : page.v # [p |-> q, f |-> f])
  /\ Spend("turns")
  /\ page' = [page EXCEPT !.p = q]
  /\ posts' = IF known THEN posts \cup {Watch(Shown(q))} ELSE posts
  /\ UNCHANGED <<figures, conn, known, url, net, wanted, resync, feed, lost>>

\* The page after a message: whatever document it is of, it goes to what the page shows.
After(m) ==
  CASE m.type = "snapshot" -> [page EXCEPT !.data = m.v, !.v = m.v]
    [] m.type = "same"     -> [page EXCEPT !.v = m.v]
    [] m.type = "patch" /\ page.data # None ->
         [page EXCEPT !.data = IF page.data = m.base THEN m.v ELSE Mixed, !.v = m.v]
    [] OTHER -> page

\* Mutant: a number out of its order is not noticed.
TakeUnnumbered ==
  /\ net # <<>>
  /\ LET m == Head(net)
         told == m.type = "hello" /\ page.p # url.p
     IN  /\ net' = Tail(net)
         /\ page' = After(m)
         /\ known' = (known \/ m.type = "hello")
         /\ posts' = IF told THEN posts \cup {Watch(Shown(page.p))} ELSE posts
  /\ UNCHANGED <<figures, conn, url, wanted, resync, feed, lost, left>>

\* A message taken.  One out of its order has everything asked for again; a hello has the page say
\* what it shows, where that is not what the stream was opened naming.
Take ==
  /\ net # <<>>
  /\ LET m == Head(net)
         told == m.type = "hello" /\ page.p # url.p
         gap == "unseen" \in lost
     IN  /\ net' = Tail(net)
         /\ page' = After(m)
         /\ known' = (known \/ m.type = "hello")
         /\ posts' = posts \cup (IF told THEN {Watch(Shown(page.p))} ELSE {})
                           \cup (IF gap /\ known THEN {Resync} ELSE {})
         /\ lost' = IF gap THEN {"seen"} ELSE IF m.type = "snapshot" THEN {} ELSE lost
  /\ UNCHANGED <<figures, conn, url, wanted, resync, feed, left>>

-----------------------------------------------------------------------------
(* The server's end of the stream. *)

\* The stream is open: what the page names is taken, and answered without waiting for the bell.
Open ==
  /\ conn = "opening"
  /\ conn' = "open"
  /\ wanted' = url
  /\ net' = <<Hello>>
  /\ rung' = TRUE
  /\ lost' = lost \ {"unseen"}
  /\ UNCHANGED <<store, engine, version, log, writer, page, known, url, posts, resync, feed, left>>

\* A request taken: what is kept with the same filters keeps what it was sent.
TakePost(r) ==
  /\ posts' = posts \ {r}
  /\ CASE r.type = "watch"  -> /\ wanted' = IF r.p = wanted.p THEN wanted ELSE [p |-> r.p, have |-> r.have]
                               /\ UNCHANGED resync
       [] r.type = "resync" -> resync' = TRUE /\ UNCHANGED wanted
  /\ rung' = TRUE
  /\ UNCHANGED <<store, engine, version, log, writer, page, conn, known, url, net, feed, lost, left>>

\* The bell rang: it is marked heard, and then what the page shows taken.
StepLook ==
  /\ conn = "open" /\ feed.at = "parked"
  /\ rung
  /\ rung' = FALSE
  /\ wanted' = IF resync THEN [wanted EXCEPT !.have = None] ELSE wanted
  /\ feed' = [feed EXCEPT !.at = "looked", !.want = wanted',
                          !.view = IF resync \/ feed.view.p # wanted.p THEN NoView ELSE @]
  /\ resync' = FALSE
  /\ UNCHANGED <<store, engine, version, log, writer, page, conn, known, url, posts, net, lost, left>>

\* A view opened now is sent whole, or said to be held; one already open only what moved in it.
Answer(now, since) ==
  LET view == feed.view IN
  IF view.p = None THEN IF feed.want.have = now THEN <<Same(now)>> ELSE <<Snapshot(now)>>
  ELSE IF "all" \in since THEN <<Snapshot(now)>>
  ELSE IF "ours" \in since /\ view.sent # now THEN <<Patch(view.sent, now)>>
  ELSE <<>>

\* Mutant: the bell is marked heard once the figures are read.
StepReadHeard ==
  /\ feed.at = "looked"
  /\ rung' = FALSE
  /\ LET now == Now(feed.want.p)
         out == Answer(now, MovedSince(feed.upto))
     IN  /\ net' = net \o out
         /\ feed' = [NoFeed EXCEPT !.upto = version,
                       !.view = IF out # <<>> THEN [p |-> now.p, sent |-> now] ELSE feed.view]
  /\ UNCHANGED <<store, engine, version, log, writer, page, conn, known, url, posts, wanted, resync, lost, left>>

\* With the engine's lock to read: what moved is read from the log, and then how far the log goes,
\* which a change counted between the two reads is part of.
StepRead ==
  /\ feed.at = "looked"
  /\ UNCHANGED figures \/ (Between /\ \E w \in Writers : Count(w))
  /\ LET now == Now(feed.want.p)
         out == Answer(now, MovedSince(feed.upto))
     IN  /\ net' = net \o out
         /\ feed' = [NoFeed EXCEPT !.upto = version',
                       !.view = IF out # <<>> THEN [p |-> now.p, sent |-> now] ELSE feed.view]
  /\ UNCHANGED <<page, conn, known, url, posts, wanted, resync, lost, left>>

-----------------------------------------------------------------------------
(* What may go wrong on the way. *)

Lose ==
  /\ "lost" \in FaultKinds
  /\ net # <<>> /\ Head(net).type # "hello"
  /\ Spend("faults")
  /\ net' = Tail(net)
  /\ lost' = lost \cup {"unseen"}
  /\ UNCHANGED <<figures, page, conn, known, url, posts, wanted, resync, feed>>

\* The stream is over, with all that was on its way; a request naming it finds no stream.
Over(next) ==
  /\ conn # "closed"
  /\ Spend("faults")
  /\ conn' = next
  /\ known' = FALSE
  /\ net' = <<>>
  /\ posts' = {}
  /\ wanted' = NoWant
  /\ resync' = FALSE
  /\ feed' = NoFeed
  /\ UNCHANGED <<figures, page, url, lost>>

\* What the stream was opened naming the page shows still: the filters, and the document of them it said it held.
StillNamed == url.p = page.p /\ (url.have # None /\ url.have.p = url.p => page.v.p = page.p)

\* It ended: the browser opens the same address again.  It was refused: the page opens one anew.
End    == "ended" \in FaultKinds /\ (StaleUrl \/ StillNamed) /\ Over("opening")
Refuse == "refused" \in FaultKinds /\ Over("closed")

-----------------------------------------------------------------------------

rest == <<page, conn, known, url, posts, net, wanted, resync, feed, lost, left>>

Arrive == UNCHANGED rest /\ \E w \in Writers : Commit(w)
Write  == UNCHANGED rest /\ \E w \in Writers : CatchUp(w) \/ Count(w) \/ Say(w)

Stream  == StepLook \/ StepRead
Network == Open \/ Take \/ \E r \in posts : TakePost(r)

Next ==
  \/ Arrive \/ Write
  \/ Connect
  \/ Stream
  \/ Network
  \/ \E q \in Params : Turn(q)
  \/ Lose \/ End \/ Refuse

Spec == Init /\ [][Next]_vars

\* The server's threads run on, the page connects, what is sent arrives.
LiveSpec == Spec /\ WF_vars(Write) /\ WF_vars(Connect) /\ WF_vars(Stream) /\ WF_vars(Network)

-----------------------------------------------------------------------------

Messages == [type : {"hello", "snapshot", "same", "patch"}, v : Document \cup {None}, base : Document \cup {None}]

TypeOK ==
  /\ FiguresTypeOK
  /\ page \in [p : Params, data : Document \cup {None, Mixed}, v : Document \cup {None}]
  /\ conn \in {"closed", "opening", "open"}
  /\ known \in BOOLEAN /\ resync \in BOOLEAN
  /\ url \in Want /\ wanted \in Want \cup {NoWant}
  /\ \A r \in posts : r = Resync \/ (r.type = "watch" /\ [p |-> r.p, have |-> r.have] \in Want)
  /\ net \in Seq(Messages)
  /\ feed.at \in {"parked", "looked"} /\ feed.upto <= version
  /\ lost \subseteq {"unseen", "seen"}
  /\ left \in [turns : 0..Turns, faults : 0..Faults]

\* The version the page says it holds is the version of what it shows, unless it knows a message was
\* lost and is waiting for the whole: what it says is what decides whether it is sent anything.
ShowsItsOwn == page.v # None /\ "seen" \notin lost => page.data = page.v

\* Once nothing changes any more, the page shows the document for its filters as the stores have
\* it; only a message lost with none after it goes unnoticed.
CatchesUp == <>[]("unseen" \in lost \/ page.data = [p |-> page.p, f |-> Said(Len(store))])
=============================================================================
