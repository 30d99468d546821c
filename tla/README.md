# A verification of Bagholder

Bagholder is a local web application (Rust, under `src/rust/crates`, with a Svelte page under
`src/web`) that reads a person's Wealthsimple accounts, keeps their record, computes figures
from it, shows them on pages that stay up to date and, from its order ticket, places orders:
single orders, *brackets* (a stop loss and a take profit that the app keeps at the broker by
itself) and sales of shares that brackets guard. It updates itself in place.

Five parts of it are modelled, each where threads, lost answers, restarts or a long history
meet: the orders; the sign-in the app reads with; the update of the app; the stream that keeps
a page up to date; and the matching of a record that changes in its past.

Contents: 1 the system's parts; 2 the modules and the code; 3 the runs; 4 fairness;
5 what is proved; 6 where the code and what is said of it disagree; 7 what is left out;
8 the plan.

## 1. The system's parts

Sources are under `src/rust/crates`. *Hard* is what makes a part hard to test, *right*
what would make it correct.

### The orders

**Order state machine** (`core/src/order.rs`). State: an order's log; its state is the
fold of it (eleven states, from `sending` to `filled`, `cancelled`, `expired`,
`rejected`, `failed`). Operations: `start`, `apply`, `read`. An event that is not
allowed where it falls is logged as refused and changes nothing. *Hard:* events arrive
in any order, the same word twice, an older one last. *Right:* an order never moves
back, and what has filled never falls.

**Order gate** (`server/src/orders/gate.rs`, `book/src/orders.rs`, `ws/src/session.rs`).
State: the book's rows and logs, and in memory the marks of orders being sent, ticket
orders being placed, brackets whose sale is being sent, and one lock per bracket.
Operations: `place` (write, send once, record the answer), `cancel`, `change`,
`read_back`. It is called by the ticket, the bracket engine, the Orders panel and the
read-back loop, and calls the broker. *Hard:* every call reads the book, waits for the
broker with nothing locked, and records what it heard onto whatever the order is by
then; answers are lost; the process stops anywhere. *Right:* an order is sent once, never
forgotten while it may be at the broker, and what the book holds as filled is filled.

**Order read-back** (`server/src/orders/readback.rs`). Reads each order in flight again
and tells the person of fills, refusals and cancels. *Right:* every order comes to an
end in the book, and only a cancel the person did not ask for is told as the broker's.

**Bracket rules** (`core/src/bracket.rs`). State: phase (twelve), legs, shares, the exit
held and what was last sent of it, the standing refusal, the outcome. Operations:
`apply` (eighteen events) and `decide`, a pure function from what is seen to one step:
events, and at most one request. *Right:* it decides only moves that are allowed where
it stands; shares are counted once; a reached stop sells from every phase.

**Bracket engine** (`server/src/orders/brackets.rs`). Every five seconds each live
bracket is checked under its lock: read-backs, then up to twelve steps of the rules,
each recorded and its request sent through the gate; then the *sweep* cancels exits no
bracket holds. *Hard:* a person's change or cancel between checks, cancels that are
lost or refused, fills at any moment, exits moved by hand in the broker's own app, a
stop of the process between an answer and its record. *Right:* one exit at the broker
at a time, nothing sold twice, nothing bought left unguarded, nothing left behind when
the bracket ends, a reached stop sold.

**Bracket edits** (`server/src/orders/edit.rs`). A leg moved or taken off, an entry
changed. *Right:* the resting leg comes to where the person put it.

**Order ticket** (`server/src/orders/ticket.rs`, `preview.rs`). An entry is written with
its bracket and sent. A sale of guarded shares first has every bracket's exit cancelled,
waits up to thirty seconds, goes out, and is then held by the brackets as their exit.
*Hard:* it spans several brackets and locks each only in turn; it can stop at any step;
its answer can be lost. *Right:* a share is never both in the sale and in a stop, nor in
neither; each bracket is left guarding what it still has.

**Orders document and tools** (`server/src/orders/doc.rs`, `tools.rs`, `mod.rs`). Shapes
what the panel shows; keeps the switch that orders are live.

### Reaching the outside

**Wealthsimple session** (`wealthsimple/src/session.rs`, `client.rs`, `server/src/session.rs`,
`login.rs`). State: the sign-in in `session.json`, under a lock; in memory, the refresh tokens
refused and those posted with no answer, and what the page is told. Operations: the renewal
(lock, read the file again, post, save), asked for by the token loop, an order ticket, the
broker's reads and a sign-in just captured; the disconnect; the boot. *Hard:* a refresh token
works once; several callers find it lapsed together; the answer is lost, or the client sends the
post twice; the disconnect takes no lock. *Right:* a used token is not posted again, a working
sign-in is never lost or deleted by the app, and it comes back of itself.

**Orders wire** (`ws/src`). What the answer of a mutation means: sent, refused, unclear.

**Network limiter and client** (`net/src`). State: per host, the next free moment and how
long it rests; idle connections. *Right:* a host is never asked faster than its gap,
never while it rests; a request is sent again only when it cannot have been acted on.

**Broker pull and adapter** (`broker/src`, `wealthsimple/src`, `server/src/pull_broker.rs`).
Activities and statements read into the book, each part failing by itself. *Right:* a
row is stored once, and one listed no longer is not dropped by a partial read.

**Sources and due work** (`sources/src`, `server/src/due.rs`, `feeds.rs`). Which source
answers, when each is read again, how failures are counted. *Right:* nothing due is
never read, nothing is read in a tight loop.

**Market data** (`market/src`). Readers and parsers of outside pages.

### Keeping, computing and showing

**Update** (`server/src/update.rs`, `app.rs`, `main.rs`). Two processes: a supervisor and the
server it starts. State: the app's files, the files kept of the version before, a marker of an
update not yet proved, the stores, the copies the migrations took. *Hard:* a file that cannot
be written, a new version that dies after migrating one store of two, a second start beside the
first, the machine stopped between any two steps. *Right:* there is always a whole version to
start, it can read the stores, no row is lost to an update put back that it did not cover.

**Storage** (`sqlite/src`). Migrations over a snapshot, a pool of connections. *Right:* a
file is never left between versions; a newer one is refused.

**Book** (`book/src`). Rows, their identity, statements, fills, notices, agents' grants.

**Engine** (`engine/src`). State: each family's match (lots, round trips, units by day, and what
it needs to go on from), kept as the record changes. Operations: a match continued with later
rows, one placed in a stretch the family was flat in, one walked on from an earlier cut, one
made whole. *Hard:* rows arrive in any order, dated in the past, and each way on keeps a
different part of what was. *Right:* whichever way was taken, what is kept is what a whole
match of the same rows leaves. The figures read off it (positions, equity, cash flow) are
arithmetic.

**Page events and figures** (`server/src/events.rs`, `figures.rs`, `views.rs`, the page's
`web/src/lib/live.svelte.ts` and `kept.ts`). State: the log of what each change moved; a stream
for each page, what it last sent; the page's documents and their versions. *Hard:* a commit
rings before the figures are caught up; the page changes its filters while an answer is on its
way; the stream drops and is opened again with what the page held. *Right:* what a page says it
holds is what it shows; in the end it shows what the stores hold.

**Notifications and web push** (`server/src/notify.rs`, `webpush.rs`). *Right:* one row per
key, shown once.

**Agents' access** (`server/src/agents`). Sign-in with a code the person reads on their own
page, grants and refresh tokens rotated on every use, a tunnel kept as a child process.
*Right:* no grant without the person's code; a refresh token works once.

**HTTP routes and documents, data types, the page's panels, phone apps.** Call and show the above.

## 2. The modules and the code

| module | models | code |
|---|---|---|
| `OrderFold` | an order's events and the fold | `core/src/order.rs` |
| `OrderGate` | placing, cancelling, reading back, over a lossy network, with restarts | `server/src/orders/gate.rs`, `readback.rs` |
| `OrderPromise` | what the rest of the app may count on of an order: abstract, implemented by `OrderGate` | the same |
| `OrderGateProofs` | the theorems about `OrderGate` | |
| `OrderPromiseProofs` | that `OrderGate` implements `OrderPromise` | |
| `BracketRules` | a bracket's events and its decision | `core/src/bracket.rs` |
| `BracketEngine` | one bracket at work: check, gate, sweep, person, broker, market | `server/src/orders/brackets.rs`, `edit.rs`, `gate.rs` |
| `BracketEngineProofs` | the theorems about `BracketEngine` and `BracketRules` | |
| `TicketSale` | a sale from the ticket over several brackets | `server/src/orders/ticket.rs`, `brackets.rs` |
| `TicketSaleProofs` | what a sum, a check and a sale can come to in `TicketSale`, its types, and that no shares are left with neither an exit nor a sale | |
| `TicketSharesProofs` | the theorems about the shares a sale and its brackets hold | |
| `SignIn` | the saved sign-in and everyone who renews it | `wealthsimple/src/session.rs`, `client.rs`, `server/src/session.rs`, `net/src/client.rs` |
| `SignInProofs` | the theorems about `SignIn` | |
| `Update` | supervisor and server through an update | `server/src/update.rs`, `sqlite/src/migrate.rs`, `server/src/app.rs`, `main.rs` |
| `UpdateProofs` | the theorems about `Update` | |
| `Figures` | the figures and the log of what changes moved | `server/src/figures.rs`, `views.rs`, `broker_reads.rs` |
| `Pages` | a page and its stream over `Figures` | `server/src/events.rs`, `web/src/lib/live.svelte.ts` |
| `PagesProofs` | the theorems about `Figures` and `Pages` | |
| `LotMatch` | the whole match of a family's rows | `engine/src/ledger.rs` |
| `FamilyMatch` | a match kept as the record changes | `engine/src/ledger.rs`, `engine.rs` |
| `MC...` | instances for TLC | |

The pure parts are operators with no variables: `OrderFold` (`Apply(fold, event)`), `BracketRules`
(`After(bracket, event)`, `Decide(bracket, seen)`), `LotMatch` (`Whole(rows, today)`). `OrderGate` and
`BracketRules` extend the first; `BracketEngine` and `TicketSale` extend `BracketRules`; `FamilyMatch` extends
`LotMatch`; `Pages` extends `Figures`, whose actions it composes with the page's. No module declares a
recursive operator; sequences are folded with the community modules' `FoldLeft`.

**OrderGate.** `book` is the orders table; `sender`, `reader` and `caller` say where each
thread stands between the statements of `place`, `read_back` and `cancel`; `request` is
the create on the wire; `broker` is the order at Wealthsimple. Each place where the code
waits for the broker is a place another thread may run, so a reading has three actions
(`StartRead`, `HearReading`, `RecordReading`), a create four (`Write`, `Send`, `Hear`,
`RecordAnswer`), and the world acts between any two. `aged` is the grace on "no such order":
for `Prompt` orders the time counts from the sending, and the create, given up after
fifteen seconds, has landed or not when the thirty are over; for a bracket's exits the
stamp is that of the check that places them, which may be long before. `Crash` drops every
thread and mark and keeps the book, the wire and the broker.

**BracketEngine.** `check` is whoever has the bracket's lock: the engine's check, step by
step, or the person. Between the steps of a check, `ReadBack`, `Sweep`, the market and the
broker go on. A check takes `ReadFirst` (what it waits on, read), then `Step` as often as
`Decide` has something to do, then the request: `PlaceSent`, `Hear`, `RecordPlaced`;
`CancelSent`, `CancelAnswered`; `ResizeSent`; or is held back (`PlaceHeld`, `CancelHeld`,
`Capped`). The person: `Adjust`, `CancelBracket`, and `MoveByHand` in the broker's own app.

**TicketSale.** `seller[s]` is the thread of one sale, going through its brackets one at a
time, each under its own lock: `Mark`, `Watch` (each second; `GiveUp` when the wait is
over), `Send`, `Hear`, `Settle`, then `Tell` or `Drop`, `Answer`. `selling` is the gate's
mark, which a restart loses. The engine's checks (`Step`) go on meanwhile on every bracket.

**OrderPromise.** For each order a stage (unplaced, at risk, settled, or dry), what the app was told
has filled, where it is at the broker, and what it traded. `OrderGate`'s `Promise` reads these off the
book, the wire and the broker; `KeepsPromise` says every step of the gate is a step or a stutter of it.

**SignIn.** `file` is `session.json`; `thread` says where each thread stands in a renewal: waiting for
the lock, posted, heard, telling the page. `Enter` takes the lock and reads the file again, which ends in the file's new
token taken over, the refusal of one refused before, or the post. Wealthsimple (`Answered`, `Lost`, `Refuse`,
`NotReached`) acts on the post apart from what the app hears. `RecordTokens`, `RecordRefusal` and
`RecordSilence` are the rest of the locked stretch; `Tell` is the one writer of "connected". `Disconnect` takes no lock.
The variables of `history` are not the program's: they say what a token was through, for the properties.

**Update.** `sup` and `child` say where the supervisor and its server stand. The install is `KeepPrevious`, `PutFile` per file,
`WritePending`, `Restart`; the new server is `Spawn`, `Hold`, `Open` per store (with its snapshot), `Listen`; the supervisor's side is
`Healthy` and `Cleared`, or `Reap`, `RestoreStores`, `RestoreFile` per file, `LeaveFailure`. `PowerLoss` may come between any two of them and
leaves `disk`.

**Figures and Pages.** A writer commits (`Commit`, which rings), has the engine catch up (`CatchUp`), counts what moved in the log (`Count`) and
rings (`Say`). The stream parks until it is rung, looks (`StepLook`), reads what moved since and the document (`StepRead`), and sends it whole, or a patch, or that the
page holds it (`Same`). The page takes messages in order (`Take`), by their numbers; says new filters (`Turn`); and connects again naming
what it holds (`Connect`). A patch carries the document it was made from: put on another it gives `Mixed`.

**LotMatch and FamilyMatch.** A match is a record of what the walk keeps: lots, round trips, units by day, contracts still to expire,
and at each point where every holding was flat a `Cut`. `Whole` sets rows up and walks them in order (`Trade`, `Expired`, `Arrive`, `Leave`), each in its `Turns`:
a stated close may go sooner, before a stated open at its instant. `Way` chooses as `continuable` does; `AddContinued`, `AddPlaced`, `AddFromCut` and `AddWhole` are the
four ways, `Revise` a change to what is there, `Turn` the next day.

Simplifications, each stated in its module too:

- Prices are whole numbers of steps; 0 is none. A trail is an amount; the half percent the
  level must move by is one step. Quantities are whole shares.
- The clock is facts: `aged`, that a wait of the rules is over (`waited`), that the broker
  will soon let an exit lapse (`lapses`). The cap of ten requests a minute is `Capped`, which
  may happen at any request it can happen at. `UnknownTries` is 2 for the code's 3.
- In `BracketEngine` a read-back is one step and a create has landed, or not, when sent;
  what late readings and creates on the wire do to an order is `OrderGate`'s subject. Orders
  switched off (`dry`) are only in `OrderGate`.
- In `TicketSale` a bracket's step is one with its request and the answer, its stop is
  fixed, it has no target, its entry has filled, the broker takes its exits, and the person
  does not cancel it. The sale's own checks each second are the same steps as the engine's.
- Left out of the rules: `Imported` and `Sold` (brackets of an earlier format), and
  `PositionRead`, whose outcome is the fact `closed` (FALSE in the runs).
- A person's change of legs and the check that follows it are one stretch under the lock
  (the code gives the lock up between them for a moment).
- In `SignIn` a token stands for all issued together, and a name nobody holds any more may be given to a new one. Whose login a
  capture is, is left out. The access token's expiry is a fact any read may find.
- In `Update` a build is a number, and also the schema its stores have; a store holds a number of rows; times are compared
  only with the marker's, so the clock counts the markers.
- In `Pages` there is one page with one document; what it says is its filters and how many changes it shows. A version is the document's
  own (the server's is a hash of it).
- In `LotMatch` a record is one row, money is left out (a slice names its rows and units, which its money follows from), a family is one security in some accounts and
  contracts on it. Units by day are compared by what they say of each day: a continued match may hold an entry that repeats the one before.

Next to some definitions there is a mutant, a definition with a plausible mistake made in it;
each property of each run is shown to fail when a definition is replaced by its mutant.

## 3. The runs

States are distinct states; the times are for two workers.

| run | instance | states | shows |
|---|---|---|---|
| `gate` | 1 order of 2 shares, 2 readers, 2 callers, 1 crash | 231 thousand | `TypeOK`, `BookNeverAhead`, `LetGoIsOver`, `LetGoIsExact`, `MovesNeverBack`, `KeepsPromise` |
| `gate_live` | 1 order, 1 reader, 1 caller, 2 crashes, late fills | 28 thousand | `Settles` |
| `bracket` | entry of 2 shares, stop and target, three prices, refusals of two classes in any role, the cap, exits the broker ends itself, lost cancels | 1.19 million, 2 min | `TypeOK`, `NeverOversold`, `QuantityKept`, `MovesAllowed` |
| `bracket_crash` | room for two exits, two crashes, lost reads, cancels and changes, a person's changes, exits moved by hand, refusals that wait for a change | 1.09 million, 2 min | `OneAtBroker`, `ComesToAnEnd`, `EndsAlone` |
| `bracket_live` | trailing stop and target, four prices, stops and targets refused, lost cancels, fair | 21 thousand | `ReachedStopSells`, `LegFollowed` |
| `sale` | two brackets of a share, one sale, lost answers, two crashes | 217 thousand | `TypeOK`, `NoneTwice`, `AllGuarded`, `NeverNeither` |
| `sign_in` | the loop, a read and the person's capture; four tokens, posts sent again, lost answers, a file that cannot be written or removed | 2.04 million, 2 min | `TypeOK`, `NeverPostedAgain`, `SavedWorks`, `LostIsSaid`, `WorkingNeverDeleted` |
| `sign_in_live` | the loop and a read; a disconnect, an end by Wealthsimple, a crash, lost answers, fair | 1 min | `Recovers` |
| `update` | three releases, two files, two stores, three starts, two presses, one row, one file that cannot be put, one power loss, fair | 57 thousand | `TypeOK`, `ReadsItsStores`, `KeptRows`, `WholeCopy`, `GoodStays`, `ComesBack` |
| `pages` | two changes by one writer, a log of one, two filters, one turn, one fault of three kinds, fair | 195 thousand | `TypeOK`, `ShowsItsOwn`, `CatchesUp` |
| `family` | 339 records of four to six rows over two accounts and three contracts, added one or two at a time in any order | 13 thousand | `TypeOK`, `SameAsWhole`, `CutsHold`, `StretchesAreFlat`, `UnitsAddUp` |
| `family_linked` | a linked move added after a cut | | `SameAsWhole` fails (6) |

Why the bounds are enough. *One order* in `gate`: orders of the gate share only threads, and a
thread is on one order at a time; what can go wrong needs two readings that cross, a cancel
and its refusal, and one crash (the theorems are for any number of all of them). *Two shares*: the
least that fill in part. *Exits*: room for two in `bracket_crash`, where `OneAtBroker` shows that the
second is kept back while the first may be out; room for one in `bracket`. *Prices*: under the stop, between the legs, at the
target, and, in `bracket_live`, just under the target where the limit does not yet give way; the rules
compare and do nothing else with prices. *Twelve steps* is the code's own bound, and `ComesToAnEnd`
shows a check has five to take at most from any reading. *Two brackets* for a sale: what the second finds after the
first has moved. *Four tokens*: one saved, one captured, one issued, one spent and still remembered. *Three
releases*: an update over an update. *A log of one* of `Logged` (the code keeps 256): with two changes a stream
falls behind it. *Records*: each family of them is built round one rule of the matcher (flat stretches, sales of more than is held,
contracts left to expire with and without the broker's row, rolls at one instant, moves between accounts), plus every record of four common rows; two rows at a time make
the ways that need several.

Each run leaves out what another has: in the bracket's, crashes and part fills are not checked together. `EndsAlone`
speaks of a process that was not stopped, `NoneTwice` and `AllGuarded` too, and `WholeCopy` of a machine that was not: what a
stop does to them is in section 6. Constants that are off in every passing run, because what they add is what section 6
says the code does not stand up to: `Disconnects` in `sign_in`, a second member of `Starters`, `EarlyPress`, `StaleUrl`, `Between`, `Hasty`, members of `Quiet`, `LateLinks`,
`AskedAgain`, `PartFills` over two brackets. They stay in the modules so that a change of the code can be tried.

Deadlock is checked in the bracket runs, where a step is always possible. The others stop: when every order is over, every
bound spent, every row added.

What the properties say is in the comment over each. The ones that carry most:

- `LetGoIsOver`: an order the book holds as over cannot still arrive, work or fill at the
  broker. The bracket places its next exit, and gives shares to a sale, on this.
- `KeepsPromise`: the gate, with its threads and messages, implements five lines a caller may rely on.
- `QuantityKept`: the bracket's shares are what its entry bought less what its exits sold,
  through every order of fills, ends, changes and growth.
- `MovesAllowed`: nothing `decide` asks for is refused by `apply`: the two halves of
  `bracket.rs` agree in every state the engine reaches.
- `ComesToAnEnd`: each step of a check leaves fewer to take; no decision undoes what one before it noted, and
  none is taken over and over.
- `NoneTwice`, `AllGuarded`, `NeverNeither`: a share is never offered twice; when all is quiet the
  brackets guard exactly what is left; a bracket left with nothing at the broker finds
  its way, by its next check alone, to an exit placed or an end.
- `SavedWorks`, `WorkingNeverDeleted`, `Recovers`: the sign-in saved is one Wealthsimple takes, no one but the person deletes one that
  works, and a page told it is not connected is told again.
- `LostIsSaid`: a refusal that follows a lost answer is said as the loss, by whichever thread hears it; the one thing that may be said in its
  place is that the refused sign-in's file could not be removed, and then the file is there.
- `ReadsItsStores`, `KeptRows`: files and stores go back together, over every place the machine may stop.
- `ShowsItsOwn`, `CatchesUp`: what the page says it holds is what it shows, and in the end it shows what the stores hold.
- `SameAsWhole`, `CutsHold`: whatever history of changes led there, the kept match is the whole match, and each cut kept can
  still be walked on from.

## 4. Fairness

Liveness is checked under `FairSpec` of `OrderGate` and `BracketEngine` and `LiveSpec` of `SignIn`, `Update` and
`Pages`, each with the least the code's scheduling gives.

- A call to the broker ends (it has a deadline), so a thread that waits comes back: weak
  fairness of each thread's next statement. A create lands or is lost.
- The read-back loop comes round to every order in flight and a check to every live bracket,
  again and again. That one of these readings is answered is strong fairness: reads may fail
  any number of times, not for ever.
- A cancel asked again and again is taken once (strong fairness of a cancel that arrives);
  one that is asked only once may be lost.
- The broker ends an order whose cancel it took, and fills a market sell, and a stop the price has
  come to, while it stays there.
- The engine looks at the market again and again (`SF Look(tape)`), and a wait of the rules is
  over at some check (`SF Step(TRUE)`).
- `SignIn`: each thread goes on (weak fairness of its statements), the lock is come by in the end (`SF Enter`: the mutex
  lets each waiter in), the loop comes round, and of the posts made again and again one is answered (`SF Answered`).
- `Update`: the supervisor and the opening of the server go on. Nothing else: the update may stay unpressed, the server may never end.
- `Pages`: a writer that has committed goes on, the stream's loop and the page's reconnect timer run, and what is on
  its way arrives. A message lost with none after it is not noticed; the numbering cannot tell it.

Nothing is assumed of the person, the price, the entry, a target that rests, or of faults coming to an end otherwise than
by their bound.

## 5. What is proved

By TLAPS, for every value of the constants that satisfies the module's assumption (`GateAssumption`, `RulesAssumption`,
`EngineAssumption`, `SaleAssumption`, `SignInAssumption`, `UpdateAssumption`, `FiguresAssumption`, `PagesAssumption`: types, what is a member of what, and that
`None` and the like are no one of the values they stand beside). TLC evaluates each in the runs of its module. A theorem's own hypotheses are in its
row, and none is there for the proof's sake: with the constant the other way TLC finds the property violated on the instance of section 3 (most of
these are what section 6 lists).

| module | theorem | property | where |
|---|---|---|---|
| `OrderGateProofs` | `Typing` | `TypeOK` | |
| | `NeverAhead` | `BookNeverAhead` | |
| | `LetGoSafe` | `LetGoIsOver` | |
| | `LetGoExact` | `LetGoIsExact` | no fill is reported after the end (`LateFills = FALSE`) |
| | `NeverMovesBack` | `MovesNeverBack` | |
| `OrderPromiseProofs` | `KeepsItsPromise` | `KeepsPromise`, the refinement | `LateFills = FALSE` |
| `BracketEngineProofs` | `Typing` | `TypeOK` | |
| | `OneOnly` | `OneAtBroker` | |
| | `OverAlone` | `EndsAlone` | |
| | `NothingOversold` | `NeverOversold` | while the process has not stopped (`NothingOversoldInOneRun`: where it never stops) |
| | `OnlyMoves` | `MovesAllowed` | |
| | `EndsOfItself` | `ComesToAnEnd` | |
| | `SharesAccounted` | `QuantityKept` | while the process has not stopped; changes and readings are answered (`LostChanges`, `LostReads` FALSE) |
| `TicketSaleProofs` | `Typing` | `TypeOK` | |
| | `PositionKept` | `NeverNeither` | |
| `TicketSharesProofs` | `NeverTwice` | `NoneTwice` | one sale, orders that fill whole (`OneSale`); while the process has not stopped |
| | `LeftGuarded` | `AllGuarded` | the same |
| `SignInProofs` | `Typing` | `TypeOK` | |
| | `NothingPostedAgain` | `NeverPostedAgain` | |
| | `SavedSafe` | `SavedWorks` | |
| | `WorkingSafe` | `WorkingNeverDeleted` | |
| | `LossSaid` | `LostIsSaid` | a lost answer is told as no answer (`Losses \subseteq {"unanswered"}`); where the file cannot be removed, that is what is said |
| `UpdateProofs` | `Typing` | `TypeOK` | |
| | `KnowsItsStores` | `ReadsItsStores` | one supervisor |
| | `OnlyTheBadGoBack` | `GoodStays` | one supervisor |
| | `RowsStay` | `KeptRows` | one supervisor, no press inside the last update's window (`EarlyPress = FALSE`) |
| | `StartsWhole` | `WholeCopy` | the same |
| `PagesProofs` | `Typing` | `TypeOK` | |
| | `HoldsWhatItShows` | `ShowsItsOwn` | `Hasty` and `StaleUrl` FALSE |

Where a run fixes a bound, the theorem does not: any number of orders, readers, callers, threads, tokens, exits, prices, files, stores,
builds, filters, commits, faults and stops.

**The gate.** Lemmas first say what one event does to a fold, with no variables in sight: it stays a fold
(`ApplyType`), never moves back (`ApplyNeverBack`), takes what filled only from the reading itself (`ApplyFilled`), and ends the order only
for one of four reasons (`ApplyEnds`): never sent, refused, the broker's word that it is over, or "no such order" while unanswered.
`LetGoIsOver` is not inductive: the word that ends an order was true when it was heard and is recorded later, so nothing in it keeps a
reader from recording an old one. The inductive invariant `IInv` adds what each word still means when it is recorded:

- `SentSoFar`: where the create is, by where its sender stands; an order is at the broker exactly when its create was taken; a refusal heard
  is of a create that was refused; and a prompt order older than the grace is no longer on the wire.
- `BookSound`: the book is not ahead of the broker, and a prompt order let go of is over.
- `HeardStands`: a reading under way that says the order is over is of an order that is over still; one that says "no such order", started
  past the grace, is of an order that is not at the broker and cannot come to be.

`InvInit`, one lemma per action (`SendKeeps`, `LandKeeps`, `RecordReadingKeeps`, ...) and `InvStep` give `Invariance`. The three actions that
record an event share `RecordKeeps`, which says what an event must satisfy for the invariant to hold after it.

**The promise.** `PInv` is `IInv` and that an order written dry is never on its way. Under it each action of the gate is, seen through the
mapping, one action of `OrderPromise` or a stutter: most steps move only a thread, and the ones that end an order in the book are where
`LetGoIsOver` and `LetGoIsExact` are used, since the promise lets go of an order only when all it traded is known.

**The bracket.** Lemmas about the rules say what each event makes of a bracket and give every decision one of a dozen shapes (`Shape`: it
arms, gives up, grows, clears an ended exit, adopts one, cancels, places, resizes, ...), proved by going once through `Decide`; each action
of the engine is then taken shape by shape. `OneAtBroker` needs that what a check has out is what it says (`CheckSound`, `PlaceFits`,
`ResizeFits`), that book and broker fit for each order (`OrderSound`), and `OneInFlight`: the gate refuses a second exit while one may be out. What
a restart breaks is only that the exit in flight is the one the bracket knows (`KnowsItsExit`), and with it the count of shares
(`SharesKept`): these two hold until a crash, and so `EndsAlone` and the two theorems on shares say so. `QuantityKept` is an equality where
`NeverOversold` is a bound, and needs `Exact`: what the bracket believes of its exit's quantity is the broker's, which a lost change or reading undoes.
`OnlyMoves` is apart: every event of every shape is a move, from the phase it is decided in. `EndsOfItself` counts what a check may have to note, five
things at most (`StepsLeft`: that it is over or back to guarding, the entry's fills, that the exit is over, what was done to the exit by hand, a new
high), and every shape that sends nothing notes one of them and brings back none (`FewerLeft`): a check with nothing read in between is over in five steps and its request.

**The sale.** What is summed first: a sum over a finite set is the community modules' `MapThenSumSet`, and the lemmas say that it is the
value at one member and the sum of the rest (`SumWithout`), grows with its terms (`SumLeq`), adds term by term (`SumPlus`), and does
not see members worth nothing (`SumOfPart`). The library proves none of these and its induction takes an operator, so they are had as a least
counterexample, over the sets on which a lemma would fail (`SmallestSet`). Then `StepShape`: a check of a bracket, through all of `Decide`, does
one of five things here (`Still`, `PlacedStep`, `CancelledStep`, `ClearedStep`, `EasedStep`), and each action is taken over these.

`PositionKept` needs neither `OneSale` nor a process that goes on. Its invariant, `Ready`, says of every bracket that nothing holds its next exit
back (`Free`: no refusal remembered, nothing closed off the broker), that an exit it has is an order that was written, its own one for all its shares; of its order,
that the book is not ahead of the broker, that the broker took a cancel only where one was asked, and that what the book holds as cancelled did not fill whole
(`OwnReady`); and of a sale, that it is written before any bracket is told of it. From any such stand, once the broker has been read, a check clears an
exit that is over, goes back to guarding, and places: three steps (`AskedOnce`, `OverStays`, `BareStep`), which is why `CheckFrom` takes three. A
stop of the process breaks none of it, as all of it is in the book or at the broker.

`NoneTwice` and `AllGuarded` are not inductive: the shares of one order are for sale in another's place for as long as the thread is between two brackets. The
invariant, `Sound`, has a part for each actor. `OrderOK`: an order the book holds as over is over, with what it filled. `BracketOK`: a
bracket's own order is for all its shares; it holds the sale only once told; and it waits for a sale only while the thread is still to visit it.
`TakeOK`: what the thread takes of a bracket the bracket has, and a bracket seen clear stays clear until told, the mark `selling` keeping the
checks from easing it back. `SumsOK`: what the thread takes sums to the sale; while the sale is open what the brackets give it sums to it too
(`AllGiven`); and what nobody has sold of each bracket sums to what was held less what was sold (`AllLeft`). `NoneTwice` follows bracket by
bracket, since a bracket whose own order is out gives the sale nothing (`WithinLeft`), and `AllGuarded` because at rest what nobody has sold is what
each bracket holds. `OneSale` and the stop are needed, as section 6 shows: with a second sale, with part fills, and after a stop,
TLC finds these properties violated.

**The sign-in.** `OneHolds`: one thread is between the lock's two ends. `ThreadSound`: what it read under the lock is still so, and the token
it was given lives. `FileSound`: the saved token works, or a thread that holds the lock has what replaces it. `SilenceKnown`: a post that went
unanswered is remembered or is about to be (what `LostIsSaid` needs: the one that hears the refusal then knows of the loss). The disconnect, which takes no lock, is why these speak of the file as it is and not as it was read.

**The update.** `KnowsItsStores` needs that the stores' schema is at most the build that would start next and, while an update may be taken
back, that the kept build can read each store or will once the copies since the marker are put back (`Covers`). That a pruned set of copies still
has the one that will be put back is `CopyKept`, from the least element of a set of numbers (`Least`, drawn from the library's facts on well-founded relations).
`RowsStay` adds that the copies hold every row written before the marker (`KInv`), and `StartsWhole` which files are of one build in each stand of
the supervisor (`WInv`), which says nothing once the power was lost: a stop between two files is the case the property excepts. One supervisor is
assumed of all but `Typing`, since a second one takes the first's marker for its own.

**The page.** `Typing` needs that every change counted is of a commit of its own (`Counted`). `ShowsItsOwn` says nothing of the messages on
their way, so its invariant does: each message goes on from the one before it, and the first from what the page shows unless one was lost (`Sequel`,
`Continues`); the page is behind them all (`Behind`: what documents say only grows, `SaidGrows`); and whoever says to the server that the page holds a version of the filters it
names is right by the time the answer arrives (`Asked`, `Named`, `Reaches`). The last is the hard part: "the page holds it" is said without sending anything, so it must be that the
stream has sent nothing since the page said so. `Hasty` and `StaleUrl` are the two ways that fails.

*Only model-checked.* Of safety: the matching (`FamilyMatch`; `LotMatch` is folds over rows). Induction over data is out of the prover's reach with an operator as its hypothesis; over
numbers and finite sets it can be had as a least counterexample (`Least`, `SmallestSet`), but not over what a fold of rows has built.
That a whole check stays under twelve steps holds only where fills and moves by hand are few, since each reading made beside it may give it one
more: what holds for every value of the constants is `ComesToAnEnd`. And all liveness, with its fairness: `Settles`, `ReachedStopSells`,
`LegFollowed`, `Recovers`, `ComesBack`, `CatchesUp`. `BracketRules` keeps its event operators one event at a time, and `AfterAll` for the at most
three events of a decision, so that it can be reasoned about.

## 6. Where the code and what is said of it disagree

With a run: **a linked move added after a cut is forgotten by it** (`family_linked`). A cut keeps the linked moves known when it
was taken (`Matcher::cut`, `ledger.rs:1452`), and `match_from_cut` (`ledger.rs:2856`) starts from those and sets up only the
rows added now. A pair continued after the cut is in neither. When a back-dated row later walks the family on from the cut, the move's
two rows are matched as unlinked: the lots are given up at one and opened anew at the other. The engine's own assertion
(`engine.rs:1558`): "the match of {family:?} as it stands keeps what a whole match keeps". The trace: a round trip, a buy, the move;
then a row between the trip and the buy.

Seen with the same modules, by changing a constant; no run is spent on them ("no refusals" is `RefusedRoles = {}`):

| what | how to see it |
|---|---|
| **Orders** | |
| An unheld exit whose cancel was lost reads cancelling and is not asked again (`brackets.rs:399`), though `SPEC.md:889` has every check cancel it | `BracketLive.cfg` with `Exits = {1, 2}`, `MaxCrashes = 1`, `Stops <- OneStop`, `Targets <- NoTargets`, `Tapes <- TwoTapes`, no refusals: `NothingLeftBehind` |
| The entry may go on buying behind a stop that sold: only live brackets are checked, so a refused cancel of the entry is not asked again (`bracket.rs:792`); `SPEC.md:869` has it cancelled | `BracketLive.cfg` with `Quantity = 2`, `Stops <- OneStop`, `Targets <- NoTargets`, `Tapes <- TwoTapes`, no refusals: `StoppedBuysNoMore` |
| A sale that ended filled in part is counted for each of two brackets (`brackets.rs:82-84`, "what it filled is theirs in turn") | `Sale.cfg` with `PartFills = TRUE`: `AllGuarded` |
| A sale asked again after a restart skips the brackets told of the first, and goes out beside their stops (`ticket.rs:1091`, against the comment at 1108); stopped between the sale's create and `SaleSent`, the next check puts the stop back beside it | `Sale.cfg`, `NoneTwice` without `Uninterrupted`, with `AskedAgain = TRUE` or without |
| Two sales at once: the second skips the brackets the first has marked and goes out while stops rest (`ticket.rs:1091`) | `Sale.cfg` with `Sales = {3, 4}`: `NoneTwice` |
| What each bracket gives is read before any is told (`ticket.rs:1109`): with an earlier sale's fill counted in between, a second sale takes more than the bracket has left, and goes out beside another's stop | `Sale.cfg` with `Sales = {3, 4}`, `Part = 2`, `Tapes = {}`, `LostAnswers = FALSE`, `MaxCrashes = 0`, at most one seller not idle: `NoneTwice` |
| The exit fills in part while its cancel is on its way, and the sale goes out for the shares as they were | `Sale.cfg` with `Brackets = {1}`, `Part = 2`, `PartFills = TRUE`: `NoneTwice` |
| A sale with no answer, read back as cancelled after a part fill, is dropped (`ticket.rs:1190`): the bracket guards shares it sold | `Sale.cfg` with `PartFills = TRUE`: `NoneTwice` |
| A change of quantity that went unanswered and unmade is recorded as made (`brackets.rs:266`); the old quantity then looks like a change by hand | `Bracket.cfg` with `LostChanges = TRUE`, `Tapes <- TwoTapes`, `Targets <- NoTargets`, `Refusals = {}`: `QuantityKept` |
| Stopped between an exit's answer and its place in the bracket's log, the exit may fill unheld and another be placed (`brackets.rs:246`) | `BracketCrash.cfg`: `NeverOversold` |
| The target removed after the stop's cancel was refused: the stop is then neither moved nor replaced (`bracket.rs:896`) | `BracketLive.cfg` with `Stops <- TwoStops`, `Tapes <- UpAndCalm`, `MayAdjust = TRUE`, no refusals: `LegFollowed` |
| The target removed while its limit rests and the limit's cancel lost: never asked again, and the stop level is not watched (`bracket.rs:895`) | `BracketLive.cfg` with `Stops <- OneStop`, `Tapes <- ThreeTapes`, `MayAdjust = TRUE`, no refusals: `ReachedStopSells` |
| A bracket's exit is stamped before its check's reads, so its grace may be over before it is sent: failed in the book, working at the broker (`gate.rs:174`) | `OrderGate.cfg` with `Prompt = {}`: `FailedNeverWorks` |
| A cancel that was taken, heard as refused, and then read as cancelled is told as the broker's own (`readback.rs:161`) | `OrderGate.cfg`: `OwnCancelUntold` |
| **Sign-in** | |
| The disconnect takes no lock: a renewal under way saves its tokens after it (`server/src/session.rs:272`), though `SPEC.md:401` has it delete the sign-in | `SignIn.cfg` with `Disconnects = 1`: `DisconnectDeletes` |
| "Connected" can outlast the sign-in: a renewal that began before the disconnect, or before Wealthsimple ended it, tells the page last (`server/src/session.rs:42`) | `SignIn.cfg` with `Disconnects = 1` or `Ends = 1`: `ConnectedHasLogin` |
| A post that left on a kept connection is sent again (`net/src/client.rs:935`): a token Wealthsimple took is posted twice and its refusal is what is heard, said as a refusal at first sight | in the trace of any `Lost` with `Resends = TRUE`; `SavedWorks` excuses it |
| An answer that fails after Wealthsimple took the token (a reply that cannot be read) is not remembered as unanswered (`wealthsimple/src/session.rs:193`) | `SignIn.cfg` with `Losses = {"failed"}`: `LostIsSaid` |
| Where the refused sign-in's file cannot be removed, that is said in place of the loss (`wealthsimple/src/session.rs:154`), which line 206 has already forgotten: the next try says the sign-in was refused (178), and that an answer was lost is said by none, against the comment at 57-59 | `SignIn.cfg` with `Faults = 1`: `NeverAtFirstSight` (with `Faults = 0` it holds) |
| **Update** | |
| A second start is refused by the first's hold of the home and ends with a failure; its supervisor, finding the first's marker, takes that for the update's (`main.rs:184`, `update.rs:1083`) | `Update.cfg` with `Starters = {s1, s2}`: `GoodStays` |
| An update pressed while the last one's kept files are being cleared loses its own (`update.rs:1071`, `1014`) | `Update.cfg` with `EarlyPress = TRUE`: `WholeCopy` |
| The machine stopped between the files and the marker leaves the new version unmarked (`update.rs:688-697`), and stopped after the marker is removed and before stores and files are back, the failed one (`update.rs:1086`) | `Update.cfg`, with `WholeCopy` and `ComesBack` without their conditions on `losses` |
| **Pages** | |
| The browser opens an ended stream again by itself, naming the filters it first named (`live.svelte.ts:390`): the page is sent the old ones' | `Pages.cfg` with `StaleUrl = TRUE`, `FaultKinds <- EndsOnly`: `CatchesUp` |
| A change counted between the stream's reading of what moved and of the version (`events.rs:511-512`) is passed over | `Pages.cfg` with `Between = TRUE`: `CatchesUp` |
| The filters changed, and changed back, while an answer is on its way: a patch meets another document | `Pages.cfg` with `Hasty = TRUE`, `Turns = 2`: `ShowsItsOwn` |
| The stream opened again by the browser names also the version first held (`live.svelte.ts:410`): with the filters changed and changed back before an answer, the server says the page holds it, and the page takes the version for another document's | `Pages.cfg` with `StaleUrl = TRUE`, `Turns = 2`, `FaultKinds <- EndsOnly`: `ShowsItsOwn` |
| A pull whose end says nothing leaves its last change unrung (`figures.rs:766-771`) | `Pages.cfg` with `Quiet = {pull}`: `CatchesUp` |

## 7. What is left out

*Of the orders:* a person's change of a working entry, brackets asleep between sessions, a position closed elsewhere,
market hours, the order feed of the broker's own app, notices' wording, the earlier format's rows. A stop of the process between
the events of one decision, which the code records one by one (`brackets.rs:208`) and the model together.

*Of the sign-in:* whose login a capture is, the window it is made in, the spacing of requests and a host's rest, a file that cannot
be read and a lock that cannot be taken.

*Of the update:* reading the list of releases, downloading and checking one, a source checkout (git), which is put back by commit. The
stores go back in one step (the code takes them in turn), a put-back that fails itself is not modelled (`update.rs:728-738`, `801-803`, `830-833`), and the marker is
written whole or not at all (`697`, `749`: the code's write may fail, or be cut short).

*Of the page:* documents that are not figures, a view whose reading failed, more than one page at once (each has a stream of its own), the
wake of the scheduler (`due.rs:84-107`), by which the figures catch up with no page open. A watch request that is lost is not said again by the page
until its filters change, and the model takes it to arrive.

*Of the matching:* units the broker's positions state were held before a row, money, fees and cost, dust and rounding of coins, assignments and exercises, corporate events and deliveries, records of several legs,
several families and how rows make two one, scopes. Of expiry: contracts that a move brings to an account (`ledger.rs:1214`), and a row that closes short
contracts (`1591`). Of a stretch that is not flat: units that wait and stated closes that disagree (`2977`, `2980`), so that a row is placed in the
model where the code would walk from a cut; that is checked against a whole match too.

*Of the rest*, everything section 1 lists that section 2 has no module for. Most of the repository by size is data and
presentation: parsers of outside pages, shapes of documents, market data, tables of HTML entities, the page's panels, tests. These have no protocol of their own and
are not modelled; the map of definitions to lines covers the parts above and so a small share of the whole. Agents' access and the limiter have a protocol, and are not modelled
yet. `PROJECT.json` lists every component with its status.

## 8. The plan

Done, in this order: `OrderFold`, `OrderGate` and its proofs; `BracketRules`, `BracketEngine`; `TicketSale`; `OrderPromise`; `SignIn`;
`Update`; `Figures` and `Pages`; `LotMatch` and `FamilyMatch`.

Proofs done: the gate and its promise; the bracket engine and the rules; the sign-in; the update; the page's stream; the sale. Next, in order:

1. `FamilyMatch`: that `Way` chooses a continuation only where `LotMatch` may go on from what is kept; what the folds compute stays with TLC.

Models, if more is wanted: agents' grants and codes; the limiter's turns; a bracket asleep and one closed elsewhere; a change of a working entry racing its fill.
